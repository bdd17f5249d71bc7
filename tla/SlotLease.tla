----------------------------- MODULE SlotLease -----------------------------
(***************************************************************************)
(* What the lease queue promises one (monitor, region) slot: work for the  *)
(* slot is either absent, waiting or leased to one holder; it is leased at *)
(* most MaxAttempts times before the slot is freed; and it changes hands   *)
(* only after the previous lease ended.                                    *)
(***************************************************************************)
EXTENDS Integers

CONSTANTS MaxAttempts, Holder, Nobody

VARIABLES state, tries, holder

slotVars == <<state, tries, holder>>

Init == state = "empty" /\ tries = 0 /\ holder = Nobody

Open ==
  /\ state = "empty"
  /\ state' = "waiting" /\ tries' = 0 /\ holder' = Nobody

Lease ==
  /\ state = "waiting"
  /\ tries < MaxAttempts
  /\ state' = "leased" /\ tries' = tries + 1 /\ holder' \in Holder

Expire ==
  /\ state = "leased"
  /\ state' = "waiting" /\ UNCHANGED <<tries, holder>>

Free ==
  /\ state # "empty"
  /\ state' = "empty" /\ tries' = 0 /\ holder' = Nobody

Next == Open \/ Lease \/ Expire \/ Free

Spec == Init /\ [][Next]_slotVars
=============================================================================

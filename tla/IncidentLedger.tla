--------------------------- MODULE IncidentLedger ---------------------------
(***************************************************************************)
(* What the incident log promises the reader of a status page: the status  *)
(* of a monitor and its log agree at all times.  Going down opens one      *)
(* incident, coming back resolves it, nothing else opens or resolves one.  *)
(***************************************************************************)
EXTENDS Integers

VARIABLES status,   \* "unknown", "up", "down"; "deleted" once the monitor is
          open      \* number of incidents without resolved_at

ledgerVars == <<status, open>>

Init == status = "unknown" /\ open = 0

GoDown ==
  /\ status \in {"unknown", "up"}
  /\ status' = "down" /\ open' = 1

GoUp ==
  /\ status \in {"unknown", "down"}
  /\ status' = "up" /\ open' = 0

Delete == status # "deleted" /\ status' = "deleted" /\ open' = 0

Next == GoDown \/ GoUp \/ Delete

Spec == Init /\ [][Next]_ledgerVars
=============================================================================

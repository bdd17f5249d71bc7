------------------------------- MODULE Limits -------------------------------
(***************************************************************************)
(* The counters in Redis that bound what visitors and API users may set    *)
(* off: the public tools (allowed, site_allowed of app/api/routes/tools.py)*)
(* and on-demand checks (check_now of app/api/routes/monitors.py).  A      *)
(* counter is made by INCR and gets its time to live by a second command.  *)
(*                                                                         *)
(* One visitor and one monitor, of one service: the services share no key  *)
(* and no semaphore, so a behaviour is about one of them.  Every failure   *)
(* on the way refuses.  What runs after admission has its own module.      *)
(***************************************************************************)
EXTENDS Naturals, Sequences, FiniteSets

CONSTANTS
  Request,   \* requests that may be under way at once
  Limit,     \* [counter -> how many its window admits]
  Weight,    \* what a tool's run may take of the global budget: 1, or its sites
  Slots      \* CHECK_NOW_CONCURRENCY; also the tools' semaphore

LimitsAssumption ==
  /\ {"minute", "hour", "global", "gap", "user"} \subseteq DOMAIN Limit
  /\ \A k \in DOMAIN Limit : Limit[k] \in Nat
  /\ Weight \subseteq Nat \ {0}
  /\ Slots \in Nat \ {0}

Counter == DOMAIN Limit

VARIABLES
  service,   \* "tool" or "check_now"; never changes
  counter,   \* the keys in Redis; n = 0: there is no such key
  request,
  torn       \* history: counters whose INCR was not followed by its EXPIRE

vars == <<service, counter, request, torn>>

\* The counters of a request, in the order they are tried.
Path ==
  CASE service = "tool"      -> <<"minute", "hour", "global">>
    [] service = "check_now" -> <<"gap", "user">>

Idle == [pc |-> "idle", i |-> 1, w |-> 1]

None == [n |-> 0, ttl |-> FALSE]

Key(r) == Path[request[r].i]

\* What the request adds to the counter it is at.
Amount(r) == IF Key(r) = "global" THEN request[r].w ELSE 1

\* The service's semaphore is not taken.
SlotFree == Cardinality({r \in Request : request[r].pc = "running"}) < Slots

\* check_now turns away at once when its semaphore is locked; a tool lets it wait.
Begin(r) ==
  /\ request[r].pc = "idle"
  /\ service = "check_now" => SlotFree
  /\ \E w \in IF service = "tool" THEN Weight ELSE {1} :
       request' = [request EXCEPT ![r] = [pc |-> "hit", i |-> 1, w |-> w]]
  /\ UNCHANGED <<service, counter, torn>>

\* What follows a command that leaves n in the counter: refused, on to the next
\* counter, or admitted and waiting for a slot.
Proceed(r, n) ==
  request' = [request EXCEPT ![r] =
    IF n > Limit[Key(r)] THEN Idle
    ELSE IF @.i = Len(Path) THEN [@ EXCEPT !.pc = "admitted"]
    ELSE [request[r] EXCEPT !.pc = "hit", !.i = @ + 1]]

\* SET NX EX of the gap between two checks of a monitor: one command.
HitGap(r) ==
  /\ request[r].pc = "hit" /\ Key(r) = "gap"
  /\ counter' = [counter EXCEPT !["gap"] = [n |-> 1, ttl |-> TRUE]]
  /\ request' = [request EXCEPT ![r] =
       IF counter["gap"].n = 0 THEN [request[r] EXCEPT !.i = @ + 1] ELSE Idle]
  /\ UNCHANGED <<service, torn>>

\* Bug: the time to live is set by the request that exceeds the limit.
Hit_ExpireLate(r) ==
  LET k == Key(r)
      n == IF counter[k].n > Limit[k] THEN counter[k].n ELSE counter[k].n + Amount(r)
  IN  /\ request[r].pc = "hit" /\ k # "gap"
      /\ counter' = [counter EXCEPT ![k].n = n]
      /\ IF n = Limit[k] THEN request' = [request EXCEPT ![r].pc = "expire"]
         ELSE Proceed(r, n)
      /\ UNCHANGED <<service, torn>>

\* INCR, INCRBY; the one that made the counter, and so reads back what it added, goes
\* on to EXPIRE.  Bound: a counter beyond its limit counts no further, every request is
\* refused from there on.
Hit(r) ==
  LET k == Key(r)
      n == IF counter[k].n > Limit[k] THEN counter[k].n ELSE counter[k].n + Amount(r)
  IN  /\ request[r].pc = "hit" /\ k # "gap"
      /\ counter' = [counter EXCEPT ![k].n = n]
      /\ IF counter[k].n = 0 THEN request' = [request EXCEPT ![r].pc = "expire"]
         ELSE Proceed(r, n)
      /\ UNCHANGED <<service, torn>>

\* EXPIRE, by the request that made the counter; it goes by its own INCR.
Expire(r) ==
  /\ request[r].pc = "expire"
  /\ counter' = [counter EXCEPT ![Key(r)].ttl = TRUE]
  /\ Proceed(r, Amount(r))
  /\ UNCHANGED <<service, torn>>

\* An exception, a time-out of 0.5 s or a crash: nothing is run (fail closed).
\* The counter whose EXPIRE it was has no time to live.
Fail(r) ==
  /\ request[r].pc \in {"hit", "expire", "admitted"}
  /\ torn' = IF request[r].pc = "expire" THEN torn \cup {Key(r)} ELSE torn
  /\ request' = [request EXCEPT ![r] = Idle]
  /\ UNCHANGED <<service, counter>>

\* The semaphore is taken: the probe, the checks of the run.
Start(r) ==
  /\ request[r].pc = "admitted" /\ SlotFree
  /\ request' = [request EXCEPT ![r].pc = "running"]
  /\ UNCHANGED <<service, counter, torn>>

Finish(r) ==
  /\ request[r].pc = "running"
  /\ request' = [request EXCEPT ![r] = Idle]
  /\ UNCHANGED <<service, counter, torn>>

\* Redis drops a key whose time to live has run out.
WindowEnds(k) ==
  /\ counter[k].ttl
  /\ counter' = [counter EXCEPT ![k] = None]
  /\ UNCHANGED <<service, request, torn>>

Init ==
  /\ service \in {"tool", "check_now"}
  /\ counter = [k \in Counter |-> None]
  /\ request = [r \in Request |-> Idle]
  /\ torn = {}

RequestStep(r) ==
  \/ Begin(r) \/ HitGap(r) \/ Hit(r) \/ Expire(r) \/ Fail(r) \/ Start(r) \/ Finish(r)

Next ==
  \/ \E r \in Request : RequestStep(r)
  \/ \E k \in Counter : WindowEnds(k)

Spec == Init /\ [][Next]_vars

\* Time passes, and no request stays between two commands.
Fairness ==
  /\ \A k \in Counter : WF_vars(WindowEnds(k))
  /\ \A r \in Request : WF_vars(HitGap(r) \/ Hit(r) \/ Expire(r) \/ Fail(r))

-----------------------------------------------------------------------------

\* Every variable keeps its type.
TypeOK ==
  /\ service \in {"tool", "check_now"}
  /\ \A k \in Counter : counter[k].n \in Nat /\ counter[k].ttl \in BOOLEAN
  /\ \A r \in Request : request[r].pc \in {"idle", "hit", "expire", "admitted", "running"}
  /\ torn \subseteq Counter

\* Who is refused is let in again when the window has passed ("per visitor 10/min and
\* 60/hour"), but for a counter whose EXPIRE was lost after its INCR: a window opened
\* by one of several requests at once ends for all of them.
UntornWindowsEnd == \A k \in Counter : []<>(counter[k].n <= Limit[k] \/ k \in torn)
=============================================================================

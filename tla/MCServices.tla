----------------------------- MODULE MCServices -----------------------------
(***************************************************************************)
(* Small instances of five parts of the system that share no state, for    *)
(* one run of TLC.  In a behaviour one part runs and the others rest in an *)
(* initial state: the states reached are those of the parts side by side,  *)
(* not their product.  What a part must do eventually is stated under its  *)
(* own fairness.                                                           *)
(***************************************************************************)
EXTENDS Naturals, FiniteSets

CONSTANTS
  Cell, Visitor,                         \* SiteCheck
  Typed, Opener,                         \* Access
  Request, Limit, Weight, Slots,         \* Limits
  User, Task, Nobody, Refused, MaxFaults, \* Reminders
  Monitor, Region, Worker, RegionOf, RowId, MaxAttempts, JobLimit, NoWorker, NoRow, \* PendingChecks
  r1

VARIABLES
  part,
  run, monitors, checks, age, loading, reported,             \* SiteCheck
  address, account, session, mails, form, opener, used,      \* Access
  service, counter, request, torn,                           \* Limits
  stage, marked, reminders, holder, task, faults, excused,   \* Reminders
  scheduling, active, due, scheduled, rows, row, phase, claimed, batch, posting, saved \* PendingChecks

S == INSTANCE SiteCheck
A == INSTANCE Access
L == INSTANCE Limits
R == INSTANCE Reminders
Q == INSTANCE PendingChecks WITH monitors <- scheduling, Limit <- JobLimit

siteVars      == <<run, monitors, checks, age, loading, reported>>
accessVars    == <<address, account, session, mails, form, opener, used>>
limitsVars    == <<service, counter, request, torn>>
remindersVars == <<stage, marked, reminders, holder, task, faults, excused>>
queueVars     == <<scheduling, active, due, scheduled, rows, row, phase, claimed, batch,
                   posting, saved>>

ASSUME ServicesAssumption ==
  /\ S!SiteCheckAssumption /\ A!AccessAssumption
  /\ L!LimitsAssumption /\ R!RemindersAssumption

\* One request a window; no gap between two check-nows is needed.
OnePerWindow == [k \in {"minute", "hour", "global", "gap", "user"} |-> IF k = "gap" THEN 0 ELSE 1]

\* All workers are of one region.
OneRegion == [w \in Worker |-> r1]

Init ==
  /\ part \in {"site check", "access", "limits", "reminders", "queue"}
  /\ S!Init /\ A!Init /\ L!Init /\ R!Init /\ Q!Init
  /\ part # "access" => address = "lower"
  /\ part # "limits" => service = "tool"
  /\ part # "reminders" => stage = [u \in User |-> "trial"]

Next ==
  \/ /\ part = "site check" /\ S!Next
     /\ UNCHANGED <<part, accessVars, limitsVars, remindersVars, queueVars>>
  \/ /\ part = "access" /\ A!Next
     /\ UNCHANGED <<part, siteVars, limitsVars, remindersVars, queueVars>>
  \/ /\ part = "limits" /\ L!Next
     /\ UNCHANGED <<part, siteVars, accessVars, remindersVars, queueVars>>
  \/ /\ part = "reminders" /\ R!Next
     /\ UNCHANGED <<part, siteVars, accessVars, limitsVars, queueVars>>
  \/ /\ part = "queue" /\ Q!Next
     /\ UNCHANGED <<part, siteVars, accessVars, limitsVars, remindersVars>>

Spec ==
  Init /\ [][Next]_<<part, siteVars, accessVars, limitsVars, remindersVars, queueVars>>

-----------------------------------------------------------------------------

\* Every variable of the parts keeps its type.
TypeOK == S!TypeOK /\ A!TypeOK /\ L!TypeOK /\ R!TypeOK

\* Nothing is shown that no worker reported, and what is missing from a final result
\* was waited for.
ResultsAreReported == S!ResultsAreReported

\* Overlapping loads do not undo each other while a run is within its time.
DoneInTime == S!DoneInTime

\* The throwaway monitors of a run go, if the reaper runs.
MonitorsGo == part = "site check" => (S!SweepFairness => S!MonitorsGo)

\* A link that was mailed works once.
UsedLinkIsDead == A!UsedLinkIsDead

\* An owner whose address is in lower case signs in again and again.
OwnerGetsIn == part = "access" => (A!OwnerFairness => A!OwnerGetsIn)

\* A counter at its limit is let go of, unless it lost its time to live.
UntornWindowsEnd == part = "limits" => (L!Fairness => L!UntornWindowsEnd)

\* One reminder an account, but for crashes and overlapping tasks.
RemindedOnce == R!RemindedOnce

\* Each account that stays on its trial is reminded.
EachReminded == part = "reminders" => (R!Fairness => R!EachReminded)

\* Work queued for a slot leaves it, while its region is scheduled.
SlotFreed == part = "queue" => (Q!BackendFairness /\ Q!WorkerFairness => Q!SlotFreed)

\* An active monitor is checked from a scheduled region again and again.
CheckedForEver == part = "queue" => (Q!BackendFairness /\ Q!WorkerFairness => Q!CheckedForEver)
=============================================================================

----------------------------- MODULE SiteCheck -----------------------------
(***************************************************************************)
(* One run of the public site check (app/services/site_check.py): its      *)
(* record in Redis, its throwaway monitors and their checks in the         *)
(* database, and the visitors who poll the link.  load() is split where it *)
(* awaits: several loads of one run overlap.                               *)
(*                                                                         *)
(* The lease queue that hands the checks out is PendingChecks; here a      *)
(* worker posts a result as long as the monitors exist.                    *)
(***************************************************************************)
EXTENDS Naturals, FiniteSets

CONSTANTS
  Cell,      \* a site in a region
  Visitor    \* requests for the results that may be under way at once

SiteCheckAssumption == Cell # {} /\ IsFiniteSet(Cell)

Result == {"none", "up", "down"}

VARIABLES
  run,       \* the record in Redis
  monitors,  \* the throwaway monitors exist
  checks,    \* latest check of each cell, while they do
  age,       \* of the run, against WAIT_SECONDS and SWEEP_AFTER
  loading,   \* each visitor's load()
  reported   \* history: the cells some worker reported on

vars == <<run, monitors, checks, age, loading, reported>>

Run == [stored : BOOLEAN, done : BOOLEAN, results : [Cell -> Result]]

NoResults == [c \in Cell |-> "none"]

Idle == [pc |-> "idle", results |-> NoResults]

Load == [pc : {"idle", "read", "loaded", "deleting"}, results : [Cell -> Result]]

Waited == age \in {"waited", "old"}

-----------------------------------------------------------------------------

\* start_run commits the monitors and their pending checks, then stores the
\* record.  A crash in between leaves monitors without a run.
StoreRun ==
  /\ ~run.stored /\ age = "new"
  /\ run' = [run EXCEPT !.stored = TRUE]
  /\ UNCHANGED <<monitors, checks, age, loading, reported>>

\* A worker posts a result; one for a deleted monitor is dropped.  A check
\* whose lease expired may be reported again.
PostResult(c, result) ==
  /\ monitors
  /\ checks' = [checks EXCEPT ![c] = result]
  /\ reported' = reported \cup {<<c, result>>}
  /\ UNCHANGED <<run, monitors, age, loading>>

TimePasses ==
  /\ age' = CASE age = "new" -> "waited" [] age = "waited" -> "old" [] OTHER -> age
  /\ age # "old"
  /\ UNCHANGED <<run, monitors, checks, loading, reported>>

\* The visitor's page asks for the results: a run that is done is shown.
ReadRun(v) ==
  /\ loading[v].pc = "idle" /\ run.stored
  /\ ~run.done
  /\ loading' = [loading EXCEPT ![v] = [Idle EXCEPT !.pc = "read"]]
  /\ UNCHANGED <<run, monitors, checks, age, reported>>

\* Bug: only the cells that have an answer are entered.
ReadChecks_Sparse(v) ==
  /\ loading[v].pc = "read"
  /\ loading' = [loading EXCEPT ![v].pc = "loaded",
       ![v].results = [c \in {d \in Cell : checks[d] # "none"} |-> checks[c]]]
  /\ UNCHANGED <<run, monitors, checks, age, reported>>

ReadChecks(v) ==
  /\ loading[v].pc = "read"
  /\ loading' = [loading EXCEPT ![v].pc = "loaded", ![v].results = checks]
  /\ UNCHANGED <<run, monitors, checks, age, reported>>

Complete(results) == \A c \in Cell : results[c] # "none"

\* Bug: a run ends once any result is in.
Finished_Early(v) == Waited \/ \E c \in Cell : loading[v].results[c] # "none"

\* The clock is read after the checks were.
Finished(v) == Waited \/ Complete(loading[v].results)

\* Not finished: the page polls again.
KeepWaiting(v) ==
  /\ loading[v].pc = "loaded"
  /\ ~Finished(v)
  /\ loading' = [loading EXCEPT ![v] = Idle]
  /\ UNCHANGED <<run, monitors, checks, age, reported>>

\* Bug: the whole row of the table is stored for a site with one answer.
StoreResults_Filled(v) ==
  /\ loading[v].pc = "loaded" /\ Finished(v)
  /\ run' = [run EXCEPT !.done = TRUE,
                        !.results = [c \in Cell |-> IF loading[v].results[c] = "none" THEN "down"
                                                    ELSE loading[v].results[c]]]
  /\ loading' = [loading EXCEPT ![v].pc = "deleting"]
  /\ UNCHANGED <<monitors, checks, age, reported>>

StoreResults(v) ==
  /\ loading[v].pc = "loaded" /\ Finished(v)
  /\ run' = [run EXCEPT !.done = TRUE, !.results = loading[v].results]
  /\ loading' = [loading EXCEPT ![v].pc = "deleting"]
  /\ UNCHANGED <<monitors, checks, age, reported>>

\* Checks and pending checks go with the monitors.
Drop ==
  /\ monitors' = FALSE
  /\ checks' = NoResults

DeleteMonitors(v) ==
  /\ loading[v].pc = "deleting"
  /\ Drop
  /\ loading' = [loading EXCEPT ![v] = Idle]
  /\ UNCHANGED <<run, age, reported>>

\* An error, a crash or a visitor who goes away.
AbortLoad(v) ==
  /\ loading[v].pc # "idle"
  /\ loading' = [loading EXCEPT ![v] = Idle]
  /\ UNCHANGED <<run, monitors, checks, age, reported>>

\* Bug: only runs that never finished are swept.
Sweep_Undone ==
  /\ monitors /\ age = "old" /\ ~run.done
  /\ Drop
  /\ UNCHANGED <<run, age, loading, reported>>

\* sweep() of the next run, and reap_dead_pending_checks.
Sweep ==
  /\ monitors /\ age = "old"
  /\ Drop
  /\ UNCHANGED <<run, age, loading, reported>>

-----------------------------------------------------------------------------

Init ==
  /\ run = [stored |-> FALSE, done |-> FALSE, results |-> NoResults]
  /\ monitors = TRUE
  /\ checks = NoResults
  /\ age = "new"
  /\ loading = [v \in Visitor |-> Idle]
  /\ reported = {}

LoadStep(v) ==
  ReadRun(v) \/ ReadChecks(v) \/ KeepWaiting(v) \/ StoreResults(v) \/ DeleteMonitors(v)

Next ==
  \/ StoreRun \/ TimePasses \/ Sweep
  \/ \E c \in Cell, result \in Result \ {"none"} : PostResult(c, result)
  \/ \E v \in Visitor : LoadStep(v) \/ AbortLoad(v)

Spec == Init /\ [][Next]_vars

-----------------------------------------------------------------------------

\* Every variable keeps its type.
TypeOK ==
  /\ run \in Run
  /\ monitors \in BOOLEAN
  /\ checks \in [Cell -> Result]
  /\ age \in {"new", "waited", "old"}
  /\ loading \in [Visitor -> Load]
  /\ reported \subseteq Cell \X (Result \ {"none"})

\* Nothing is shown that no worker reported, and what is missing from a result
\* that is final was waited for.
ResultsAreReported ==
  /\ \A c \in Cell : run.results[c] = "none" \/ <<c, run.results[c]>> \in reported
  /\ run.done => Waited \/ Complete(run.results)

\* Overlapping loads do not undo each other while a run is within its time:
\* what is done then is complete, and stays complete.
DoneInTime == [][run.done /\ ~Waited => run'.done /\ Complete(run'.results)]_vars

\* The reaper runs every minute, and time passes.
SweepFairness == WF_vars(Sweep) /\ WF_vars(TimePasses)

\* The throwaway monitors do not stay, whoever looks at the run.
MonitorsGo == <>[]~monitors
=============================================================================

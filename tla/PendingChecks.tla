--------------------------- MODULE PendingChecks ---------------------------
(***************************************************************************)
(* The lease queue between the scheduler and the regional check workers:   *)
(* the pending_checks table, the Celery tasks that fill, reap and clean it *)
(* (app/workers/tasks.py), the /internal/jobs and /internal/results        *)
(* handlers (app/api/routes/internal.py) and the loop of the standalone    *)
(* worker (worker/run.py).                                                 *)
(*                                                                         *)
(* There is no clock.  "now" enters every guard of the code through a      *)
(* comparison with a stored time, so each stored time is replaced by the   *)
(* outcome of its comparison (`due', the row's `lease' and `stale'), and the *)
(* passing of time by the actions that flip it.  Timeouts of different     *)
(* rows may then elapse in any order, which includes every real one.       *)
(*                                                                         *)
(* Each action is one database transaction or one step of a worker.  Ids   *)
(* are uuid4 values: an id nothing mentions any more may be drawn again,   *)
(* so a finite RowId supports behaviours of any length.                    *)
(***************************************************************************)
EXTENDS Integers, FiniteSets

CONSTANTS
  Monitor,      \* monitor ids
  Region,       \* region codes
  Worker,       \* worker processes, each with its own --worker-id
  RegionOf,     \* the --region of each worker
  RowId,        \* ids of pending_checks rows
  MaxAttempts,  \* MAX_ATTEMPTS
  Limit,        \* the `limit' of GET /internal/jobs
  NoWorker,     \* worker_id IS NULL
  NoRow         \* the columns of an id nothing mentions

ASSUME ConstantsAssumption ==
  /\ IsFiniteSet(Worker)
  /\ RegionOf \in [Worker -> Region]
  /\ MaxAttempts \in Nat \ {0}
  /\ Limit \in Nat \ {0}
  /\ NoWorker \notin Worker

VARIABLES
  monitors,   \* ids in the monitors table
  active,     \* those with is_active
  due,        \* those with next_check_at <= now()
  scheduled,  \* regions with scheduled = true
  rows,       \* ids in the pending_checks table
  row,        \* their columns; kept for ids a worker still mentions
  phase,      \* what each worker is doing
  claimed,    \* rows leased by a GET /jobs that has not answered yet
  batch,      \* jobs a worker is executing
  posting,    \* jobs whose results are in a POST /results not yet handled
  saved       \* history: checks saved from each row's results

vars == <<monitors, active, due, scheduled, rows, row, phase, claimed, batch,
          posting, saved>>

Row == [monitor  : Monitor,
        region   : Region,
        dead     : BOOLEAN,
        attempts : 0..MaxAttempts,
        lease    : {"none", "held", "expired"},  \* leased_at, lease_expires_at
        worker   : Worker \cup {NoWorker},
        stale    : BOOLEAN]         \* scheduled_at is behind the cutoff that applies

Phase == {"idle", "polling", "working", "posting"}

-----------------------------------------------------------------------------

InHand == UNION {claimed[w] \cup batch[w] \cup posting[w] : w \in Worker}

Fresh == RowId \ (rows \cup InHand)

Live(i) == i \in rows /\ ~row[i].dead

OnSlot(i, m, r) == row[i].monitor = m /\ row[i].region = r

\* Bug: no unique index, every INSERT succeeds.
Missing_NoConflict(slots) == slots

\* The slots with no row that is not dead, where the partial unique index lets
\* an INSERT succeed.
Missing(slots) ==
  {s \in slots : ~ \E i \in rows : Live(i) /\ OnSlot(i, s[1], s[2])}

\* INSERT INTO pending_checks ... ON CONFLICT DO NOTHING for each of the slots
\* (monitor, region).
Insert(slots) ==
  LET missing == Missing(slots)
  IN  \E f \in [missing -> Fresh] :
        /\ \A s, t \in missing : f[s] = f[t] => s = t
        /\ rows' = rows \cup {f[s] : s \in missing}
        /\ row' = [i \in RowId |->
                     IF \E s \in missing : f[s] = i
                     THEN LET s == CHOOSE s \in missing : f[s] = i
                          IN  [monitor |-> s[1], region |-> s[2], dead |-> FALSE,
                               attempts |-> 0, lease |-> "none", worker |-> NoWorker,
                               stale |-> FALSE]
                     ELSE row[i]]
        /\ saved' = [i \in RowId |->
                       IF \E s \in missing : f[s] = i THEN 0 ELSE saved[i]]

\* DELETE FROM pending_checks, and one saved check for each row in reported.
\* What is known of an id ends when no table row and no worker mentions it.
Remove(gone, reported) ==
  /\ rows' = rows \ gone
  /\ row' = [i \in RowId |-> IF i \in rows' \cup InHand' THEN row[i] ELSE NoRow]
  /\ saved' = [i \in RowId |->
                 IF i \in rows' \cup InHand'
                 THEN IF i \in reported THEN saved[i] + 1 ELSE saved[i]
                 ELSE 0]

-----------------------------------------------------------------------------
(* The user and the operator.                                              *)

\* POST /projects/{id}/monitors: active, due at once.
CreateMonitor(m) ==
  /\ m \notin monitors
  /\ \A i \in InHand : row[i].monitor # m
  /\ monitors' = monitors \cup {m}
  /\ active' = active \cup {m}
  /\ due' = due \cup {m}
  /\ UNCHANGED <<scheduled, rows, row, phase, claimed, batch, posting, saved>>

\* DELETE /monitors/{id}; its pending_checks go with it (ON DELETE CASCADE).
DeleteMonitor(m) ==
  /\ m \in monitors
  /\ monitors' = monitors \ {m}
  /\ active' = active \ {m}
  /\ due' = due \ {m}
  /\ UNCHANGED <<scheduled, phase, claimed, batch, posting>>
  /\ Remove({i \in rows : row[i].monitor = m}, {})

\* POST /monitors/{id}/pause: queued rows and running jobs stay as they are.
PauseMonitor(m) ==
  /\ m \in active
  /\ active' = active \ {m}
  /\ UNCHANGED <<monitors, due, scheduled, rows, row, phase, claimed, batch,
                 posting, saved>>

\* POST /monitors/{id}/resume: also on a running monitor, where it only makes
\* the next check due.  The plan limits that may refuse it are not modelled.
ResumeMonitor(m) ==
  /\ m \in monitors
  /\ active' = active \cup {m}
  /\ due' = due \cup {m}
  /\ UNCHANGED <<monitors, scheduled, rows, row, phase, claimed, batch, posting,
                 saved>>

\* POST /monitors/{id}/check-now queues a row in every scheduled region, for a
\* paused monitor too.
CheckNow(m) ==
  /\ m \in monitors
  /\ Insert({m} \X scheduled)
  /\ UNCHANGED <<monitors, active, due, scheduled, phase, claimed, batch, posting>>

\* The operator flips regions.scheduled.
FlipRegion(r) ==
  /\ scheduled' = (scheduled \ {r}) \cup ({r} \ scheduled)
  /\ UNCHANGED <<monitors, active, due, rows, row, phase, claimed, batch, posting,
                 saved>>

-----------------------------------------------------------------------------
(* The Celery tasks.                                                       *)

\* schedule_pending_checks, every 15 s.
SchedulePendingChecks ==
  /\ due \cap active # {}
  /\ Insert((due \cap active) \X scheduled)
  /\ due' = due \ active
  /\ UNCHANGED <<monitors, active, scheduled, phase, claimed, batch, posting>>

\* The rows reap_dead_pending_checks retires: leased out MaxAttempts times, or
\* never leased within 10 minutes.
Exhausted(i) == Live(i) /\ row[i].lease = "expired" /\ row[i].attempts >= MaxAttempts
Orphaned(i)  == Live(i) /\ row[i].lease = "none" /\ row[i].stale

\* Bug: the cap is enforced by /jobs but nothing retires the rows it stops.
Reapable_OrphansOnly == {i \in rows : Orphaned(i)}

Reapable == {i \in rows : Exhausted(i) \/ Orphaned(i)}

\* reap_dead_pending_checks, every 60 s.
ReapDeadPendingChecks ==
  /\ Reapable # {}
  /\ row' = [i \in RowId |->
               IF i \in Reapable THEN [row[i] EXCEPT !.dead = TRUE, !.stale = FALSE]
               ELSE row[i]]
  /\ UNCHANGED <<monitors, active, due, scheduled, rows, phase, claimed, batch,
                 posting, saved>>

\* The part of cleanup_old_checks that deletes dead rows after 7 days.
CleanupOldChecks ==
  LET D == {i \in rows : row[i].dead /\ row[i].stale}
  IN  /\ D # {}
      /\ UNCHANGED <<monitors, active, due, scheduled, phase, claimed, batch, posting>>
      /\ Remove(D, {})

-----------------------------------------------------------------------------
(* The internal API and the worker.                                        *)

\* Bugs: the scan forgets the cap, the lease, or takes only rows that were never
\* leased.
Eligible_Uncapped(r) ==
  {i \in rows : Live(i) /\ row[i].region = r /\ row[i].lease # "held"}
Eligible_Leased(r) ==
  {i \in rows : Live(i) /\ row[i].region = r /\ row[i].attempts < MaxAttempts}
Eligible_NeverLeased(r) ==
  {i \in rows : Live(i) /\ row[i].region = r /\ row[i].lease = "none"}

\* Not dead, under the cap, never leased or with an expired lease.
Eligible(r) ==
  {i \in rows : /\ Live(i)
                /\ row[i].region = r
                /\ row[i].attempts < MaxAttempts
                /\ row[i].lease # "held"}

\* Bug: only the first lease counts as an attempt.
Leased_CountedOnce(i, w) ==
  [row[i] EXCEPT !.lease = "held", !.worker = w, !.attempts = 1, !.stale = FALSE]

\* The columns of row i once it is leased to w.
Leased(i, w) ==
  [row[i] EXCEPT !.lease = "held", !.worker = w, !.attempts = @ + 1, !.stale = FALSE]

\* GET /internal/jobs up to its first commit: lease rows to the caller.  A region
\* that is not scheduled gets 422.  The statement asks for the oldest rows, but
\* passes over those another transaction has locked (SKIP LOCKED) and sees only
\* what is committed, while scheduled_at was stamped before the INSERT: no row can
\* count on its place, so any rows up to Limit may be the ones.  Bound: the server
\* works on one GET of a worker at a time.
ClaimJobs(w) ==
  /\ phase[w] = "idle"
  /\ claimed[w] = {}
  /\ RegionOf[w] \in scheduled
  /\ \E S \in SUBSET Eligible(RegionOf[w]) :
       /\ S # {}
       /\ Cardinality(S) <= Limit
       /\ row' = [i \in RowId |-> IF i \in S THEN Leased(i, w) ELSE row[i]]
       /\ claimed' = [claimed EXCEPT ![w] = S]
  /\ phase' = [phase EXCEPT ![w] = "polling"]
  /\ UNCHANGED <<monitors, active, due, scheduled, rows, batch, posting, saved>>

\* The rest of GET /internal/jobs.  Jobs whose target the dispatch-time guard
\* blocks are recorded as DOWN checks and their rows deleted by id, whoever
\* leases them now; the others are answered, to a worker that still waits.
AnswerJobs(w, blocked) ==
  LET B    == {i \in claimed[w] : row[i].monitor \in blocked}
      jobs == claimed[w] \ B
  IN  /\ claimed[w] # {}
      /\ blocked \subseteq {row[i].monitor : i \in claimed[w]} \cap monitors
      /\ claimed' = [claimed EXCEPT ![w] = {}]
      /\ IF phase[w] = "polling"
         THEN /\ batch' = [batch EXCEPT ![w] = jobs]
              /\ phase' = [phase EXCEPT ![w] = IF jobs = {} THEN "idle" ELSE "working"]
         ELSE UNCHANGED <<batch, phase>>
      /\ UNCHANGED <<monitors, active, due, scheduled, posting>>
      /\ Remove(B, B)

Answer(w) == \E blocked \in SUBSET Monitor : AnswerJobs(w, blocked)

\* GET /internal/jobs fails after the leases are committed: the check of a
\* blocked job refers to a deleted monitor, the server stops, or the response
\* is lost.
LoseJobs(w) ==
  /\ claimed[w] # {}
  /\ claimed' = [claimed EXCEPT ![w] = {}]
  /\ phase' = [phase EXCEPT ![w] = IF @ = "polling" THEN "idle" ELSE @]
  /\ UNCHANGED <<monitors, active, due, scheduled, batch, posting>>
  /\ Remove({}, {})

\* The jobs have been executed one after another, each with some result; the
\* worker posts the whole batch.  Bound: one POST of a worker in flight.
SubmitResults(w) ==
  /\ phase[w] = "working"
  /\ posting[w] = {}
  /\ posting' = [posting EXCEPT ![w] = batch[w]]
  /\ batch' = [batch EXCEPT ![w] = {}]
  /\ phase' = [phase EXCEPT ![w] = "posting"]
  /\ UNCHANGED <<monitors, active, due, scheduled, rows, row, claimed, saved>>

\* Bugs: results complete rows by id alone, or by slot.
Completed_AnyHolder(w, alive) == alive \cap rows
Completed_BySlot(w, alive) ==
  {j \in rows : \E i \in alive : OnSlot(j, row[i].monitor, row[i].region)}

\* The rows that results of w for the jobs in alive complete.
Completed(w, alive) == {i \in alive \cap rows : row[i].worker = w}

\* POST /internal/results: drop the results of deleted monitors, refuse the
\* batch of an unscheduled region, save one check per result and delete the
\* rows of the batch that are leased to the poster.
SaveResults(w) ==
  LET alive == {i \in posting[w] : row[i].monitor \in monitors}
  IN  /\ alive # {}
      /\ RegionOf[w] \in scheduled
      /\ posting' = [posting EXCEPT ![w] = {}]
      /\ phase' = [phase EXCEPT ![w] = IF @ = "posting" THEN "idle" ELSE @]
      /\ UNCHANGED <<monitors, active, due, scheduled, claimed, batch>>
      /\ Remove(Completed(w, alive), alive)

\* The batch has no effect: the request is lost or answered with an error, or
\* every monitor in it is gone.
LoseResults(w) ==
  /\ posting[w] # {}
  /\ posting' = [posting EXCEPT ![w] = {}]
  /\ phase' = [phase EXCEPT ![w] = IF @ = "posting" THEN "idle" ELSE @]
  /\ UNCHANGED <<monitors, active, due, scheduled, claimed, batch>>
  /\ Remove({}, {})

\* The worker's loop swallows an exception (a client timeout, whose request the
\* server may still be handling) or the process restarts: what it held is
\* forgotten and it polls again.
Abandon(w) ==
  /\ phase[w] # "idle"
  /\ phase' = [phase EXCEPT ![w] = "idle"]
  /\ batch' = [batch EXCEPT ![w] = {}]
  /\ UNCHANGED <<monitors, active, due, scheduled, claimed, posting>>
  /\ Remove({}, {})

-----------------------------------------------------------------------------
(* Time.                                                                   *)

\* lease_expires_at < now().
LeaseExpires(i) ==
  /\ i \in rows
  /\ row[i].lease = "held"
  /\ row' = [row EXCEPT ![i].lease = "expired"]
  /\ UNCHANGED <<monitors, active, due, scheduled, rows, phase, claimed, batch,
                 posting, saved>>

\* scheduled_at falls behind the cutoff that is compared with it: 10 minutes
\* for a row never leased (the reaper), 7 days for a dead one (the cleanup).
RowAges(i) ==
  /\ i \in rows
  /\ row[i].dead \/ row[i].lease = "none"
  /\ ~row[i].stale
  /\ row' = [row EXCEPT ![i].stale = TRUE]
  /\ UNCHANGED <<monitors, active, due, scheduled, rows, phase, claimed, batch,
                 posting, saved>>

\* next_check_at arrives.
IntervalElapses(m) ==
  /\ m \in monitors \ due
  /\ due' = due \cup {m}
  /\ UNCHANGED <<monitors, active, scheduled, rows, row, phase, claimed, batch,
                 posting, saved>>

-----------------------------------------------------------------------------

NoWork ==
  /\ scheduled = Region
  /\ rows = {}
  /\ row = [i \in RowId |-> NoRow]
  /\ phase = [w \in Worker |-> "idle"]
  /\ claimed = [w \in Worker |-> {}]
  /\ batch = [w \in Worker |-> {}]
  /\ posting = [w \in Worker |-> {}]
  /\ saved = [i \in RowId |-> 0]

Init == monitors = {} /\ active = {} /\ due = {} /\ NoWork

UserStep ==
  \/ \E m \in Monitor : \/ CreateMonitor(m) \/ DeleteMonitor(m)
                        \/ PauseMonitor(m) \/ ResumeMonitor(m) \/ CheckNow(m)
  \/ \E r \in Region : FlipRegion(r)

TaskStep == SchedulePendingChecks \/ ReapDeadPendingChecks \/ CleanupOldChecks

WorkerStep ==
  \E w \in Worker : \/ ClaimJobs(w) \/ Answer(w) \/ LoseJobs(w)
                    \/ SubmitResults(w) \/ SaveResults(w) \/ LoseResults(w)
                    \/ Abandon(w)

TimeStep ==
  \/ \E i \in RowId : LeaseExpires(i) \/ RowAges(i)
  \/ \E m \in Monitor : IntervalElapses(m)

Next == UserStep \/ TaskStep \/ WorkerStep \/ TimeStep

Spec == Init /\ [][Next]_vars

-----------------------------------------------------------------------------
(* Safety.                                                                 *)

\* Every variable keeps its type, and every id in use has its columns.
TypeOK ==
  /\ monitors \subseteq Monitor /\ active \subseteq monitors /\ due \subseteq monitors
  /\ scheduled \subseteq Region
  /\ rows \subseteq RowId
  /\ row \in [RowId -> Row \cup {NoRow}]
  /\ \A i \in rows \cup InHand : row[i] \in Row
  /\ phase \in [Worker -> Phase]
  /\ claimed \in [Worker -> SUBSET RowId]
  /\ batch \in [Worker -> SUBSET RowId]
  /\ posting \in [Worker -> SUBSET RowId]
  /\ saved \in [RowId -> Nat]

\* A (monitor, region) slot holds at most one row that is not dead, of a monitor
\* that exists, whatever overlap of scheduler, check-now, reaper and workers.
OneLivePerSlot ==
  /\ \A i, j \in rows :
       Live(i) /\ Live(j) /\ OnSlot(i, row[j].monitor, row[j].region) => i = j
  /\ \A i \in rows : row[i].monitor \in monitors

\* The workers that have job i at one stage of its way.
Copies(stage, i) == Cardinality({w \in Worker : i \in stage[w]})

\* Every lease pays for at most one saved check: what was saved from a row plus
\* the copies of it still on their way, with workers that lost the lease long
\* ago included, never exceeds the attempts counted on it, so no row yields
\* more than MaxAttempts checks.
LeasesPayForChecks ==
  \A i \in rows \cup InHand :
    saved[i] + Copies(claimed, i) + Copies(batch, i) + Copies(posting, i)
      <= row[i].attempts

\* A row under an unexpired lease is removed only when its monitor is deleted,
\* when its holder's own results are handled, or by the dispatch-time guard:
\* another worker's stale submission does not wipe it (internal.py, "won't
\* wipe the other worker's in-flight lease").
HolderKeepsLease ==
  [][\A i \in rows \ rows' :
       Live(i) /\ row[i].lease = "held"
         => \/ row[i].monitor \notin monitors'
            \/ i \in posting[row[i].worker] \ posting'[row[i].worker]
            \/ \E w \in Worker : i \in claimed[w] \ claimed'[w]]_vars

\* The reaper's verdict is final: a dead row is never leased, revived or
\* counted again; the late results of its last holder may still remove it.
DeadStaysDead ==
  [][\A i \in rows \cap rows' :
       row[i].dead => /\ row'[i].dead
                      /\ row'[i].attempts = row[i].attempts
                      /\ row'[i].worker = row[i].worker]_vars

\* A worker's results never remove the fresh row that replaced a row it had
\* lost to the reaper: a live row leaves with results only if it was leased.
OnlyLeasedRowsComplete ==
  [][\A i \in rows \ rows' :
       Live(i) /\ row[i].monitor \in monitors' => row[i].attempts > 0]_vars

-----------------------------------------------------------------------------
(* Each slot implements SlotLease: the view of slot (m, r) is its live row. *)

LiveRows(m, r) == {i \in rows : Live(i) /\ OnSlot(i, m, r)}

SlotRow(m, r) == row[CHOOSE i \in LiveRows(m, r) : TRUE]

SlotState(m, r) ==
  IF LiveRows(m, r) = {} THEN "empty"
  ELSE IF SlotRow(m, r).lease = "held" THEN "leased" ELSE "waiting"

SlotTries(m, r) == IF LiveRows(m, r) = {} THEN 0 ELSE SlotRow(m, r).attempts

SlotHolder(m, r) == IF LiveRows(m, r) = {} THEN NoWorker ELSE SlotRow(m, r).worker

-----------------------------------------------------------------------------
(* Liveness.                                                               *)

\* Celery beat reruns its tasks for ever, leases run out and rows grow old.
BackendFairness ==
  /\ WF_vars(SchedulePendingChecks)
  /\ WF_vars(ReapDeadPendingChecks)
  /\ WF_vars(CleanupOldChecks)
  /\ \A i \in RowId : WF_vars(LeaseExpires(i)) /\ WF_vars(RowAges(i))
  /\ \A m \in Monitor : WF_vars(IntervalElapses(m))
  /\ \A w \in Worker : WF_vars(Answer(w))

\* Worker processes run for ever (their loop swallows every exception).  They
\* poll every 10 s, far more often than the 10 minutes after which the reaper
\* retires a waiting row.  The network loses requests and answers, but not all
\* of them: of the exchanges tried for ever, one eventually comes through.
WorkerFairness ==
  \A w \in Worker : /\ SF_vars(ClaimJobs(w))
                    /\ SF_vars(phase[w] = "polling" /\ Answer(w))
                    /\ SF_vars(SubmitResults(w))
                    /\ SF_vars(SaveResults(w))
                    /\ WF_vars(LoseResults(w))

\* Every region may lose its workers for good: only the back end is fair.
BackendSpec == Spec /\ BackendFairness

FairSpec == Spec /\ BackendFairness /\ WorkerFairness

\* Work queued for a slot does not sit there for ever while its region is
\* scheduled: it completes, is retired or goes with its monitor.
SlotFreed ==
  \A i \in RowId : Live(i) ~> (~Live(i) \/ row[i].region \notin scheduled)

\* The claim of reap_dead_pending_checks' docstring: a permanently dead region
\* does not wedge the slot for ever, even one that stays scheduled.
SlotFreedWithoutWorkers ==
  (\A r \in Region : <>[](r \in scheduled)) => \A i \in RowId : Live(i) ~> ~Live(i)

\* A check of m from region r is saved: from a posted result, or as the DOWN
\* check of a job blocked at dispatch.
CheckSaved(m, r) ==
  \E w \in Worker :
    /\ RegionOf[w] = r
    /\ \/ SaveResults(w) /\ \E i \in posting[w] : row[i].monitor = m
       \/ \E blocked \in SUBSET Monitor : m \in blocked /\ AnswerJobs(w, blocked)

\* The service itself: a monitor that stays active in a region that stays
\* scheduled gets checks saved from that region again and again.
CheckedForEver ==
  \A m \in Monitor, r \in Region :
    <>[](m \in active /\ r \in scheduled) => []<><<CheckSaved(m, r)>>_vars
=============================================================================

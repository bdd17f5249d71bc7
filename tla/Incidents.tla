----------------------------- MODULE Incidents -----------------------------
(***************************************************************************)
(* From check results to a monitor's status, its incidents and the alerts  *)
(* they cause: finalize_check_result of app/workers/tasks.py, run by       *)
(* concurrent Celery executors, with enqueue_alerts_sync of                *)
(* app/services/alerts.py.  One monitor: the task locks, reads and writes  *)
(* the rows of one monitor only.                                           *)
(*                                                                         *)
(* A transaction is split where other transactions can come between: it    *)
(* takes the advisory lock and reads the monitor, reads the latest fresh   *)
(* check of one voting region after another (READ COMMITTED: each read     *)
(* sees what is committed by then), then commits.  Alerts are dispatched   *)
(* after the commit, one message at a time.                                *)
(*                                                                         *)
(* As in PendingChecks there is no clock: `fresh' is the outcome of        *)
(* checked_at >= fresh_cutoff for the latest check of a region.            *)
(***************************************************************************)
EXTENDS Consensus

CONSTANTS
  Region,         \* region codes
  VotingChoices,  \* the sets of voting regions the operator may configure
  Channel,        \* alert channels of the monitor's project
  IncidentId,     \* ids of incidents
  Executor,       \* Celery processes that run finalize_check_result
  NoExecutor,
  MaxQueued       \* bound: finalize messages waiting in the broker

ASSUME ConstantsAssumption ==
  /\ IsFiniteSet(Region)
  /\ VotingChoices \subseteq SUBSET Region /\ VotingChoices # {}
  /\ NoExecutor \notin Executor
  /\ MaxQueued \in Nat \ {0}

VARIABLES
  exists,      \* the monitor's row is there
  status,      \* monitors.current_status
  latest,      \* status of the latest check of each region
  fresh,       \* regions whose latest check is fresh
  voting,      \* regions with voting = true
  cached,      \* the voting regions in the executors' 60 s cache
  queued,      \* finalize messages in the broker
  lock,        \* holder of the advisory lock
  fin,         \* each executor's run of finalize_check_result
  incidents,   \* ids in the incidents table
  open,        \* those with resolved_at IS NULL
  active,      \* channels with is_active
  deliveries,  \* rows of alert_deliveries
  dispatched,  \* those whose send task reached the broker
  basis        \* history: the votes of the last verdict that changed status

vars == <<exists, status, latest, fresh, voting, cached, queued, lock, fin,
          incidents, open, active, deliveries, dispatched, basis>>

checkVars == <<latest, fresh, voting, cached>>
alertVars == <<incidents, open, active, deliveries, dispatched>>

MonitorStatus == {"unknown", "up", "down"}

Delivery == [incident : IncidentId, channel : Channel, kind : {"down", "resolved"}]

NoVotes == [r \in Region |-> "none"]

\* An executor between two tasks.
Idle == [pc |-> "idle", old |-> "unknown", view |-> {}, seen |-> NoVotes,
         left |-> {}, todo |-> {}]

Finalize == [pc   : {"idle", "reading", "dispatching"},
             old  : MonitorStatus,       \* old_status
             view : SUBSET Region,       \* voting_codes
             seen : [Region -> Vote],    \* latest
             left : SUBSET Region,       \* regions still to be read
             todo : SUBSET Delivery]     \* new_delivery_ids not yet dispatched

-----------------------------------------------------------------------------
(* The environment: results, time, the operator, the user.                 *)

\* finalize_check_result.delay(), or the API stops between its commit and the
\* call.  Bound: messages beyond MaxQueued are merged into those waiting.
Enqueue == queued' \in {queued, IF queued < MaxQueued THEN queued + 1 ELSE queued}

\* POST /internal/results (or a job blocked at dispatch) commits a check of
\* region r.  checked_at is the start of its transaction: a check can be
\* committed behind one of an overlapping transaction that started later.
SaveCheck(r, s) ==
  /\ exists
  /\ \/ latest' = [latest EXCEPT ![r] = s] /\ fresh' = fresh \cup {r}
     \/ r \in fresh /\ UNCHANGED <<latest, fresh>>
  /\ Enqueue
  /\ UNCHANGED <<exists, status, voting, cached, lock, fin, alertVars, basis>>

\* A check falls behind the freshness window.
CheckExpires(r) ==
  /\ r \in fresh
  /\ fresh' = fresh \ {r}
  /\ UNCHANGED <<exists, status, latest, voting, cached, queued, lock, fin,
                 alertVars, basis>>

\* A new interval widens or narrows the window: checks that no longer voted
\* vote again, or stop voting.
ChangeInterval ==
  /\ exists
  /\ \E S \in SUBSET {r \in Region : latest[r] # "none"} :
       /\ fresh \subseteq S \/ S \subseteq fresh
       /\ fresh' = S
  /\ UNCHANGED <<exists, status, latest, voting, cached, queued, lock, fin,
                 alertVars, basis>>

\* The operator edits the regions table; executors see it within a minute.
SetVoting(V) ==
  /\ V # voting
  /\ voting' = V
  /\ UNCHANGED <<exists, status, latest, fresh, cached, queued, lock, fin,
                 alertVars, basis>>

RefreshCache ==
  /\ cached # voting
  /\ cached' = voting
  /\ UNCHANGED <<exists, status, latest, fresh, voting, queued, lock, fin,
                 alertVars, basis>>

\* PATCH /alerts/{id} flips is_active.
ToggleChannel(c) ==
  /\ active' = (active \ {c}) \cup ({c} \ active)
  /\ UNCHANGED <<exists, status, checkVars, queued, lock, fin, incidents, open,
                 deliveries, dispatched, basis>>

\* DELETE /alerts/{id}; its deliveries go with it.
DeleteChannel(c) ==
  LET gone == {d \in deliveries : d.channel = c}
  IN  /\ gone # {} \/ c \in active
      /\ active' = active \ {c}
      /\ deliveries' = deliveries \ gone
      /\ dispatched' = dispatched \ gone
      /\ UNCHANGED <<exists, status, checkVars, queued, lock, fin, incidents, open,
                     basis>>

\* Bug: deliveries outlive their incident.
DeleteMonitor_KeepsDeliveries ==
  /\ exists
  /\ exists' = FALSE
  /\ latest' = NoVotes /\ fresh' = {}
  /\ incidents' = {} /\ open' = {}
  /\ UNCHANGED <<status, voting, cached, queued, lock, fin, active, deliveries,
                 dispatched, basis>>

\* DELETE /monitors/{id}; checks, incidents and deliveries go with it.
DeleteMonitor ==
  /\ exists
  /\ exists' = FALSE
  /\ latest' = NoVotes /\ fresh' = {}
  /\ incidents' = {} /\ open' = {} /\ deliveries' = {} /\ dispatched' = {}
  /\ UNCHANGED <<status, voting, cached, queued, lock, fin, active, basis>>

\* Bookkeeping of the model: a resolved incident whose alerts were dispatched
\* is never read again, and a later uuid may take its id.
Forget(i) ==
  /\ i \in incidents \ open
  /\ \A d \in deliveries : d.incident = i => d \in dispatched
  /\ \A e \in Executor : \A d \in fin[e].todo : d.incident # i
  /\ incidents' = incidents \ {i}
  /\ deliveries' = {d \in deliveries : d.incident # i}
  /\ dispatched' = {d \in dispatched : d.incident # i}
  /\ UNCHANGED <<exists, status, checkVars, queued, lock, fin, open, active, basis>>

-----------------------------------------------------------------------------
(* finalize_check_result.                                                  *)

\* Bug: no advisory lock.
CanLock_Always == TRUE

\* pg_advisory_xact_lock(monitor_id) waits for its holder's transaction to end.
CanLock == lock = NoExecutor

\* Take the lock and read the monitor and the (cached) voting regions.  A
\* monitor that is gone ends the task.
Begin(e) ==
  /\ fin[e].pc = "idle" /\ queued > 0
  /\ CanLock
  /\ queued' = queued - 1
  /\ IF exists
     THEN /\ lock' = e
          /\ \E V \in {voting, cached} :
               fin' = [fin EXCEPT ![e] = [Idle EXCEPT !.pc = "reading", !.old = status,
                                                      !.view = V, !.left = V]]
     ELSE UNCHANGED <<lock, fin>>
  /\ UNCHANGED <<exists, status, checkVars, alertVars, basis>>

\* The latest check of voting region r, if it is fresh.
ReadVote(e, r) ==
  /\ fin[e].pc = "reading" /\ r \in fin[e].left
  /\ fin' = [fin EXCEPT ![e].seen[r] = IF r \in fresh THEN latest[r] ELSE "none",
                        ![e].left = @ \ {r}]
  /\ UNCHANGED <<exists, status, checkVars, queued, lock, alertVars, basis>>

Decides(e, verdict) ==
  /\ fin[e].pc = "reading" /\ fin[e].left = {}
  /\ consensus(fin[e].seen, fin[e].view) = verdict

\* Commit: the lock is released and the new deliveries are left to dispatch.
Finish(e, todo) ==
  /\ lock' = NoExecutor
  /\ fin' = [fin EXCEPT ![e] = IF todo = {} THEN Idle
                               ELSE [Idle EXCEPT !.pc = "dispatching", !.todo = todo]]

\* enqueue_alerts_sync: one delivery for each active channel, ON CONFLICT DO
\* NOTHING on (incident, channel, kind); only the new ones will be dispatched.
NewDeliveries(i, kind) ==
  {[incident |-> i, channel |-> c, kind |-> kind] : c \in active} \ deliveries

SetStatus(e, new) ==
  /\ status' = new
  /\ basis' = IF new = status THEN basis
              ELSE [view |-> fin[e].view, votes |-> fin[e].seen]

\* Bug: the verdict is stored before the quorum is looked at.
NoQuorum_Stored(e) ==
  /\ Decides(e, "incomplete")
  /\ Finish(e, {})
  /\ status' = "incomplete"
  /\ UNCHANGED <<exists, checkVars, queued, alertVars, basis>>

\* No quorum: nothing changes.
NoQuorum(e) ==
  /\ Decides(e, "incomplete")
  /\ Finish(e, {})
  /\ UNCHANGED <<exists, status, checkVars, queued, alertVars, basis>>

\* Bug: only a monitor that was up can go down.
Confirm_UpFirst(e, verdict) ==
  /\ Decides(e, verdict)
  /\ IF verdict = "down" THEN fin[e].old # "up" ELSE fin[e].old # "down"
  /\ exists \/ verdict = status
  /\ SetStatus(e, verdict)
  /\ Finish(e, {})
  /\ UNCHANGED <<exists, checkVars, queued, alertVars>>

\* A verdict that opens or resolves nothing.
Confirm(e, verdict) ==
  /\ Decides(e, verdict)
  /\ IF verdict = "down" THEN fin[e].old = "down" ELSE fin[e].old # "down"
  /\ exists \/ verdict = status
  /\ SetStatus(e, verdict)
  /\ Finish(e, {})
  /\ UNCHANGED <<exists, checkVars, queued, alertVars>>

\* Not down before, down now.
OpenIncident(e) ==
  /\ Decides(e, "down") /\ fin[e].old # "down"
  /\ exists
  /\ SetStatus(e, "down")
  /\ \E i \in IncidentId \ incidents :
       LET new == NewDeliveries(i, "down")
       IN  /\ incidents' = incidents \cup {i}
           /\ open' = open \cup {i}
           /\ deliveries' = deliveries \cup new
           /\ Finish(e, new)
  /\ UNCHANGED <<exists, checkVars, queued, active, dispatched>>

\* Down before, up now: resolve an open incident, if there is one.
ResolveIncident(e) ==
  /\ Decides(e, "up") /\ fin[e].old = "down"
  /\ exists
  /\ SetStatus(e, "up")
  /\ IF open = {}
     THEN Finish(e, {}) /\ UNCHANGED <<open, deliveries>>
     ELSE \E i \in open :
            LET new == NewDeliveries(i, "resolved")
            IN  /\ open' = open \ {i}
                /\ deliveries' = deliveries \cup new
                /\ Finish(e, new)
  /\ UNCHANGED <<exists, checkVars, queued, incidents, active, dispatched>>

\* What is left of a run once delivery d is dispatched.
After(run, d) ==
  IF run.todo = {d} THEN Idle ELSE [run EXCEPT !.todo = @ \ {d}]

\* send_alert_delivery.delay(id) for one of the new deliveries.
Dispatch(e) ==
  /\ fin[e].pc = "dispatching"
  /\ \E d \in fin[e].todo :
       /\ dispatched' = dispatched \cup ({d} \cap deliveries)
       /\ fin' = [fin EXCEPT ![e] = After(@, d)]
  /\ UNCHANGED <<exists, status, checkVars, queued, lock, incidents, open, active,
                 deliveries, basis>>

\* An exception (the database, the deleted monitor, or the broker in .delay())
\* makes Celery queue the task again, three times at most; a crash of the
\* process loses it, as messages are acknowledged before they run.
Abort(e) ==
  /\ fin[e].pc # "idle"
  /\ fin' = [fin EXCEPT ![e] = Idle]
  /\ lock' = IF lock = e THEN NoExecutor ELSE lock
  /\ Enqueue
  /\ UNCHANGED <<exists, status, checkVars, alertVars, basis>>

-----------------------------------------------------------------------------

Init ==
  /\ exists = TRUE
  /\ status = "unknown"
  /\ latest = NoVotes /\ fresh = {}
  /\ voting \in VotingChoices /\ cached = voting
  /\ queued = 0
  /\ lock = NoExecutor
  /\ fin = [e \in Executor |-> Idle]
  /\ incidents = {} /\ open = {}
  /\ active = Channel
  /\ deliveries = {} /\ dispatched = {}
  /\ basis = [view |-> {}, votes |-> NoVotes]

Environment ==
  \/ \E r \in Region : CheckExpires(r) \/ \E s \in CheckStatus : SaveCheck(r, s)
  \/ ChangeInterval
  \/ \E V \in VotingChoices : SetVoting(V)
  \/ RefreshCache
  \/ \E c \in Channel : ToggleChannel(c) \/ DeleteChannel(c)
  \/ DeleteMonitor
  \/ \E i \in IncidentId : Forget(i)

FinalizeStep ==
  \E e \in Executor :
    \/ Begin(e)
    \/ \E r \in Region : ReadVote(e, r)
    \/ NoQuorum(e)
    \/ \E verdict \in CheckStatus : Confirm(e, verdict)
    \/ OpenIncident(e) \/ ResolveIncident(e)
    \/ Dispatch(e) \/ Abort(e)

Next == Environment \/ FinalizeStep

Spec == Init /\ [][Next]_vars

-----------------------------------------------------------------------------
(* Safety.                                                                 *)

\* Every variable keeps its type.
TypeOK ==
  /\ exists \in BOOLEAN
  /\ status \in MonitorStatus
  /\ latest \in [Region -> Vote]
  /\ fresh \subseteq Region
  /\ voting \in VotingChoices /\ cached \in VotingChoices
  /\ queued \in 0..MaxQueued
  /\ lock \in Executor \cup {NoExecutor}
  /\ fin \in [Executor -> Finalize]
  /\ incidents \subseteq IncidentId /\ open \subseteq incidents
  /\ active \subseteq Channel
  /\ deliveries \subseteq Delivery /\ dispatched \subseteq deliveries
  /\ basis \in [view : SUBSET Region, votes : [Region -> Vote]]

\* Two regions that post near-simultaneously never double-write an incident
\* (finalize_check_result's docstring, query 4 of deploy/sanity.sql): a
\* monitor has at most one open incident, and exactly when it is down.
OneOpenIncident ==
  /\ \A i, j \in open : i = j
  /\ exists => (status = "down" <=> open # {})

\* No alert contradicts the log: a delivery belongs to an incident that is
\* there, and "resolved" goes out only for one that is resolved.
AlertsMatchIncidents ==
  \A d \in deliveries : /\ d.incident \in incidents
                        /\ d.kind = "resolved" => d.incident \notin open

\* A verdict is never reversed by silence: when the status goes from down to
\* up or back under the same voting regions, one of them voted for the old
\* status then and votes for the new one now.
ReversalNeedsChangedVote ==
  [][status' # status /\ status # "unknown" /\ basis'.view = basis.view
       => \E c \in basis.view : /\ basis.votes[c] = status
                                /\ basis'.votes[c] = status']_vars

Ledger == INSTANCE IncidentLedger WITH
            status <- IF exists THEN status ELSE "deleted",
            open   <- Cardinality(open)

\* The monitor, its incidents and finalize implement IncidentLedger.
LedgerKept == Ledger!Spec

-----------------------------------------------------------------------------
(* Liveness.                                                               *)

Commit(e) ==
  \/ NoQuorum(e) \/ \E verdict \in CheckStatus : Confirm(e, verdict)
  \/ OpenIncident(e) \/ ResolveIncident(e)

\* Executors run what is in the broker and finish what they run, unless it is
\* aborted; of the transactions they begin for ever, not every one is.
ExecutorFairness ==
  \A e \in Executor :
    /\ WF_vars(Begin(e))
    /\ \A r \in Region : WF_vars(ReadVote(e, r))
    /\ WF_vars(Commit(e))
    /\ WF_vars(Dispatch(e))
    /\ []<><<Begin(e)>>_vars => []<><<Commit(e)>>_vars

\* Workers keep posting, the finalize messages of some posts reach the broker,
\* and executors refresh their cache.
ResultFairness ==
  /\ \A r \in Region :
       SF_vars(\E s \in CheckStatus : SaveCheck(r, s) /\ queued' # 0)
  /\ WF_vars(RefreshCache)
  /\ \A i \in IncidentId : WF_vars(Forget(i))

FairSpec == Spec /\ ExecutorFairness /\ ResultFairness

\* The regions of Q are a majority of the voting ones and report s.
MajoritySays(Q, s) ==
  /\ exists
  /\ Q \subseteq voting \cap fresh
  /\ \A r \in Q : latest[r] = s
  /\ Cardinality(Q) >= quorum(Cardinality(voting))

\* The monitor's status converges to what a lasting majority of its voting
\* regions reports.  (A majority that lasts while its members change is not
\* enough: the reads of one transaction are spread over time and may meet every
\* region in its minority moment.)
StatusConverges ==
  \A Q \in SUBSET Region, s \in CheckStatus :
    <>[]MajoritySays(Q, s) => <>[](status = s)

\* PROD_DEPLOY.md on alert_deliveries: "nothing is lost, just delayed".
NoAlertLost == \A d \in Delivery : d \in deliveries ~> (d \in dispatched \/ d \notin deliveries)
=============================================================================

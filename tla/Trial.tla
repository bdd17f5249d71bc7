------------------------------- MODULE Trial -------------------------------
(***************************************************************************)
(* One account: its plan, its one Pro trial and its monitors.  The hourly  *)
(* expire_due and the billing webhook's clear_for_paid_plan                *)
(* (app/services/trial.py, app/api/routes/billing.py) pause and resume     *)
(* monitors, while the user creates, pauses, resumes and deletes them      *)
(* (app/api/routes/monitors.py, app/services/plans.py).                    *)
(*                                                                         *)
(* Each of them is a transaction that reads rows, decides on the copies it *)
(* read, and writes at its commit the columns it changed.  Of the users    *)
(* row's locks the model keeps the two that are held across reads.         *)
(*                                                                         *)
(* A created monitor stands for any way to create some, the bulk add       *)
(* included, which creates many on one look at the limits.  Projects stay; *)
(* check intervals and e-mail are left out.                                *)
(***************************************************************************)
EXTENDS PlanFit, FiniteSets

CONSTANTS
  Projects,   \* the account's projects, oldest first
  Home,       \* the project of the i-th monitor the account creates
  Limits,     \* limits of each plan and of the trial
  Request     \* the user's requests that may be under way at once

Plan == DOMAIN Limits \ {"trial"}

ASSUME ConstantsAssumption ==
  /\ Projects \in Seq(STRING) /\ IsInjective(Projects) /\ Home \in Seq(ToSet(Projects))
  /\ {"FREE", "trial"} \subseteq DOMAIN Limits
  /\ Limits \in [DOMAIN Limits -> [projects : Nat \cup {Unlimited}, monitors : Nat]]

Monitor == DOMAIN Home

VARIABLES
  user,      \* the users row
  monitors,  \* the monitors rows
  made,      \* monitors created so far
  lock,      \* holder of the users row's lock
  hk,        \* the housekeeping task, where it is about this account
  webhook,   \* the delivery of a subscription event
  request,   \* the user's requests
  split,     \* history: a batch's lock of this account was released early
  extra      \* history: running monitors that late requests added after the
             \* task had counted

vars == <<user, monitors, made, lock, hk, webhook, request, split, extra>>

User == [plan    : Plan,
         ends    : {"none", "ahead", "past"},   \* trial_ends_at against now
         used    : BOOLEAN,                     \* trial_used
         expired : BOOLEAN]                     \* trial_expired_at is set

Row == [is_active : BOOLEAN, paused_reason : {"none", "gone"} \cup PLAN_PAUSE_REASONS]

Running == [is_active |-> TRUE, paused_reason |-> "none"]
UserPaused == [is_active |-> FALSE, paused_reason |-> "none"]
Absent == [is_active |-> FALSE, paused_reason |-> "gone"]

NoRows == [m \in Monitor |-> Absent]

\* trial_active
trial_active(u) == u.plan = "FREE" /\ u.ends = "ahead"

get_limits(u) == Limits[IF trial_active(u) THEN "trial" ELSE u.plan]

RunningCount(rows) == Cardinality({m \in Monitor : rows[m].is_active})

-----------------------------------------------------------------------------
(* fit_to_limits.                                                          *)

Fit(rows, limits) ==
  plan_fit(Projects, [m \in Monitor |-> [id |-> m, project |-> Home[m],
                                         is_active |-> rows[m].is_active,
                                         paused_reason |-> rows[m].paused_reason]], limits)

\* What the loaded rows become.
Fitted(rows, limits, reason) ==
  LET fit == Fit(rows, limits)
  IN  [m \in Monitor |->
         IF m \in fit.run /\ ~rows[m].is_active THEN Running
         ELSE IF m \in fit.pause /\ rows[m].is_active
         THEN [is_active |-> FALSE, paused_reason |-> reason]
         ELSE rows[m]]

\* The ORM writes the attributes that differ from what was loaded.
Written(row, loaded, new) ==
  [is_active     |-> IF new.is_active # loaded.is_active
                     THEN new.is_active ELSE row.is_active,
   paused_reason |-> IF new.paused_reason # loaded.paused_reason
                     THEN new.paused_reason ELSE row.paused_reason]

\* Flush the rows that changed; one that is gone by now is an error.
Save(loaded, new) ==
  /\ \A m \in Monitor : new[m] # loaded[m] => monitors[m] # Absent
  /\ monitors' = [m \in Monitor |-> Written(monitors[m], loaded[m], new[m])]

Unlock(holder) == lock' = IF lock = holder THEN "none" ELSE lock

-----------------------------------------------------------------------------
(* The user.                                                               *)

\* A request keeps the plan and the end of the trial as it loaded them.  It is
\* late when its answer to the limits is older than the plan, the end of the
\* trial, or what another request has added.
NoRequest == [pc |-> "idle", op |-> "pause", m |-> 0, n |-> 0, row |-> Absent,
              plan |-> "FREE", ends |-> "none", late |-> FALSE]

Adds(q) == q.op \in {"create", "resume"}

\* The trial's end passes: the limits of a request that is still to look at them
\* are compared with the time then.
Outlived(q) ==
  [q EXCEPT !.ends = IF @ = "ahead" THEN "past" ELSE @,
            !.late = @ \/ (q.pc = "checked" /\ Adds(q))]

\* POST /billing/trial: re-read and changed under the lock of the users row.
StartTrial ==
  /\ lock = "none"
  /\ user.plan = "FREE" /\ ~user.used
  /\ user' = [user EXCEPT !.used = TRUE, !.ends = "ahead", !.expired = FALSE]
  /\ UNCHANGED <<monitors, made, lock, hk, webhook, request, split, extra>>

\* Fourteen days later.  Bound: no webhook takes as long as a trial.
TrialEnds ==
  /\ user.ends = "ahead"
  /\ webhook.pc # "idle" => webhook.ends # "none"
  /\ user' = [user EXCEPT !.ends = "past"]
  /\ request' = [r \in Request |-> Outlived(request[r])]
  /\ UNCHANGED <<monitors, made, lock, hk, webhook, split, extra>>

\* The request loads the user, and the monitor it is about.
Begin(r, op, m) ==
  /\ request[r].pc = "idle"
  /\ IF op = "create" THEN m = 0 ELSE m \in Monitor /\ monitors[m] # Absent
  /\ request' = [request EXCEPT ![r] =
       [pc |-> "begun", op |-> op, m |-> m, n |-> 0, plan |-> user.plan,
        ends |-> user.ends, late |-> FALSE,
        row |-> IF op = "create" THEN Absent ELSE monitors[m]]]
  /\ UNCHANGED <<user, monitors, made, lock, hk, webhook, split, extra>>

\* Room for n more: all monitors count, also the paused ones.
check_monitor_limit(limits, n) ==
  Cardinality({m \in Monitor : monitors[m] # Absent}) + n <= limits.monitors

check_resume_allowed(m, limits) ==
  /\ \/ limits.projects = Unlimited
     \/ Home[m] \in ToSet(First(Projects, limits.projects))
  /\ RunningCount(monitors) < limits.monitors

\* The limits are checked for new monitors, one or as many of a bulk add as there
\* is room for, and for one that is resumed.  What was loaded of the user is not
\* used again.
Check(r) ==
  LET q == request[r]
  IN  /\ q.pc = "begun"
      /\ q.op = "resume" /\ ~q.row.is_active => check_resume_allowed(q.m, get_limits(q))
      /\ \E n \in IF q.op = "create" THEN Monitor ELSE {0} :
           /\ n > 0 => check_monitor_limit(get_limits(q), n)
           /\ request' = [request EXCEPT ![r] =
                [q EXCEPT !.pc = "checked", !.n = n, !.plan = "FREE", !.ends = "none"]]
      /\ UNCHANGED <<user, monitors, made, lock, hk, webhook, split, extra>>

\* Refused, or failed.
Refuse(r) ==
  /\ request[r].pc # "idle"
  /\ request' = [request EXCEPT ![r] = NoRequest]
  /\ UNCHANGED <<user, monitors, made, lock, hk, webhook, split, extra>>

\* POST of one monitor, and the one commit of a bulk add, long after its look at
\* the limits when its sites take time to validate.
CreateMonitors(r) ==
  /\ request[r].op = "create" /\ made + request[r].n <= Len(Home)
  /\ made' = made + request[r].n
  /\ monitors' = [m \in Monitor |-> IF m \in made + 1..made' THEN Running ELSE monitors[m]]

PauseMonitor(r) ==
  LET m == request[r].m
  IN  /\ request[r].op = "pause" /\ monitors[m] # Absent
      /\ monitors' = [monitors EXCEPT ![m] = Written(@, request[r].row, UserPaused)]
      /\ UNCHANGED made

ResumeMonitor(r) ==
  LET m == request[r].m
  IN  /\ request[r].op = "resume" /\ monitors[m] # Absent
      /\ monitors' = [monitors EXCEPT ![m] = Written(@, request[r].row, Running)]
      /\ UNCHANGED made

DeleteMonitor(r) ==
  /\ request[r].op = "delete" /\ monitors[request[r].m] # Absent
  /\ monitors' = [monitors EXCEPT ![request[r].m] = Absent]
  /\ UNCHANGED made

\* Once r has added monitors the answers other requests have got are old.
Overtaken(r, q) ==
  [q EXCEPT !.late = @ \/ (q.pc = "checked" /\ Adds(q) /\ Adds(request[r]))]

\* The task has loaded the monitors it counts, or is done with them.
HasCounted == user.expired \/ hk.pc = "loaded"

CommitRequest(r) ==
  /\ request[r].pc = "checked"
  /\ CreateMonitors(r) \/ PauseMonitor(r) \/ ResumeMonitor(r) \/ DeleteMonitor(r)
  /\ request' = [q \in Request |-> IF q = r THEN NoRequest ELSE Overtaken(r, request[q])]
  /\ extra' = {m \in Monitor :
                 /\ monitors'[m].is_active
                 /\ m \in extra \/ (HasCounted /\ request[r].late /\ ~monitors[m].is_active)}
  /\ UNCHANGED <<user, lock, hk, webhook, split>>

-----------------------------------------------------------------------------
(* trial_housekeeping: expire_due.                                         *)

NoTask == [pc |-> "idle", limits |-> Limits["FREE"], rows |-> NoRows]

\* Bug: compared the wrong way round, the trials that still run.
Due_Running == user.plan = "FREE" /\ user.ends = "ahead" /\ ~user.expired

Due == user.plan = "FREE" /\ user.ends = "past" /\ ~user.expired

\* Bug: a SELECT without FOR UPDATE.
SelectDue_Unlocked ==
  /\ hk.pc = "idle"
  /\ Due
  /\ hk' = [hk EXCEPT !.pc = "selected"]
  /\ UNCHANGED <<user, monitors, made, lock, webhook, request, split, extra>>

\* FOR UPDATE SKIP LOCKED.
SelectDue ==
  /\ hk.pc = "idle" /\ lock = "none"
  /\ Due
  /\ lock' = "hk"
  /\ hk' = [hk EXCEPT !.pc = "selected"]
  /\ UNCHANGED <<user, monitors, made, webhook, request, split, extra>>

\* An earlier account of the batch commits: the locks of the whole batch are
\* released, and what was loaded of the later ones is read again.
CommitOther ==
  /\ hk.pc = "selected" /\ lock = "hk"
  /\ lock' = "none" /\ split' = TRUE
  /\ UNCHANGED <<user, monitors, made, hk, webhook, request, extra>>

ReadLimits ==
  /\ hk.pc = "selected"
  /\ hk' = [hk EXCEPT !.pc = "limited", !.limits = get_limits(user)]
  /\ UNCHANGED <<user, monitors, made, lock, webhook, request, split, extra>>

LoadMonitors ==
  /\ hk.pc = "limited"
  /\ hk' = [hk EXCEPT !.pc = "loaded", !.rows = monitors]
  /\ extra' = {}
  /\ UNCHANGED <<user, monitors, made, lock, webhook, request, split>>

\* Bug: the account is marked, its monitors run on.
CommitExpiry_MarkOnly ==
  /\ hk.pc = "loaded" /\ lock \in {"none", "hk"}
  /\ user' = [user EXCEPT !.expired = TRUE]
  /\ Unlock("hk")
  /\ hk' = NoTask
  /\ UNCHANGED <<monitors, made, webhook, request, split, extra>>

CommitExpiry ==
  /\ hk.pc = "loaded" /\ lock \in {"none", "hk"}
  /\ Save(hk.rows, Fitted(hk.rows, hk.limits, "trial_ended"))
  /\ user' = [user EXCEPT !.expired = TRUE]
  /\ Unlock("hk")
  /\ hk' = NoTask
  /\ UNCHANGED <<made, webhook, request, split, extra>>

\* An exception or a crash: the transaction is rolled back.
AbortTask ==
  /\ hk.pc # "idle"
  /\ Unlock("hk")
  /\ hk' = NoTask
  /\ UNCHANGED <<user, monitors, made, webhook, request, split, extra>>

-----------------------------------------------------------------------------
(* The billing webhook.                                                    *)

NoEvent == [pc |-> "idle", event |-> "same", plan |-> "FREE", ends |-> "none",
            rows |-> NoRows]

\* A subscription event arrives and the user is loaded: the subscription is
\* active on a plan, has ended, or is in a state that leaves the plan alone.
\* Bound: one event at a time.
Receive(event) ==
  /\ webhook.pc = "idle"
  /\ webhook' = [NoEvent EXCEPT !.pc = "received", !.event = event,
                                !.plan = user.plan, !.ends = user.ends]
  /\ UNCHANGED <<user, monitors, made, lock, hk, request, split, extra>>

\* The plan on the loaded user once the event is applied.
NewPlan == IF webhook.event = "same" THEN webhook.plan ELSE webhook.event

PlanChanges == NewPlan # webhook.plan

\* Flush: an UPDATE takes the row's lock; without a change of plan other
\* columns may change or not.
Flush ==
  /\ webhook.pc = "received"
  /\ \/ lock = "none" /\ lock' = "webhook"
     \/ ~PlanChanges /\ UNCHANGED lock
  /\ webhook' = [webhook EXCEPT !.pc = "flushed"]
  /\ UNCHANGED <<user, monitors, made, hk, request, split, extra>>

HadTrial == NewPlan # "FREE" /\ webhook.ends # "none"

PausedByPlan == {m \in Monitor : /\ ~monitors[m].is_active
                                 /\ monitors[m].paused_reason \in PLAN_PAUSE_REASONS}

\* clear_for_paid_plan acts on a paid plan, if there was a trial or the plan
\* has paused monitors.
NeedsFit == NewPlan # "FREE" /\ (HadTrial \/ PausedByPlan # {})

ClearTrial ==
  /\ webhook.pc = "flushed"
  /\ webhook' = [webhook EXCEPT !.pc = IF NeedsFit THEN "fitting" ELSE "done"]
  /\ UNCHANGED <<user, monitors, made, lock, hk, request, split, extra>>

LoadForPlan ==
  /\ webhook.pc = "fitting"
  /\ webhook' = [webhook EXCEPT !.pc = "fitted", !.rows = monitors]
  /\ UNCHANGED <<user, monitors, made, lock, hk, request, split, extra>>

CommitEvent ==
  /\ webhook.pc \in {"done", "fitted"}
  /\ PlanChanges \/ HadTrial => lock \in {"none", "webhook"}
  /\ user' = [user EXCEPT !.plan = IF PlanChanges THEN NewPlan ELSE @,
                          !.ends = IF HadTrial THEN "none" ELSE @]
  /\ IF webhook.pc = "fitted"
     THEN Save(webhook.rows, Fitted(webhook.rows, Limits[NewPlan], "plan_limit"))
     ELSE UNCHANGED monitors
  /\ Unlock("webhook")
  /\ webhook' = NoEvent
  /\ request' = [r \in Request |->
                   [request[r] EXCEPT !.late = @ \/ (PlanChanges /\ Adds(request[r]))]]
  /\ UNCHANGED <<made, hk, split, extra>>

\* An exception: rolled back, and Stripe delivers the event again.
AbortEvent ==
  /\ webhook.pc # "idle"
  /\ Unlock("webhook")
  /\ webhook' = NoEvent
  /\ UNCHANGED <<user, monitors, made, hk, request, split, extra>>

-----------------------------------------------------------------------------

Init ==
  /\ user = [plan |-> "FREE", ends |-> "none", used |-> FALSE, expired |-> FALSE]
  /\ monitors = NoRows /\ made = 0
  /\ lock = "none" /\ split = FALSE /\ extra = {}
  /\ hk = NoTask /\ webhook = NoEvent
  /\ request = [r \in Request |-> NoRequest]

UserStep ==
  \/ StartTrial
  \/ \E r \in Request :
       \/ \E op \in {"create", "pause", "resume", "delete"} :
            \E m \in Monitor \cup {0} : Begin(r, op, m)
       \/ Check(r) \/ CommitRequest(r) \/ Refuse(r)

TaskStep ==
  SelectDue \/ CommitOther \/ ReadLimits \/ LoadMonitors \/ CommitExpiry \/ AbortTask

WebhookStep ==
  \/ \E event \in Plan \cup {"same"} : Receive(event)
  \/ Flush \/ ClearTrial \/ LoadForPlan \/ CommitEvent \/ AbortEvent

Next == UserStep \/ TrialEnds \/ TaskStep \/ WebhookStep

Spec == Init /\ [][Next]_vars

-----------------------------------------------------------------------------

\* Every variable keeps its type.
TypeOK ==
  /\ user \in User
  /\ monitors \in [Monitor -> Row]
  /\ made \in 0..Len(Home)
  /\ lock \in {"none", "hk", "webhook"} /\ split \in BOOLEAN /\ extra \subseteq Monitor
  /\ hk.pc \in {"idle", "selected", "limited", "loaded"} /\ hk.rows \in [Monitor -> Row]
  /\ webhook.pc \in {"idle", "received", "flushed", "fitting", "done", "fitted"}
  /\ webhook.rows \in [Monitor -> Row]
  /\ \A r \in Request : request[r].pc \in {"idle", "begun", "checked"}

\* Once a trial has ended on a Free account and was wound up, it runs what the
\* Free plan allows, but for what a request adds after the task has counted and
\* on an answer older than the end of the trial or than another request's
\* monitors: neither a request of its own time nor the task itself, on copies
\* however old, lets more run.
FreeAfterTrial ==
  user.plan = "FREE" /\ user.ends = "past" /\ user.expired
  => Cardinality({m \in Monitor \ extra : monitors[m].is_active})
       <= Limits["FREE"].monitors

\* A plan has room for all monitors and projects of the account.
RoomForAll(plan) ==
  /\ Limits[plan].monitors >= Len(Home)
  /\ Limits[plan].projects = Unlimited \/ Limits[plan].projects >= Len(Projects)

\* billing.py's docstring: monitors paused by a plan are resumed.  An account on
\* a paid plan with room for all its monitors has none that the plan keeps
\* paused.
PaidRunsAll ==
  user.plan # "FREE" /\ webhook.pc = "idle" /\ RoomForAll(user.plan) => PausedByPlan = {}

\* The same, as long as no batch has given up this account's lock.
LockedPaidRunsAll == split \/ PaidRunsAll

\* trial.py's docstring: a later cancellation drops to Free instead of
\* resurrecting the trial.
NoResurrection ==
  [][user.plan # "FREE" /\ user'.plan = "FREE" => ~trial_active(user')]_vars

\* The task runs every hour, does not find the row locked every time, and of its
\* transactions some commit; the webhook ends one way or the other.
TaskFairness ==
  /\ SF_vars(SelectDue)
  /\ WF_vars(ReadLimits) /\ WF_vars(LoadMonitors)
  /\ WF_vars(AbortTask) /\ ([]<><<SelectDue>>_vars => []<><<CommitExpiry>>_vars)
  /\ WF_vars(AbortEvent)

FairSpec == Spec /\ TaskFairness

\* A trial that ran out is wound up, unless the account is upgraded.
TrialIsWoundUp ==
  user.plan = "FREE" /\ user.ends = "past" ~> user.expired \/ user.plan # "FREE"
=============================================================================

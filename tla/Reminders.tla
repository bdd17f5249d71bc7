----------------------------- MODULE Reminders -----------------------------
(***************************************************************************)
(* The "trial ends in 3 days" e-mail: trial_housekeeping of                *)
(* app/workers/tasks.py and send_reminders of app/services/trial.py.       *)
(*                                                                         *)
(* A task locks every account that is due, sends to one after another and  *)
(* commits after each: the first commit, or rollback, lets go of the locks *)
(* of them all, and the task goes on from the list it has.  All trials are *)
(* in their last three days; what the e-mail says is left out.             *)
(***************************************************************************)
EXTENDS Naturals, FiniteSets

CONSTANTS
  User,
  Task,       \* housekeeping tasks that may be under way at once
  Nobody,     \* no task, no account
  Refused,    \* accounts whose address the provider never accepts
  MaxFaults   \* bound on crashes and transient failures of the provider

RemindersAssumption ==
  /\ IsFiniteSet(User) /\ Refused \subseteq User /\ MaxFaults \in Nat
  /\ Nobody \notin User \cup Task

VARIABLES
  stage,     \* "unverified", "trial" or "paid"
  marked,    \* trial_reminder_sent_at is set
  reminders, \* history: mails the account got; bound: 2 stands for more
  holder,    \* of the users row's lock
  task,      \* its list, and the account whose mail it sent and has not marked
  faults,
  excused    \* history: accounts with a fault, or a second task, on their way

vars == <<stage, marked, reminders, holder, task, faults, excused>>

Idle == [running |-> FALSE, todo |-> {}, sent |-> Nobody]

Due(u) == stage[u] = "trial" /\ ~marked[u] /\ holder[u] = Nobody

\* Accounts a task has before it.
Has(t) == task[t].todo \cup ({task[t].sent} \ {Nobody})

Freed(t) == [u \in User |-> IF holder[u] = t THEN Nobody ELSE holder[u]]

\* The verification link; a checkout (the webhook waits for the row's lock).
Verify(u) ==
  /\ stage[u] = "unverified"
  /\ stage' = [stage EXCEPT ![u] = "trial"]
  /\ UNCHANGED <<marked, reminders, holder, task, faults, excused>>

Upgrade(u) ==
  /\ stage[u] = "trial" /\ holder[u] = Nobody
  /\ stage' = [stage EXCEPT ![u] = "paid"]
  /\ UNCHANGED <<marked, reminders, holder, task, faults, excused>>

\* The SELECT ... FOR UPDATE SKIP LOCKED.
Select(t) ==
  LET due == {u \in User : Due(u)}
  IN  /\ ~task[t].running
      /\ task' = [task EXCEPT ![t] = [running |-> TRUE, todo |-> due, sent |-> Nobody]]
      /\ holder' = [u \in User |-> IF u \in due THEN t ELSE holder[u]]
      /\ excused' = excused \cup (due \cap UNION {Has(s) : s \in Task \ {t}})
      /\ UNCHANGED <<stage, marked, reminders, faults>>

\* The transport accepts.  The row is read again, but not looked at again.
Send(t, u) ==
  /\ task[t].sent = Nobody /\ u \in task[t].todo \ Refused /\ stage[u] = "trial"
  /\ reminders' = [reminders EXCEPT ![u] = IF @ = 2 THEN 2 ELSE @ + 1]
  /\ task' = [task EXCEPT ![t].todo = @ \ {u}, ![t].sent = u]
  /\ UNCHANGED <<stage, marked, holder, faults, excused>>

\* Bug: an account that was reminded stays due.
Mark_Not(t) ==
  /\ task[t].sent # Nobody
  /\ task' = [task EXCEPT ![t].sent = Nobody]
  /\ holder' = Freed(t)
  /\ UNCHANGED <<stage, marked, reminders, faults, excused>>

Mark(t) ==
  /\ task[t].sent # Nobody
  /\ marked' = [marked EXCEPT ![task[t].sent] = TRUE]
  /\ task' = [task EXCEPT ![t].sent = Nobody]
  /\ holder' = Freed(t)
  /\ UNCHANGED <<stage, reminders, faults, excused>>

\* Bug: the task ends at the first account that cannot be reminded.
Refuse_Stop(t, u) ==
  /\ task[t].sent = Nobody /\ u \in task[t].todo \cap Refused /\ stage[u] = "trial"
  /\ task' = [task EXCEPT ![t] = Idle]
  /\ holder' = Freed(t)
  /\ UNCHANGED <<stage, marked, reminders, faults, excused>>

\* send raises: rolled back, and on to the next account.
Refuse(t, u) ==
  /\ task[t].sent = Nobody /\ u \in task[t].todo \cap Refused /\ stage[u] = "trial"
  /\ task' = [task EXCEPT ![t].todo = @ \ {u}]
  /\ holder' = Freed(t)
  /\ UNCHANGED <<stage, marked, reminders, faults, excused>>

\* It raises for a transient reason, perhaps after the mail was accepted.
Flake(t, u) ==
  /\ faults < MaxFaults
  /\ task[t].sent = Nobody /\ u \in task[t].todo /\ stage[u] = "trial"
  /\ \E n \in {reminders[u], IF reminders[u] = 2 THEN 2 ELSE reminders[u] + 1} :
       reminders' = [reminders EXCEPT ![u] = n]
  /\ task' = [task EXCEPT ![t].todo = @ \ {u}]
  /\ holder' = Freed(t)
  /\ faults' = faults + 1
  /\ excused' = excused \cup {u}
  /\ UNCHANGED <<stage, marked>>

\* reminder_text formats the end of a trial that a checkout has meanwhile cleared:
\* the exception is outside the try, the task ends.
Abort(t, u) ==
  /\ task[t].sent = Nobody /\ u \in task[t].todo /\ stage[u] = "paid"
  /\ task' = [task EXCEPT ![t] = Idle]
  /\ holder' = Freed(t)
  /\ UNCHANGED <<stage, marked, reminders, faults, excused>>

Return(t) ==
  /\ task[t].running /\ Has(t) = {}
  /\ task' = [task EXCEPT ![t] = Idle]
  /\ holder' = Freed(t)
  /\ UNCHANGED <<stage, marked, reminders, faults, excused>>

Crash(t) ==
  /\ faults < MaxFaults /\ task[t].running
  /\ task' = [task EXCEPT ![t] = Idle]
  /\ holder' = Freed(t)
  /\ faults' = faults + 1
  /\ excused' = excused \cup ({task[t].sent} \ {Nobody})
  /\ UNCHANGED <<stage, marked, reminders>>

Init ==
  /\ stage \in [User -> {"unverified", "trial"}]
  /\ marked = [u \in User |-> FALSE]
  /\ reminders = [u \in User |-> 0]
  /\ holder = [u \in User |-> Nobody]
  /\ task = [t \in Task |-> Idle]
  /\ faults = 0
  /\ excused = {}

\* What a task does by itself once the beat has started it.
TaskStep(t) ==
  \/ \E u \in User : Send(t, u) \/ Refuse(t, u) \/ Abort(t, u)
  \/ Mark(t) \/ Return(t)

Next ==
  \/ \E u \in User : Verify(u) \/ Upgrade(u)
  \/ \E t \in Task : Select(t) \/ TaskStep(t) \/ Crash(t) \/ \E u \in User : Flake(t, u)

Spec == Init /\ [][Next]_vars

\* Tasks run to their end, and beat starts one every hour.
Fairness == \A t \in Task : WF_vars(TaskStep(t)) /\ WF_vars(Select(t))

-----------------------------------------------------------------------------

\* Every variable keeps its type.
TypeOK ==
  /\ \A u \in User : stage[u] \in {"unverified", "trial", "paid"}
  /\ marked \in [User -> BOOLEAN] /\ reminders \in [User -> 0..2]
  /\ holder \in [User -> Task \cup {Nobody}]
  /\ task \in [Task -> [running : BOOLEAN, todo : SUBSET User, sent : User \cup {Nobody}]]
  /\ faults \in 0..MaxFaults /\ excused \subseteq User

\* "It is the only reminder we send", unless a crash or an exception came between the
\* e-mail and its mark, or two tasks had the account on their lists.
RemindedOnce == \A u \in User : reminders[u] > 1 => u \in excused

\* An account that stays on its trial is reminded, whatever happens to the other
\* accounts of its batch.
EachReminded ==
  \A u \in User \ Refused : <>[](stage[u] = "trial") => <>(reminders[u] > 0)
=============================================================================

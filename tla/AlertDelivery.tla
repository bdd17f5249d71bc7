--------------------------- MODULE AlertDelivery ---------------------------
(***************************************************************************)
(* One row of alert_deliveries and the messages of send_alert_delivery     *)
(* (app/workers/tasks.py) that carry its id: Celery's retries, the errors  *)
(* of the database and of the channel, the process that dies, and the      *)
(* broker that delivers a message twice.                                   *)
(*                                                                         *)
(* A run of the task is split at its commits and at the call to the        *)
(* channel's service; between them other runs, and the user, may come in.  *)
(* A commit may go through without its answer: the run then raises, and    *)
(* Celery repeats a task whose work is done.                               *)
(***************************************************************************)
EXTENDS Integers

CONSTANTS
  Message,     \* the original message of this delivery and its copies
  MaxRetries   \* max_retries of the task

ASSUME ConstantsAssumption == MaxRetries \in Nat

VARIABLES
  state,      \* the row's state; "gone" once a cascade deleted the row
  attempts,   \* its attempts
  active,     \* its channel's is_active
  message,    \* each message, and the run it is in
  sends,      \* history: calls of the channel's service
  accepted,   \* history: one of them was accepted
  lost        \* history: a message ended without an outcome in the row

vars == <<state, attempts, active, message, sends, accepted, lost>>

Terminal == {"sent", "failed"}

Running == {"loaded", "sending", "returned", "raised"}

Run == [pc      : {"unused", "queued", "ended"} \cup Running,
        retries : 0..MaxRetries,   \* self.request.retries
        seen    : Nat]             \* delivery.attempts as loaded

Ended == [pc |-> "ended", retries |-> 0, seen |-> 0]

-----------------------------------------------------------------------------
(* The run of a message.                                                   *)

Step(t, run) == message' = [message EXCEPT ![t] = run]

\* autoretry_for=(Exception,): Celery queues the message again, up to
\* MaxRetries times.
Retry(t) ==
  IF message[t].retries < MaxRetries
  THEN Step(t, [Ended EXCEPT !.pc = "queued", !.retries = message[t].retries + 1])
  ELSE Step(t, Ended)

Raise(t) ==
  /\ Retry(t)
  /\ lost' = (lost \/ message[t].retries >= MaxRetries)

\* A commit after which the run goes on as `run'; or its answer is lost, and
\* the run takes what was committed for an error.
Commit(t, run) == (Step(t, run) /\ lost' = lost) \/ Raise(t)

\* Bug: only a delivery that failed is skipped.
Start_FailedOnly(t) ==
  /\ message[t].pc = "queued"
  /\ Step(t, IF state \in {"pending", "sent"}
             THEN [message[t] EXCEPT !.pc = "loaded", !.seen = attempts]
             ELSE Ended)
  /\ UNCHANGED <<state, attempts, active, sends, accepted, lost>>

\* session.get(): a row that is gone, or in a terminal state, ends the run.
Start(t) ==
  /\ message[t].pc = "queued"
  /\ Step(t, IF state = "pending"
             THEN [message[t] EXCEPT !.pc = "loaded", !.seen = attempts]
             ELSE Ended)
  /\ UNCHANGED <<state, attempts, active, sends, accepted, lost>>

\* Channel inactive: the delivery fails for good.
CloseChannel(t) ==
  /\ message[t].pc = "loaded"
  /\ ~active /\ state # "gone"
  /\ state' = "failed"
  /\ Commit(t, Ended)
  /\ UNCHANGED <<attempts, active, sends, accepted>>

\* Bug: the attempt is counted with its outcome.
CountAttempt_Later(t) ==
  /\ message[t].pc = "loaded"
  /\ active /\ state # "gone"
  /\ Commit(t, [message[t] EXCEPT !.pc = "sending"])
  /\ UNCHANGED <<state, attempts, active, sends, accepted>>

\* Count the attempt and commit.
CountAttempt(t) ==
  /\ message[t].pc = "loaded"
  /\ active /\ state # "gone"
  /\ attempts' = message[t].seen + 1
  /\ Commit(t, [message[t] EXCEPT !.pc = "sending"])
  /\ UNCHANGED <<state, active, sends, accepted>>

\* Bug: an exception of the service is swallowed.
Send_Swallowed(t) ==
  /\ message[t].pc = "sending"
  /\ state # "gone"
  /\ sends' = sends + 1
  /\ \E ok \in BOOLEAN :
       /\ accepted' = (accepted \/ ok)
       /\ Step(t, [message[t] EXCEPT !.pc = "returned"])
  /\ UNCHANGED <<state, attempts, active, lost>>

\* send_delivery_sync.  It returns when the service accepted the alert; it
\* raises when it did not, and when the answer got lost.
Send(t) ==
  /\ message[t].pc = "sending"
  /\ state # "gone"
  /\ sends' = sends + 1
  /\ \/ /\ accepted' = TRUE
        /\ Step(t, [message[t] EXCEPT !.pc = "returned"])
     \/ /\ accepted' \in {accepted, TRUE}
        /\ Step(t, [message[t] EXCEPT !.pc = "raised"])
  /\ UNCHANGED <<state, attempts, active, lost>>

RecordSent(t) ==
  /\ message[t].pc = "returned"
  /\ state # "gone"
  /\ state' = "sent"
  /\ Commit(t, Ended)
  /\ UNCHANGED <<attempts, active, sends, accepted>>

\* Bug: the failure of the last retry is not recorded.
LastRetry_OffByOne(t) == message[t].retries > MaxRetries

LastRetry(t) == message[t].retries >= MaxRetries

RecordFailed(t) ==
  /\ message[t].pc = "raised"
  /\ LastRetry(t) /\ state # "gone"
  /\ state' = "failed"
  /\ Commit(t, Ended)
  /\ UNCHANGED <<attempts, active, sends, accepted>>

\* The exception of the service is raised again, to be retried.
Reraise(t) ==
  /\ message[t].pc = "raised"
  /\ ~LastRetry(t) /\ state # "gone"
  /\ Retry(t)
  /\ UNCHANGED <<state, attempts, active, sends, accepted, lost>>

\* A query or a commit raises: the database is away, or the row is gone.
DatabaseError(t) ==
  /\ message[t].pc \in {"queued"} \cup Running
  /\ Raise(t)
  /\ UNCHANGED <<state, attempts, active, sends, accepted>>

\* Messages are acknowledged before they run: a process that dies takes its
\* run with it.
Crash(t) ==
  /\ message[t].pc \in Running
  /\ Step(t, Ended)
  /\ lost' = TRUE
  /\ UNCHANGED <<state, attempts, active, sends, accepted>>

-----------------------------------------------------------------------------
(* The broker and the user.                                                *)

\* The broker delivers a message again.  Bound: each member of Message is one
\* delivery of the original or of a copy, with the retries it causes.
Duplicate(t, u) ==
  /\ message[t].pc = "queued" /\ message[u].pc = "unused"
  /\ Step(u, message[t])
  /\ UNCHANGED <<state, attempts, active, sends, accepted, lost>>

\* PATCH /alerts/{id}.
ToggleChannel ==
  /\ active' = ~active
  /\ UNCHANGED <<state, attempts, message, sends, accepted, lost>>

\* The channel, the monitor or the project is deleted, and the row with it.
DeleteRow ==
  /\ state # "gone"
  /\ state' = "gone"
  /\ UNCHANGED <<attempts, active, message, sends, accepted, lost>>

-----------------------------------------------------------------------------

\* finalize_check_result has committed the row and dispatched its message.
Init ==
  /\ state = "pending" /\ attempts = 0 /\ active = TRUE
  /\ \E t \in Message :
       message = [u \in Message |->
                    [Ended EXCEPT !.pc = IF u = t THEN "queued" ELSE "unused"]]
  /\ sends = 0 /\ accepted = FALSE /\ lost = FALSE

RunStep(t) ==
  \/ Start(t) \/ CloseChannel(t) \/ CountAttempt(t) \/ Send(t)
  \/ RecordSent(t) \/ RecordFailed(t) \/ Reraise(t)

Next ==
  \/ \E t \in Message : \/ RunStep(t) \/ DatabaseError(t) \/ Crash(t)
                        \/ \E u \in Message : Duplicate(t, u)
  \/ ToggleChannel \/ DeleteRow

Spec == Init /\ [][Next]_vars

-----------------------------------------------------------------------------

\* Every variable keeps its type.
TypeOK ==
  /\ state \in {"pending", "gone"} \cup Terminal
  /\ attempts \in Nat /\ sends \in Nat
  /\ active \in BOOLEAN /\ accepted \in BOOLEAN /\ lost \in BOOLEAN
  /\ message \in [Message -> Run]

\* The broker has delivered no copy of the message.
NotRepeated ==
  \A t, u \in Message : message[t].pc # "unused" /\ message[u].pc # "unused" => t = u

\* The attempts a reader of the row sees cover every call of the service, also
\* those whose outcome was never recorded, and no delivery is tried more often
\* than Celery grants: unless two copies count over each other.
SendsCounted == NotRepeated => sends <= attempts /\ attempts <= MaxRetries + 1

\* "sent" is never a guess: the service accepted the alert.
SentWasAccepted == state = "sent" => accepted

\* send_alert_delivery's docstring: a terminal state short-circuits a re-run.
\* Nothing is sent, counted or decided again once the row says sent or failed,
\* however often Celery retries.  (A copy that runs at the same time has read
\* the row as pending; for it the docstring is wrong.)
TerminalIsFinal ==
  [][(NotRepeated /\ state \in Terminal)
       => /\ state' \in {state, "gone"}
          /\ attempts' = attempts /\ sends' = sends]_vars

\* Executors run what is queued and finish what they run.
FairSpec == Spec /\ \A t \in Message : WF_vars(RunStep(t))

\* A dispatched delivery does not stay pending, through any number of refusals,
\* unless a process died with it or the database refused it to the end.
Settled == <>(state # "pending" \/ lost)
=============================================================================

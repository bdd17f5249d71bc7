------------------------ MODULE AlertDeliveryProofs ------------------------
(***************************************************************************)
(* Proofs about AlertDelivery for every MaxRetries.                        *)
(*                                                                         *)
(* That "sent" means accepted holds however many copies of the message the *)
(* broker delivers.  The other two properties are proved up to the first   *)
(* copy: two runs at once count and decide over each other.                *)
(***************************************************************************)
EXTENDS AlertDelivery, TLAPS

\* A run that comes back from the service was accepted by it.
ReturnedWasAccepted == \A t \in Message : message[t].pc = "returned" => accepted

SentInv == TypeOK /\ SentWasAccepted /\ ReturnedWasAccepted

-----------------------------------------------------------------------------

LEMMA EndedType ==
  /\ Ended \in Run /\ Ended.pc = "ended"
BY ConstantsAssumption DEF Ended, Run

LEMMA QueuedType ==
  ASSUME NEW n \in 0..MaxRetries,
         NEW run, run = [Ended EXCEPT !.pc = "queued", !.retries = n]
  PROVE  run \in Run /\ run.pc = "queued" /\ run.retries = n
<1>1. run = [pc |-> "queued", retries |-> n, seen |-> 0]
  BY DEF Ended
<1> QED
  BY <1>1 DEF Run

\* A step that puts message t into a run leaves the others alone.
LEMMA StepFacts ==
  ASSUME TypeOK, NEW t \in Message, NEW run \in Run, Step(t, run)
  PROVE  /\ message' \in [Message -> Run]
         /\ message'[t] = run
         /\ \A u \in Message \ {t} : message'[u] = message[u]
BY DEF Step, TypeOK

\* The next run of message t, wherever it is.
LEMMA PcType ==
  ASSUME TypeOK, NEW t \in Message, NEW pc \in Running,
         NEW run, run = [message[t] EXCEPT !.pc = pc]
  PROVE  /\ run \in Run /\ run.pc = pc
         /\ run.retries = message[t].retries /\ run.seen = message[t].seen
<1>1. message[t] \in Run
  BY DEF TypeOK
<1> QED
  BY <1>1 DEF Run, Running

\* Retry queues the message again while Celery grants it, and then ends it.
LEMMA RetryFacts ==
  ASSUME TypeOK, NEW t \in Message, Retry(t)
  PROVE  /\ message' \in [Message -> Run]
         /\ \A u \in Message \ {t} : message'[u] = message[u]
         /\ \/ message'[t] = Ended
            \/ /\ message'[t].pc = "queued"
               /\ message'[t].retries = message[t].retries + 1
<1>1. message[t] \in Run
  BY DEF TypeOK
<1>2. CASE message[t].retries < MaxRetries
  <2>1. PICK run : run = [Ended EXCEPT !.pc = "queued", !.retries = message[t].retries + 1]
    OBVIOUS
  <2>2. message[t].retries + 1 \in 0..MaxRetries
    BY <1>1, <1>2, ConstantsAssumption DEF Run
  <2>3. run \in Run /\ run.pc = "queued" /\ run.retries = message[t].retries + 1
    BY <2>1, <2>2, QueuedType
  <2>4. Step(t, run)
    BY <1>2, <2>1 DEF Retry
  <2> QED
    BY <2>3, <2>4, StepFacts
<1>3. CASE ~(message[t].retries < MaxRetries)
  BY <1>3, EndedType, StepFacts DEF Retry
<1> QED
  BY <1>2, <1>3

\* Message t raised: it is queued again or ended, and the others stay.
Raised(t) ==
  /\ message' \in [Message -> Run]
  /\ \A u \in Message \ {t} : message'[u] = message[u]
  /\ \/ message'[t] = Ended
     \/ /\ message'[t].pc = "queued"
        /\ message'[t].retries = message[t].retries + 1

\* Message t goes on at pc.
Moved(t, pc) ==
  /\ message' \in [Message -> Run]
  /\ \A u \in Message \ {t} : message'[u] = message[u]
  /\ message'[t].pc = pc
  /\ message'[t].retries = message[t].retries

LEMMA RaiseFacts ==
  ASSUME TypeOK, NEW t \in Message, Raise(t)
  PROVE  Raised(t) /\ lost' \in BOOLEAN
BY RetryFacts DEF Raise, Raised, TypeOK

\* What a step does to the message of a run, stated once for all the proofs.
LEMMA MessageSteps ==
  ASSUME TypeOK, NEW t \in Message
  PROVE  /\ Start(t) =>
              /\ message' \in [Message -> Run]
              /\ \A u \in Message \ {t} : message'[u] = message[u]
              /\ \/ message'[t] = Ended
                 \/ /\ state = "pending"
                    /\ message'[t].pc = "loaded" /\ message'[t].seen = attempts
                    /\ message'[t].retries = message[t].retries
         /\ CloseChannel(t) \/ RecordSent(t) \/ RecordFailed(t) \/ Crash(t) =>
              Raised(t) /\ lost' \in BOOLEAN
         /\ CountAttempt(t) =>
              (Moved(t, "sending") \/ Raised(t)) /\ lost' \in BOOLEAN
         /\ Send(t) => (Moved(t, "returned") /\ accepted') \/ Moved(t, "raised")
         /\ Reraise(t) \/ DatabaseError(t) => Raised(t) /\ lost' \in BOOLEAN
<1>1. ASSUME Start(t)
      PROVE  /\ message' \in [Message -> Run]
             /\ \A u \in Message \ {t} : message'[u] = message[u]
             /\ \/ message'[t] = Ended
                \/ /\ state = "pending"
                   /\ message'[t].pc = "loaded" /\ message'[t].seen = attempts
                   /\ message'[t].retries = message[t].retries
  <2>1. CASE state = "pending"
    <3>1. PICK run : run = [message[t] EXCEPT !.pc = "loaded", !.seen = attempts]
      OBVIOUS
    <3>2. /\ run \in Run /\ run.pc = "loaded" /\ run.seen = attempts
          /\ run.retries = message[t].retries
      BY <3>1 DEF TypeOK, Run, Running
    <3>3. Step(t, run)
      BY <1>1, <2>1, <3>1 DEF Start
    <3> QED
      BY <2>1, <3>2, <3>3, StepFacts
  <2>2. CASE state # "pending"
    BY <1>1, <2>2, EndedType, StepFacts DEF Start
  <2> QED
    BY <2>1, <2>2
<1>2. ASSUME Step(t, Ended) PROVE Raised(t)
  BY <1>2, EndedType, StepFacts DEF Raised
<1>3. ASSUME Commit(t, Ended) PROVE Raised(t) /\ lost' \in BOOLEAN
  BY <1>2, <1>3, RaiseFacts DEF Commit, TypeOK
<1>4. ASSUME CloseChannel(t) \/ RecordSent(t) \/ RecordFailed(t) \/ Crash(t)
      PROVE  Raised(t) /\ lost' \in BOOLEAN
  BY <1>2, <1>3, <1>4 DEF CloseChannel, RecordSent, RecordFailed, Crash
<1>5. ASSUME NEW pc \in Running, Step(t, [message[t] EXCEPT !.pc = pc])
      PROVE  Moved(t, pc)
  <2>1. PICK run : run = [message[t] EXCEPT !.pc = pc]
    OBVIOUS
  <2> QED
    BY <1>5, <2>1, PcType, StepFacts DEF Moved
<1>6. "sending" \in Running /\ "returned" \in Running /\ "raised" \in Running
  BY DEF Running
<1>7. ASSUME CountAttempt(t)
      PROVE  (Moved(t, "sending") \/ Raised(t)) /\ lost' \in BOOLEAN
  BY <1>5, <1>6, <1>7, RaiseFacts DEF CountAttempt, Commit, TypeOK
<1>8. Send(t) => (Moved(t, "returned") /\ accepted') \/ Moved(t, "raised")
  BY <1>5, <1>6 DEF Send
<1>9. Reraise(t) \/ DatabaseError(t) => Raised(t) /\ lost' \in BOOLEAN
  BY RaiseFacts, RetryFacts DEF Reraise, DatabaseError, Raised, TypeOK
<1> QED
  BY <1>1, <1>4, <1>7, <1>8, <1>9

-----------------------------------------------------------------------------
(* Any number of messages.                                                 *)

LEMMA InitFacts ==
  ASSUME Init
  PROVE  /\ TypeOK
         /\ \A t \in Message : message[t].pc \in {"queued", "unused"}
<1>1. PICK t \in Message :
        message = [u \in Message |->
                     [Ended EXCEPT !.pc = IF u = t THEN "queued" ELSE "unused"]]
  BY DEF Init
<1>2. ASSUME NEW u \in Message
      PROVE  message[u] \in Run /\ message[u].pc \in {"queued", "unused"}
  <2>1. message[u] = [pc |-> IF u = t THEN "queued" ELSE "unused",
                      retries |-> 0, seen |-> 0]
    BY <1>1 DEF Ended
  <2> QED
    BY <2>1, ConstantsAssumption DEF Run
<1>3. message = [u \in Message |-> message[u]]
  BY <1>1
<1>4. message \in [Message -> Run]
  BY <1>2, <1>3
<1> QED
  BY <1>2, <1>4 DEF Init, TypeOK

LEMMA SentInvStep ==
  ASSUME SentInv, [Next]_vars
  PROVE  SentInv'
<1> USE DEF SentInv
<1>a. ASSUME message' \in [Message -> Run],
             state' \in {"pending", "gone"} \cup Terminal, attempts' \in Nat,
             sends' \in Nat, active' \in BOOLEAN, accepted' \in BOOLEAN, lost' \in BOOLEAN,
             state' = "sent" => accepted',
             \A u \in Message : message'[u].pc = "returned" => accepted'
      PROVE  SentInv'
  BY <1>a DEF TypeOK, SentWasAccepted, ReturnedWasAccepted
<1>1. CASE UNCHANGED vars
  BY <1>1 DEF vars, TypeOK, SentWasAccepted, ReturnedWasAccepted
<1>2. ASSUME NEW t \in Message, Start(t) PROVE SentInv'
  BY <1>a, <1>2, MessageSteps, EndedType
     DEF Start, TypeOK, SentWasAccepted, ReturnedWasAccepted
<1>3. ASSUME NEW t \in Message, Raised(t), lost' \in BOOLEAN,
             state' \in {"pending", "gone", "failed", state},
             UNCHANGED <<active, sends, accepted>>, attempts' = attempts
      PROVE  SentInv'
  BY <1>a, <1>3, EndedType DEF Raised, TypeOK, Terminal, SentWasAccepted, ReturnedWasAccepted
<1>4. ASSUME NEW t \in Message,
             \/ CloseChannel(t) \/ RecordFailed(t) \/ Crash(t)
             \/ Reraise(t) \/ DatabaseError(t)
      PROVE  SentInv'
  <2>1. /\ state' \in {"pending", "gone", "failed", state}
        /\ UNCHANGED <<active, sends, accepted>> /\ attempts' = attempts
    BY <1>4 DEF CloseChannel, RecordFailed, Crash, Reraise, DatabaseError
  <2>2. Raised(t) /\ lost' \in BOOLEAN
    BY <1>4, MessageSteps
  <2> QED
    BY <1>3, <2>1, <2>2
<1>5. ASSUME NEW t \in Message, RecordSent(t) PROVE SentInv'
  <2>1. Raised(t) /\ lost' \in BOOLEAN
    BY <1>5, MessageSteps
  <2> QED
    BY <1>a, <1>5, <2>1, EndedType
       DEF RecordSent, Raised, TypeOK, Terminal, SentWasAccepted, ReturnedWasAccepted
<1>6. ASSUME NEW t \in Message, CountAttempt(t) PROVE SentInv'
  <2>1. attempts' \in Nat /\ UNCHANGED <<state, active, sends, accepted>>
    BY <1>6 DEF CountAttempt, TypeOK, Run
  <2>2. (Moved(t, "sending") \/ Raised(t)) /\ lost' \in BOOLEAN
    BY <1>6, MessageSteps
  <2> QED
    BY <1>a, <2>1, <2>2, EndedType
       DEF Moved, Raised, TypeOK, SentWasAccepted, ReturnedWasAccepted
<1>7. ASSUME NEW t \in Message, Send(t) PROVE SentInv'
  <2>1. /\ sends' \in Nat /\ accepted' \in BOOLEAN /\ (accepted => accepted')
        /\ UNCHANGED <<state, attempts, active, lost>>
    <3>1. sends' \in Nat /\ UNCHANGED <<state, attempts, active, lost>>
      BY <1>7 DEF Send, TypeOK
    <3>2. accepted' = TRUE \/ accepted' = accepted
      BY <1>7 DEF Send
    <3> QED
      BY <3>1, <3>2 DEF TypeOK
  <2>2. (Moved(t, "returned") /\ accepted') \/ Moved(t, "raised")
    BY <1>7, MessageSteps
  <2> QED
    BY <1>a, <2>1, <2>2 DEF Moved, TypeOK, SentWasAccepted, ReturnedWasAccepted
<1>8. ASSUME NEW t \in Message, NEW u \in Message, Duplicate(t, u) PROVE SentInv'
  <2>1. /\ message' \in [Message -> Run]
        /\ \A v \in Message : message'[v].pc = "returned" => message[v].pc = "returned"
    BY <1>8, StepFacts DEF Duplicate, TypeOK
  <2> QED
    BY <1>a, <1>8, <2>1 DEF Duplicate, TypeOK, SentWasAccepted, ReturnedWasAccepted
<1>9. CASE ToggleChannel \/ DeleteRow
  BY <1>a, <1>9
     DEF ToggleChannel, DeleteRow, TypeOK, Terminal, SentWasAccepted, ReturnedWasAccepted
<1> QED
  BY <1>1, <1>2, <1>3, <1>4, <1>5, <1>6, <1>7, <1>8, <1>9 DEF Next, RunStep

\* However often the broker repeats a message, and wherever a run breaks off,
\* the row says "sent" only when the channel's service accepted the alert.
THEOREM SentIsTrue == Spec => [](TypeOK /\ SentWasAccepted)
<1>1. Init => SentInv
  BY InitFacts DEF Init, SentInv, SentWasAccepted, ReturnedWasAccepted
<1> QED
  BY <1>1, SentInvStep, PTL DEF Spec, SentInv

-----------------------------------------------------------------------------
(* As long as the broker repeats no message.                               *)

\* Where the message is, the row's counters are in step with Celery's, and no
\* run is under way once the row is decided.
InStep(t) ==
  /\ message[t].pc \in {"queued", "loaded"} => attempts <= message[t].retries
  /\ message[t].pc = "loaded" => message[t].seen = attempts
  /\ message[t].pc \in {"sending", "returned", "raised"}
       => attempts <= message[t].retries + 1
  /\ message[t].pc = "sending" => sends + 1 <= attempts
  /\ state \in Terminal => message[t].pc \notin Running

Counted == sends <= attempts /\ attempts <= MaxRetries + 1

CountInv == TypeOK /\ (NotRepeated => Counted /\ \A t \in Message : InStep(t))

\* No step makes a message one that was never delivered.
LEMMA UsedStaysUsed ==
  ASSUME TypeOK, Next, NEW t \in Message, message[t].pc # "unused"
  PROVE  message'[t].pc # "unused"
<1>1. ASSUME NEW u \in Message, RunStep(u) \/ DatabaseError(u) \/ Crash(u)
      PROVE  message'[t].pc # "unused"
  <2>1. /\ \A v \in Message \ {u} : message'[v] = message[v]
        /\ message'[u].pc # "unused"
    BY <1>1, MessageSteps, EndedType DEF RunStep, Raised, Moved
  <2> QED
    BY <2>1
<1>2. ASSUME NEW u \in Message, NEW v \in Message, Duplicate(u, v)
      PROVE  message'[t].pc # "unused"
  <2>1. message' = [message EXCEPT ![v] = message[u]] /\ message[u].pc = "queued"
    BY <1>2 DEF Duplicate, Step
  <2> QED
    BY <2>1 DEF TypeOK
<1>3. CASE ToggleChannel \/ DeleteRow
  BY <1>3 DEF ToggleChannel, DeleteRow
<1> QED
  BY <1>1, <1>2, <1>3 DEF Next

LEMMA CountInvStep ==
  ASSUME CountInv, TypeOK', [Next]_vars
  PROVE  CountInv'
<1> SUFFICES ASSUME NotRepeated' PROVE Counted' /\ \A t \in Message : InStep(t)'
  BY DEF CountInv
<1>n. NotRepeated
  <2>1. CASE UNCHANGED vars
    BY <2>1 DEF vars, NotRepeated
  <2>2. CASE Next
    <3>1. \A t \in Message : message[t].pc # "unused" => message'[t].pc # "unused"
      BY <2>2, UsedStaysUsed DEF CountInv
    <3> QED
      BY <3>1 DEF NotRepeated
  <2> QED
    BY <2>1, <2>2
<1>i. TypeOK /\ Counted /\ \A t \in Message : InStep(t)
  BY <1>n DEF CountInv
<1> USE <1>i
<1>0. \A t \in Message : message[t] \in Run /\ message[t].retries \in 0..MaxRetries
  BY DEF TypeOK, Run
<1>1. CASE UNCHANGED vars
  BY <1>1 DEF vars, Counted, InStep
<1>2. ASSUME NEW t \in Message, \/ RunStep(t) \/ DatabaseError(t) \/ Crash(t)
      PROVE  Counted' /\ \A u \in Message : InStep(u)'
  <2>a. message[t].pc # "unused"
    BY <1>2 DEF RunStep, DatabaseError, Crash, Start, CloseChannel, CountAttempt, Send,
                RecordSent, RecordFailed, Reraise, Running
  <2>b. \A u \in Message \ {t} : message[u].pc = "unused"
    BY <1>n, <2>a DEF NotRepeated
  <2>c. \A u \in Message \ {t} : message'[u] = message[u]
    BY <1>2, MessageSteps DEF RunStep, Raised, Moved
  <2>d. \A u \in Message \ {t} : InStep(u)'
    BY <2>b, <2>c DEF InStep, Running
  <2>1. SUFFICES Counted' /\ InStep(t)'
    BY <2>d
  <2>2. CASE Start(t)
    <3>1. UNCHANGED <<state, attempts, sends>> /\ message[t].pc = "queued"
      BY <2>2 DEF Start
    <3> QED
      BY <2>2, <3>1, MessageSteps, EndedType
         DEF Counted, InStep, Terminal, Running, TypeOK
  <2>3. ASSUME Raised(t), UNCHANGED sends,
               attempts' <= message[t].retries + 1, attempts <= attempts',
               attempts' <= MaxRetries + 1
        PROVE  Counted' /\ InStep(t)'
    BY <2>3, EndedType DEF Raised, Counted, InStep, Running, TypeOK
  <2>4. CASE CountAttempt(t)
    <3>1. /\ message[t].pc = "loaded" /\ attempts' = message[t].seen + 1
          /\ UNCHANGED <<state, sends>>
      BY <2>4 DEF CountAttempt
    <3>2. attempts' = attempts + 1 /\ attempts <= message[t].retries /\ state \notin Terminal
      BY <3>1 DEF InStep, Running
    <3>3. Moved(t, "sending") \/ Raised(t)
      BY <2>4, MessageSteps
    <3>4. CASE Moved(t, "sending")
      BY <1>0, <3>1, <3>2, <3>4, ConstantsAssumption DEF Moved, Counted, InStep, TypeOK
    <3>5. CASE Raised(t)
      BY <1>0, <2>3, <3>1, <3>2, <3>5, ConstantsAssumption DEF TypeOK
    <3> QED
      BY <3>3, <3>4, <3>5
  <2>5. CASE Send(t)
    <3>1. /\ message[t].pc = "sending" /\ sends' = sends + 1
          /\ UNCHANGED <<state, attempts>>
      BY <2>5 DEF Send
    <3>2. sends + 1 <= attempts /\ attempts <= message[t].retries + 1 /\ state \notin Terminal
      BY <3>1 DEF InStep, Running
    <3>3. Moved(t, "returned") \/ Moved(t, "raised")
      BY <2>5, MessageSteps
    <3> QED
      BY <1>0, <3>1, <3>2, <3>3 DEF Moved, Counted, InStep, TypeOK
  <2>6. CASE \/ CloseChannel(t) \/ RecordSent(t) \/ RecordFailed(t) \/ Crash(t)
             \/ Reraise(t) \/ DatabaseError(t)
    <3>1. /\ UNCHANGED <<attempts, sends>>
          /\ message[t].pc \in {"queued"} \cup Running
      BY <2>6 DEF CloseChannel, RecordSent, RecordFailed, Crash, Reraise, DatabaseError,
                  Running
    <3>2. attempts <= message[t].retries + 1
      BY <1>0, <3>1 DEF InStep, Running, TypeOK
    <3>3. Raised(t)
      BY <2>6, MessageSteps
    <3> QED
      BY <2>3, <3>1, <3>2, <3>3 DEF Counted, TypeOK
  <2> QED
    BY <1>2, <2>2, <2>4, <2>5, <2>6 DEF RunStep
<1>3. ASSUME NEW t \in Message, NEW u \in Message, Duplicate(t, u) PROVE FALSE
  <2>1. /\ message[t].pc = "queued" /\ message[u].pc = "unused"
        /\ message' = [message EXCEPT ![u] = message[t]]
    BY <1>3 DEF Duplicate, Step
  <2>2. t # u /\ message'[t].pc = "queued" /\ message'[u].pc = "queued"
    BY <2>1 DEF TypeOK
  <2> QED
    BY <2>2 DEF NotRepeated
<1>4. CASE ToggleChannel \/ DeleteRow
  BY <1>4 DEF ToggleChannel, DeleteRow, Counted, InStep, Terminal
<1> QED
  BY <1>1, <1>2, <1>3, <1>4 DEF Next

LEMMA CountInvariant == Spec => []CountInv
<1>1. Init => CountInv
  <2> SUFFICES ASSUME Init PROVE CountInv
    OBVIOUS
  <2>1. TypeOK /\ Counted
    <3>1. sends = 0 /\ attempts = 0
      BY DEF Init
    <3> QED
      BY <3>1, InitFacts, ConstantsAssumption DEF Counted
  <2>2. ASSUME NEW t \in Message PROVE InStep(t)
    <3>1. message[t].pc \in {"queued", "unused"} /\ message[t].retries \in 0..MaxRetries
      BY <2>1, InitFacts DEF TypeOK, Run
    <3>2. attempts = 0 /\ state = "pending"
      BY DEF Init
    <3> QED
      BY <3>1, <3>2, ConstantsAssumption DEF InStep, Terminal
  <2> QED
    BY <2>1, <2>2 DEF CountInv
<1>2. CountInv /\ TypeOK' /\ [Next]_vars => CountInv'
  BY CountInvStep
<1> QED
  BY <1>1, <1>2, SentIsTrue, PTL DEF Spec

\* The row's attempts cover every call of the service, recorded or not, and
\* stay within what Celery grants.
THEOREM AttemptsCoverSends == Spec => []SendsCounted
<1>1. CountInv => SendsCounted
  BY ZenonT(40) DEF CountInv, Counted, SendsCounted
<1> QED
  BY <1>1, CountInvariant, PTL

\* send_alert_delivery's docstring, as long as the message is not repeated: once
\* sent or failed, the row is final.
THEOREM OutcomeIsFinal == Spec => TerminalIsFinal
<1>1. CountInv /\ [Next]_vars =>
        [(NotRepeated /\ state \in Terminal)
           => /\ state' \in {state, "gone"}
              /\ attempts' = attempts /\ sends' = sends]_vars
  <2> SUFFICES ASSUME CountInv, Next, NotRepeated, state \in Terminal
               PROVE  /\ state' \in {state, "gone"}
                      /\ attempts' = attempts /\ sends' = sends
    OBVIOUS
  <2>1. \A t \in Message : message[t].pc \notin Running
    BY DEF CountInv, InStep
  <2> QED
    BY <2>1 DEF Next, RunStep, Start, CloseChannel, CountAttempt, Send, RecordSent,
                RecordFailed, Reraise, DatabaseError, Crash, Duplicate, ToggleChannel,
                DeleteRow, Running
<1> QED
  BY <1>1, CountInvariant, PTL DEF Spec, TerminalIsFinal

-----------------------------------------------------------------------------
(* That a delivery comes to its end, but for the scheduling of the runs:    *)
(* what is pending is on its way, and the way is finite.                   *)

UnderWay(t) == message[t].pc \in {"queued"} \cup Running

\* A delivery that is pending has a message queued or running, unless it was recorded
\* as lost: no refusal, retry, copy, channel switched off or lost answer of a commit
\* leaves a row that says "pending" and that nobody will look at again.
PendingIsCarried == state = "pending" => lost \/ \E t \in Message : UnderWay(t)

LEMMA CarriedStep ==
  ASSUME TypeOK, PendingIsCarried, [Next]_vars
  PROVE  PendingIsCarried'
<1> SUFFICES ASSUME state' = "pending", ~lost' PROVE \E t \in Message : UnderWay(t)'
  BY DEF PendingIsCarried
<1>1. CASE UNCHANGED vars
  BY <1>1 DEF vars, PendingIsCarried, UnderWay
<1>2. ASSUME NEW t \in Message, \/ RunStep(t) \/ DatabaseError(t) \/ Crash(t)
      PROVE  \E u \in Message : UnderWay(u)'
  <2>1. message[t] \in Run /\ message \in [Message -> Run]
    BY DEF TypeOK
  <2>2. ASSUME Retry(t), message[t].retries < MaxRetries PROVE UnderWay(t)'
    <3>2. PICK run : run = [Ended EXCEPT !.pc = "queued", !.retries = message[t].retries + 1]
      OBVIOUS
    <3>3. run.pc = "queued"
      BY <3>2 DEF Ended
    <3>4. message' = [message EXCEPT ![t] = run]
      BY <2>2, <3>2 DEF Retry, Step
    <3> QED
      BY <2>1, <3>3, <3>4 DEF UnderWay
  <2>3. ASSUME Raise(t) PROVE UnderWay(t)'
    <3>1. ~(message[t].retries >= MaxRetries)
      BY <2>3, Zenon DEF Raise
    <3>2. message[t].retries < MaxRetries
      BY <2>1, <3>1, ConstantsAssumption DEF Run
    <3> QED
      BY <2>2, <2>3, <3>2 DEF Raise
  <2>4. CASE Start(t)
    <3>1. state = "pending"
      BY <2>4 DEF Start
    <3>2. message' = [message EXCEPT ![t] = [message[t] EXCEPT !.pc = "loaded", !.seen = attempts]]
      BY <2>4, <3>1 DEF Start, Step
    <3>3. message'[t].pc = "loaded"
      BY <2>1, <3>2 DEF Run
    <3> QED
      BY <3>3 DEF UnderWay, Running
  <2>5. CASE CountAttempt(t)
    <3>1. Step(t, [message[t] EXCEPT !.pc = "sending"]) \/ Raise(t)
      BY <2>5 DEF CountAttempt, Commit
    <3>2. ASSUME Step(t, [message[t] EXCEPT !.pc = "sending"]) PROVE UnderWay(t)'
      <4>1. message'[t].pc = "sending"
        BY <2>1, <3>2 DEF Step, Run
      <4> QED
        BY <4>1 DEF UnderWay, Running
    <3> QED
      BY <2>3, <3>1, <3>2
  <2>6. CASE Send(t)
    <3>1. \/ Step(t, [message[t] EXCEPT !.pc = "returned"])
          \/ Step(t, [message[t] EXCEPT !.pc = "raised"])
      BY <2>6 DEF Send
    <3>2. message'[t].pc \in {"returned", "raised"}
      BY <2>1, <3>1 DEF Step, Run
    <3> QED
      BY <3>2 DEF UnderWay, Running
  <2>7. CASE Reraise(t)
    <3>1. message[t].retries < MaxRetries
      BY <2>1, <2>7, ConstantsAssumption DEF Reraise, LastRetry, Run
    <3> QED
      BY <2>2, <2>7, <3>1 DEF Reraise
  <2>8. CASE DatabaseError(t)
    BY <2>3, <2>8 DEF DatabaseError
  <2>9. CASE CloseChannel(t) \/ RecordSent(t) \/ RecordFailed(t) \/ Crash(t)
    BY <2>9 DEF CloseChannel, RecordSent, RecordFailed, Crash
  <2> QED
    BY <1>2, <2>4, <2>5, <2>6, <2>7, <2>8, <2>9 DEF RunStep
<1>3. ASSUME NEW t \in Message, NEW u \in Message, Duplicate(t, u)
      PROVE  \E v \in Message : UnderWay(v)'
  <2>1. message'[u].pc = "queued"
    BY <1>3 DEF Duplicate, Step, TypeOK
  <2> QED
    BY <2>1 DEF UnderWay
<1>4. CASE ToggleChannel \/ DeleteRow
  BY <1>4 DEF ToggleChannel, DeleteRow, PendingIsCarried, UnderWay
<1> QED
  BY <1>1, <1>2, <1>3, <1>4 DEF Next

\* Of Settled, what does not depend on scheduling: a dispatched delivery is decided,
\* or under way, or lost on record.
THEOREM PendingIsNeverForgotten == Spec => []PendingIsCarried
<1>1. Init => PendingIsCarried
  <2> SUFFICES ASSUME Init PROVE \E t \in Message : UnderWay(t)
    BY DEF PendingIsCarried
  <2>1. PICK t \in Message :
          message = [u \in Message |->
                       [Ended EXCEPT !.pc = IF u = t THEN "queued" ELSE "unused"]]
    BY DEF Init
  <2>2. message[t].pc = "queued"
    BY <2>1 DEF Ended
  <2> QED
    BY <2>2 DEF UnderWay
<1>2. TypeOK /\ PendingIsCarried /\ [Next]_vars => PendingIsCarried'
  BY CarriedStep
<1> QED
  BY <1>1, <1>2, SentIsTrue, PTL DEF Spec

\* How far a message is from its end: five steps for each retry that Celery still
\* grants, and those of the run.
Rank(pc) == CASE pc = "queued" -> 4
              [] pc = "loaded" -> 3
              [] pc = "sending" -> 2
              [] pc \in {"returned", "raised"} -> 1
              [] OTHER -> 0

StepsLeft(run) ==
  IF Rank(run.pc) = 0 THEN 0 ELSE 5 * (MaxRetries - run.retries) + Rank(run.pc)

\* Every step of a delivered message brings it nearer to its end, whatever it meets and
\* whatever the row says: the retries do not go on for ever.
RetriesEnd ==
  [][\A t \in Message : message'[t] # message[t] /\ message[t].pc # "unused" =>
       StepsLeft(message[t]) \in Nat /\ StepsLeft(message'[t]) < StepsLeft(message[t])]_vars

THEOREM RetriesAreFinite == Spec => RetriesEnd
<1>1. ASSUME TypeOK, TypeOK', Next, NEW t \in Message, message'[t] # message[t],
             message[t].pc # "unused"
      PROVE  StepsLeft(message[t]) \in Nat /\ StepsLeft(message'[t]) < StepsLeft(message[t])
  <2> DEFINE left == MaxRetries - message[t].retries
  <2>0. message[t] \in Run /\ message[t].retries \in 0..MaxRetries /\ left \in Nat
        /\ message'[t] \in Run /\ message'[t].retries \in 0..MaxRetries
    BY <1>1, ConstantsAssumption DEF TypeOK, Run
  <2>1. \/ RunStep(t) \/ DatabaseError(t) \/ Crash(t)
    <3>1. ASSUME NEW u \in Message, RunStep(u) \/ DatabaseError(u) \/ Crash(u)
          PROVE  u = t
      <4>1. \A v \in Message \ {u} : message'[v] = message[v]
        BY <1>1, <3>1, MessageSteps DEF RunStep, Raised, Moved
      <4> QED
        BY <1>1, <4>1
    <3>2. ASSUME NEW u \in Message, NEW v \in Message, Duplicate(u, v) PROVE FALSE
      <4>1. \A m \in Message \ {v} : message'[m] = message[m]
        BY <3>2 DEF Duplicate, Step
      <4> QED
        BY <1>1, <3>2, <4>1 DEF Duplicate
    <3>3. ~(ToggleChannel \/ DeleteRow)
      BY <1>1 DEF ToggleChannel, DeleteRow
    <3> QED
      BY <1>1, <3>1, <3>2, <3>3 DEF Next
  <2>2. ASSUME Raised(t), message[t].pc \in {"queued"} \cup Running
        PROVE  StepsLeft(message[t]) \in Nat /\ StepsLeft(message'[t]) < StepsLeft(message[t])
    <3>1. Rank(message[t].pc) \in 1..4
      BY <2>2 DEF Running, Rank
    <3>2. StepsLeft(message[t]) = 5 * left + Rank(message[t].pc)
      BY <3>1 DEF StepsLeft
    <3>3. CASE message'[t] = Ended
      <4>1. StepsLeft(message'[t]) = 0
        BY <3>3, EndedType DEF StepsLeft, Rank
      <4> QED
        BY <2>0, <3>1, <3>2, <4>1
    <3>4. CASE message'[t].pc = "queued" /\ message'[t].retries = message[t].retries + 1
      <4>1. StepsLeft(message'[t]) = 5 * (MaxRetries - message'[t].retries) + 4
        BY <3>4 DEF StepsLeft, Rank
      <4> QED
        BY <2>0, <3>1, <3>2, <3>4, <4>1, ConstantsAssumption
    <3> QED
      BY <2>2, <3>3, <3>4 DEF Raised
  <2>3. ASSUME Rank(message[t].pc) \in 1..4, Rank(message'[t].pc) \in 1..4,
               Rank(message'[t].pc) < Rank(message[t].pc),
               message'[t].retries = message[t].retries
        PROVE  StepsLeft(message[t]) \in Nat /\ StepsLeft(message'[t]) < StepsLeft(message[t])
    <3>1. /\ StepsLeft(message[t]) = 5 * left + Rank(message[t].pc)
          /\ StepsLeft(message'[t]) = 5 * left + Rank(message'[t].pc)
      BY <2>3 DEF StepsLeft
    <3> HIDE DEF left
    <3> QED
      BY <2>0, <2>3, <3>1
  <2>4. CASE Start(t)
    <3>1. message[t].pc = "queued"
      BY <2>4 DEF Start
    <3>2. message'[t] = Ended \/ (message'[t].pc = "loaded" /\ message'[t].retries = message[t].retries)
      BY <1>1, <2>4, MessageSteps
    <3>3. CASE message'[t] = Ended
      <4>1. StepsLeft(message'[t]) = 0 /\ StepsLeft(message[t]) = 5 * left + 4
        BY <3>1, <3>3, EndedType DEF StepsLeft, Rank
      <4> QED
        BY <2>0, <4>1
    <3>4. CASE message'[t].pc = "loaded" /\ message'[t].retries = message[t].retries
      BY <2>3, <3>1, <3>4 DEF Rank
    <3> QED
      BY <3>2, <3>3, <3>4
  <2>5. CASE CountAttempt(t)
    <3>1. message[t].pc = "loaded" /\ (Moved(t, "sending") \/ Raised(t))
      BY <1>1, <2>5, MessageSteps DEF CountAttempt
    <3>2. CASE Moved(t, "sending")
      BY <2>3, <3>1, <3>2 DEF Moved, Rank
    <3>3. CASE Raised(t)
      BY <2>2, <3>1, <3>3 DEF Running
    <3> QED
      BY <3>1, <3>2, <3>3
  <2>6. CASE Send(t)
    <3>1. message[t].pc = "sending" /\ (Moved(t, "returned") \/ Moved(t, "raised"))
      BY <1>1, <2>6, MessageSteps DEF Send
    <3> QED
      BY <2>3, <3>1 DEF Moved, Rank
  <2>7. CASE \/ CloseChannel(t) \/ RecordSent(t) \/ RecordFailed(t) \/ Crash(t)
             \/ Reraise(t) \/ DatabaseError(t)
    <3>1. Raised(t)
      BY <1>1, <2>7, MessageSteps
    <3>2. message[t].pc \in {"queued"} \cup Running
      BY <2>7 DEF CloseChannel, RecordSent, RecordFailed, Crash, Reraise, DatabaseError, Running
    <3> QED
      BY <2>2, <3>1, <3>2
  <2> QED
    BY <2>1, <2>4, <2>5, <2>6, <2>7 DEF RunStep
<1> DEFINE nearer ==
      \A t \in Message : message'[t] # message[t] /\ message[t].pc # "unused" =>
        StepsLeft(message[t]) \in Nat /\ StepsLeft(message'[t]) < StepsLeft(message[t])
<1>2. TypeOK /\ TypeOK' /\ [Next]_vars => [nearer]_vars
  BY <1>1
<1> QED
  BY <1>2, SentIsTrue, PTL DEF Spec, RetriesEnd
=============================================================================

--------------------------- MODULE ServicesProofs ---------------------------
(***************************************************************************)
(* The parts of MCServices, for any number of visitors, links, accounts,   *)
(* tasks and requests: what holds of each part by itself, and that a       *)
(* behaviour of the parts side by side is one of each of them.             *)
(***************************************************************************)
EXTENDS MCServices, Sequences, TLAPS

-----------------------------------------------------------------------------
(* SiteCheck.                                                              *)

\* Results whose every entry some worker reported.
Reported(results) == \A c \in Cell : results[c] = "none" \/ <<c, results[c]>> \in reported

\* A load holds what it read, so what it will store was reported too.
AllReported ==
  /\ Reported(checks)
  /\ Reported(run.results)
  /\ \A v \in Visitor : Reported(loading[v].results)

\* The time that has passed is not taken back.
DoneIsFinal == run.done => S!Waited \/ S!Complete(run.results)

SiteInv == S!TypeOK /\ AllReported /\ DoneIsFinal

LEMMA SiteInit == S!Init => SiteInv
<1> SUFFICES ASSUME S!Init PROVE SiteInv
  OBVIOUS
<1>1. S!TypeOK
  BY DEF S!Init, S!TypeOK, S!Run, S!Load, S!Idle, S!NoResults, S!Result
<1>2. AllReported /\ DoneIsFinal
  BY DEF S!Init, AllReported, Reported, DoneIsFinal, S!Idle, S!NoResults
<1> QED BY <1>1, <1>2 DEF SiteInv

\* A load whose two fields are written holds what was written.
LEMMA LoadWritten ==
  ASSUME S!TypeOK, NEW v \in Visitor, NEW pc \in {"idle", "read", "loaded", "deleting"},
         NEW results \in [Cell -> S!Result]
  PROVE  [loading EXCEPT ![v].pc = pc, ![v].results = results] \in [Visitor -> S!Load]
<1>1. loading[v] \in [pc : {"idle", "read", "loaded", "deleting"}, results : [Cell -> S!Result]]
  BY DEF S!TypeOK, S!Load
<1>2. [loading[v] EXCEPT !.pc = pc] \in S!Load
  BY <1>1 DEF S!Load
<1>3. [loading EXCEPT ![v].pc = pc] \in [Visitor -> S!Load]
  BY <1>2 DEF S!TypeOK
<1>4. [loading EXCEPT ![v].pc = pc][v] \in [pc : {"idle", "read", "loaded", "deleting"}, results : [Cell -> S!Result]]
  BY <1>3 DEF S!Load
<1>5. [[loading EXCEPT ![v].pc = pc][v] EXCEPT !.results = results] \in S!Load
  BY <1>4 DEF S!Load
<1> QED BY <1>3, <1>5

LEMMA SiteTypeStep == S!TypeOK /\ [S!Next]_S!vars => S!TypeOK'
<1> SUFFICES ASSUME S!TypeOK, [S!Next]_S!vars PROVE S!TypeOK'
  OBVIOUS
<1> USE DEF S!TypeOK, S!Run, S!Load, S!Idle, S!NoResults, S!Result
<1>1. CASE S!StoreRun
  BY <1>1 DEF S!StoreRun
<1>2. CASE S!TimePasses
  BY <1>2 DEF S!TimePasses
<1>3. CASE S!Sweep
  BY <1>3 DEF S!Sweep, S!Drop
<1>4. ASSUME NEW c \in Cell, NEW result \in S!Result \ {"none"}, S!PostResult(c, result)
      PROVE  S!TypeOK'
  BY <1>4 DEF S!PostResult
<1>5. ASSUME NEW v \in Visitor, S!LoadStep(v) \/ S!AbortLoad(v)
      PROVE  S!TypeOK'
  <2>1. CASE S!ReadRun(v)
    BY <2>1 DEF S!ReadRun
  <2>2. CASE S!ReadChecks(v)
    <3>1. loading' \in [Visitor -> S!Load]
      BY <2>2, LoadWritten DEF S!ReadChecks
    <3> QED BY <2>2, <3>1 DEF S!ReadChecks
  <2>3. CASE S!KeepWaiting(v)
    BY <2>3 DEF S!KeepWaiting
  <2>4. CASE S!StoreResults(v)
    <3>1. loading' \in [Visitor -> S!Load]
      <4>1. loading[v] \in S!Load
        OBVIOUS
      <4>2. [loading[v] EXCEPT !.pc = "deleting"] \in S!Load
        BY <4>1
      <4> QED BY <2>4, <4>2 DEF S!StoreResults
    <3>2. run' \in S!Run
      <4>1. loading[v] \in S!Load
        OBVIOUS
      <4>2. run' = [stored |-> run.stored, done |-> TRUE, results |-> loading[v].results]
        BY <2>4 DEF S!StoreResults
      <4> QED BY <4>1, <4>2
    <3> QED BY <2>4, <3>1, <3>2 DEF S!StoreResults
  <2>5. CASE S!DeleteMonitors(v)
    BY <2>5 DEF S!DeleteMonitors, S!Drop
  <2>6. CASE S!AbortLoad(v)
    BY <2>6 DEF S!AbortLoad
  <2> QED BY <1>5, <2>1, <2>2, <2>3, <2>4, <2>5, <2>6 DEF S!LoadStep
<1>6. CASE UNCHANGED S!vars
  BY <1>6 DEF S!vars
<1> QED BY <1>1, <1>2, <1>3, <1>4, <1>5, <1>6 DEF S!Next

\* No entry is made up: loads copy checks, and checks come from workers.
LEMMA ReportedStep == S!TypeOK /\ AllReported /\ [S!Next]_S!vars => AllReported'
<1> SUFFICES ASSUME S!TypeOK, AllReported, [S!Next]_S!vars PROVE AllReported'
  OBVIOUS
<1> USE DEF AllReported, Reported
<1>1. CASE S!StoreRun
  BY <1>1 DEF S!StoreRun, S!TypeOK, S!Run
<1>2. CASE S!TimePasses
  BY <1>2 DEF S!TimePasses
<1>3. CASE S!Sweep
  BY <1>3 DEF S!Sweep, S!Drop, S!NoResults
<1>4. ASSUME NEW c \in Cell, NEW result \in S!Result \ {"none"}, S!PostResult(c, result)
      PROVE  AllReported'
  BY <1>4 DEF S!PostResult, S!TypeOK
<1>5. ASSUME NEW v \in Visitor, S!LoadStep(v) \/ S!AbortLoad(v)
      PROVE  AllReported'
  <2> USE DEF S!TypeOK, S!Idle, S!NoResults
  <2>1. CASE S!ReadRun(v)
    BY <2>1 DEF S!ReadRun
  <2>2. CASE S!ReadChecks(v)
    BY <2>2 DEF S!ReadChecks
  <2>3. CASE S!KeepWaiting(v)
    BY <2>3 DEF S!KeepWaiting
  <2>4. CASE S!StoreResults(v)
    BY <2>4 DEF S!StoreResults, S!Run, S!Load
  <2>5. CASE S!DeleteMonitors(v)
    BY <2>5 DEF S!DeleteMonitors, S!Drop
  <2>6. CASE S!AbortLoad(v)
    BY <2>6 DEF S!AbortLoad
  <2> QED BY <1>5, <2>1, <2>2, <2>3, <2>4, <2>5, <2>6 DEF S!LoadStep
<1>6. CASE UNCHANGED S!vars
  BY <1>6 DEF S!vars
<1> QED BY <1>1, <1>2, <1>3, <1>4, <1>5, <1>6 DEF S!Next

\* Only StoreRun and StoreResults write the record.
LEMMA RecordStep ==
  ASSUME S!TypeOK, [S!Next]_S!vars
  PROVE  \/ UNCHANGED run
         \/ run'.done = run.done /\ run'.results = run.results /\ UNCHANGED age
         \/ \E v \in Visitor : /\ S!Waited \/ S!Complete(loading[v].results)
                               /\ run'.done /\ run'.results = loading[v].results
                               /\ UNCHANGED age
<1> USE DEF S!TypeOK, S!Run
<1>1. CASE S!StoreRun
  BY <1>1 DEF S!StoreRun
<1>2. CASE \E v \in Visitor : S!StoreResults(v)
  BY <1>2 DEF S!StoreResults, S!Finished
<1>3. CASE ~S!StoreRun /\ ~\E v \in Visitor : S!StoreResults(v)
  BY <1>3 DEF S!Next, S!vars, S!TimePasses, S!Sweep, S!Drop, S!PostResult, S!LoadStep, S!ReadRun, S!ReadChecks,
              S!KeepWaiting, S!DeleteMonitors, S!AbortLoad
<1> QED BY <1>1, <1>2, <1>3

\* Once waited, always waited.
LEMMA WaitedStays == ASSUME S!TypeOK, [S!Next]_S!vars, S!Waited PROVE S!Waited'
BY DEF S!TypeOK, S!Waited, S!Next, S!vars, S!StoreRun, S!TimePasses, S!Sweep, S!Drop, S!PostResult, S!LoadStep, S!ReadRun,
       S!ReadChecks, S!KeepWaiting, S!StoreResults, S!DeleteMonitors, S!AbortLoad

LEMMA DoneStep == S!TypeOK /\ DoneIsFinal /\ [S!Next]_S!vars => DoneIsFinal'
<1> SUFFICES ASSUME S!TypeOK, DoneIsFinal, [S!Next]_S!vars, run'.done
             PROVE  S!Waited' \/ S!Complete(run'.results)
  BY DEF DoneIsFinal, S!Complete
<1>1. CASE S!Waited
  BY <1>1, WaitedStays
<1>2. CASE ~S!Waited
  BY <1>2, RecordStep DEF DoneIsFinal, S!Complete
<1> QED BY <1>1, <1>2

LEMMA SiteInvariance == S!Spec => []SiteInv
<1>1. SiteInv /\ [S!Next]_S!vars => SiteInv'
  BY SiteTypeStep, ReportedStep, DoneStep DEF SiteInv
<1> QED BY SiteInit, <1>1, PTL DEF S!Spec

\* A run that is done within WAIT_SECONDS is complete, and no later load of it takes
\* that back before the time is over.
LEMMA SiteStaysDone == S!Spec => S!DoneInTime
<1>1. SiteInv /\ [S!Next]_S!vars => [run.done /\ ~S!Waited => run'.done /\ S!Complete(run'.results)]_S!vars
  <2> SUFFICES ASSUME SiteInv, [S!Next]_S!vars, run.done, ~S!Waited
               PROVE  run'.done /\ S!Complete(run'.results)
    BY DEF S!Complete
  <2> QED BY RecordStep DEF SiteInv, DoneIsFinal, S!Complete
<1> QED BY <1>1, SiteInvariance, PTL DEF S!Spec, S!DoneInTime

-----------------------------------------------------------------------------
(* Access.                                                                 *)

\* A link that did its work has no token any more, however many requests had
\* loaded the row with it.
UsedHasNoToken == \A k \in used : account.token[k] = "null"

AccessInv == A!TypeOK /\ UsedHasNoToken /\ A!UsedLinkIsDead

LEMMA KindOfType == ASSUME NEW op PROVE A!KindOf(op) \in A!Kind
BY DEF A!KindOf, A!Kind

\* Writing one column of the tokens leaves an account.
LEMMA TokenWritten ==
  ASSUME NEW entry \in A!Account, NEW kind \in A!Kind, NEW t \in {"null", "live", "expired"}
  PROVE  /\ [entry EXCEPT !.token[kind] = t] \in A!Account
         /\ [entry EXCEPT !.token[kind] = t].token = [entry.token EXCEPT ![kind] = t]
BY DEF A!Account, A!Kind

LEMMA AccessInit == A!Init => AccessInv
<1> SUFFICES ASSUME A!Init PROVE AccessInv
  OBVIOUS
<1>1. A!NoAccount \in A!Account
  BY DEF A!NoAccount, A!Account, A!Kind
<1>2. A!TypeOK
  BY <1>1 DEF A!Init, A!TypeOK, A!IdleForm, A!IdleOpener, A!Kind
<1> QED BY <1>2 DEF A!Init, AccessInv, UsedHasNoToken, A!UsedLinkIsDead, A!IdleOpener

\* The row is inserted with a token, or gets a new one; the new link has done
\* nothing yet.
LEMMA CommitFormStep == ASSUME AccessInv, A!CommitForm PROVE AccessInv'
<1> DEFINE kind == A!KindOf(form.op)
           entry == [account EXCEPT !.stored = IF form.op = "register" THEN address ELSE @]
<1>1. kind \in A!Kind
  BY KindOfType
<1>2. entry \in A!Account /\ entry.token = account.token
  BY DEF AccessInv, A!TypeOK, A!Account
<1>3. account' = [entry EXCEPT !.token[kind] = "live"]
  BY DEF A!CommitForm
<1>4. account' \in A!Account /\ account'.token = [account.token EXCEPT ![kind] = "live"]
  <2> HIDE DEF entry, kind
  <2> QED BY <1>1, <1>2, <1>3, TokenWritten, ZenonT(40)
<1>5. used' = used \ {kind} /\ mails' = mails \ {kind} /\ UNCHANGED <<address, session, opener>>
  BY DEF A!CommitForm
<1>6. form' = [form EXCEPT !.pc = "mailing", !.current = TRUE]
  BY DEF A!CommitForm
<1>7. A!TypeOK'
  BY <1>1, <1>4, <1>5, <1>6 DEF AccessInv, A!TypeOK
<1>8. UsedHasNoToken'
  <2> SUFFICES ASSUME NEW k \in used' PROVE account'.token[k] = "null"
    BY DEF UsedHasNoToken
  <2>1. k \in used /\ k # kind /\ k \in A!Kind
    BY <1>5 DEF AccessInv, A!TypeOK
  <2>2. account.token \in [A!Kind -> {"null", "live", "expired"}]
    BY DEF AccessInv, A!TypeOK, A!Account
  <2> QED BY <1>4, <2>1, <2>2 DEF AccessInv, UsedHasNoToken
<1> QED BY <1>5, <1>7, <1>8 DEF AccessInv, A!UsedLinkIsDead

\* A request is let in with a live token, so its link had not been used.
LEMMA OpenStep == ASSUME AccessInv, NEW o \in Opener, NEW kind \in A!Kind, A!Open(o, kind) PROVE AccessInv'
<1>1. kind \notin used
  BY DEF AccessInv, UsedHasNoToken, A!Open
<1>2. opener' = [opener EXCEPT ![o] = [pc |-> "loaded", kind |-> kind, again |-> FALSE]]
  <2>1. (kind \in used) = FALSE
    BY <1>1
  <2> QED BY <2>1, Zenon DEF A!Open
<1>3. UNCHANGED <<address, account, session, mails, form, used>>
  BY DEF A!Open
<1> QED BY <1>2, <1>3 DEF AccessInv, A!TypeOK, UsedHasNoToken, A!UsedLinkIsDead

\* Whichever token the column holds by now becomes NULL.
LEMMA CommitOpenStep == ASSUME AccessInv, NEW o \in Opener, A!CommitOpen(o) PROVE AccessInv'
<1> DEFINE kind == opener[o].kind
<1>1. kind \in A!Kind /\ A!IdleOpener \in [pc : {"idle", "loaded"}, kind : A!Kind, again : BOOLEAN]
  BY DEF AccessInv, A!TypeOK, A!IdleOpener, A!Kind
<1>2. A!Redeem(kind) \in A!Account /\ A!Redeem(kind).token = account.token
  BY DEF AccessInv, A!TypeOK, A!Redeem, A!Account
<1>3. account' = [A!Redeem(kind) EXCEPT !.token[kind] = "null"]
  BY DEF A!CommitOpen
<1>4. account' \in A!Account /\ account'.token = [account.token EXCEPT ![kind] = "null"]
  BY <1>1, <1>2, <1>3, TokenWritten, ZenonT(40)
<1>5. /\ used' = used \cup {kind} /\ mails' = mails \ {kind}
      /\ session' = (session \/ kind = "verify") /\ UNCHANGED address
      /\ opener' = [opener EXCEPT ![o] = A!IdleOpener]
  BY DEF A!CommitOpen
<1>6. form' = [form EXCEPT !.current = @ /\ A!KindOf(form.op) # kind]
  BY DEF A!CommitOpen
<1>7. A!TypeOK'
  BY <1>1, <1>4, <1>5, <1>6 DEF AccessInv, A!TypeOK
<1>8. UsedHasNoToken'
  <2> SUFFICES ASSUME NEW k \in used' PROVE account'.token[k] = "null"
    BY DEF UsedHasNoToken
  <2>1. k \in A!Kind /\ (k = kind \/ k \in used)
    BY <1>1, <1>5 DEF AccessInv, A!TypeOK
  <2>2. account.token \in [A!Kind -> {"null", "live", "expired"}]
    BY DEF AccessInv, A!TypeOK, A!Account
  <2> QED BY <1>4, <2>1, <2>2 DEF AccessInv, UsedHasNoToken
<1>9. A!UsedLinkIsDead'
  BY <1>5 DEF AccessInv, A!UsedLinkIsDead, A!IdleOpener, A!TypeOK
<1> QED BY <1>7, <1>8, <1>9 DEF AccessInv

\* A token that expires was live, and so not used.
LEMMA LinkExpiresStep == ASSUME AccessInv, NEW kind \in A!Kind, A!LinkExpires(kind) PROVE AccessInv'
<1>1. account' \in A!Account /\ account'.token = [account.token EXCEPT ![kind] = "expired"]
  BY TokenWritten DEF AccessInv, A!TypeOK, A!LinkExpires
<1>2. kind \notin used /\ UNCHANGED <<address, session, mails, form, opener, used>>
  BY DEF AccessInv, UsedHasNoToken, A!LinkExpires
<1>3. A!TypeOK'
  BY <1>1, <1>2 DEF AccessInv, A!TypeOK
<1>4. UsedHasNoToken'
  <2> SUFFICES ASSUME NEW k \in used PROVE account'.token[k] = "null"
    BY <1>2 DEF UsedHasNoToken
  <2>1. k # kind /\ k \in A!Kind
    BY <1>2 DEF AccessInv, A!TypeOK
  <2>2. account.token \in [A!Kind -> {"null", "live", "expired"}]
    BY DEF AccessInv, A!TypeOK, A!Account
  <2> QED BY <1>1, <2>1, <2>2 DEF AccessInv, UsedHasNoToken
<1> QED BY <1>2, <1>3, <1>4 DEF AccessInv, A!UsedLinkIsDead

LEMMA AccessStep == AccessInv /\ [A!Next]_A!vars => AccessInv'
<1> SUFFICES ASSUME AccessInv, [A!Next]_A!vars PROVE AccessInv'
  OBVIOUS
<1>1. ASSUME NEW op \in {"register", "resend", "forgot"}, A!Submit(op) PROVE AccessInv'
  BY <1>1 DEF A!Submit, A!IdleForm, AccessInv, A!TypeOK, UsedHasNoToken, A!UsedLinkIsDead
<1>2. CASE A!CommitForm
  BY <1>2, CommitFormStep
<1>3. CASE A!SendMail
  BY <1>3, KindOfType DEF A!SendMail, A!IdleForm, AccessInv, A!TypeOK, UsedHasNoToken, A!UsedLinkIsDead
<1>4. CASE A!AbortForm
  BY <1>4 DEF A!AbortForm, A!IdleForm, AccessInv, A!TypeOK, UsedHasNoToken, A!UsedLinkIsDead
<1>5. ASSUME NEW o \in Opener, NEW kind \in A!Kind, A!Open(o, kind) PROVE AccessInv'
  BY <1>5, OpenStep
<1>6. ASSUME NEW o \in Opener, A!CommitOpen(o) PROVE AccessInv'
  BY <1>6, CommitOpenStep
<1>7. ASSUME NEW o \in Opener, A!AbortOpen(o) PROVE AccessInv'
  BY <1>7 DEF A!AbortOpen, A!IdleOpener, AccessInv, A!TypeOK, UsedHasNoToken, A!UsedLinkIsDead, A!Kind
<1>8. CASE A!Login
  BY <1>8 DEF A!Login, AccessInv, A!TypeOK, UsedHasNoToken, A!UsedLinkIsDead
<1>9. CASE A!SessionEnds
  BY <1>9 DEF A!SessionEnds, AccessInv, A!TypeOK, UsedHasNoToken, A!UsedLinkIsDead
<1>10. CASE A!Forget
  <2>1. account' \in A!Account /\ account'.token = account.token
    BY <1>10 DEF A!Forget, AccessInv, A!TypeOK, A!Account
  <2> QED BY <1>10, <2>1 DEF A!Forget, AccessInv, A!TypeOK, UsedHasNoToken, A!UsedLinkIsDead
<1>11. ASSUME NEW kind \in A!Kind, A!LinkExpires(kind) PROVE AccessInv'
  BY <1>11, LinkExpiresStep
<1>12. CASE UNCHANGED A!vars
  BY <1>12 DEF A!vars, AccessInv, A!TypeOK, UsedHasNoToken, A!UsedLinkIsDead
<1> QED BY <1>1, <1>2, <1>3, <1>4, <1>5, <1>6, <1>7, <1>8, <1>9, <1>10, <1>11, <1>12 DEF A!Next

LEMMA AccessInvariance == A!Spec => []AccessInv
BY AccessInit, AccessStep, PTL DEF A!Spec

-----------------------------------------------------------------------------
(* Limits.                                                                 *)

Window == [n : Nat, ttl : BOOLEAN]

Request_ == [pc : {"idle", "hit", "expire", "admitted", "running"}, i : 1..3, w : Nat \ {0}]

PathLength == Len(L!Path)

\* A request is at a counter of its path.
LimitsInv ==
  /\ L!TypeOK
  /\ counter \in [L!Counter -> Window]
  /\ request \in [Request -> Request_]
  /\ \A r \in Request : request[r].i <= PathLength

LEMMA PathIsOfCounters ==
  ASSUME LimitsInv, NEW r \in Request
  PROVE  /\ L!Key(r) \in L!Counter
         /\ L!Amount(r) \in Nat \ {0}
         /\ L!Key(r) = "gap" => request[r].i < PathLength
         /\ PathLength \in 2..3
         /\ L!Idle \in Request_ /\ L!Idle.i = 1
<1> USE DEF LimitsInv, Request_
<1>1. CASE service = "tool"
  <2>1. L!Path = <<"minute", "hour", "global">>
    BY <1>1 DEF L!Path
  <2>2. request[r].i \in {1, 2, 3} /\ request[r].w \in Nat \ {0}
    OBVIOUS
  <2>3. L!Key(r) \in {"minute", "hour", "global"}
    BY <2>1, <2>2 DEF L!Key
  <2> QED BY <2>1, <2>2, <2>3, ServicesAssumption DEF PathLength, L!LimitsAssumption, L!Amount, L!Idle, L!Counter
<1>2. CASE service = "check_now"
  <2>1. L!Path = <<"gap", "user">>
    BY <1>2 DEF L!Path
  <2>2. request[r].i \in {1, 2} /\ request[r].w \in Nat \ {0}
    BY <2>1 DEF PathLength
  <2>3. L!Key(r) \in {"gap", "user"} /\ (L!Key(r) = "gap" => request[r].i = 1)
    BY <2>1, <2>2 DEF L!Key
  <2> QED BY <2>1, <2>2, <2>3, ServicesAssumption DEF PathLength, L!LimitsAssumption, L!Amount, L!Idle, L!Counter
<1> QED BY <1>1, <1>2 DEF L!TypeOK

LEMMA LimitsInit == L!Init => LimitsInv
<1> SUFFICES ASSUME L!Init PROVE LimitsInv
  OBVIOUS
<1>1. PathLength \in {2, 3}
  BY DEF PathLength, L!Init, L!Path
<1>2. L!TypeOK /\ counter \in [L!Counter -> Window]
  BY DEF L!Init, L!TypeOK, L!None, L!Idle, Window
<1>3. request \in [Request -> Request_] /\ \A r \in Request : request[r].i <= PathLength
  <2>1. L!Idle \in Request_ /\ L!Idle.i = 1
    BY DEF L!Idle, Request_
  <2> QED BY <1>1, <2>1 DEF L!Init
<1> QED BY <1>2, <1>3 DEF LimitsInv

\* A request that is not at the end of its path has a next counter.
LEMMA NextOnPath ==
  ASSUME NEW n \in 2..3, NEW i \in 1..3, i <= n, i # n
  PROVE  i + 1 \in 1..3 /\ i + 1 <= n
OBVIOUS

\* Refused, on to the next counter, or admitted: the request stays on its path.
LEMMA ProceedStep ==
  ASSUME LimitsInv, NEW r \in Request, NEW n \in Nat, L!Proceed(r, n), UNCHANGED service
  PROVE  request' \in [Request -> Request_] /\ \A q \in Request : request'[q].i <= PathLength'
<1>1. PathLength' = PathLength
  BY DEF PathLength, L!Path
<1>2. request[r] \in Request_ /\ request[r].i <= PathLength
  BY DEF LimitsInv
<1>a. PathLength \in 2..3 /\ L!Idle \in Request_ /\ L!Idle.i = 1
  BY PathIsOfCounters
<1>b. L!Idle.i <= PathLength
  BY <1>a
<1>c. request' = [request EXCEPT ![r] =
                    IF n > Limit[L!Key(r)] THEN L!Idle
                    ELSE IF request[r].i = PathLength THEN [request[r] EXCEPT !.pc = "admitted"]
                    ELSE [request[r] EXCEPT !.pc = "hit", !.i = request[r].i + 1]]
  BY DEF L!Proceed, PathLength
<1>3. ASSUME NEW new \in Request_, new.i <= PathLength, request' = [request EXCEPT ![r] = new]
      PROVE  request' \in [Request -> Request_] /\ \A q \in Request : request'[q].i <= PathLength
  BY <1>3 DEF LimitsInv
<1>4. CASE n > Limit[L!Key(r)]
  <2>1. request' = [request EXCEPT ![r] = L!Idle]
    BY <1>4, <1>c
  <2> QED BY <1>1, <1>a, <1>b, <1>3, <2>1
<1>5. CASE ~(n > Limit[L!Key(r)]) /\ request[r].i = PathLength
  <2>1. request' = [request EXCEPT ![r] = [request[r] EXCEPT !.pc = "admitted"]]
    BY <1>5, <1>c, Zenon
  <2>2. /\ [request[r] EXCEPT !.pc = "admitted"] \in Request_
        /\ [request[r] EXCEPT !.pc = "admitted"].i <= PathLength
    BY <1>2 DEF Request_
  <2> QED BY <1>1, <1>3, <2>1, <2>2
<1>6. CASE ~(n > Limit[L!Key(r)]) /\ request[r].i # PathLength
  <2>1. request' = [request EXCEPT ![r] = [request[r] EXCEPT !.pc = "hit", !.i = request[r].i + 1]]
    BY <1>6, <1>c, Zenon
  <2>2. request[r].i + 1 \in 1..3 /\ request[r].i + 1 <= PathLength
    <3>1. request[r].i \in 1..3
      BY <1>2 DEF Request_
    <3>2. request[r].i # PathLength /\ request[r].i <= PathLength /\ PathLength \in 2..3
      BY <1>2, <1>a, <1>6
    <3> QED BY <3>1, <3>2, NextOnPath
  <2>3. /\ [request[r] EXCEPT !.pc = "hit", !.i = request[r].i + 1] \in Request_
        /\ [request[r] EXCEPT !.pc = "hit", !.i = request[r].i + 1].i = request[r].i + 1
    BY <1>2, <2>2 DEF Request_
  <2> QED BY <1>1, <1>3, <2>1, <2>2, <2>3
<1> QED BY <1>4, <1>5, <1>6

LEMMA LimitsStep == LimitsInv /\ [L!Next]_L!vars => LimitsInv'
<1> SUFFICES ASSUME LimitsInv, [L!Next]_L!vars PROVE LimitsInv'
  OBVIOUS
<1>0. UNCHANGED service => UNCHANGED PathLength
  BY DEF PathLength, L!Path
<1>1. ASSUME UNCHANGED service, counter' \in [L!Counter -> Window], torn' \subseteq L!Counter,
             request' \in [Request -> Request_],
             \A q \in Request : request'[q].i <= PathLength
      PROVE  LimitsInv'
  BY <1>0, <1>1 DEF LimitsInv, L!TypeOK, Window, Request_, L!Counter
<1>2. ASSUME NEW r \in Request, NEW new \in Request_, new.i <= PathLength,
             request' = [request EXCEPT ![r] = new]
      PROVE  request' \in [Request -> Request_] /\ \A q \in Request : request'[q].i <= PathLength
  BY <1>2 DEF LimitsInv
<1>3. ASSUME NEW r \in Request, L!RequestStep(r) PROVE LimitsInv'
  <2>a. /\ L!Key(r) \in L!Counter /\ L!Amount(r) \in Nat \ {0} /\ PathLength \in 2..3
        /\ L!Key(r) = "gap" => request[r].i < PathLength
        /\ L!Idle \in Request_ /\ L!Idle.i <= PathLength
    BY PathIsOfCounters
  <2>b. /\ request[r] \in Request_ /\ request[r].i <= PathLength
        /\ counter \in [L!Counter -> Window] /\ torn \subseteq L!Counter
    BY DEF LimitsInv, L!TypeOK
  <2>0. /\ L!Key(r) \in L!Counter /\ L!Amount(r) \in Nat \ {0} /\ PathLength \in 2..3
        /\ L!Idle \in Request_ /\ L!Idle.i <= PathLength
        /\ request[r] \in Request_ /\ request[r].i <= PathLength
        /\ counter \in [L!Counter -> Window] /\ torn \subseteq L!Counter
    BY <2>a, <2>b
  <2>1. CASE L!Begin(r)
    <3>1. PICK w \in Nat \ {0} : request' = [request EXCEPT ![r] = [pc |-> "hit", i |-> 1, w |-> w]]
      <4>1. PICK w \in IF service = "tool" THEN Weight ELSE {1} :
               request' = [request EXCEPT ![r] = [pc |-> "hit", i |-> 1, w |-> w]]
        BY <2>1 DEF L!Begin
      <4>2. w \in Nat \ {0}
        BY ServicesAssumption DEF L!LimitsAssumption
      <4> QED BY <4>1, <4>2
    <3>2. [pc |-> "hit", i |-> 1, w |-> w] \in Request_
      BY DEF Request_
    <3>3. UNCHANGED <<service, counter, torn>>
      BY <2>1 DEF L!Begin
    <3>4. [pc |-> "hit", i |-> 1, w |-> w].i <= PathLength
      BY <2>0
    <3> HIDE DEF Request_
    <3> QED BY <2>0, <3>1, <3>2, <3>3, <3>4, <1>1, <1>2
  <2>2. CASE L!HitGap(r)
    <3> DEFINE next == [request[r] EXCEPT !.i = request[r].i + 1]
    <3>1. next \in Request_ /\ next.i <= PathLength
      <4>1. request[r].i \in 1..3 /\ L!Key(r) = "gap"
        BY <2>0, <2>2 DEF L!HitGap, Request_
      <4>2. request[r].i + 1 \in 1..3 /\ request[r].i + 1 <= PathLength
        BY <2>a, <4>1
      <4> QED BY <2>0, <4>2 DEF Request_
    <3>3. request' = [request EXCEPT ![r] = IF counter["gap"].n = 0 THEN next ELSE L!Idle]
      BY <2>2 DEF L!HitGap
    <3>4. UNCHANGED <<service, torn>>
      BY <2>2 DEF L!HitGap
    <3> HIDE DEF next
    <3>2. counter' \in [L!Counter -> Window]
      BY <2>0, <2>2 DEF L!HitGap, Window
    <3> QED BY <2>0, <3>1, <3>2, <3>3, <3>4, <1>1, <1>2
  <2>3. CASE L!Hit(r)
    <3> DEFINE n == IF counter[L!Key(r)].n > Limit[L!Key(r)] THEN counter[L!Key(r)].n
                    ELSE counter[L!Key(r)].n + L!Amount(r)
    <3>1. n \in Nat
      BY <2>0 DEF Window
    <3>2. counter' = [counter EXCEPT ![L!Key(r)].n = n] /\ UNCHANGED <<service, torn>>
      BY <2>3 DEF L!Hit
    <3>3. request' = [request EXCEPT ![r].pc = "expire"] \/ L!Proceed(r, n)
      BY <2>3 DEF L!Hit
    <3> HIDE DEF n
    <3>4. counter' \in [L!Counter -> Window]
      BY <2>0, <3>1, <3>2 DEF Window
    <3>5. [request[r] EXCEPT !.pc = "expire"] \in Request_ /\ [request[r] EXCEPT !.pc = "expire"].i <= PathLength
      BY <2>0 DEF Request_
    <3>6. CASE L!Proceed(r, n)
      BY <1>0, <1>1, <2>0, <3>1, <3>2, <3>4, <3>6, ProceedStep
    <3>7. CASE request' = [request EXCEPT ![r].pc = "expire"]
      BY <1>1, <1>2, <2>0, <3>2, <3>4, <3>5, <3>7
    <3> QED BY <3>3, <3>6, <3>7
  <2>4. CASE L!Expire(r)
    <3>1. counter' \in [L!Counter -> Window] /\ UNCHANGED <<service, torn>>
      BY <2>0, <2>4 DEF L!Expire, Window
    <3>2. L!Proceed(r, L!Amount(r))
      BY <2>4 DEF L!Expire
    <3> QED BY <1>0, <1>1, <2>0, <3>1, <3>2, ProceedStep
  <2>5. CASE L!Fail(r) \/ L!Finish(r)
    BY <2>0, <2>5, <1>1, <1>2 DEF L!Fail, L!Finish
  <2>6. CASE L!Start(r)
    <3>1. [request[r] EXCEPT !.pc = "running"] \in Request_ /\ [request[r] EXCEPT !.pc = "running"].i <= PathLength
      BY <2>0 DEF Request_
    <3> QED BY <2>0, <2>6, <3>1, <1>1, <1>2 DEF L!Start
  <2> QED BY <1>3, <2>1, <2>2, <2>3, <2>4, <2>5, <2>6 DEF L!RequestStep
<1>4. ASSUME NEW k \in L!Counter, L!WindowEnds(k) PROVE LimitsInv'
  <2>1. counter' \in [L!Counter -> Window]
    BY <1>4 DEF L!WindowEnds, L!None, LimitsInv, Window
  <2> QED BY <1>4, <1>1, <2>1 DEF L!WindowEnds, LimitsInv, L!TypeOK
<1>5. CASE UNCHANGED L!vars
  BY <1>5, <1>1 DEF L!vars, LimitsInv, L!TypeOK
<1> QED BY <1>3, <1>4, <1>5 DEF L!Next

LEMMA LimitsInvariance == L!Spec => []LimitsInv
BY LimitsInit, LimitsStep, PTL DEF L!Spec

\* The request is between the INCR that made the counter and its EXPIRE.
Expires(r, k) == request[r].pc = "expire" /\ L!Key(r) = k

\* A counter that is there has a time to live, or the one request that gives it one, or
\* has lost its EXPIRE; and only one of the three.
Guarded(k) ==
  /\ counter[k].n > 0 => counter[k].ttl \/ k \in torn \/ \E r \in Request : Expires(r, k)
  /\ counter[k].ttl => counter[k].n > 0 /\ k \notin torn
  /\ k \in torn => k # "gap" /\ counter[k].n > 0
  /\ \A r \in Request : Expires(r, k) =>
       /\ k # "gap" /\ counter[k].n > 0 /\ ~counter[k].ttl /\ k \notin torn
       /\ \A q \in Request : Expires(q, k) => q = r

GuardInv == \A k \in L!Counter : Guarded(k)

LEMMA GuardInit == L!Init => GuardInv
<1> SUFFICES ASSUME L!Init, NEW k \in L!Counter PROVE Guarded(k)
  BY DEF GuardInv
<1>1. counter[k].n = 0 /\ counter[k].ttl = FALSE /\ torn = {}
  BY DEF L!Init, L!None
<1>2. \A r \in Request : request[r].pc = "idle"
  BY DEF L!Init, L!Idle
<1> QED BY <1>1, <1>2 DEF Guarded, Expires

\* A step of a request leaves what the others are at.
LEMMA OthersStand ==
  ASSUME NEW r \in Request, NEW new, request' = [request EXCEPT ![r] = new],
         UNCHANGED service, NEW k
  PROVE  \A q \in Request \ {r} : Expires(q, k)' <=> Expires(q, k)
<1> SUFFICES ASSUME NEW q \in Request \ {r} PROVE Expires(q, k)' <=> Expires(q, k)
  OBVIOUS
<1>1. request'[q] = request[q]
  OBVIOUS
<1>2. L!Path' = L!Path
  BY DEF L!Path
<1>3. L!Key(q)' = L!Key(q)
  BY <1>1, <1>2 DEF L!Key
<1> QED BY <1>1, <1>3 DEF Expires

\* A request that goes on from a counter is not about to give one its time to live.
LEMMA ProceedsPast ==
  ASSUME LimitsInv, NEW r \in Request, NEW n, L!Proceed(r, n)
  PROVE  \E new : request' = [request EXCEPT ![r] = new] /\ new.pc # "expire"
<1>1. request[r] \in Request_
  BY DEF LimitsInv
<1>2. CASE n > Limit[L!Key(r)]
  <2>1. request' = [request EXCEPT ![r] = L!Idle]
    BY <1>2 DEF L!Proceed
  <2>2. L!Idle.pc # "expire"
    BY DEF L!Idle
  <2> QED BY <2>1, <2>2
<1>3. CASE ~(n > Limit[L!Key(r)]) /\ request[r].i = Len(L!Path)
  <2>1. request' = [request EXCEPT ![r] = [request[r] EXCEPT !.pc = "admitted"]]
    BY <1>3, Zenon DEF L!Proceed
  <2>2. [request[r] EXCEPT !.pc = "admitted"].pc # "expire"
    BY <1>1 DEF Request_
  <2> QED BY <2>1, <2>2
<1>4. CASE ~(n > Limit[L!Key(r)]) /\ request[r].i # Len(L!Path)
  <2>1. request' = [request EXCEPT ![r] = [request[r] EXCEPT !.pc = "hit", !.i = request[r].i + 1]]
    BY <1>4, Zenon DEF L!Proceed
  <2>2. [request[r] EXCEPT !.pc = "hit", !.i = request[r].i + 1].pc # "expire"
    BY <1>1 DEF Request_
  <2> QED BY <2>1, <2>2
<1> QED BY <1>2, <1>3, <1>4

\* What a command of a request does to the counter it is at, and the request with it.
LEMMA HitGuards ==
  ASSUME LimitsInv, GuardInv, NEW r \in Request, L!Hit(r)
  PROVE  /\ GuardInv'
         /\ \A k \in L!Counter : counter'[k].n >= counter[k].n
<1> DEFINE at == L!Key(r)
           n  == IF counter[at].n > Limit[at] THEN counter[at].n ELSE counter[at].n + L!Amount(r)
<1>1. at \in L!Counter /\ L!Amount(r) \in Nat \ {0} /\ at # "gap"
  BY PathIsOfCounters DEF L!Hit
<1>2. counter \in [L!Counter -> Window] /\ Limit[at] \in Nat /\ UNCHANGED <<service, torn, Limit>>
  BY <1>1, ServicesAssumption DEF LimitsInv, L!Hit, L!LimitsAssumption, L!Counter
<1>3. counter[at].n \in Nat /\ n \in Nat /\ n > 0 /\ n >= counter[at].n
  BY <1>1, <1>2 DEF Window
<1>4. counter' = [counter EXCEPT ![at].n = n]
  BY DEF L!Hit
<1>5. request[r].pc = "hit" /\ request[r] \in Request_ /\ request \in [Request -> Request_]
  BY DEF L!Hit, LimitsInv
<1> HIDE DEF n
<1>6. /\ counter'[at].n = n /\ counter'[at].ttl = counter[at].ttl
      /\ \A k \in L!Counter \ {at} : counter'[k] = counter[k]
  BY <1>1, <1>2, <1>4 DEF Window
<1>7. \A k \in L!Counter : counter'[k].n >= counter[k].n
  BY <1>2, <1>3, <1>6 DEF Window
<1>8. \A k : ~Expires(r, k)
  BY <1>5 DEF Expires
<1>9. CASE counter[at].n = 0
  <2>1. request' = [request EXCEPT ![r].pc = "expire"]
    BY <1>9 DEF L!Hit
  <2>2. \A k : \A q \in Request \ {r} : Expires(q, k)' <=> Expires(q, k)
    BY <1>2, <2>1, OthersStand
  <2>3. request'[r].pc = "expire" /\ request'[r].i = request[r].i
    BY <1>5, <2>1 DEF Request_
  <2>4. L!Key(r)' = at
    BY <1>2, <2>3 DEF L!Key, L!Path
  <2>5. \A k : Expires(r, k)' <=> k = at
    BY <2>3, <2>4 DEF Expires
  <2> HIDE DEF at
  <2>6. ASSUME NEW k \in L!Counter PROVE Guarded(k)'
    <3>1. Guarded(k) /\ L!Counter' = L!Counter
      BY DEF GuardInv, L!Counter
    <3>2. CASE k = at
      <4>1. ~counter[k].ttl /\ k \notin torn /\ \A q \in Request : ~Expires(q, k)
        BY <1>3, <1>9, <3>1, <3>2 DEF Guarded
      <4>2. \A q \in Request : Expires(q, k)' <=> q = r
        BY <2>2, <2>5, <3>2, <4>1
      <4>3. counter'[k].n > 0 /\ ~counter'[k].ttl /\ k \notin torn' /\ k # "gap"
        BY <1>1, <1>2, <1>3, <1>6, <3>2, <4>1
      <4> QED BY <4>2, <4>3 DEF Guarded
    <3>3. CASE k # at
      <4>1. \A q \in Request : Expires(q, k)' <=> Expires(q, k)
        BY <1>8, <2>2, <2>5, <3>3
      <4>2. counter'[k] = counter[k] /\ torn' = torn
        BY <1>2, <1>6, <3>3
      <4> QED BY <3>1, <4>1, <4>2 DEF Guarded
    <3> QED BY <3>2, <3>3
  <2> QED BY <1>7, <2>6 DEF GuardInv, L!Counter
<1>10. CASE counter[at].n # 0
  <2>1. L!Proceed(r, n)
    BY <1>10 DEF L!Hit, n
  <2>2. PICK new : request' = [request EXCEPT ![r] = new] /\ new.pc # "expire"
    BY <2>1, ProceedsPast
  <2>3. \A k : \A q \in Request : Expires(q, k)' <=> Expires(q, k)
    <3>1. \A k : ~Expires(r, k)'
      BY <1>5, <2>2 DEF Expires
    <3>2. \A k : \A q \in Request \ {r} : Expires(q, k)' <=> Expires(q, k)
      BY <1>2, <2>2, OthersStand
    <3> QED BY <1>8, <3>1, <3>2
  <2>4. \A k \in L!Counter : counter'[k].ttl = counter[k].ttl /\ (counter'[k].n > 0 <=> counter[k].n > 0)
    BY <1>2, <1>3, <1>6, <1>10 DEF Window
  <2>5. ASSUME NEW k \in L!Counter PROVE Guarded(k)'
    BY <1>2, <2>3, <2>4, <2>5 DEF Guarded, GuardInv
  <2> QED BY <1>7, <2>5 DEF GuardInv, L!Counter
<1> QED BY <1>9, <1>10

LEMMA ExpireGuards ==
  ASSUME LimitsInv, GuardInv, NEW r \in Request, L!Expire(r)
  PROVE  /\ GuardInv'
         /\ \A k \in L!Counter : counter'[k].n >= counter[k].n
<1> DEFINE at == L!Key(r)
<1>1. at \in L!Counter /\ counter \in [L!Counter -> Window] /\ request \in [Request -> Request_]
  BY PathIsOfCounters DEF LimitsInv
<1>2. UNCHANGED <<service, torn>> /\ counter' = [counter EXCEPT ![at].ttl = TRUE] /\ Expires(r, at)
  BY DEF L!Expire, Expires
<1>3. PICK new : request' = [request EXCEPT ![r] = new] /\ new.pc # "expire"
  BY ProceedsPast DEF L!Expire
<1>4. \A k : \A q \in Request \ {r} : Expires(q, k)' <=> Expires(q, k)
  BY <1>2, <1>3, OthersStand
<1>5. \A k : ~Expires(r, k)' /\ (Expires(r, k) => k = at)
  BY <1>1, <1>3 DEF Expires
<1>6. /\ counter'[at].n = counter[at].n /\ counter'[at].ttl
      /\ \A k \in L!Counter \ {at} : counter'[k] = counter[k]
  BY <1>1, <1>2 DEF Window
<1>7. \A k \in L!Counter : counter'[k].n >= counter[k].n
  BY <1>1, <1>6 DEF Window
<1> HIDE DEF at
<1>8. ASSUME NEW k \in L!Counter PROVE Guarded(k)'
  <2>1. Guarded(k) /\ Guarded(at)
    BY <1>1 DEF GuardInv
  <2>2. CASE k = at
    <3>1. k # "gap" /\ counter[k].n > 0 /\ k \notin torn /\ \A q \in Request : Expires(q, k) => q = r
      BY <1>2, <2>1, <2>2 DEF Guarded
    <3>2. \A q \in Request : ~Expires(q, k)'
      BY <1>4, <1>5, <3>1
    <3> QED BY <1>2, <1>6, <2>2, <3>1, <3>2 DEF Guarded
  <2>3. CASE k # at
    <3>1. \A q \in Request : Expires(q, k)' <=> Expires(q, k)
      BY <1>4, <1>5, <2>3
    <3> QED BY <1>2, <1>6, <2>1, <2>3, <3>1 DEF Guarded
  <2> QED BY <2>2, <2>3
<1> QED BY <1>7, <1>8 DEF GuardInv, L!Counter

LEMMA FailGuards ==
  ASSUME LimitsInv, GuardInv, NEW r \in Request, L!Fail(r)
  PROVE  GuardInv'
<1>1. request \in [Request -> Request_] /\ L!Key(r) \in L!Counter
  BY PathIsOfCounters DEF LimitsInv
<1>2. UNCHANGED <<service, counter>> /\ request' = [request EXCEPT ![r] = L!Idle]
  BY DEF L!Fail
<1>3. \A k : \A q \in Request \ {r} : Expires(q, k)' <=> Expires(q, k)
  BY <1>2, OthersStand
<1>4. \A k : ~Expires(r, k)'
  BY <1>1, <1>2 DEF Expires, L!Idle
<1>5. \A k : k \in torn' <=> k \in torn \/ Expires(r, k)
  BY DEF L!Fail, Expires
<1>6. ASSUME NEW k \in L!Counter PROVE Guarded(k)'
  <2>1. Guarded(k)
    BY DEF GuardInv
  <2>2. CASE Expires(r, k)
    <3>1. \A q \in Request : ~Expires(q, k)'
      BY <1>3, <1>4, <2>1, <2>2 DEF Guarded
    <3>2. k # "gap" /\ counter[k].n > 0 /\ ~counter[k].ttl /\ k \in torn'
      BY <1>5, <2>1, <2>2 DEF Guarded
    <3> QED BY <1>2, <3>1, <3>2 DEF Guarded
  <2>3. CASE ~Expires(r, k)
    <3>1. \A q \in Request : Expires(q, k)' <=> Expires(q, k)
      BY <1>3, <1>4, <2>3
    <3>2. k \in torn' <=> k \in torn
      BY <1>5, <2>3
    <3> QED BY <1>2, <2>1, <3>1, <3>2 DEF Guarded
  <2> QED BY <2>2, <2>3
<1> QED BY <1>6 DEF GuardInv, L!Counter

LEMMA HitGapGuards ==
  ASSUME LimitsInv, GuardInv, NEW r \in Request, L!HitGap(r)
  PROVE  /\ GuardInv'
         /\ \A k \in L!Counter : k # "gap" => counter'[k] = counter[k]
<1> DEFINE next == [request[r] EXCEPT !.i = request[r].i + 1]
<1>1. /\ counter \in [L!Counter -> Window] /\ request \in [Request -> Request_]
      /\ "gap" \in L!Counter /\ request[r].pc = "hit"
  BY ServicesAssumption DEF LimitsInv, L!LimitsAssumption, L!Counter, L!HitGap
<1>2. /\ UNCHANGED <<service, torn>> /\ counter' = [counter EXCEPT !["gap"] = [n |-> 1, ttl |-> TRUE]]
      /\ request' = [request EXCEPT ![r] = IF counter["gap"].n = 0 THEN next ELSE L!Idle]
  BY DEF L!HitGap
<1>3. next.pc = "hit" /\ L!Idle.pc = "idle"
  BY <1>1 DEF Request_, L!Idle
<1> HIDE DEF next
<1>4. \A k : \A q \in Request \ {r} : Expires(q, k)' <=> Expires(q, k)
  BY <1>2, OthersStand
<1>5. \A k : ~Expires(r, k)' /\ ~Expires(r, k)
  BY <1>1, <1>2, <1>3 DEF Expires
<1>6. \A k \in L!Counter : k # "gap" => counter'[k] = counter[k]
  BY <1>1, <1>2
<1>7. counter'["gap"].n = 1 /\ counter'["gap"].ttl
  BY <1>1, <1>2
<1>8. ASSUME NEW k \in L!Counter PROVE Guarded(k)'
  <2>1. Guarded(k) /\ \A q \in Request : Expires(q, k)' <=> Expires(q, k)
    BY <1>4, <1>5 DEF GuardInv
  <2>2. CASE k = "gap"
    <3>1. k \notin torn' /\ \A q \in Request : ~Expires(q, k)'
      BY <1>2, <2>1, <2>2 DEF Guarded
    <3> QED BY <1>7, <2>2, <3>1 DEF Guarded
  <2>3. CASE k # "gap"
    BY <1>2, <1>6, <2>1, <2>3 DEF Guarded
  <2> QED BY <2>2, <2>3
<1> QED BY <1>6, <1>8 DEF GuardInv, L!Counter

\* A request's steps that are no command to Redis.
LEMMA QuietGuards ==
  ASSUME LimitsInv, GuardInv, NEW r \in Request, L!Begin(r) \/ L!Start(r) \/ L!Finish(r)
  PROVE  GuardInv'
<1>1. request \in [Request -> Request_] /\ request[r].pc # "expire" /\ UNCHANGED <<service, counter, torn>>
  BY DEF LimitsInv, L!Begin, L!Start, L!Finish
<1>2. \E new : request' = [request EXCEPT ![r] = new] /\ new.pc # "expire"
  <2>1. CASE L!Begin(r)
    BY <2>1 DEF L!Begin
  <2>2. CASE L!Start(r)
    <3>1. request' = [request EXCEPT ![r] = [request[r] EXCEPT !.pc = "running"]]
      BY <2>2 DEF L!Start
    <3>2. [request[r] EXCEPT !.pc = "running"].pc # "expire"
      BY <1>1 DEF Request_
    <3> QED BY <3>1, <3>2
  <2>3. CASE L!Finish(r)
    <3>1. request' = [request EXCEPT ![r] = L!Idle]
      BY <2>3 DEF L!Finish
    <3>2. L!Idle.pc # "expire"
      BY DEF L!Idle
    <3> QED BY <3>1, <3>2
  <2> QED BY <2>1, <2>2, <2>3
<1>3. PICK new : request' = [request EXCEPT ![r] = new] /\ new.pc # "expire"
  BY <1>2
<1>4. \A k : \A q \in Request \ {r} : Expires(q, k)' <=> Expires(q, k)
  BY <1>1, <1>3, OthersStand
<1>5. \A k : ~Expires(r, k)' /\ ~Expires(r, k)
  BY <1>1, <1>3 DEF Expires
<1>6. \A k : \A q \in Request : Expires(q, k)' <=> Expires(q, k)
  BY <1>4, <1>5
<1> QED BY <1>1, <1>6 DEF GuardInv, Guarded, L!Counter

\* Redis drops a counter that had its time to live: nobody was about to give it one.
LEMMA WindowEndGuards ==
  ASSUME LimitsInv, GuardInv, NEW e \in L!Counter, L!WindowEnds(e)
  PROVE  /\ GuardInv' /\ e \notin torn
         /\ \A k \in L!Counter \ {e} : counter'[k] = counter[k]
<1>1. counter \in [L!Counter -> Window] /\ Guarded(e)
  BY DEF LimitsInv, GuardInv
<1>2. UNCHANGED <<service, request, torn>> /\ counter' = [counter EXCEPT ![e] = L!None] /\ counter[e].ttl
  BY DEF L!WindowEnds
<1>3. e \notin torn /\ \A q \in Request : ~Expires(q, e)
  BY <1>1, <1>2 DEF Guarded
<1>4. \A k : \A q \in Request : Expires(q, k)' <=> Expires(q, k)
  BY <1>2 DEF Expires, L!Key, L!Path
<1>5. /\ counter'[e].n = 0 /\ ~counter'[e].ttl
      /\ \A k \in L!Counter \ {e} : counter'[k] = counter[k]
  BY <1>1, <1>2 DEF L!None
<1>6. ASSUME NEW k \in L!Counter PROVE Guarded(k)'
  <2>1. CASE k = e
    BY <1>2, <1>3, <1>4, <1>5, <2>1 DEF Guarded
  <2>2. CASE k # e
    BY <1>2, <1>4, <1>5, <2>2 DEF Guarded, GuardInv
  <2> QED BY <2>1, <2>2
<1> QED BY <1>3, <1>5, <1>6 DEF GuardInv, L!Counter

LEMMA GuardStep == LimitsInv /\ GuardInv /\ [L!Next]_L!vars => GuardInv'
<1> SUFFICES ASSUME LimitsInv, GuardInv, [L!Next]_L!vars PROVE GuardInv'
  OBVIOUS
<1>1. ASSUME NEW r \in Request, L!RequestStep(r) PROVE GuardInv'
  BY <1>1, HitGuards, ExpireGuards, FailGuards, HitGapGuards, QuietGuards DEF L!RequestStep
<1>2. ASSUME NEW k \in L!Counter, L!WindowEnds(k) PROVE GuardInv'
  BY <1>2, WindowEndGuards
<1>3. CASE UNCHANGED L!vars
  <2>1. UNCHANGED <<service, counter, request, torn>>
    BY <1>3 DEF L!vars
  <2>2. L!Path' = L!Path
    BY <2>1 DEF L!Path
  <2>3. \A q, k : Expires(q, k)' <=> Expires(q, k)
    BY <2>1, <2>2 DEF Expires, L!Key
  <2> QED BY <2>1, <2>3 DEF GuardInv, Guarded, L!Counter
<1> QED BY <1>1, <1>2, <1>3 DEF L!Next

LEMMA GuardInvariance == L!Spec => []GuardInv
BY GuardInit, GuardStep, LimitsInvariance, PTL DEF L!Spec

\* A counter in Redis has a time to live, or a request under way is about to give it one
\* and it is the only one, or its EXPIRE was lost: however many requests hit a counter at
\* once, the window ends for all of them unless exactly that one command was cut off.
\* With time passing this is why UntornWindowsEnd holds.
THEOREM WindowsAreGuarded ==
  L!Spec => [](\A k \in L!Counter : counter[k].n > 0 =>
                 \/ counter[k].ttl
                 \/ k \in torn
                 \/ \E r \in Request : /\ Expires(r, k)
                                       /\ \A q \in Request : Expires(q, k) => q = r)
<1> DEFINE P == \A k \in L!Counter : counter[k].n > 0 =>
                  \/ counter[k].ttl
                  \/ k \in torn
                  \/ \E r \in Request : /\ Expires(r, k)
                                        /\ \A q \in Request : Expires(q, k) => q = r
<1>1. GuardInv => P
  BY DEF GuardInv, Guarded
<1> HIDE DEF P
<1>2. L!Spec => []P
  BY <1>1, GuardInvariance, PTL
<1> QED BY <1>2 DEF P

\* A counter whose EXPIRE was lost never ends: no request after it repairs it, for only
\* the one that makes a counter sends EXPIRE, and it counts on until whoever it counts is
\* refused for good (the except branch of allowed and of check_now only refuses).
THEOREM TornNeverEnds ==
  L!Spec => [][\A k \in torn : k \in torn' /\ counter'[k].n >= counter[k].n]_L!vars
<1> DEFINE Kept == \A k \in torn : k \in torn' /\ counter'[k].n >= counter[k].n
<1>1. ASSUME LimitsInv, GuardInv, [L!Next]_L!vars PROVE Kept
  <2>1. counter \in [L!Counter -> Window] /\ torn \subseteq L!Counter /\ "gap" \notin torn
    <3>1. "gap" \in L!Counter
      BY ServicesAssumption DEF L!LimitsAssumption, L!Counter
    <3> QED BY <1>1, <3>1 DEF LimitsInv, L!TypeOK, GuardInv, Guarded
  <2>2. \A k \in L!Counter : counter[k].n \in Nat
    BY <2>1 DEF Window
  <2>3. ASSUME NEW r \in Request, L!RequestStep(r) PROVE Kept
    <3>1. CASE L!Hit(r)
      BY <1>1, <2>1, <3>1, HitGuards DEF L!Hit
    <3>2. CASE L!Expire(r)
      BY <1>1, <2>1, <3>2, ExpireGuards DEF L!Expire
    <3>3. CASE L!HitGap(r)
      BY <1>1, <2>1, <2>2, <3>3, HitGapGuards DEF L!HitGap
    <3>4. CASE L!Fail(r)
      BY <2>1, <2>2, <3>4 DEF L!Fail
    <3>5. CASE L!Begin(r) \/ L!Start(r) \/ L!Finish(r)
      BY <2>1, <2>2, <3>5 DEF L!Begin, L!Start, L!Finish
    <3> QED BY <2>3, <3>1, <3>2, <3>3, <3>4, <3>5 DEF L!RequestStep
  <2>4. ASSUME NEW k \in L!Counter, L!WindowEnds(k) PROVE Kept
    <3>1. k \notin torn /\ \A j \in L!Counter \ {k} : counter'[j] = counter[j]
      BY <1>1, <2>4, WindowEndGuards
    <3> QED BY <2>1, <2>2, <2>4, <3>1 DEF L!WindowEnds
  <2>5. CASE UNCHANGED L!vars
    BY <2>1, <2>2, <2>5 DEF L!vars
  <2> QED BY <1>1, <2>3, <2>4, <2>5 DEF L!Next
<1> HIDE DEF Kept
<1>2. L!Spec => [][Kept]_L!vars
  BY <1>1, LimitsInvariance, GuardInvariance, PTL DEF L!Spec
<1> QED BY <1>2 DEF Kept

-----------------------------------------------------------------------------
(* Reminders.                                                              *)

\* Why an account without an excuse gets one mail: the task that sent it still has the
\* account before it, or the mark is set, and then no task has it; nor have two tasks.
Once(u) ==
  u \notin excused =>
    /\ reminders[u] # 2
    /\ reminders[u] = 1 => marked[u] \/ \E t \in Task : task[t].sent = u
    /\ marked[u] => \A t \in Task : u \notin R!Has(t)
    /\ \A s, t \in Task : u \in R!Has(s) /\ u \in R!Has(t) => s = t

\* A task that is not running has nothing before it, and it sends an account's mail once.
TaskInv ==
  \A t \in Task : /\ ~task[t].running => R!Has(t) = {}
                  /\ task[t].sent \notin task[t].todo

RemindersInv ==
  /\ R!TypeOK /\ stage \in [User -> {"unverified", "trial", "paid"}]
  /\ TaskInv /\ \A u \in User : Once(u)

LEMMA RemindersInit == R!Init => RemindersInv
<1> SUFFICES ASSUME R!Init PROVE RemindersInv
  OBVIOUS
<1> USE ServicesAssumption DEF R!RemindersAssumption, R!Init, R!Idle
<1>1. R!TypeOK /\ stage \in [User -> {"unverified", "trial", "paid"}]
  BY DEF R!TypeOK
<1>2. TaskInv /\ \A u \in User : Once(u)
  BY DEF TaskInv, Once, R!Has
<1> QED BY <1>1, <1>2 DEF RemindersInv

Task_ == [running : BOOLEAN, todo : SUBSET User, sent : User \cup {Nobody}]

\* Taking an account off a list, and writing down that its mail was sent.
LEMMA TaskWritten ==
  ASSUME task \in [Task -> Task_], NEW t \in Task, NEW todo \in SUBSET User,
         NEW sent \in User \cup {Nobody}
  PROVE  /\ [task EXCEPT ![t].todo = todo] \in [Task -> Task_]
         /\ [task EXCEPT ![t].sent = sent] \in [Task -> Task_]
         /\ [task EXCEPT ![t].todo = todo, ![t].sent = sent] \in [Task -> Task_]
<1> DEFINE new == [task EXCEPT ![t].todo = todo]
<1>1. /\ new \in [Task -> Task_] /\ \A s \in Task \ {t} : new[s] = task[s]
      /\ new[t] = [running |-> task[t].running, todo |-> todo, sent |-> task[t].sent]
  BY DEF Task_
<1>2. [task EXCEPT ![t].sent = sent] \in [Task -> Task_]
  BY DEF Task_
<1>3. [new EXCEPT ![t].sent = sent] \in [Task -> Task_]
  <2> HIDE DEF new
  <2> QED BY <1>1 DEF Task_
<1> QED BY <1>1, <1>2, <1>3

LEMMA FreedType ==
  ASSUME R!TypeOK, NEW t \in Task PROVE R!Freed(t) \in [User -> Task \cup {Nobody}]
BY DEF R!TypeOK, R!Freed

LEMMA RemindersTypeStep == RemindersInv /\ [R!Next]_R!vars =>
  R!TypeOK' /\ stage' \in [User -> {"unverified", "trial", "paid"}]
<1> SUFFICES ASSUME RemindersInv, [R!Next]_R!vars
             PROVE  R!TypeOK' /\ stage' \in [User -> {"unverified", "trial", "paid"}]
  OBVIOUS
<1> USE DEF RemindersInv, R!TypeOK
<1>0. /\ task \in [Task -> Task_] /\ R!Idle \in Task_
      /\ \A t \in Task : R!Freed(t) \in [User -> Task \cup {Nobody}]
  BY FreedType DEF Task_, R!Idle
<1>a. ASSUME task' \in [Task -> Task_] PROVE task' \in [Task -> [running : BOOLEAN, todo : SUBSET User, sent : User \cup {Nobody}]]
  BY <1>a DEF Task_
<1>1. ASSUME NEW u \in User, R!Verify(u) \/ R!Upgrade(u)
      PROVE  R!TypeOK' /\ stage' \in [User -> {"unverified", "trial", "paid"}]
  BY <1>1 DEF R!Verify, R!Upgrade
<1>2. ASSUME NEW t \in Task, R!Select(t)
      PROVE  R!TypeOK' /\ stage' \in [User -> {"unverified", "trial", "paid"}]
  BY <1>2 DEF R!Select
<1>3. ASSUME NEW t \in Task, NEW u \in User,
             R!Send(t, u) \/ R!Refuse(t, u) \/ R!Abort(t, u) \/ R!Flake(t, u)
      PROVE  R!TypeOK' /\ stage' \in [User -> {"unverified", "trial", "paid"}]
  <2>1. task[t].todo \ {u} \in SUBSET User
    BY <1>0 DEF Task_
  <2>2. CASE R!Send(t, u)
    <3>1. task' \in [Task -> Task_]
      BY <1>0, <2>1, <2>2, TaskWritten DEF R!Send
    <3> QED BY <2>2, <3>1, <1>a DEF R!Send
  <2>3. CASE R!Refuse(t, u)
    <3>1. task' \in [Task -> Task_]
      BY <1>0, <2>1, <2>3, TaskWritten DEF R!Refuse
    <3> QED BY <2>3, <3>1, <1>0, <1>a DEF R!Refuse
  <2>4. CASE R!Abort(t, u)
    <3>1. task' \in [Task -> Task_]
      BY <1>0, <2>4 DEF R!Abort
    <3> QED BY <2>4, <3>1, <1>0, <1>a DEF R!Abort
  <2>5. CASE R!Flake(t, u)
    <3>1. task' \in [Task -> Task_]
      <4>1. task' = [task EXCEPT ![t].todo = task[t].todo \ {u}]
        BY <2>5 DEF R!Flake
      <4> QED BY <1>0, <2>1, <4>1, TaskWritten
    <3>2. faults' \in 0..MaxFaults /\ reminders' \in [User -> 0..2]
      BY <2>5, ServicesAssumption DEF R!Flake, R!RemindersAssumption
    <3> QED BY <2>5, <3>1, <3>2, <1>0, <1>a DEF R!Flake
  <2> QED BY <1>3, <2>2, <2>3, <2>4, <2>5
<1>4. ASSUME NEW t \in Task, R!Mark(t) \/ R!Return(t) \/ R!Crash(t)
      PROVE  R!TypeOK' /\ stage' \in [User -> {"unverified", "trial", "paid"}]
  <2>1. CASE R!Mark(t)
    <3>1. task' \in [Task -> Task_]
      BY <1>0, <2>1 DEF R!Mark, Task_
    <3> QED BY <2>1, <3>1, <1>0, <1>a DEF R!Mark
  <2>2. CASE R!Return(t)
    BY <2>2, <1>0, <1>a DEF R!Return
  <2>3. CASE R!Crash(t)
    <3>1. faults' \in 0..MaxFaults /\ excused' \subseteq User
      BY <2>3, ServicesAssumption DEF R!Crash, R!RemindersAssumption
    <3> QED BY <2>3, <3>1, <1>0, <1>a DEF R!Crash
  <2> QED BY <1>4, <2>1, <2>2, <2>3
<1>5. CASE UNCHANGED R!vars
  BY <1>5 DEF R!vars
<1> QED BY <1>1, <1>2, <1>3, <1>4, <1>5 DEF R!Next, R!TaskStep

\* What one step of a task does to the lists: the task that moved has some of what it
\* had, or, once it was idle, what is due.
LEMMA ListsStep ==
  ASSUME RemindersInv, NEW t \in Task
  PROVE  /\ R!Select(t) => /\ task'[t].todo = {u \in User : R!Due(u)} /\ task'[t].sent = Nobody
                           /\ task'[t].running
         /\ \A u \in User :
              /\ R!Send(t, u) => /\ task'[t].todo = task[t].todo \ {u} /\ task'[t].sent = u
                                 /\ task'[t].running = task[t].running
              /\ R!Refuse(t, u) \/ R!Flake(t, u)
                   => /\ task'[t].todo = task[t].todo \ {u} /\ task'[t].sent = Nobody
                      /\ task'[t].running = task[t].running
              /\ R!Abort(t, u) => task'[t] = R!Idle
         /\ R!Mark(t) => /\ task'[t].todo = task[t].todo /\ task'[t].sent = Nobody
                         /\ task'[t].running = task[t].running
         /\ R!Return(t) \/ R!Crash(t) => task'[t] = R!Idle
         /\ \A s \in Task \ {t} :
              (\/ R!Select(t) \/ R!Mark(t) \/ R!Return(t) \/ R!Crash(t)
               \/ \E u \in User : R!Send(t, u) \/ R!Refuse(t, u) \/ R!Abort(t, u) \/ R!Flake(t, u))
              => task'[s] = task[s]
<1>1. task \in [Task -> Task_]
  BY DEF RemindersInv, R!TypeOK, Task_
<1>2. ASSUME NEW u \in User
      PROVE  /\ R!Send(t, u) => /\ task'[t].todo = task[t].todo \ {u} /\ task'[t].sent = u
                                /\ task'[t].running = task[t].running
                                /\ \A s \in Task \ {t} : task'[s] = task[s]
             /\ R!Refuse(t, u) \/ R!Flake(t, u)
                  => /\ task'[t].todo = task[t].todo \ {u} /\ task'[t].sent = Nobody
                     /\ task'[t].running = task[t].running
                     /\ \A s \in Task \ {t} : task'[s] = task[s]
             /\ R!Abort(t, u) => task'[t] = R!Idle /\ \A s \in Task \ {t} : task'[s] = task[s]
  <2>1. task[t].todo \ {u} \in SUBSET User
    BY <1>1 DEF Task_
  <2>2. ASSUME R!Send(t, u)
        PROVE  /\ task'[t].todo = task[t].todo \ {u} /\ task'[t].sent = u
               /\ task'[t].running = task[t].running
               /\ \A s \in Task \ {t} : task'[s] = task[s]
    <3> DEFINE rest == task[t].todo \ {u}
    <3>1. task' = [task EXCEPT ![t].todo = rest, ![t].sent = u] /\ rest \in SUBSET User
      BY <2>1, <2>2 DEF R!Send
    <3> HIDE DEF rest
    <3>2. /\ task'[t] = [running |-> task[t].running, todo |-> rest, sent |-> u]
          /\ \A s \in Task \ {t} : task'[s] = task[s]
      <4> DEFINE new == [task EXCEPT ![t].todo = rest]
      <4>1. /\ new \in [Task -> Task_] /\ \A s \in Task \ {t} : new[s] = task[s]
            /\ new[t] = [running |-> task[t].running, todo |-> rest, sent |-> task[t].sent]
        BY <1>1, <3>1 DEF Task_
      <4>2. task' = [new EXCEPT ![t].sent = u]
        BY <3>1
      <4> HIDE DEF new
      <4> QED BY <4>1, <4>2 DEF Task_
    <3> QED BY <3>2 DEF rest
  <2>3. ASSUME R!Refuse(t, u) \/ R!Flake(t, u)
        PROVE  /\ task'[t].todo = task[t].todo \ {u} /\ task'[t].sent = Nobody
               /\ task'[t].running = task[t].running
               /\ \A s \in Task \ {t} : task'[s] = task[s]
    <3>1. task' = [task EXCEPT ![t].todo = task[t].todo \ {u}] /\ task[t].sent = Nobody
      BY <2>3 DEF R!Refuse, R!Flake
    <3> QED BY <1>1, <3>1 DEF Task_
  <2>4. ASSUME R!Abort(t, u)
        PROVE  task'[t] = R!Idle /\ \A s \in Task \ {t} : task'[s] = task[s]
    BY <1>1, <2>4 DEF R!Abort
  <2> QED BY <2>2, <2>3, <2>4
<1>3. R!Select(t) => /\ task'[t].todo = {u \in User : R!Due(u)} /\ task'[t].sent = Nobody
                     /\ task'[t].running /\ \A s \in Task \ {t} : task'[s] = task[s]
  BY <1>1 DEF R!Select
<1>4. R!Mark(t) => /\ task'[t].todo = task[t].todo /\ task'[t].sent = Nobody
                   /\ task'[t].running = task[t].running
                   /\ \A s \in Task \ {t} : task'[s] = task[s]
  BY <1>1 DEF R!Mark, Task_
<1>5. R!Return(t) \/ R!Crash(t) => task'[t] = R!Idle /\ \A s \in Task \ {t} : task'[s] = task[s]
  BY <1>1 DEF R!Return, R!Crash
<1> QED BY <1>2, <1>3, <1>4, <1>5

LEMMA OnceStep ==
  ASSUME RemindersInv, [R!Next]_R!vars, NEW u \in User PROVE Once(u)'
<1> USE ServicesAssumption DEF R!RemindersAssumption, R!Has
<1>0. /\ Once(u) /\ TaskInv /\ reminders \in [User -> 0..2] /\ marked \in [User -> BOOLEAN]
      /\ \A t \in Task : task[t].todo \subseteq User /\ task[t].sent \in User \cup {Nobody}
  BY DEF RemindersInv, R!TypeOK
<1>1. ASSUME NEW v \in User, R!Verify(v) \/ R!Upgrade(v) PROVE Once(u)'
  BY <1>0, <1>1 DEF R!Verify, R!Upgrade, Once
<1>2. ASSUME NEW t \in Task, R!Select(t) PROVE Once(u)'
  <2> SUFFICES ASSUME u \notin excused' PROVE Once(u)'
    BY DEF Once
  <2>1. /\ UNCHANGED <<marked, reminders>> /\ ~task[t].running
        /\ task'[t].todo = {v \in User : R!Due(v)} /\ task'[t].sent = Nobody
        /\ \A s \in Task \ {t} : task'[s] = task[s]
    <3>1. /\ task'[t].todo = {v \in User : R!Due(v)} /\ task'[t].sent = Nobody
          /\ \A s \in Task \ {t} : task'[s] = task[s]
      BY <1>2, ListsStep, Zenon
    <3> QED BY <1>2, <3>1 DEF R!Select
  <2>2. u \notin excused /\ (R!Due(u) => \A s \in Task \ {t} : u \notin R!Has(s))
    BY <1>2 DEF R!Select
  <2> QED BY <1>0, <2>1, <2>2 DEF Once, TaskInv, R!Due
<1>3. ASSUME NEW t \in Task, NEW v \in User, R!Send(t, v) PROVE Once(u)'
  <2> SUFFICES ASSUME u \notin excused' PROVE Once(u)'
    BY DEF Once
  <2>1. /\ UNCHANGED <<marked, excused>> /\ v \in task[t].todo /\ task[t].sent = Nobody
        /\ task'[t].todo = task[t].todo \ {v} /\ task'[t].sent = v
        /\ \A s \in Task \ {t} : task'[s] = task[s]
    <3>1. /\ task'[t].todo = task[t].todo \ {v} /\ task'[t].sent = v
          /\ \A s \in Task \ {t} : task'[s] = task[s]
      BY <1>3, ListsStep, Zenon
    <3> QED BY <1>3, <3>1 DEF R!Send
  <2>2. reminders' = [reminders EXCEPT ![v] = IF @ = 2 THEN 2 ELSE @ + 1]
    BY <1>3 DEF R!Send
  <2>3. CASE u = v
    <3>1. v \in R!Has(t)
      BY <2>1
    <3>2. reminders[u] # 1
      BY <1>0, <2>1, <2>3, <3>1 DEF Once
    <3> QED BY <1>0, <2>1, <2>2, <2>3, <3>1, <3>2 DEF Once
  <2>4. CASE u # v
    BY <1>0, <2>1, <2>2, <2>4 DEF Once
  <2> QED BY <2>3, <2>4
<1>4. ASSUME NEW t \in Task, NEW v \in User, R!Refuse(t, v) \/ R!Abort(t, v) \/ R!Flake(t, v)
      PROVE  Once(u)'
  <2> SUFFICES ASSUME u \notin excused' PROVE Once(u)'
    BY DEF Once
  <2>1. /\ UNCHANGED marked /\ u \notin excused /\ reminders'[u] = reminders[u]
        /\ task[t].sent = Nobody
        /\ task'[t].todo \subseteq task[t].todo /\ task'[t].sent = Nobody
        /\ \A s \in Task \ {t} : task'[s] = task[s]
    BY <1>0, <1>4, ListsStep DEF R!Refuse, R!Abort, R!Flake, R!Idle
  <2> QED BY <1>0, <2>1 DEF Once
<1>5. ASSUME NEW t \in Task, R!Mark(t) PROVE Once(u)'
  <2>1. /\ UNCHANGED <<reminders, excused>> /\ task[t].sent \in User
        /\ marked' = [marked EXCEPT ![task[t].sent] = TRUE]
    BY <1>0, <1>5 DEF R!Mark
  <2>2. /\ task'[t].todo = task[t].todo /\ task'[t].sent = Nobody
        /\ \A s \in Task \ {t} : task'[s] = task[s]
    BY <1>5, ListsStep
  <2> QED BY <1>0, <2>1, <2>2 DEF Once, TaskInv
<1>6. ASSUME NEW t \in Task, R!Return(t) \/ R!Crash(t) PROVE Once(u)'
  <2> SUFFICES ASSUME u \notin excused' PROVE Once(u)'
    BY DEF Once
  <2>1. /\ UNCHANGED <<marked, reminders>> /\ u \notin excused /\ task[t].sent # u
        /\ task'[t].todo = {} /\ task'[t].sent = Nobody
        /\ \A s \in Task \ {t} : task'[s] = task[s]
    BY <1>0, <1>6, ListsStep DEF R!Return, R!Crash, R!Idle
  <2> QED BY <1>0, <2>1 DEF Once
<1>7. CASE UNCHANGED R!vars
  BY <1>0, <1>7 DEF R!vars, Once
<1> QED BY <1>1, <1>2, <1>3, <1>4, <1>5, <1>6, <1>7 DEF R!Next, R!TaskStep

LEMMA TaskInvStep == ASSUME RemindersInv, [R!Next]_R!vars PROVE TaskInv'
<1> USE ServicesAssumption DEF R!RemindersAssumption, R!Has, TaskInv
<1>0. TaskInv
  BY DEF RemindersInv
<1>1. ASSUME NEW v \in User, R!Verify(v) \/ R!Upgrade(v) PROVE TaskInv'
  BY <1>0, <1>1 DEF R!Verify, R!Upgrade
<1>2. ASSUME NEW t \in Task,
             \/ R!Select(t) \/ R!Mark(t) \/ R!Return(t) \/ R!Crash(t)
             \/ \E v \in User : R!Refuse(t, v) \/ R!Abort(t, v) \/ R!Flake(t, v)
      PROVE  TaskInv'
  <2>1. /\ \A s \in Task \ {t} : task'[s] = task[s]
        /\ task'[t].sent = Nobody /\ task'[t].todo \subseteq User
        /\ task'[t].running \/ task'[t].todo = {}
    BY <1>0, <1>2, ListsStep DEF R!Idle, RemindersInv, R!TypeOK
  <2> QED BY <1>0, <2>1
<1>3. ASSUME NEW t \in Task, NEW v \in User, R!Send(t, v) PROVE TaskInv'
  <2>1. /\ \A s \in Task \ {t} : task'[s] = task[s]
        /\ task'[t].sent = v /\ task'[t].todo = task[t].todo \ {v}
        /\ task'[t].running = task[t].running
    BY <1>3, ListsStep
  <2>2. v \in R!Has(t)
    BY <1>3 DEF R!Send
  <2> QED BY <1>0, <2>1, <2>2
<1>4. CASE UNCHANGED R!vars
  BY <1>0, <1>4 DEF R!vars
<1> QED BY <1>1, <1>2, <1>3, <1>4 DEF R!Next, R!TaskStep

LEMMA RemindersInvariance == R!Spec => []RemindersInv
<1>1. RemindersInv /\ [R!Next]_R!vars => RemindersInv'
  BY RemindersTypeStep, OnceStep, TaskInvStep DEF RemindersInv
<1> QED BY RemindersInit, <1>1, PTL DEF R!Spec

-----------------------------------------------------------------------------
(* The parts side by side.                                                 *)

allVars == <<part, siteVars, accessVars, limitsVars, remindersVars, queueVars>>

\* In a step one part moves by its own rules and the others rest.
LEMMA PartStep ==
  [Next]_allVars => /\ [S!Next]_S!vars /\ [A!Next]_A!vars /\ [L!Next]_L!vars
                    /\ [R!Next]_R!vars /\ [Q!Next]_Q!vars
<1> SUFFICES ASSUME [Next]_allVars
             PROVE  /\ [S!Next]_S!vars /\ [A!Next]_A!vars /\ [L!Next]_L!vars
                    /\ [R!Next]_R!vars /\ [Q!Next]_Q!vars
  OBVIOUS
<1> USE DEF S!vars, A!vars, L!vars, R!vars, Q!vars,
            siteVars, accessVars, limitsVars, remindersVars, queueVars
<1>1. CASE Next
  BY <1>1 DEF Next
<1>2. CASE UNCHANGED allVars
  BY <1>2 DEF allVars
<1> QED BY <1>1, <1>2

\* A behaviour of MCServices is one of SiteCheck, of Access, of Limits, of Reminders
\* and of PendingChecks: what is proved of a part holds of the composition.
THEOREM PartsRunAsSpecified == Spec => S!Spec /\ A!Spec /\ L!Spec /\ R!Spec /\ Q!Spec
<1>1. Init => S!Init /\ A!Init /\ L!Init /\ R!Init /\ Q!Init
  BY DEF Init
<1> QED BY <1>1, PartStep, PTL DEF Spec, allVars, S!Spec, A!Spec, L!Spec, R!Spec, Q!Spec

\* The records, rows and counters of all the parts keep their types.
THEOREM TypeCorrect == Spec => []TypeOK
<1>1. SiteInv /\ AccessInv /\ LimitsInv /\ RemindersInv => TypeOK
  BY DEF TypeOK, SiteInv, AccessInv, LimitsInv, RemindersInv
<1> QED BY <1>1, PartsRunAsSpecified, SiteInvariance, AccessInvariance, LimitsInvariance,
           RemindersInvariance, PTL

\* load() shows nothing that no worker reported, and what is missing from a final
\* result was waited for, however many loads overlap.
THEOREM ShownWasReported == Spec => []ResultsAreReported
<1>1. SiteInv => ResultsAreReported
  BY DEF SiteInv, AllReported, Reported, DoneIsFinal, ResultsAreReported, S!ResultsAreReported
<1> QED BY <1>1, PartsRunAsSpecified, SiteInvariance, PTL

\* A run that is done within WAIT_SECONDS is complete, and no later load of it takes
\* that back before the time is over.
THEOREM LoadsDoNotUndo == Spec => DoneInTime
BY PartsRunAsSpecified, SiteStaysDone, PTL DEF DoneInTime

\* A request that comes when its link has done its work is not let in, however many
\* requests with that link overlapped with the one that did it: GET /verify and POST
\* /reset-password answer "invalid or expired".
THEOREM LinksWorkOnce == Spec => []UsedLinkIsDead
<1>1. AccessInv => UsedLinkIsDead
  BY DEF AccessInv, UsedLinkIsDead
<1> QED BY <1>1, PartsRunAsSpecified, AccessInvariance, PTL

\* An account is reminded once, whatever batches and tasks it was in, but for a crash
\* or an exception on the way and for two tasks that had it on their lists.
THEOREM OneReminder == Spec => []RemindedOnce
<1>1. RemindersInv => RemindedOnce
  BY DEF RemindersInv, R!TypeOK, Once, RemindedOnce, R!RemindedOnce
<1> QED BY <1>1, PartsRunAsSpecified, RemindersInvariance, PTL
=============================================================================

----------------------------- MODULE RulesProofs -----------------------------
(***************************************************************************)
(* The parts of MCRules, for any number of runs, tabs, subscriptions,      *)
(* requests and monitors: what holds of each part by itself, and that a    *)
(* behaviour of the parts side by side is one of each of them.             *)
(***************************************************************************)
EXTENDS MCRules, PlanFitProofs, SequenceTheorems

-----------------------------------------------------------------------------
(* SiteImport.                                                             *)

\* The tab t of the browser b waits for the answer that drops the cookie with r.
Dropping(t, b, r) == visit[t].pc = "answering" /\ visit[t].run = r /\ BrowserOf[t] = b

\* A list that was finished for good is on no way back into the account: no browser
\* carries it, or an answer is about to drop it, and no page is about to bind it.
Gone(r) ==
  /\ claim # r
  /\ \A b \in I!Browser : cookie[b] = r => \E t \in Tab : Dropping(t, b, r)
  /\ \A t \in Tab : visit[t].pc = "bind" => visit[t].run # r

Visit == [pc : {"idle", "bind", "get", "look", "open", "answering"}, run : Run \cup {NoRun}]

ImportInv ==
  /\ live \subseteq Run /\ claim \in Run \cup {NoRun} /\ finished \subseteq Run
  /\ cookie \in [I!Browser -> Run \cup {NoRun}]
  /\ visit \in [Tab -> Visit]
  /\ \A t \in Tab : visit[t].pc \in {"look", "open"} => visit[t].run \in Run
  /\ \A r \in finished \ pardoned : Gone(r)

LEMMA ImportInit == I!Init => ImportInv
BY DEF I!Init, ImportInv, I!Idle, Gone, Visit

LEMMA ImportStep == ImportInv /\ [I!Next]_I!vars => ImportInv'
<1> SUFFICES ASSUME ImportInv, [I!Next]_I!vars PROVE ImportInv'
  OBVIOUS
<1> USE RulesAssumption DEF I!SiteImportAssumption, ImportInv, Gone, Dropping, Visit
<1>0. \A t \in Tab : BrowserOf[t] \in I!Browser
  BY DEF I!Browser
<1>1. ASSUME NEW b \in I!Browser, NEW r \in Run, NEW signedIn \in BOOLEAN, I!OpenLink(b, r, signedIn)
      PROVE  ImportInv'
  BY <1>1 DEF I!OpenLink
<1>2. ASSUME NEW t \in Tab, I!Load(t) PROVE ImportInv'
  <2> DEFINE b == BrowserOf[t]
             late == \E u \in Tab : visit[u] = [pc |-> "answering", run |-> cookie[b]] /\ BrowserOf[u] = b
  <2>1. /\ visit[t].pc = "idle" /\ visit' = [visit EXCEPT ![t] = [pc |-> "bind", run |-> cookie[b]]]
        /\ pardoned' = IF late THEN pardoned \cup {cookie[b]} ELSE pardoned
        /\ UNCHANGED <<live, claim, cookie, finished>>
    BY <1>2 DEF I!Load
  <2>2. visit' \in [Tab -> Visit] /\ \A u \in Tab : visit'[u].pc \in {"look", "open"} => visit'[u].run \in Run
    BY <1>0, <2>1
  <2>3. ASSUME NEW r \in finished \ pardoned' PROVE Gone(r)'
    <3>1. Gone(r)
      BY <2>1, <2>3
    <3>2. cookie[b] # r
      <4>1. SUFFICES ASSUME cookie[b] = r PROVE FALSE
        OBVIOUS
      <4>2. PICK u \in Tab : Dropping(u, b, r)
        BY <1>0, <3>1, <4>1
      <4>3. visit[u] = [pc |-> "answering", run |-> cookie[b]]
        BY <4>1, <4>2
      <4>4. late
        BY <4>2, <4>3
      <4> QED BY <2>1, <2>3, <4>1, <4>4
    <3>3. \A u \in Tab, c \in I!Browser : Dropping(u, c, r) => Dropping(u, c, r)'
      BY <2>1
    <3>4. \A u \in Tab : visit'[u].pc = "bind" => visit'[u].run # r
      BY <2>1, <3>1, <3>2
    <3> QED BY <2>1, <3>1, <3>3, <3>4
  <2> QED BY <2>1, <2>2, <2>3
<1>3. ASSUME NEW t \in Tab, I!bind(t) PROVE ImportInv'
  BY <1>3 DEF I!bind
<1>4. ASSUME NEW t \in Tab, I!GetClaim(t) PROVE ImportInv'
  BY <1>4 DEF I!GetClaim, I!Idle
<1>5. ASSUME NEW t \in Tab, I!run_sites(t) PROVE ImportInv'
  <2>1. CASE visit[t].run \in live
    BY <1>5, <2>1 DEF I!run_sites
  <2>2. CASE visit[t].run \notin live
    BY <1>5, <2>2 DEF I!run_sites, I!Idle
  <2> QED BY <2>1, <2>2
<1>6. ASSUME NEW t \in Tab, I!Leave(t) PROVE ImportInv'
  BY <1>6 DEF I!Leave, I!Idle
<1>7. ASSUME NEW t \in Tab, NEW cleared \in BOOLEAN, NEW drops \in BOOLEAN, I!Clear(t, cleared, drops)
      PROVE  ImportInv'
  <2> DEFINE done == visit[t].run
             b == BrowserOf[t]
  <2>1. /\ visit[t].pc = "open" /\ done \in Run /\ finished' = finished \cup {done}
        /\ cookie[b] # NoRun => drops
        /\ visit' = [visit EXCEPT ![t] = IF drops THEN [visit[t] EXCEPT !.pc = "answering"] ELSE I!Idle]
        /\ live' = live /\ cookie' = cookie
        /\ claim' = (IF cleared THEN NoRun ELSE claim)
        /\ pardoned \subseteq pardoned'
    BY <1>7 DEF I!Clear
  <2>2. \/ done \in pardoned'
        \/ /\ claim' = NoRun
           /\ \A c \in I!Browser : c # b => cookie[c] # done
           /\ \A u \in Tab : u # t /\ visit[u].pc = "bind" => visit[u].run # done
    BY <1>7 DEF I!Clear
  <2>3. /\ visit' \in [Tab -> Visit]
        /\ \A u \in Tab : u # t => visit'[u] = visit[u]
        /\ visit'[t].pc \in {"idle", "answering"}
        /\ drops => visit'[t].pc = "answering" /\ visit'[t].run = done
    BY <2>1 DEF I!Idle
  <2>4. ASSUME NEW r \in finished' \ pardoned' PROVE Gone(r)'
    <3>1. CASE r \in finished
      <4>1. Gone(r)
        BY <2>1, <3>1
      <4>2. \A u \in Tab, c \in I!Browser : Dropping(u, c, r) => Dropping(u, c, r)'
        BY <2>1, <2>3
      <4> QED BY <2>1, <2>3, <3>1, <4>1, <4>2
    <3>2. CASE r = done
      <4>1. cookie[b] = r => Dropping(t, b, r)'
        BY <2>1, <2>3, <3>2
      <4> QED BY <1>0, <2>1, <2>2, <2>3, <2>4, <3>2, <4>1
    <3> QED BY <2>1, <3>1, <3>2
  <2>5. \A u \in Tab : visit'[u].pc \in {"look", "open"} => visit'[u].run \in Run
    BY <2>3
  <2> HIDE DEF done, b
  <2> QED BY <2>1, <2>3, <2>4, <2>5
<1>8. ASSUME NEW t \in Tab, I!Answer(t) PROVE ImportInv'
  BY <1>0, <1>8 DEF I!Answer, I!Idle
<1>9. ASSUME NEW r \in live, I!Expire(r) PROVE ImportInv'
  BY <1>9 DEF I!Expire
<1>10. CASE UNCHANGED I!vars
  BY <1>10 DEF I!vars
<1> HIDE DEF ImportInv, Gone, Dropping, Visit
<1> QED BY <1>1, <1>2, <1>3, <1>4, <1>5, <1>6, <1>7, <1>8, <1>9, <1>10 DEF I!Next

LEMMA ImportInvariance == I!Spec => []ImportInv
BY ImportInit, ImportStep, PTL DEF I!Spec

-----------------------------------------------------------------------------
(* Checkers.                                                               *)

\* What an attempt can end with.
Word == {"redirects"} \cup UNION {K!TRANSIENT_ERRORS(t) \cup K!OtherError(t) \cup K!Said(t) : t \in K!Type}

\* While the thread runs there was at most one answer, an error that may pass, and no
\* verdict but the time-out's.
CheckersInv ==
  /\ hop \in Nat /\ type \in K!Type
  /\ answers \in Seq([kind : {"error", "said"}, of : Word])
  /\ Len(answers) <= 2
  /\ verdict \in [status : {"none", "up", "down"}, why : {"none", "error", "said", "overrun"}]
  /\ busy => /\ Len(answers) <= 1
             /\ verdict.status # "up"
  /\ K!OneFlakeIsForgiven
  /\ busy /\ answers # <<>> => K!Transient(type, answers[1])

LEMMA CheckersInit == K!Init => CheckersInv
BY DEF K!Init, K!Type, CheckersInv, K!NoVerdict, K!Asked, K!OneFlakeIsForgiven

\* An attempt with any answer, a redirect too many among them.
LEMMA AttemptStep ==
  ASSUME CheckersInv, NEW answer \in [kind : {"error", "said"}, of : Word], K!Attempt(answer)
  PROVE  CheckersInv'
<1> USE DEF CheckersInv
<1>1. CASE K!Transient(type, answer) /\ answers = <<>>
  <2>1. /\ answers' = <<answer>> /\ busy /\ hop' = 0 /\ asking' = K!Asked
        /\ UNCHANGED <<type, mode, busy, verdict>>
    BY <1>1 DEF K!Attempt, K!Retry
  <2> QED BY <1>1, <2>1 DEF K!OneFlakeIsForgiven, K!Transient, K!Asked
<1>2. CASE ~(K!Transient(type, answer) /\ answers = <<>>)
  <2>1. /\ answers' = Append(answers, answer) /\ busy /\ ~busy'
        /\ verdict' = IF verdict = K!NoVerdict THEN K!CheckResult(type, answer, mode) ELSE verdict
        /\ UNCHANGED <<type, mode, asking, hop>>
    BY <1>2 DEF K!Attempt, K!Return
  <2>2. /\ answers' \in Seq([kind : {"error", "said"}, of : Word])
        /\ Len(answers') = Len(answers) + 1 /\ answers'[Len(answers')] = answer
        /\ \A i \in 1..Len(answers) : answers'[i] = answers[i]
    BY <2>1
  <2>6. Len(answers) \in {0, 1} /\ (Len(answers) = 0 <=> answers = <<>>)
    <3>1. Len(answers) \in Nat /\ Len(answers) <= 1 /\ answers \in Seq([kind : {"error", "said"}, of : Word])
      BY <2>1
    <3>2. Len(answers) = 0 <=> answers = <<>>
      BY <3>1
    <3>3. \A n \in Nat : n <= 1 => n \in {0, 1}
      OBVIOUS
    <3> HIDE DEF CheckersInv
    <3> QED BY <3>1, <3>2, <3>3
  <2>7. DOMAIN answers' = 1..Len(answers') /\ DOMAIN answers = 1..Len(answers)
    BY <2>2
  <2>3. K!CheckResult(type, answer, mode).status = "up" =>
          answer.kind = "said" /\ K!Good(type, answer.of, mode)
    BY DEF K!CheckResult
  <2>4. verdict' \in [status : {"none", "up", "down"}, why : {"none", "error", "said", "overrun"}]
    BY <2>1 DEF K!CheckResult
  <2>5. UNCHANGED <<K!Transient(type, answer), K!Good(type, answer.of, mode)>>
    BY <2>1 DEF K!Transient, K!Good, K!TRANSIENT_ERRORS
  <2> QED BY <1>2, <2>1, <2>2, <2>3, <2>4, <2>6, <2>7 DEF K!OneFlakeIsForgiven, K!Transient
<1> QED BY <1>1, <1>2

LEMMA CheckersStep == CheckersInv /\ [K!Next]_K!vars => CheckersInv'
<1> SUFFICES ASSUME CheckersInv, [K!Next]_K!vars PROVE CheckersInv'
  OBVIOUS
<1>1. ASSUME NEW t \in K!Type, NEW m \in {"all", "any"}, K!Begin(t, m) PROVE CheckersInv'
  BY <1>1 DEF K!Begin, CheckersInv, K!OneFlakeIsForgiven, K!NoVerdict, K!Asked
<1>2. ASSUME NEW away \in BOOLEAN, NEW toGet \in BOOLEAN, K!Redirect(away, toGet) PROVE CheckersInv'
  BY <1>2 DEF K!Redirect, CheckersInv, K!OneFlakeIsForgiven, K!Transient, K!Good
<1>3. ASSUME NEW answer \in K!Answer(type), K!Attempt(answer) PROVE CheckersInv'
  <2>1. answer \in [kind : {"error", "said"}, of : Word]
    BY DEF K!Answer, Word, CheckersInv
  <2> QED BY <1>3, <2>1, AttemptStep
<1>4. ASSUME K!Attempt(K!TooManyRedirects) PROVE CheckersInv'
  <2>1. K!TooManyRedirects \in [kind : {"error", "said"}, of : Word]
    BY DEF K!TooManyRedirects, Word
  <2> QED BY <1>4, <2>1, AttemptStep
<1>5. CASE K!HardTimeout
  BY <1>5 DEF K!HardTimeout, CheckersInv, K!OneFlakeIsForgiven, K!Transient, K!Good, K!NoVerdict
<1>6. CASE UNCHANGED K!vars
  BY <1>6 DEF K!vars, CheckersInv, K!OneFlakeIsForgiven, K!Transient, K!Good
<1> QED BY <1>1, <1>2, <1>3, <1>4, <1>5, <1>6 DEF K!Next

LEMMA CheckersInvariance == K!Spec => []CheckersInv
BY CheckersInit, CheckersStep, PTL DEF K!Spec

-----------------------------------------------------------------------------
(* MonitorSettings.                                                        *)

\* A monitors row, column by column.
IsRow(r) ==
  /\ DOMAIN r = {"made", "active", "interval", "timeout"}
  /\ r.made \in BOOLEAN /\ r.active \in BOOLEAN /\ r.interval \in Nat /\ r.timeout \in Int

\* The row of a monitor that was not made yet.
IsBlank(r) == ~r.made /\ ~r.active /\ r.interval = 0 /\ r.timeout = 0

\* An interval that q read as long enough and does not write stays long enough.
StillLong(q) ==
  request[q].pc # "idle" /\ ~request[q].behind /\ request[q].row.interval >= MinInterval[M!level]
    => settings.interval >= MinInterval[M!level]

PlanLevel == {"free", "trial"} \cup M!Paid

Question(v) ==
  /\ DOMAIN v = {"pc", "level", "row", "behind"}
  /\ v.pc \in {"idle", "create", "change"} /\ v.level \in PlanLevel /\ v.behind \in BOOLEAN
  /\ IsRow(v.row)

SettingsInv ==
  /\ tier \in {"free"} \cup M!Paid
  /\ straddled \in BOOLEAN /\ touched \in BOOLEAN
  /\ floor \in Nat /\ floor <= MinInterval[M!level]
  /\ IsRow(settings)
  /\ DOMAIN request = Request
  /\ \A q \in Request : Question(request[q])
  /\ \A q \in Request : request[q].pc # "idle" /\ ~request[q].behind => request[q].level = M!level
  /\ ~settings.made => IsBlank(settings)
  /\ \A q \in Request : /\ request[q].pc = "create" => IsBlank(request[q].row)
                        /\ request[q].pc = "change" => settings.made
  /\ ~straddled => \A q \in Request : StillLong(q)
  /\ M!SettingsHold

LEMMA MinIntervalsAre ==
  /\ MinInterval \in [PlanLevel -> Nat \ {0}]
  /\ \A t \in {"free"} \cup M!Paid : \A r : M!Level(t, r) \in PlanLevel
BY RulesAssumption DEF M!SettingsAssumption, M!Level, PlanLevel

LEMMA IdleIsTyped ==
  /\ M!Idle.pc = "idle" /\ M!Idle.row = M!NoRow /\ Question(M!Idle) /\ IsBlank(M!NoRow) /\ IsRow(M!NoRow)
<1>1. IsRow(M!NoRow) /\ IsBlank(M!NoRow)
  BY DEF M!NoRow, IsRow, IsBlank
<1>2. /\ M!Idle.row = M!NoRow /\ M!Idle.pc = "idle" /\ M!Idle.level = "free" /\ M!Idle.behind = FALSE
      /\ DOMAIN M!Idle = {"pc", "level", "row", "behind"}
  BY DEF M!Idle
<1> QED BY <1>1, <1>2 DEF Question, PlanLevel

LEMMA SettingsInit == M!Init => SettingsInv
<1> SUFFICES ASSUME M!Init PROVE SettingsInv
  OBVIOUS
<1>1. IsRow(settings) /\ IsBlank(settings) /\ ~settings.active /\ ~settings.made
  BY IdleIsTyped DEF M!Init, IsBlank
<1>2. DOMAIN request = Request /\ \A q \in Request : request[q] = M!Idle
  BY DEF M!Init
<1>3. M!level = "free" /\ tier = "free" /\ floor = MinInterval["free"] /\ straddled = FALSE /\ touched = FALSE
  BY DEF M!Init, M!level, M!Level
<1>4. floor \in Nat /\ floor <= MinInterval[M!level]
  BY <1>3, MinIntervalsAre DEF PlanLevel
<1> QED BY <1>1, <1>2, <1>3, <1>4, IdleIsTyped DEF SettingsInv, StillLong, M!SettingsHold

\* What a request writes, column by column.
LEMMA Merge ==
  ASSUME SettingsInv, NEW q \in Request, NEW new, NEW api, M!Write(q, new, api), IsRow(new)
  PROVE  /\ IsRow(settings')
         /\ settings'.made = IF new.made # request[q].row.made THEN new.made ELSE settings.made
         /\ settings'.active = IF new.active # request[q].row.active THEN new.active ELSE settings.active
         /\ settings'.interval = IF new.interval # request[q].row.interval
                                 THEN new.interval ELSE settings.interval
         /\ settings'.timeout = IF new.timeout # request[q].row.timeout
                                THEN new.timeout ELSE settings.timeout
<1>1. DOMAIN settings = {"made", "active", "interval", "timeout"}
      /\ settings' = [f \in DOMAIN settings |-> IF new[f] # request[q].row[f] THEN new[f] ELSE settings[f]]
  BY DEF SettingsInv, IsRow, M!Write
<1> QED BY <1>1 DEF SettingsInv, IsRow

\* A request that was let write what its plan allows breaks nothing.
LEMMA WriteKeeps ==
  ASSUME SettingsInv, NEW q \in Request, NEW new, NEW api \in BOOLEAN,
         M!Write(q, new, api), request[q].pc # "idle", IsRow(new),
         new.interval # request[q].row.interval => new.interval >= MinInterval[request[q].level],
         new.active /\ ~request[q].row.active => new.interval >= MinInterval[request[q].level],
         new.timeout # request[q].row.timeout /\ ~api => new.timeout \in 1..MaxTimeout,
         \/ new.made = request[q].row.made /\ request[q].pc = "change"
         \/ /\ new.made /\ ~settings.made /\ request[q].pc = "create"
            /\ ~api => new.timeout \in 1..MaxTimeout
  PROVE  SettingsInv'
<1> DEFINE old == request[q].row
           min == MinInterval[M!level]
<1>1. /\ IsRow(settings')
      /\ settings'.made = IF new.made # old.made THEN new.made ELSE settings.made
      /\ settings'.active = IF new.active # old.active THEN new.active ELSE settings.active
      /\ settings'.interval = IF new.interval # old.interval THEN new.interval ELSE settings.interval
      /\ settings'.timeout = IF new.timeout # old.timeout THEN new.timeout ELSE settings.timeout
  BY Merge
<1>2. /\ request' = [request EXCEPT ![q] = M!Idle] /\ tier' = tier /\ trial' = trial /\ floor' = floor
      /\ straddled' = \/ straddled
                      \/ request[q].behind /\ (new.interval # old.interval \/ (new.active /\ ~old.active))
      /\ touched' = (touched \/ api)
  BY DEF M!Write
<1>3. M!level' = M!level
  BY <1>2 DEF M!level
<1>4. /\ IsRow(old) /\ IsRow(settings) /\ min \in Nat \ {0} /\ floor \in Nat /\ floor <= min
      /\ request[q].behind \in BOOLEAN
  BY MinIntervalsAre DEF SettingsInv, M!level, Question
<1>5. settings.made \/ (old.made = FALSE /\ old.active = FALSE /\ old.interval = 0 /\ old.timeout = 0
                        /\ settings.active = FALSE /\ request[q].pc = "create")
  BY DEF SettingsInv, IsBlank, IsRow, Question
<1>6. settings'.made
  BY <1>1, <1>4, <1>5 DEF IsRow
<1>7. ASSUME ~straddled' PROVE settings'.interval = settings.interval \/ settings'.interval >= min
  <2>1. CASE new.interval = old.interval
    BY <1>1, <2>1
  <2>2. CASE new.interval # old.interval
    <3>1. request[q].level = M!level
      BY <1>2, <1>4, <1>7, <2>2 DEF SettingsInv
    <3> QED BY <1>1, <2>2, <3>1
  <2> QED BY <2>1, <2>2
<1>8. settings'.made /\ ~touched' => settings'.timeout \in 1..MaxTimeout
  <2>1. CASE settings.made
    BY <1>1, <1>2, <2>1 DEF SettingsInv, M!SettingsHold
  <2>2. CASE ~settings.made
    <3>1. MaxTimeout \in Nat
      BY RulesAssumption DEF M!SettingsAssumption
    <3>2. 0 \notin 1..MaxTimeout
      BY <3>1
    <3>3. ~api => new.timeout \in 1..MaxTimeout /\ old.timeout = 0
      BY <1>5, <2>2 DEF SettingsInv
    <3> QED BY <1>1, <1>2, <3>2, <3>3
  <2> QED BY <2>1, <2>2
<1>9. ASSUME settings'.active, ~straddled' PROVE settings'.interval >= floor
  <2>1. settings.interval \in Nat /\ settings'.interval \in Nat
    BY <1>1, <1>4 DEF IsRow
  <2>2. CASE settings'.interval >= min
    BY <1>4, <2>1, <2>2
  <2>3. CASE settings'.interval = settings.interval /\ settings.active
    BY <1>2, <1>9, <2>3 DEF SettingsInv, M!SettingsHold
  <2>4. CASE settings'.interval = settings.interval /\ ~settings.active
    <3>1. new.active /\ ~old.active
      BY <1>1, <1>4, <1>9, <2>4 DEF IsRow
    <3>2. ~straddled /\ ~request[q].behind
      BY <1>2, <1>9, <3>1
    <3>3. request[q].level = M!level
      BY <3>2 DEF SettingsInv
    <3>4. new.interval >= min
      BY <3>1, <3>3
    <3>5. old.interval >= min => settings.interval >= min
      BY <3>2 DEF SettingsInv, StillLong
    <3>6. settings'.interval >= min
      BY <1>1, <3>4, <3>5
    <3> QED BY <2>2, <3>6
  <2> QED BY <1>7, <1>9, <2>2, <2>3, <2>4
<1>10. /\ DOMAIN request' = Request /\ \A p \in Request : p # q => request'[p] = request[p]
       /\ request'[q] = M!Idle
  BY <1>2 DEF SettingsInv
<1>11. ASSUME ~straddled', NEW p \in Request PROVE StillLong(p)'
  <2>1. CASE p = q
    BY <1>10, <2>1, IdleIsTyped DEF StillLong
  <2>2. CASE p # q
    BY <1>2, <1>3, <1>7, <1>10, <1>11, <2>2 DEF SettingsInv, StillLong
  <2> QED BY <2>1, <2>2
<1>12. touched' \in BOOLEAN /\ straddled' \in BOOLEAN
  BY <1>2, <1>4 DEF SettingsInv
<1>13. M!SettingsHold'
  BY <1>2, <1>8, <1>9 DEF M!SettingsHold
<1>14. floor' \in Nat /\ floor' <= MinInterval[M!level'] /\ tier' \in {"free"} \cup M!Paid
  BY <1>2, <1>3, <1>4 DEF SettingsInv
<1>15. /\ \A p \in Request : Question(request'[p])
       /\ \A p \in Request : request'[p].pc # "idle" /\ ~request'[p].behind => request'[p].level = M!level'
       /\ \A p \in Request : /\ request'[p].pc = "create" => IsBlank(request'[p].row)
                             /\ request'[p].pc = "change" => settings'.made
  BY <1>3, <1>6, <1>10, IdleIsTyped DEF SettingsInv
<1> QED BY <1>1, <1>6, <1>10, <1>11, <1>12, <1>13, <1>14, <1>15 DEF SettingsInv, Question

\* A change of the limits leaves a request what it read, and marks it.
LEMMA OvertakeMarks ==
  ASSUME SettingsInv, NEW t \in {"free"} \cup M!Paid, NEW r, M!Overtake(t, r), tier' = t, trial' = r
  PROVE  /\ M!level' = M!Level(t, r) /\ M!level' \in PlanLevel /\ MinInterval[M!level'] \in Nat \ {0}
         /\ DOMAIN request' = Request
         /\ \A q \in Request :
              /\ Question(request'[q])
              /\ request'[q].pc = request[q].pc /\ request'[q].row = request[q].row
              /\ request'[q].level = request[q].level
              /\ request'[q].pc # "idle" /\ ~request'[q].behind
                   => ~request[q].behind /\ M!level' = M!level /\ request'[q].level = M!level'
<1>1. M!level' = M!Level(t, r) /\ M!level' \in PlanLevel /\ MinInterval[M!level'] \in Nat \ {0}
  <2>1. M!level' = M!Level(t, r)
    BY DEF M!level
  <2> QED BY <2>1, MinIntervalsAre
<1>2. /\ DOMAIN request' = Request
      /\ \A q \in Request :
           request'[q] = [request[q] EXCEPT
             !.behind = request[q].behind \/ (request[q].pc # "idle" /\ M!Level(t, r) # M!level)]
  BY DEF M!Overtake
<1>3. ASSUME NEW q \in Request
      PROVE  /\ Question(request'[q])
             /\ request'[q].pc = request[q].pc /\ request'[q].row = request[q].row
             /\ request'[q].level = request[q].level
             /\ request'[q].behind = (request[q].behind \/ (request[q].pc # "idle" /\ M!Level(t, r) # M!level))
  <2> DEFINE behind == request[q].behind \/ (request[q].pc # "idle" /\ M!Level(t, r) # M!level)
  <2>1. Question(request[q])
    BY DEF SettingsInv
  <2>2. behind \in BOOLEAN /\ request'[q] = [request[q] EXCEPT !.behind = behind]
    BY <1>2
  <2> HIDE DEF behind
  <2>3. Question(request'[q]) /\ request'[q].behind = behind
        /\ request'[q].pc = request[q].pc /\ request'[q].row = request[q].row
        /\ request'[q].level = request[q].level
    BY <2>1, <2>2 DEF Question
  <2> QED BY <2>3 DEF behind
<1> QED BY <1>1, <1>2, <1>3 DEF SettingsInv

\* The plan changes, and nothing is fitted.
LEMMA ShiftKeeps ==
  ASSUME SettingsInv, NEW t \in {"free"} \cup M!Paid, NEW r, M!Shift(t, r)
  PROVE  SettingsInv'
<1>1. /\ tier' = t /\ trial' = r /\ floor' = M!Smaller(floor, MinInterval[M!Level(t, r)])
      /\ settings' = settings /\ straddled' = straddled /\ touched' = touched /\ M!Overtake(t, r)
  BY DEF M!Shift
<1>2. /\ M!level' = M!Level(t, r) /\ MinInterval[M!level'] \in Nat \ {0}
      /\ DOMAIN request' = Request
      /\ \A q \in Request :
           /\ Question(request'[q])
           /\ request'[q].pc = request[q].pc /\ request'[q].row = request[q].row
           /\ request'[q].pc # "idle" /\ ~request'[q].behind
                => ~request[q].behind /\ M!level' = M!level /\ request'[q].level = M!level'
  BY <1>1, OvertakeMarks
<1>3. /\ floor' \in Nat /\ floor' <= MinInterval[M!level'] /\ floor' <= floor
  BY <1>1, <1>2 DEF SettingsInv, M!Smaller
<1>4. M!SettingsHold'
  <2>1. settings.interval \in Nat /\ floor \in Nat
    BY DEF SettingsInv, IsRow
  <2> QED BY <1>1, <1>3, <2>1 DEF SettingsInv, M!SettingsHold
<1>5. ASSUME ~straddled', NEW q \in Request PROVE StillLong(q)'
  BY <1>1, <1>2, <1>5 DEF SettingsInv, StillLong
<1> QED BY <1>1, <1>2, <1>3, <1>4, <1>5 DEF SettingsInv

\* The plan is fitted to the limits it gets.
LEMMA FitKeeps ==
  ASSUME SettingsInv, NEW t \in {"free"} \cup M!Paid, NEW r, M!Fit(t, r)
  PROVE  SettingsInv'
<1>1. /\ tier' = t /\ trial' = r /\ floor' = MinInterval[M!Level(t, r)] /\ M!Overtake(t, r)
      /\ straddled' = (straddled /\ ~settings'.active) /\ touched' = touched
  BY DEF M!Fit
<1>2. /\ M!level' = M!Level(t, r) /\ MinInterval[M!level'] \in Nat \ {0}
      /\ DOMAIN request' = Request
      /\ \A q \in Request :
           /\ Question(request'[q])
           /\ request'[q].pc = request[q].pc /\ request'[q].row = request[q].row
           /\ request'[q].pc # "idle" /\ ~request'[q].behind
                => ~request[q].behind /\ M!level' = M!level /\ request'[q].level = M!level'
  BY <1>1, OvertakeMarks
<1>3. floor' \in Nat /\ floor' = MinInterval[M!level']
  BY <1>1, <1>2
<1>4. /\ IsRow(settings') /\ settings'.made = settings.made /\ settings'.timeout = settings.timeout
      /\ \/ ~settings'.active /\ settings'.interval = settings.interval
         \/ settings.made /\ settings'.active /\ settings'.interval >= floor'
  <2>1. /\ settings.interval \in Nat /\ M!Larger(settings.interval, floor') \in Nat
        /\ M!Larger(settings.interval, floor') >= floor' /\ IsRow(settings)
    BY <1>3 DEF M!Larger, IsRow, SettingsInv
  <2>2. CASE settings' = settings /\ ~settings.made
    BY <2>1, <2>2 DEF SettingsInv, IsBlank
  <2>3. CASE settings.made /\ settings' = [settings EXCEPT !.active = FALSE]
    BY <2>1, <2>3 DEF IsRow
  <2>4. CASE settings.made
             /\ settings' = [settings EXCEPT !.active = TRUE, !.interval = M!Larger(settings.interval, floor')]
    BY <2>1, <2>4 DEF IsRow
  <2> QED BY <2>2, <2>3, <2>4 DEF M!Fit
<1>5. ASSUME ~straddled', NEW q \in Request PROVE StillLong(q)'
  <2>1. CASE settings'.active
    BY <1>3, <1>4, <2>1 DEF StillLong
  <2>2. CASE ~settings'.active
    BY <1>1, <1>2, <1>4, <1>5, <2>2 DEF SettingsInv, StillLong
  <2> QED BY <2>1, <2>2
<1>6. M!SettingsHold'
  BY <1>1, <1>4 DEF M!SettingsHold, SettingsInv
<1>7. ~settings'.made => IsBlank(settings')
  BY <1>4 DEF SettingsInv, IsBlank
<1>8. floor' <= MinInterval[M!level'] /\ straddled' \in BOOLEAN
  BY <1>1, <1>2, <1>3, <1>4 DEF SettingsInv
<1> QED BY <1>1, <1>2, <1>3, <1>4, <1>5, <1>6, <1>7, <1>8 DEF SettingsInv

\* A form that passed its checks.
LEMMA Submitted ==
  ASSUME NEW q, NEW i, NEW t \in Timeout, M!Submitted(q, i, t)
  PROVE  i >= MinInterval[request[q].level] /\ t \in 1..MaxTimeout
<1>1. t \in Int /\ MaxTimeout \in Nat
  BY RulesAssumption DEF M!SettingsAssumption
<1> QED BY <1>1 DEF M!Submitted, M!Validated, M!Allowed

LEMMA SettingsStep == SettingsInv /\ [M!Next]_M!vars => SettingsInv'
<1> SUFFICES ASSUME SettingsInv, [M!Next]_M!vars PROVE SettingsInv'
  OBVIOUS
<1>0. Interval \subseteq Nat /\ Timeout \subseteq Int /\ MaxTimeout \in Nat
  BY RulesAssumption DEF M!SettingsAssumption
<1>1. ASSUME NEW q \in Request, M!Begin(q) PROVE SettingsInv'
  <2>1. PICK what \in {"create", "change"} :
          /\ what = "change" <=> settings.made
          /\ request' = [request EXCEPT ![q] = [pc |-> what, level |-> M!level, row |-> settings,
                                                behind |-> FALSE]]
          /\ UNCHANGED <<tier, trial, floor, settings, straddled, touched>>
    BY <1>1 DEF M!Begin, M!Read
  <2>2. /\ DOMAIN request' = Request /\ \A p \in Request : p # q => request'[p] = request[p]
        /\ request'[q] = [pc |-> what, level |-> M!level, row |-> settings, behind |-> FALSE]
    BY <2>1 DEF SettingsInv
  <2>3. M!level' = M!level /\ M!level \in PlanLevel
    BY <2>1, MinIntervalsAre DEF M!level, SettingsInv
  <2>4. Question(request'[q])
    BY <2>1, <2>2, <2>3 DEF Question, SettingsInv
  <2>5. what = "create" => IsBlank(settings)
    BY <2>1 DEF SettingsInv
  <2>6. StillLong(q)'
    BY <2>1, <2>2, <2>3 DEF StillLong
  <2>7. \A p \in Request : p # q => (StillLong(p) => StillLong(p)')
    BY <2>1, <2>2, <2>3 DEF StillLong
  <2>8. M!SettingsHold'
    BY <2>1 DEF SettingsInv, M!SettingsHold
  <2> QED BY <2>1, <2>2, <2>3, <2>4, <2>5, <2>6, <2>7, <2>8 DEF SettingsInv
<1>2. ASSUME NEW q \in Request, M!Refuse(q) PROVE SettingsInv'
  <2>1. /\ DOMAIN request' = Request /\ \A p \in Request : p # q => request'[p] = request[p]
        /\ request'[q] = M!Idle
        /\ UNCHANGED <<tier, trial, floor, settings, straddled, touched>>
    BY <1>2 DEF M!Refuse, SettingsInv
  <2>2. M!level' = M!level
    BY <2>1 DEF M!level
  <2>3. \A p \in Request : StillLong(p) => StillLong(p)'
    BY <2>1, <2>2, IdleIsTyped DEF StillLong
  <2>4. M!SettingsHold'
    BY <2>1 DEF SettingsInv, M!SettingsHold
  <2> QED BY <2>1, <2>2, <2>3, <2>4, IdleIsTyped DEF SettingsInv
<1>3. ASSUME NEW q \in Request, M!Pause(q) PROVE SettingsInv'
  <2> DEFINE new == [request[q].row EXCEPT !.active = FALSE]
  <2>1. M!Write(q, new, FALSE) /\ request[q].pc = "change"
    BY <1>3 DEF M!Pause
  <2>2. /\ IsRow(new) /\ ~new.active /\ new.made = request[q].row.made
        /\ new.interval = request[q].row.interval /\ new.timeout = request[q].row.timeout
    BY DEF SettingsInv, IsRow, Question
  <2> HIDE DEF new
  <2> QED BY <2>1, <2>2, WriteKeeps
<1>4. ASSUME NEW q \in Request, M!Resume(q) PROVE SettingsInv'
  <2> DEFINE old == request[q].row
             min == MinInterval[request[q].level]
             interval == IF old.active THEN old.interval ELSE M!Larger(old.interval, min)
             new == [old EXCEPT !.active = TRUE, !.interval = interval]
  <2>1. M!Write(q, new, FALSE) /\ request[q].pc = "change"
    BY <1>4 DEF M!Resume
  <2>2. IsRow(old) /\ min \in Nat
    BY MinIntervalsAre DEF SettingsInv, Question
  <2>3. /\ interval \in Nat
        /\ interval # old.interval \/ ~old.active => interval >= min
    BY <2>2 DEF IsRow, M!Larger
  <2> HIDE DEF interval
  <2>4. /\ IsRow(new) /\ new.active /\ new.made = old.made
        /\ new.interval = interval /\ new.timeout = old.timeout
    BY <2>2, <2>3 DEF IsRow
  <2> HIDE DEF new
  <2> QED BY <2>1, <2>3, <2>4, WriteKeeps
<1>5. ASSUME NEW q \in Request, NEW i \in Interval, NEW t \in Timeout,
             M!FormCreate(q, i, t) \/ M!ApiCreate(q, i, t)
      PROVE  SettingsInv'
  <2> DEFINE new == [made |-> TRUE, active |-> TRUE, interval |-> i, timeout |-> t]
  <2>1. PICK api \in BOOLEAN :
          /\ M!Write(q, new, api) /\ request[q].pc = "create" /\ ~settings.made
          /\ i >= MinInterval[request[q].level]
          /\ ~api => t \in 1..MaxTimeout
    <3>1. CASE M!FormCreate(q, i, t)
      BY <1>0, <3>1, Submitted DEF M!FormCreate
    <3>2. CASE M!ApiCreate(q, i, t)
      BY <3>2 DEF M!ApiCreate, M!Allowed
    <3> QED BY <1>5, <3>1, <3>2
  <2>2. IsRow(new) /\ new.made /\ new.active /\ new.interval = i /\ new.timeout = t
    BY <1>0 DEF IsRow
  <2> HIDE DEF new
  <2> QED BY <2>1, <2>2, WriteKeeps
<1>6. ASSUME NEW q \in Request, NEW i \in Interval, NEW t \in Timeout, M!FormEdit(q, i, t)
      PROVE  SettingsInv'
  <2> DEFINE old == request[q].row
             new == [old EXCEPT !.interval = i, !.timeout = t]
  <2>1. /\ M!Write(q, new, FALSE) /\ request[q].pc = "change"
        /\ i >= MinInterval[request[q].level] /\ t \in 1..MaxTimeout
    BY <1>6, Submitted DEF M!FormEdit
  <2>2. IsRow(old)
    BY DEF SettingsInv, Question
  <2>3. /\ IsRow(new) /\ new.made = old.made /\ new.active = old.active
        /\ new.interval = i /\ new.timeout = t
    BY <1>0, <2>2 DEF IsRow
  <2> HIDE DEF new
  <2> QED BY <2>1, <2>2, <2>3, WriteKeeps DEF IsRow
<1>7. ASSUME NEW q \in Request, NEW i \in Interval \cup {request[q].row.interval},
             NEW t \in Timeout \cup {request[q].row.timeout}, M!Patch(q, i, t)
      PROVE  SettingsInv'
  <2> DEFINE old == request[q].row
             new == [old EXCEPT !.interval = i, !.timeout = t]
  <2>1. /\ M!Write(q, new, TRUE) /\ request[q].pc = "change"
        /\ i # old.interval => i >= MinInterval[request[q].level]
    BY <1>7 DEF M!Patch, M!Allowed
  <2>2. IsRow(old)
    BY DEF SettingsInv, Question
  <2>3. i \in Nat /\ t \in Int
    BY <1>0, <2>2 DEF IsRow
  <2>4. /\ IsRow(new) /\ new.made = old.made /\ new.active = old.active
        /\ new.interval = i /\ new.timeout = t
    BY <2>2, <2>3 DEF IsRow
  <2> HIDE DEF new
  <2> QED BY <2>1, <2>2, <2>4, WriteKeeps DEF IsRow
<1>8. CASE M!StartTrial \/ M!TrialEnds
  BY <1>8, ShiftKeeps DEF M!StartTrial, M!TrialEnds, SettingsInv
<1>9. CASE M!Expire
  BY <1>9, FitKeeps DEF M!Expire, SettingsInv
<1>10. CASE M!Cancel
  BY <1>10, ShiftKeeps DEF M!Cancel
<1>11. ASSUME NEW p \in M!Paid, M!Subscribe(p) PROVE SettingsInv'
  BY <1>11, FitKeeps, ShiftKeeps DEF M!Subscribe
<1>12. CASE UNCHANGED M!vars
  <2>1. UNCHANGED <<tier, trial, floor, settings, request, straddled, touched>>
    BY <1>12 DEF M!vars
  <2>2. M!level' = M!level
    BY <2>1 DEF M!level
  <2> QED BY <2>1, <2>2 DEF SettingsInv, StillLong, M!SettingsHold
<1> QED BY <1>1, <1>2, <1>3, <1>4, <1>5, <1>6, <1>7, <1>8, <1>9, <1>10, <1>11, <1>12 DEF M!Next

LEMMA SettingsInvariance == M!Spec => []SettingsInv
BY SettingsInit, SettingsStep, PTL DEF M!Spec

-----------------------------------------------------------------------------
(* MCPlanFit.                                                              *)

\* A monitor of the run's accounts: the i-th has id i, and is paused by the user, by
\* the plan, or not at all.
MonitorType(i) ==
  [id : {i}, project : {"p1", "p2", "p3"}, is_active : BOOLEAN,
   paused_reason : {"none", "trial_ended", "plan_limit"}]

FitInv ==
  /\ \E n \in Nat : monitors \in [1..n -> {monitors[i] : i \in DOMAIN monitors}]
  /\ \A i \in DOMAIN monitors : monitors[i] \in MonitorType(i)
  /\ limits.projects \in Nat \cup {Unlimited} /\ limits.monitors \in Nat

LEMMA SamePlanFit ==
  ASSUME NEW projects, NEW ms, NEW lim
  PROVE  F!plan_fit(projects, ms, lim) = plan_fit(projects, ms, lim)
BY DEF F!plan_fit, plan_fit, F!Candidates, Candidates, F!Sorted, Sorted, F!Filter, Filter,
       F!First, First, F!Candidate, Candidate, F!PLAN_PAUSE_REASONS, PLAN_PAUSE_REASONS,
       F!Unlimited, Unlimited, F!ToSet, ToSet

LEMMA TheProjects ==
  /\ F!Projects \in Seq({"p1", "p2", "p3"}) /\ Len(F!Projects) = 3 /\ Distinct(F!Projects)
  /\ F!Projects[1] = "p1" /\ F!Projects[2] = "p2" /\ F!Projects[3] = "p3"
  /\ F!Rank("p1") = 1 /\ F!Rank("p2") = 2 /\ F!Rank("p3") = 3
  /\ \A p \in {"p1", "p2", "p3"} :
       F!Rank(p) \in 1..3 /\ \A q \in 1..3 : F!Projects[q] = p <=> q = F!Rank(p)
<1>1. /\ F!Projects \in Seq({"p1", "p2", "p3"}) /\ Len(F!Projects) = 3 /\ DOMAIN F!Projects = 1..3
      /\ F!Projects[1] = "p1" /\ F!Projects[2] = "p2" /\ F!Projects[3] = "p3"
  BY DEF F!Projects
<1>2. 1..3 = {1, 2, 3}
  OBVIOUS
<1>3. F!Rank("p1") = 1 /\ F!Rank("p2") = 2 /\ F!Rank("p3") = 3
  BY <1>1, <1>2 DEF F!Rank
<1>4. Distinct(F!Projects)
  BY <1>1, <1>2 DEF Distinct
<1> QED BY <1>1, <1>2, <1>3, <1>4

\* What the accounts are to plan_fit.
LEMMA TheAccount ==
  ASSUME FitInv
  PROVE  /\ monitors \in Seq({monitors[i] : i \in DOMAIN monitors})
         /\ Len(monitors) \in Nat /\ DOMAIN monitors = 1..Len(monitors)
         /\ \A i \in 1..Len(monitors) : monitors[i] \in MonitorType(i) /\ monitors[i].id = i
BY SeqDef DEF FitInv, MonitorType

LEMMA FitInit == Init => FitInv
<1> SUFFICES ASSUME Init PROVE FitInv
  OBVIOUS
<1> USE DEF FitInv, MonitorType
<1>1. CASE part = "plan fit"
  <2>1. F!Init
    BY <1>1 DEF Init
  <2> PICK n \in 0..MaxMonitors :
        \E home \in [1..n -> F!ToSet(F!Projects)], rw \in [1..n -> F!RowState] :
          monitors = F!Account(home, rw)
    BY <2>1 DEF F!Init
  <2>2. PICK home \in [1..n -> F!ToSet(F!Projects)], rw \in [1..n -> F!RowState] :
          monitors = F!Account(home, rw)
    OBVIOUS
  <2>3. n \in Nat /\ DOMAIN monitors = 1..n
    BY <2>2, RulesAssumption DEF F!MaxMonitorsAssumption, F!Account
  <2>4. F!ToSet(F!Projects) = {"p1", "p2", "p3"}
    BY TheProjects DEF F!ToSet
  <2>5. \A i \in 1..n : rw[i].is_active \in BOOLEAN /\ rw[i].paused_reason \in {"none", "trial_ended", "plan_limit"}
    <3> TAKE i \in 1..n
    <3>1. rw[i] \in F!RowState
      BY <2>2
    <3>2. CASE rw[i] = [is_active |-> TRUE, paused_reason |-> "none"]
      BY <3>2
    <3>3. CASE rw[i] \in [is_active : {FALSE}, paused_reason : {"none", "trial_ended", "plan_limit"}]
      BY <3>3
    <3>4. {"none"} \cup F!PLAN_PAUSE_REASONS = {"none", "trial_ended", "plan_limit"}
      BY DEF F!PLAN_PAUSE_REASONS
    <3> QED BY <3>1, <3>2, <3>3, <3>4 DEF F!RowState
  <2>6. \A i \in DOMAIN monitors : monitors[i] \in MonitorType(i)
    BY <2>2, <2>3, <2>4, <2>5 DEF F!Account
  <2>7. monitors \in [1..n -> {monitors[i] : i \in DOMAIN monitors}]
    BY <2>2, <2>3 DEF F!Account
  <2>8. limits.projects \in Nat \cup {Unlimited} /\ limits.monitors \in Nat
    BY <2>1, RulesAssumption DEF F!Init, F!LimitsChecked, F!MaxMonitorsAssumption, F!Unlimited, Unlimited
  <2> QED BY <2>3, <2>6, <2>7, <2>8
<1>2. CASE part # "plan fit"
  <2>1. monitors = <<>> /\ limits = [projects |-> 0, monitors |-> 0]
    BY <1>2 DEF Init
  <2>2. <<>> \in [1..0 -> {monitors[i] : i \in DOMAIN monitors}]
    OBVIOUS
  <2> QED BY <2>1, <2>2
<1> QED BY <1>1, <1>2

\* The run's rule is plan_fit's, said without lists.
FitIsTwoSets == F!Fit = [run |-> F!Fit.run, pause |-> F!Fit.pause] /\ F!Fit.run \subseteq F!Contenders

LEMMA FitIsOldest == FitInv => OldestWin /\ FitIsTwoSets
<1> SUFFICES ASSUME FitInv PROVE OldestWin /\ FitIsTwoSets
  OBVIOUS
<1> DEFINE n == Allowed(F!Projects, limits)
           in == Admitted(monitors, F!Projects, limits)
           ahead(j) == {i \in in : Ahead(i, j, monitors, F!Projects, n)}
           before(j) == {i \in in : F!Before(i, j)}
<1>1. F!Fit = plan_fit(F!Projects, monitors, limits)
  BY SamePlanFit DEF F!Fit
<1>2. limits.projects \in Nat \cup {Unlimited} /\ limits.monitors \in Nat
  BY DEF FitInv
<1>3. F!Contenders = {i \in 1..Len(monitors) : Candidate(monitors[i])}
  BY TheAccount DEF F!Contenders, Candidate, PLAN_PAUSE_REASONS, MonitorType
<1>4. F!Fit.run = {j \in in : Cardinality(ahead(j)) < limits.monitors}
  <2> DEFINE ms == monitors
             T == {monitors[i] : i \in DOMAIN monitors}
  <2>1. ms \in Seq(T) /\ \A i \in 1..Len(ms) : ms[i].id = i
    BY TheAccount
  <2> HIDE DEF ms, T
  <2>2. plan_fit(F!Projects, ms, limits).run = RunsByRank(ms, F!Projects, limits)
    BY <1>2, <2>1, TheProjects, PlanFitByRank
  <2>3. RunsByRank(ms, F!Projects, limits) = {j \in in : Cardinality(ahead(j)) < limits.monitors}
    BY DEF RunsByRank, InFront, ms
  <2> QED BY <1>1, <2>2, <2>3 DEF ms
<1>5. F!Fit.pause = F!Contenders \ F!Fit.run /\ F!Fit.run \subseteq F!Contenders
  <2> DEFINE ms == monitors
             T == {monitors[i] : i \in DOMAIN monitors}
  <2>1. ms \in Seq(T) /\ \A i \in 1..Len(ms) : ms[i].id = i
    BY TheAccount
  <2> HIDE DEF ms, T
  <2>2. /\ plan_fit(F!Projects, ms, limits).run \subseteq {i \in 1..Len(ms) : Candidate(ms[i])}
        /\ plan_fit(F!Projects, ms, limits).pause
             = {i \in 1..Len(ms) : Candidate(ms[i])} \ plan_fit(F!Projects, ms, limits).run
    BY <1>2, <2>1, TheProjects, PlanFitKeepsLimit
  <2> QED BY <1>1, <1>3, <2>2 DEF ms
<1>6. n \in 0..3 /\ \A p \in 1..3 : p <= n <=> limits.projects = Unlimited \/ p <= limits.projects
  BY <1>2, TheProjects DEF Allowed, Unlimited
<1>7. \A i \in 1..Len(monitors) : monitors[i].project \in {"p1", "p2", "p3"}
  BY TheAccount DEF MonitorType
<1> HIDE DEF n
<1>8. F!Admitted = in
  <2>1. ASSUME NEW i \in 1..Len(monitors)
        PROVE  (\E p \in 1..n : monitors[i].project = F!Projects[p])
                 <=> limits.projects = Unlimited \/ F!Rank(monitors[i].project) <= limits.projects
    <3> DEFINE r == F!Rank(monitors[i].project)
    <3>1. r \in 1..3 /\ \A q \in 1..3 : F!Projects[q] = monitors[i].project <=> q = r
      BY <1>7, TheProjects
    <3> HIDE DEF r
    <3>2. \A p \in 1..n : p \in 1..3
      BY <1>6
    <3>3. (\E p \in 1..n : monitors[i].project = F!Projects[p]) <=> r <= n
      BY <1>6, <3>1, <3>2
    <3> QED BY <1>6, <3>1, <3>3 DEF r
  <2> QED BY <1>3, <2>1 DEF F!Admitted, Admitted, F!Unlimited, Unlimited, n
<1>9. ASSUME NEW i \in in, NEW j \in in
      PROVE  F!Before(i, j) <=> Ahead(i, j, monitors, F!Projects, n)
  <2> DEFINE r == F!Rank(monitors[i].project)
             s == F!Rank(monitors[j].project)
  <2>1. /\ i \in 1..Len(monitors) /\ \E p \in 1..n : monitors[i].project = F!Projects[p]
        /\ j \in 1..Len(monitors) /\ \E p \in 1..n : monitors[j].project = F!Projects[p]
    BY DEF Admitted, n
  <2>2. /\ r \in 1..3 /\ \A q \in 1..3 : F!Projects[q] = monitors[i].project <=> q = r
        /\ s \in 1..3 /\ \A q \in 1..3 : F!Projects[q] = monitors[j].project <=> q = s
    BY <1>7, <2>1, TheProjects
  <2>3. F!Before(i, j) <=> r < s \/ (r = s /\ i < j)
    BY DEF F!Before
  <2> HIDE DEF r, s
  <2>4. \A p \in 1..n : p \in 1..3
    BY <1>6
  <2>5. r \in 1..n /\ s \in 1..n
    BY <2>1, <2>2, <2>4
  <2> QED BY <2>2, <2>3, <2>4, <2>5 DEF Ahead
<1> HIDE DEF in
<1>10. \A j \in in : ahead(j) = before(j)
  BY <1>9
<1>11. F!Fit.run = {j \in in : Cardinality(before(j)) < limits.monitors}
  BY <1>4, <1>10
<1>12. OldestWin
  BY <1>5, <1>8, <1>11 DEF OldestWin, F!OldestWin, F!Cardinality, Cardinality
<1>13. F!Fit = [run |-> F!Fit.run, pause |-> F!Fit.pause]
  BY DEF F!Fit, F!plan_fit
<1> QED BY <1>5, <1>12, <1>13 DEF FitIsTwoSets

LEMMA FitStep ==
  ASSUME FitInv, [F!Next]_fitVars
  PROVE  /\ FitInv' /\ F!Contenders' = F!Contenders
         /\ DOMAIN monitors' = DOMAIN monitors /\ UNCHANGED limits
         /\ \A i \in DOMAIN monitors : monitors'[i].project = monitors[i].project
<1>1. CASE UNCHANGED fitVars
  BY <1>1 DEF fitVars, FitInv, F!Contenders, MonitorType
<1>2. CASE F!Next
  <2> DEFINE new(i) == monitors'[i]
  <2>1. DOMAIN monitors' = DOMAIN monitors /\ UNCHANGED limits
    BY <1>2 DEF F!Next
  <2>2. ASSUME NEW i \in DOMAIN monitors
        PROVE  /\ new(i) \in MonitorType(i) /\ new(i).project = monitors[i].project
               /\ Candidate(new(i)) <=> Candidate(monitors[i])
    <3> DEFINE m == monitors[i]
               active == (m.is_active \/ i \in F!Fit.run) /\ i \notin F!Fit.pause
               reason == IF i \in F!Fit.run THEN "none"
                         ELSE IF i \in F!Fit.pause /\ m.is_active THEN "plan_limit" ELSE m.paused_reason
    <3>1. new(i) = [m EXCEPT !.is_active = active, !.paused_reason = reason]
      BY <1>2 DEF F!Next
    <3>2. m \in MonitorType(i)
      BY DEF FitInv
    <3>3. /\ i \in F!Fit.run => Candidate(m)
          /\ i \in F!Fit.pause <=> Candidate(m) /\ i \notin F!Fit.run
      BY FitIsOldest, TheAccount DEF FitIsTwoSets, OldestWin, F!OldestWin, F!Contenders, Candidate,
         PLAN_PAUSE_REASONS, MonitorType
    <3>4. active \in BOOLEAN /\ reason \in {"none", "trial_ended", "plan_limit"}
      BY <3>2 DEF MonitorType
    <3>5. Candidate([m EXCEPT !.is_active = active, !.paused_reason = reason]) <=> active \/ reason \in PLAN_PAUSE_REASONS
      BY <3>2 DEF Candidate, MonitorType
    <3>6. active \/ reason \in PLAN_PAUSE_REASONS <=> Candidate(m)
      BY <3>2, <3>3 DEF Candidate, MonitorType, PLAN_PAUSE_REASONS
    <3> HIDE DEF active, reason
    <3>7. /\ [m EXCEPT !.is_active = active, !.paused_reason = reason] \in MonitorType(i)
          /\ [m EXCEPT !.is_active = active, !.paused_reason = reason].project = m.project
      BY <3>2, <3>4 DEF MonitorType
    <3> HIDE DEF m
    <3> QED BY <3>1, <3>5, <3>6, <3>7 DEF m
  <2>3. FitInv'
    <3>1. PICK n \in Nat : DOMAIN monitors = 1..n
      <4>1. PICK n \in Nat : monitors \in [1..n -> {monitors[i] : i \in DOMAIN monitors}]
        BY Zenon DEF FitInv
      <4> QED BY <4>1
    <3>2. monitors' \in [1..n -> {monitors'[i] : i \in DOMAIN monitors'}]
      BY <1>2, <2>1, <3>1 DEF F!Next
    <3> QED BY <2>1, <2>2, <3>2 DEF FitInv
  <2>4. F!Contenders' = F!Contenders
    <3>1. F!Contenders = {i \in DOMAIN monitors : Candidate(monitors[i])}
      BY DEF F!Contenders, Candidate, PLAN_PAUSE_REASONS, FitInv, MonitorType
    <3>2. F!Contenders' = {i \in DOMAIN monitors' : Candidate(monitors'[i])}
      BY <2>3 DEF F!Contenders, Candidate, PLAN_PAUSE_REASONS, FitInv, MonitorType
    <3> QED BY <2>1, <2>2, <3>1, <3>2
  <2> QED BY <2>1, <2>2, <2>3, <2>4
<1> QED BY <1>1, <1>2

\* The decision depends on who is a candidate where, which it does not change.
LEMMA FitRepeats == FitInv /\ [F!Next]_fitVars => F!Fit' = F!Fit
<1> SUFFICES ASSUME FitInv, [F!Next]_fitVars PROVE F!Fit' = F!Fit
  OBVIOUS
<1>1. /\ FitInv' /\ F!Contenders' = F!Contenders
      /\ DOMAIN monitors' = DOMAIN monitors /\ UNCHANGED limits
      /\ \A i \in DOMAIN monitors : monitors'[i].project = monitors[i].project
  BY FitStep
<1>2. OldestWin /\ F!Fit = [run |-> F!Fit.run, pause |-> F!Fit.pause]
  BY FitIsOldest DEF FitIsTwoSets
<1>3. OldestWin' /\ F!Fit' = [run |-> F!Fit'.run, pause |-> F!Fit'.pause]
  <2>1. FitInv' => OldestWin' /\ FitIsTwoSets'
    BY FitIsOldest, PTL
  <2> QED BY <1>1, <2>1 DEF FitIsTwoSets
<1>4. F!Contenders \subseteq DOMAIN monitors
  BY DEF F!Contenders
<1>5. F!Admitted' = F!Admitted
  BY <1>1, <1>4 DEF F!Admitted
<1>6. \A i, j \in F!Admitted : F!Before(i, j)' <=> F!Before(i, j)
  BY <1>1, <1>4 DEF F!Before, F!Admitted
<1>7. F!Fit'.run = F!Fit.run
  BY <1>1, <1>2, <1>3, <1>5, <1>6 DEF OldestWin, F!OldestWin
<1>8. F!Fit'.pause = F!Fit.pause
  BY <1>1, <1>2, <1>3, <1>7 DEF OldestWin, F!OldestWin
<1> QED BY <1>2, <1>3, <1>7, <1>8

-----------------------------------------------------------------------------
(* StatusPage.                                                             *)

Bar == {<<>>} \cup UNION {[S -> {"grey", "green", "amber", "red"}] : S \in SUBSET Int}

PageType ==
  [pc : {"idle", "listed", "total", "up", "day"}, at : P!Time, listed : BOOLEAN, total : Nat, up : Nat,
   failed : Nat, day : Int, dayTotal : Nat, bar : Bar]

PageTypes ==
  /\ now \in P!Time /\ checks \in [P!Time -> [P!Result -> 0..MaxChecks]]
  /\ page \in PageType

\* No check is from after now; and from after a load began none arrived that it did not see.
NoneAhead ==
  /\ \A t \in P!Time, r \in P!Result : t > now => checks[t][r] = 0
  /\ page.pc # "idle" =>
       /\ page.at <= now
       /\ stirred = {} => \A t \in P!Time, r \in P!Result : t > page.at => checks[t][r] = 0

\* Between the queries: what the total promised of the checks that were up, and what may
\* have changed it.
Counting ==
  page.pc = "total" =>
    /\ page.failed <= page.total
    /\ P!Count(P!Since, {"up"}) + page.failed > page.total => "up" \in stirred
    /\ P!Count(P!Since, {"up"}) + page.failed < page.total => "cleanup" \in stirred

Answered ==
  page.pc \in {"up", "day"} =>
    /\ page.total - page.up < page.failed => "up" \in stirred
    /\ page.total - page.up > page.failed => "cleanup" \in stirred

\* What the bar may hide of the failures of a day: nothing, or what is rounded away.
Fair(d) ==
  \/ page.bar[d] \in {"amber", "red"}
  \/ P!Count(P!Day(d), {"down"}) = 0
  \/ 2 * Tenths * P!Count(P!Day(d), {"down"}) <= P!Count(P!Day(d), P!Result)

BarShows ==
  /\ page.pc \in {"listed", "total"} => DOMAIN page.bar = {}
  /\ page.pc # "idle" /\ stirred = {} => \A d \in DOMAIN page.bar : Fair(d)
  /\ page.pc = "day" /\ stirred = {} => page.dayTotal = P!Count(P!Day(page.day), P!Result)

PageInv == PageTypes /\ NoneAhead /\ Counting /\ Answered /\ BarShows

LEMMA PageInit == P!Init => PageInv
<1> SUFFICES ASSUME P!Init PROVE PageInv
  OBVIOUS
<1>1. LastTime \in Nat /\ MaxChecks \in Nat
  BY RulesAssumption DEF P!StatusPageAssumption
<1>2. page = P!Unread /\ now = 0 /\ checks = [t \in P!Time |-> [r \in P!Result |-> 0]]
  BY DEF P!Init
<1>3. now \in P!Time /\ checks \in [P!Time -> [P!Result -> 0..MaxChecks]]
  BY <1>1, <1>2 DEF P!Time
<1>4. page \in PageType /\ page.pc = "idle"
  BY <1>2, <1>3 DEF P!Unread, PageType, Bar
<1>5. NoneAhead
  BY <1>2, <1>4 DEF NoneAhead
<1> QED BY <1>3, <1>4, <1>5 DEF PageInv, PageTypes, Counting, Answered, BarShows

\* An instance has a Cardinality of its own.
LEMMA CountOf ==
  \A times, results : P!Count(times, results) = Cardinality(P!Rows(times, results))
<1>1. ASSUME NEW S PROVE P!Cardinality(S) = Cardinality(S)
  BY DEF P!Cardinality, Cardinality
<1> QED BY <1>1 DEF P!Count

\* The queries count finite sets of rows, and the results apart add up.
LEMMA RowsAreFinite ==
  ASSUME NEW times \in SUBSET P!Time, NEW results \in SUBSET P!Result
  PROVE  IsFiniteSet(P!Rows(times, results)) /\ P!Count(times, results) \in Nat
<1>1. LastTime \in Nat /\ MaxChecks \in Nat
  BY RulesAssumption DEF P!StatusPageAssumption
<1>2. IsFiniteSet(P!Time) /\ IsFiniteSet(1..MaxChecks)
  BY <1>1, FS_Interval DEF P!Time
<1>3. IsFiniteSet({"up", "down"})
  <2>1. {"up", "down"} = {"up"} \cup {"down"}
    OBVIOUS
  <2>2. IsFiniteSet({"up"}) /\ IsFiniteSet({"down"})
    BY FS_Singleton
  <2>3. IsFiniteSet({"up"} \cup {"down"})
    BY <2>2, FS_Union
  <2> QED BY <2>1, <2>3
<1>4. IsFiniteSet(times) /\ IsFiniteSet(results)
  BY <1>2, <1>3, FS_Subset DEF P!Result
<1>5. IsFiniteSet(times \X results)
  BY <1>4, FS_Product
<1>6. IsFiniteSet((times \X results) \X (1..MaxChecks))
  BY <1>2, <1>5, FS_Product
<1> DEFINE f == [c \in P!Rows(times, results) |-> <<<<c[1], c[2]>>, c[3]>>]
<1>7. f \in Injection(P!Rows(times, results), (times \X results) \X (1..MaxChecks))
  BY DEF P!Rows, Injection, IsInjective
<1>8. IsFiniteSet(P!Rows(times, results))
  BY <1>6, <1>7, FS_Injection
<1> QED BY <1>8, FS_CardinalityType, CountOf

LEMMA ResultsAddUp ==
  ASSUME NEW times \in SUBSET P!Time
  PROVE  P!Count(times, P!Result) = P!Count(times, {"up"}) + P!Count(times, {"down"})
<1> DEFINE U == P!Rows(times, {"up"})
           D == P!Rows(times, {"down"})
<1>1. IsFiniteSet(U) /\ IsFiniteSet(D) /\ Cardinality(U) \in Nat /\ Cardinality(D) \in Nat
  BY RowsAreFinite, CountOf DEF P!Result
<1>2. P!Rows(times, P!Result) = U \cup D /\ U \cap D = {}
  BY DEF P!Rows, P!Result
<1>3. Cardinality(U \cup D) = Cardinality(U) + Cardinality(D) - Cardinality(U \cap D)
  BY <1>1, FS_Union
<1>4. Cardinality(U \cap D) = 0
  BY <1>2, FS_EmptySet
<1> HIDE DEF U, D
<1>5. Cardinality(U \cup D) = Cardinality(U) + Cardinality(D)
  BY <1>1, <1>3, <1>4
<1> QED BY <1>2, <1>5, CountOf DEF U, D

\* Rows that are added or deleted move a count one way.
LEMMA CountMonotone ==
  ASSUME NEW Old, NEW New, Old \subseteq New, IsFiniteSet(New)
  PROVE  Cardinality(Old) \in Nat /\ Cardinality(New) \in Nat /\ Cardinality(Old) <= Cardinality(New)
BY FS_Subset, FS_CardinalityType

LEMMA SinceIsTimes ==
  P!Since \in SUBSET P!Time /\ {"up"} \in SUBSET P!Result /\ {"down"} \in SUBSET P!Result
BY DEF P!Since, P!Result

LEMMA UpIsCounted == P!Count(P!Since, {"up"}) \in Nat
BY RowsAreFinite, SinceIsTimes

LEMMA UpIsCardinal == P!Count(P!Since, {"up"}) = Cardinality(P!Rows(P!Since, {"up"}))
BY CountOf

LEMMA UpFinite == IsFiniteSet(P!Rows(P!Since, {"up"}))
BY RowsAreFinite, SinceIsTimes

\* A step that leaves the load as it is.
LEMMA PageStays ==
  ASSUME PageInv, page' = page, now' \in P!Time, now <= now',
         checks' \in [P!Time -> [P!Result -> 0..MaxChecks]], stirred \subseteq stirred',
         NEW U, U = P!Count(P!Since, {"up"}), NEW V, V = P!Count(P!Since, {"up"})',
         V > U /\ page.pc # "idle" => "up" \in stirred',
         V < U /\ page.pc # "idle" => "cleanup" \in stirred',
         stirred' = {} /\ page.pc # "idle" => checks' = checks,
         \A t \in P!Time, r \in P!Result : t > now' => checks'[t][r] = 0
  PROVE  PageInv'
<1>1. PageTypes'
  BY DEF PageInv, PageTypes, PageType
<1>2. NoneAhead'
  <2>1. page.pc # "idle" => page.at <= now /\ page.at \in Int /\ now \in Int /\ now' \in Int
    BY RulesAssumption DEF PageInv, NoneAhead, PageTypes, PageType, P!Time, P!StatusPageAssumption
  <2>2. page.pc # "idle" => page'.at <= now'
    BY <2>1
  <2> QED BY <2>2 DEF PageInv, NoneAhead
<1>3. U \in Nat /\ V \in Nat
  <2>1. (P!Count(P!Since, {"up"}) \in Nat)'
    BY UpIsCounted, PTL
  <2> QED BY <2>1, UpIsCounted
<1>4. page.total \in Nat /\ page.failed \in Nat
  BY DEF PageInv, PageTypes, PageType
<1>5. Counting'
  BY <1>3, <1>4 DEF PageInv, Counting
<1>6. Answered'
  BY DEF PageInv, Answered
<1>7. BarShows'
  <2>1. ASSUME page.pc # "idle", stirred' = {}, NEW d, NEW results
        PROVE  P!Count(P!Day(d), results)' = P!Count(P!Day(d), results)
    BY <2>1 DEF P!Count, P!Rows, P!Day
  <2>2. stirred' = {} => stirred = {}
    OBVIOUS
  <2> QED BY <2>1, <2>2 DEF PageInv, BarShows, Fair
<1> QED BY <1>1, <1>2, <1>5, <1>6, <1>7 DEF PageInv

\* The day d is drawn.
LEMMA DrawKeeps ==
  ASSUME PageInv, NEW d \in Int, NEW colour \in {"grey", "green", "amber", "red"},
         page' = [page EXCEPT !.bar = P!Drawn(d, colour)]
         \/ page' = [page EXCEPT !.pc = "up", !.bar = P!Drawn(d, colour)],
         page.pc \in {"up", "day"}, page.pc = "day" => page'.pc = "up",
         now' = now, checks' = checks, stirred' = stirred,
         stirred = {} => \/ colour \in {"amber", "red"}
                         \/ P!Count(P!Day(d), {"down"}) = 0
                         \/ 2 * Tenths * P!Count(P!Day(d), {"down"}) <= P!Count(P!Day(d), P!Result)
  PROVE  PageInv'
<1> DEFINE bar == P!Drawn(d, colour)
<1>1. page \in PageType /\ page.bar \in Bar
  BY DEF PageInv, PageTypes, PageType
<1>2. PICK S \in SUBSET Int : page.bar \in [S -> {"grey", "green", "amber", "red"}]
  <2>1. CASE page.bar = <<>>
    <3>1. DOMAIN <<>> = {} /\ <<>> \in [{} -> {"grey", "green", "amber", "red"}]
      OBVIOUS
    <3> QED BY <2>1, <3>1
  <2> QED BY <1>1, <2>1 DEF Bar
<1>3. /\ bar \in Bar /\ DOMAIN bar = DOMAIN page.bar \cup {d}
      /\ bar[d] = colour /\ \A e \in DOMAIN page.bar : e # d => bar[e] = page.bar[e]
  <2>1. bar \in [S \cup {d} -> {"grey", "green", "amber", "red"}]
    BY <1>2 DEF P!Drawn
  <2>2. S \cup {d} \in SUBSET Int
    OBVIOUS
  <2>3. bar \in Bar
    BY <2>1, <2>2 DEF Bar
  <2> QED BY <1>2, <2>3 DEF P!Drawn
<1> HIDE DEF bar
<1>4. /\ page' \in PageType /\ page'.pc = "up" /\ page'.at = page.at /\ page'.total = page.total
      /\ page'.failed = page.failed /\ page'.up = page.up /\ page'.bar = bar
  BY <1>1, <1>3 DEF PageType, bar
<1>5. PageTypes' /\ NoneAhead'
  BY <1>4 DEF PageInv, PageTypes, NoneAhead
<1>6. Answered' /\ Counting'
  BY <1>4 DEF PageInv, Answered, Counting
<1>7. ASSUME NEW e, NEW results PROVE P!Count(P!Day(e), results)' = P!Count(P!Day(e), results)
  BY DEF P!Count, P!Rows, P!Day
<1>8. ASSUME stirred = {}, NEW e \in DOMAIN bar PROVE Fair(e)'
  <2>1. CASE e = d
    BY <1>3, <1>4, <1>7, <1>8, <2>1 DEF Fair
  <2>2. CASE e # d
    <3>1. e \in DOMAIN page.bar /\ bar[e] = page.bar[e]
      BY <1>3, <1>8, <2>2
    <3>2. Fair(e)
      BY <1>8, <3>1 DEF PageInv, BarShows
    <3> QED BY <1>4, <1>7, <3>1, <3>2 DEF Fair
  <2> QED BY <2>1, <2>2
<1>9. BarShows'
  BY <1>4, <1>8 DEF BarShows
<1> QED BY <1>5, <1>6, <1>9 DEF PageInv

LEMMA PageStep == PageInv /\ [P!Next]_P!vars => PageInv'
<1> SUFFICES ASSUME PageInv, [P!Next]_P!vars PROVE PageInv'
  OBVIOUS
<1>0. /\ LastTime \in Nat /\ MaxChecks \in Nat /\ Window \in Nat /\ Retention \in Nat
      /\ now \in P!Time /\ now \in Int /\ checks \in [P!Time -> [P!Result -> 0..MaxChecks]]
      /\ page \in PageType
      /\ page.at \in P!Time
      /\ \A t \in P!Time : t \in Int
  BY RulesAssumption DEF P!StatusPageAssumption, PageInv, PageTypes, PageType, P!Time
<1> DEFINE U == P!Count(P!Since, {"up"})
           UpRows == P!Rows(P!Since, {"up"})
<1>a. U = Cardinality(UpRows) /\ U' = Cardinality(UpRows')
  <2>1. (P!Count(P!Since, {"up"}) = Cardinality(P!Rows(P!Since, {"up"})))'
    BY UpIsCardinal, PTL
  <2> QED BY <2>1, UpIsCardinal
<1>b. IsFiniteSet(UpRows) /\ IsFiniteSet(UpRows')
  <2>1. (IsFiniteSet(UpRows))'
    BY UpFinite, PTL
  <2> QED BY <2>1, UpFinite
<1>1. ASSUME NEW r \in P!Result, P!Arrive(r) PROVE PageInv'
  <2>1. /\ now' = now /\ page' = page /\ checks[now][r] < MaxChecks
        /\ checks' = [checks EXCEPT ![now][r] = @ + 1]
        /\ stirred' = IF page.pc = "idle" THEN stirred ELSE stirred \cup {r}
    BY <1>1 DEF P!Arrive
  <2>2. checks[now][r] \in 0..MaxChecks /\ checks[now][r] + 1 \in 0..MaxChecks
    BY <1>0, <2>1
  <2>3. checks' \in [P!Time -> [P!Result -> 0..MaxChecks]]
    BY <1>0, <2>1, <2>2
  <2>4. \A t \in P!Time, s \in P!Result :
           checks'[t][s] = IF t = now /\ s = r THEN checks[now][r] + 1 ELSE checks[t][s]
    BY <1>0, <2>1
  <2>5. ASSUME NEW t \in P!Time, NEW s \in P!Result
        PROVE  checks[t][s] \in Int /\ checks[t][s] <= checks'[t][s]
    <3>1. checks[t] \in [P!Result -> 0..MaxChecks]
      BY <1>0
    <3>2. checks[t][s] \in 0..MaxChecks
      BY <3>1
    <3>3. checks[t][s] \in Int
      BY <1>0, <3>2
    <3>4. CASE t = now /\ s = r
      BY <2>4, <3>3, <3>4
    <3>5. CASE ~(t = now /\ s = r)
      BY <2>4, <3>3, <3>5
    <3> QED BY <3>3, <3>4, <3>5
  <2>6. P!Since' = P!Since /\ P!Since \subseteq P!Time
    BY <2>1 DEF P!Since
  <2>7. UpRows \subseteq UpRows'
    <3>1. ASSUME NEW c \in UpRows PROVE c \in UpRows'
      <4>1. c[1] \in P!Time /\ c[2] \in P!Result /\ c[3] \in Int /\ c[3] <= checks[c[1]][c[2]]
        BY <2>6 DEF P!Rows, P!Result
      <4>2. checks[c[1]][c[2]] \in Int /\ checks[c[1]][c[2]] <= checks'[c[1]][c[2]] /\ checks'[c[1]][c[2]] \in Int
        BY <2>3, <2>5, <4>1
      <4>3. c[3] <= checks'[c[1]][c[2]]
        BY <4>1, <4>2
      <4> QED BY <2>6, <4>3 DEF P!Rows
    <3> QED BY <3>1
  <2>8. r # "up" => UpRows' = UpRows
    BY <2>4, <2>6 DEF P!Rows, P!Result
  <2>9. U <= U' /\ U \in Nat /\ U' \in Nat /\ (r # "up" => U' = U)
    BY <1>a, <1>b, <2>7, <2>8, CountMonotone
  <2>10. \A t \in P!Time, s \in P!Result : t > now' => checks'[t][s] = 0
    BY <1>0, <2>1, <2>4 DEF PageInv, NoneAhead
  <2> HIDE DEF U, UpRows
  <2>11. /\ U' > U /\ page.pc # "idle" => "up" \in stirred'
         /\ ~(U' < U)
         /\ stirred' = {} /\ page.pc # "idle" => checks' = checks
         /\ stirred \subseteq stirred' /\ now \in Int /\ now <= now'
    BY <1>0, <2>1, <2>9 DEF P!Result
  <2> QED BY <1>0, <2>1, <2>3, <2>10, <2>11, PageStays DEF U
<1>2. CASE P!Cleanup
  <2>1. /\ now' = now /\ page' = page
        /\ checks' = [t \in P!Time |-> IF t < now - Retention THEN [r \in P!Result |-> 0] ELSE checks[t]]
        /\ stirred' = IF page.pc = "idle" THEN stirred ELSE stirred \cup {"cleanup"}
    BY <1>2 DEF P!Cleanup
  <2>3. checks' \in [P!Time -> [P!Result -> 0..MaxChecks]]
    BY <1>0, <2>1
  <2>4. \A t \in P!Time, s \in P!Result : checks'[t][s] = 0 \/ checks'[t][s] = checks[t][s]
    BY <1>0, <2>1
  <2>6. P!Since' = P!Since /\ P!Since \subseteq P!Time
    BY <2>1 DEF P!Since
  <2>7. UpRows' \subseteq UpRows
    <3>1. ASSUME NEW c \in UpRows' PROVE c \in UpRows
      <4>1. /\ c \in P!Since \X {"up"} \X (1..MaxChecks)
            /\ c[1] \in P!Time /\ c[2] \in P!Result /\ c[3] \in 1..MaxChecks /\ c[3] <= checks'[c[1]][c[2]]
        BY <2>6 DEF P!Rows, P!Result
      <4>2. checks'[c[1]][c[2]] = checks[c[1]][c[2]]
        BY <2>4, <4>1
      <4> QED BY <4>1, <4>2 DEF P!Rows
    <3> QED BY <3>1
  <2>9. U' <= U /\ U \in Nat /\ U' \in Nat
    BY <1>a, <1>b, <2>7, CountMonotone
  <2>10. \A t \in P!Time, s \in P!Result : t > now' => checks'[t][s] = 0
    BY <1>0, <2>1, <2>4 DEF PageInv, NoneAhead
  <2> HIDE DEF U, UpRows
  <2>11. /\ ~(U' > U)
         /\ page.pc # "idle" => "cleanup" \in stirred'
         /\ stirred \subseteq stirred' /\ now <= now'
    BY <1>0, <2>1, <2>9
  <2> QED BY <1>0, <2>1, <2>3, <2>10, <2>11, PageStays DEF U
<1>3. ASSUME checks' = checks, page' = page, stirred' = stirred, now' \in P!Time, now <= now' PROVE PageInv'
  <2>1. U' = U /\ U \in Nat
    BY <1>3, UpIsCounted DEF P!Count, P!Rows, P!Since
  <2>2. \A t \in P!Time, s \in P!Result : t > now' => checks'[t][s] = 0
    <3>1. ASSUME NEW t \in P!Time, t > now' PROVE t > now
      BY <1>0, <1>3, <3>1
    <3> QED BY <1>3, <3>1 DEF PageInv, NoneAhead
  <2> HIDE DEF U, UpRows
  <2>3. ~(U' > U) /\ ~(U' < U)
    BY <2>1
  <2> QED BY <1>0, <1>3, <2>2, <2>3, PageStays DEF U
<1>4. CASE P!TimePasses
  BY <1>0, <1>3, <1>4 DEF P!TimePasses, P!Time
<1>5. CASE \/ \E s \in P!Result \cup {"paused"} : P!Finalize(s)
           \/ UNCHANGED P!vars
  <2>1. checks' = checks /\ page' = page /\ stirred' = stirred /\ now' = now
    BY <1>5 DEF P!Finalize, P!vars
  <2> QED BY <1>0, <1>3, <2>1
<1>6. CASE P!Open
  <2> DEFINE runs == status # "paused"
  <2>1. /\ page' = [P!Unread EXCEPT !.pc = "listed", !.at = now, !.listed = runs]
        /\ now' = now /\ checks' = checks
    BY <1>6 DEF P!Open
  <2>a. runs \in BOOLEAN
    OBVIOUS
  <2> HIDE DEF runs
  <2>b. <<>> \in Bar
    BY DEF Bar
  <2>c. page' = [pc |-> "listed", at |-> now, listed |-> runs, total |-> 0, up |-> 0, failed |-> 0,
                 day |-> 0, dayTotal |-> 0, bar |-> <<>>]
    BY <2>1 DEF P!Unread
  <2>2. /\ page'.pc = "listed" /\ page'.at = now /\ page'.bar = <<>>
        /\ page' \in PageType
    BY <1>0, <2>a, <2>b, <2>c DEF PageType
  <2>3. PageTypes' /\ NoneAhead'
    BY <1>0, <2>1, <2>2 DEF PageInv, PageTypes, NoneAhead
  <2>4. DOMAIN page'.bar = {}
    BY <2>2
  <2> QED BY <2>2, <2>3, <2>4 DEF PageInv, Counting, Answered, BarShows
<1>7. CASE P!Close
  <2>1. page' = P!Unread /\ now' = now /\ checks' = checks
    BY <1>7 DEF P!Close
  <2>2. /\ page'.pc = "idle"
        /\ page' \in PageType
    BY <1>0, <2>1 DEF P!Unread, PageType, Bar, P!Time
  <2>3. PageTypes' /\ NoneAhead'
    BY <1>0, <2>1, <2>2 DEF PageInv, PageTypes, NoneAhead
  <2> QED BY <2>2, <2>3 DEF PageInv, Counting, Answered, BarShows
<1>8. CASE P!CountAll
  <2> DEFINE total == P!Count(P!Since, P!Result)
             failed == P!Count(P!Since, {"down"})
  <2>1. page' = [page EXCEPT !.pc = "total", !.total = total, !.failed = failed]
        /\ now' = now /\ checks' = checks /\ stirred' = stirred /\ page.pc = "listed"
    BY <1>8 DEF P!CountAll
  <2>2. total = U + failed /\ U \in Nat /\ failed \in Nat /\ total \in Nat
    BY ResultsAddUp, RowsAreFinite, SinceIsTimes
  <2> HIDE DEF total, failed
  <2>3. /\ page' \in PageType
        /\ page'.pc = "total" /\ page'.at = page.at /\ page'.total = total /\ page'.failed = failed
        /\ page'.bar = page.bar
    BY <1>0, <2>1, <2>2 DEF PageType
  <2>4. P!Count(P!Since, {"up"})' = U
    BY <2>1, <2>3 DEF P!Count, P!Rows, P!Since
  <2>5. PageTypes' /\ NoneAhead'
    BY <1>0, <2>1, <2>3 DEF PageInv, PageTypes, NoneAhead
  <2> HIDE DEF U
  <2>6. Counting'
    BY <2>2, <2>3, <2>4 DEF Counting, U
  <2>7. BarShows'
    BY <2>1, <2>3 DEF PageInv, BarShows
  <2> QED BY <2>3, <2>5, <2>6, <2>7 DEF PageInv, Answered
<1>9. CASE P!CountUp
  <2> DEFINE up == IF page.total = 0 THEN 0 ELSE U
  <2>1. page' = [page EXCEPT !.pc = "up", !.up = up]
        /\ now' = now /\ checks' = checks /\ stirred' = stirred /\ page.pc = "total"
    BY <1>9 DEF P!CountUp
  <2>2. U \in Nat /\ up \in Nat
    BY UpIsCounted
  <2> HIDE DEF U
  <2>3. /\ page' \in PageType
        /\ page'.pc = "up" /\ page'.at = page.at /\ page'.total = page.total /\ page'.failed = page.failed
        /\ page'.up = up /\ page'.bar = page.bar
    BY <1>0, <2>1, <2>2 DEF PageType
  <2>4. PageTypes' /\ NoneAhead'
    BY <1>0, <2>1, <2>3 DEF PageInv, PageTypes, NoneAhead
  <2>5. /\ page.failed <= page.total /\ page.failed \in Nat /\ page.total \in Nat
        /\ U + page.failed > page.total => "up" \in stirred
        /\ U + page.failed < page.total => "cleanup" \in stirred
    BY <1>0, <2>1 DEF PageInv, Counting, U, PageType
  <2>6. Answered'
    BY <2>1, <2>2, <2>3, <2>5 DEF Answered
  <2>7. BarShows'
    BY <2>1, <2>3 DEF PageInv, BarShows
  <2> QED BY <2>3, <2>4, <2>6, <2>7 DEF PageInv, Counting
<1>10. ASSUME NEW d \in P!Buckets, P!CountDay(d) PROVE PageInv'
  <2> DEFINE total == P!Count(P!Day(d), P!Result)
  <2>1. now' = now /\ checks' = checks /\ stirred' = stirred /\ page.pc = "up"
    BY <1>10 DEF P!CountDay
  <2>2. d \in Int /\ P!Day(d) \in SUBSET P!Time
    BY <1>0 DEF P!Buckets, P!Day
  <2>3. CASE total = 0 /\ page' = [page EXCEPT !.bar = P!Drawn(d, "grey")]
    <3>1. P!Count(P!Day(d), {"down"}) = 0
      <4>1. P!Count(P!Day(d), {"up"}) \in Nat /\ P!Count(P!Day(d), {"down"}) \in Nat
        BY <2>2, RowsAreFinite, SinceIsTimes
      <4> QED BY <2>2, <2>3, <4>1, ResultsAddUp
    <3> QED BY <1>0, <2>1, <2>2, <2>3, <3>1, DrawKeeps
  <2>4. CASE page' = [page EXCEPT !.pc = "day", !.day = d, !.dayTotal = total]
    <3>1. total \in Nat
      BY <2>2, RowsAreFinite
    <3>2. total = P!Count(P!Day(d), P!Result)'
      BY <2>1 DEF P!Count, P!Rows, P!Day
    <3> HIDE DEF total
    <3>3. /\ page' \in PageType /\ page'.pc = "day" /\ page'.at = page.at /\ page'.total = page.total
          /\ page'.failed = page.failed /\ page'.up = page.up /\ page'.bar = page.bar
          /\ page'.day = d /\ page'.dayTotal = total
      BY <1>0, <2>2, <2>4, <3>1 DEF PageType
    <3>4. PageTypes' /\ NoneAhead'
      BY <1>0, <2>1, <3>3 DEF PageInv, PageTypes, NoneAhead
    <3>5. Answered' /\ Counting'
      BY <2>1, <3>3 DEF PageInv, Answered, Counting
    <3>6. BarShows'
      <4>1. ASSUME stirred = {}, NEW e \in DOMAIN page.bar PROVE Fair(e)'
        <5>1. Fair(e)
          BY <2>1, <4>1 DEF PageInv, BarShows
        <5> QED BY <2>1, <3>3, <5>1 DEF Fair, P!Count, P!Rows, P!Day
      <4> QED BY <2>1, <3>2, <3>3, <4>1 DEF BarShows
    <3> QED BY <3>4, <3>5, <3>6 DEF PageInv
  <2> QED BY <1>10, <2>3, <2>4 DEF P!CountDay
<1>11. CASE P!CountDayUp
  <2> DEFINE up == P!Count(P!Day(page.day), {"up"})
             down == P!Count(P!Day(page.day), {"down"})
             total == page.dayTotal
  <2>1. PICK p \in 0..(Tenths * up) :
          /\ P!RoundsTo(p, up, total)
          /\ page' = [page EXCEPT !.pc = "up", !.bar = P!Drawn(page.day, P!Colour(p))]
    BY <1>11 DEF P!CountDayUp
  <2>2. now' = now /\ checks' = checks /\ stirred' = stirred /\ page.pc = "day"
    BY <1>11 DEF P!CountDayUp
  <2>3. page.day \in Int /\ P!Day(page.day) \in SUBSET P!Time /\ total \in Nat
    BY <1>0 DEF P!Day, PageType
  <2>4. up \in Nat /\ down \in Nat
    BY <2>3, RowsAreFinite, SinceIsTimes
  <2>5. stirred = {} => total = up + down /\ total = P!Count(P!Day(page.day), P!Result)
    BY <2>2, <2>3, ResultsAddUp DEF PageInv, BarShows
  <2>6. Tenths \in Nat
    BY RulesAssumption DEF P!StatusPageAssumption
  <2>7. P!Colour(p) \in {"green", "amber", "red"} /\ (P!Colour(p) = "green" => p = Tenths)
    BY DEF P!Colour
  <2> HIDE DEF up, down, total
  <2>8. ASSUME p = Tenths, total = up + down PROVE 2 * Tenths * down <= total
    <3>1. 2 * (Tenths * total - Tenths * up) <= total
      BY <2>1, <2>3, <2>4, <2>6, <2>8 DEF P!RoundsTo
    <3>2. Tenths * total - Tenths * up = Tenths * down
      BY <2>4, <2>6, <2>8
    <3> QED BY <2>4, <2>6, <3>1, <3>2
  <2>9. ASSUME stirred = {}
        PROVE  \/ P!Colour(p) \in {"amber", "red"}
               \/ 2 * Tenths * P!Count(P!Day(page.day), {"down"}) <= P!Count(P!Day(page.day), P!Result)
    <3>1. CASE P!Colour(p) = "green"
      <4>1. p = Tenths
        BY <2>7, <3>1
      <4>2. total = up + down /\ total = P!Count(P!Day(page.day), P!Result)
        BY <2>5, <2>9
      <4>3. 2 * Tenths * down <= total
        BY <2>8, <4>1, <4>2
      <4>4. down = P!Count(P!Day(page.day), {"down"})
        BY DEF down
      <4>5. 2 * Tenths * P!Count(P!Day(page.day), {"down"}) <= P!Count(P!Day(page.day), P!Result)
        BY <4>2, <4>3, <4>4
      <4> QED BY <4>5
    <3>2. CASE P!Colour(p) # "green"
      BY <2>7, <3>2
    <3> QED BY <3>1, <3>2
  <2> DEFINE colour == P!Colour(p)
             day == page.day
  <2>10. colour \in {"grey", "green", "amber", "red"} /\ day \in Int
    BY <2>3, <2>7
  <2>11. page' = [page EXCEPT !.pc = "up", !.bar = P!Drawn(day, colour)] /\ page'.pc = "up"
    BY <1>0, <2>1 DEF PageType
  <2>12. stirred = {} => \/ colour \in {"amber", "red"}
                         \/ P!Count(P!Day(day), {"down"}) = 0
                         \/ 2 * Tenths * P!Count(P!Day(day), {"down"}) <= P!Count(P!Day(day), P!Result)
    BY <2>9
  <2>13. page.pc \in {"up", "day"} /\ now' = now /\ checks' = checks /\ stirred' = stirred
    BY <2>2
  <2> HIDE DEF colour, day
  <2> QED BY <2>10, <2>11, <2>12, <2>13, DrawKeeps
<1> QED BY <1>1, <1>2, <1>4, <1>5, <1>6, <1>7, <1>8, <1>9, <1>10, <1>11 DEF P!Next

\* A page that is drawn shows every failure, but for those its days round away.
LEMMA PageTells == PageInv => P!ShownUptime
<1> SUFFICES ASSUME PageInv, P!Shown PROVE P!ShownUptime
  BY DEF P!ShownUptime
<1>1. page.pc = "up" /\ P!Buckets \subseteq DOMAIN page.bar /\ page.at \in P!Time
  BY DEF P!Shown, PageInv, PageTypes, PageType
<1>2. ASSUME stirred = {}, NEW c \in P!Rows(P!Since, {"down"})
      PROVE  LET d == c[1] \div 2
             IN  /\ d \in DOMAIN page.bar
                 /\ \/ page.bar[d] \in {"amber", "red"}
                    \/ 2 * Tenths * P!Count(P!Day(d), {"down"}) <= P!Count(P!Day(d), P!Result)
  <2> DEFINE t == c[1]
             d == c[1] \div 2
  <2>1. /\ t \in P!Time /\ t >= page.at - Window /\ c[2] = "down" /\ c[3] \in 1..MaxChecks
        /\ c[3] <= checks[t]["down"]
    BY DEF P!Rows, P!Since
  <2>2. /\ t \in Int /\ now \in Int /\ page.at \in Int /\ Window \in Nat /\ MaxChecks \in Nat
        /\ checks[t]["down"] \in 0..MaxChecks
    BY <1>1, <2>1, RulesAssumption
       DEF PageInv, PageTypes, P!Time, P!Result, P!StatusPageAssumption
  <2>3. t <= page.at
    BY <1>1, <1>2, <2>1, <2>2 DEF PageInv, NoneAhead, P!Result
  <2>4. (page.at - Window) \div 2 <= t \div 2
    BY <2>1, <2>2
  <2>5. d \in P!Buckets
    BY <2>1, <2>3, <2>4 DEF P!Buckets
  <2>6. t \in P!Day(d) /\ P!Day(d) \in SUBSET P!Time
    BY <2>1 DEF P!Day
  <2>7. c \in P!Rows(P!Day(d), {"down"})
    BY <2>6 DEF P!Rows
  <2> HIDE DEF d
  <2>8. P!Count(P!Day(d), {"down"}) # 0
    <3>1. IsFiniteSet(P!Rows(P!Day(d), {"down"}))
      BY <2>6, RowsAreFinite, SinceIsTimes
    <3> QED BY <2>7, <3>1, CountOf, FS_EmptySet
  <2>9. Fair(d)
    BY <1>1, <1>2, <2>5 DEF PageInv, BarShows
  <2>10. d \in DOMAIN page.bar
    BY <1>1, <2>5
  <2> QED BY <2>8, <2>9, <2>10 DEF Fair, d
<1> QED BY <1>1, <1>2 DEF P!ShownUptime, PageInv, Answered

LEMMA PageInvariance == P!Spec => []PageInv
BY PageInit, PageStep, PTL DEF P!Spec

-----------------------------------------------------------------------------
(* BulkAdd.                                                                *)

Entry == [kind : {"http", "ssl"}, site : Site]

BulkTypes ==
  /\ watched \in [Site -> {0, 1}] /\ certs \in [A!Host -> {0, 1}] /\ plan \in DOMAIN Plan
  /\ paste \in [Paste -> [pc : {"idle", "planned"}, list : Seq(Site), planned : Seq(Entry)]]

\* What a submit planned is new, each entry once; certificates only after every site of
\* the paste; and there is room for all of it.
Fits(t, list) ==
  /\ \A i \in 1..Len(t) : IF t[i].kind = "http" THEN watched[t[i].site] = 0 ELSE certs[HostOf[t[i].site]] = 0
  /\ \A i, j \in 1..Len(t) : t[i].kind = "http" /\ t[j].kind = "http" /\ t[i].site = t[j].site => i = j
  /\ \A i, j \in 1..Len(t) :
       t[i].kind = "ssl" /\ t[j].kind = "ssl" /\ HostOf[t[i].site] = HostOf[t[j].site] => i = j
  /\ \A i \in 1..Len(t), k \in 1..Len(list) :
       t[i].kind = "ssl" /\ list[k] \notin Bad /\ watched[list[k]] = 0
         => \E j \in 1..Len(t) : t[j].kind = "http" /\ t[j].site = list[k]
  /\ A!Used + Len(t) <= Plan[plan]

Planless == \A p \in Paste : paste[p].pc = "idle" => paste[p].planned = <<>>

AllFit == \A p \in Paste : paste[p].pc = "planned" => Fits(paste[p].planned, paste[p].list)

BulkInv == ~overlapped => BulkTypes /\ A!Used <= Plan[plan] /\ Planless /\ AllFit

LEMMA ImageIsFinite ==
  ASSUME NEW S, IsFiniteSet(S), NEW f
  PROVE  IsFiniteSet({f[x] : x \in S}) /\ Cardinality({f[x] : x \in S}) <= Cardinality(S)
<1> DEFINE T == {f[x] : x \in S}
           g == [x \in S |-> f[x]]
<1>1. g \in Surjection(S, T)
  BY DEF Surjection
<1> HIDE DEF g
<1> QED BY <1>1, FS_Surjection

LEMMA BulkConstants ==
  /\ IsFiniteSet(Site) /\ Bad \subseteq Site /\ Plan \in Seq(Nat) /\ Len(Plan) \in Nat \ {0}
  /\ DOMAIN Plan = 1..Len(Plan) /\ \A i \in DOMAIN Plan : Plan[i] \in Nat
  /\ \A i, j \in DOMAIN Plan : i < j => Plan[i] <= Plan[j]
  /\ IsFiniteSet(A!Host) /\ \A s \in Site : HostOf[s] \in A!Host
<1>1. /\ Bad \subseteq Site /\ Plan \in Seq(Nat) /\ Plan # <<>>
      /\ \A i, j \in DOMAIN Plan : i < j => Plan[i] <= Plan[j]
  BY RulesAssumption DEF A!BulkAddAssumption
<1>2. IsFiniteSet(Site)
  BY RulesAssumption DEF A!BulkAddAssumption, A!IsFiniteSet, IsFiniteSet
<1>3. IsFiniteSet(A!Host)
  BY <1>2, ImageIsFinite DEF A!Host
<1> QED BY <1>1, <1>2, <1>3 DEF A!Host

\* While no site and no host is there twice, the rows are finitely many.
Once == watched \in [Site -> {0, 1}] /\ certs \in [A!Host -> {0, 1}]

RowsOnce == {<<<<"http", s>>, 1>> : s \in {s \in Site : watched[s] = 1}}
            \cup {<<<<"ssl", h>>, 1>> : h \in {h \in A!Host : certs[h] = 1}}

LEMMA UsedOnce ==
  Once => /\ A!Used = Cardinality(RowsOnce) /\ IsFiniteSet(RowsOnce) /\ Cardinality(RowsOnce) \in Nat
<1> SUFFICES ASSUME Once
             PROVE  A!Used = Cardinality(RowsOnce) /\ IsFiniteSet(RowsOnce) /\ Cardinality(RowsOnce) \in Nat
  OBVIOUS
<1>1. ASSUME NEW n \in {0, 1}, NEW x PROVE x \in 1..n <=> n = 1 /\ x = 1
  <2>1. CASE n = 0
    BY <2>1
  <2>2. CASE n = 1
    BY <2>2
  <2> QED BY <2>1, <2>2
<1> DEFINE H == UNION {{<<"http", s>>} \X (1..watched[s]) : s \in Site}
           G == UNION {{<<"ssl", h>>} \X (1..certs[h]) : h \in A!Host}
<1>0. A!Rows = H \cup G
  BY DEF A!Rows
<1>2. ASSUME NEW m PROVE m \in H <=> \E s \in Site : watched[s] = 1 /\ m = <<<<"http", s>>, 1>>
  <2>1. ASSUME NEW s \in Site
        PROVE  m \in {<<"http", s>>} \X (1..watched[s]) <=> watched[s] = 1 /\ m = <<<<"http", s>>, 1>>
    <3>1. watched[s] \in {0, 1}
      BY DEF Once
    <3>2. m \in {<<"http", s>>} \X (1..watched[s]) <=> m = <<<<"http", s>>, m[2]>> /\ m[2] \in 1..watched[s]
      OBVIOUS
    <3> QED BY <1>1, <3>1, <3>2
  <2> QED BY <2>1
<1>3. ASSUME NEW m PROVE m \in G <=> \E h \in A!Host : certs[h] = 1 /\ m = <<<<"ssl", h>>, 1>>
  <2>1. ASSUME NEW h \in A!Host
        PROVE  m \in {<<"ssl", h>>} \X (1..certs[h]) <=> certs[h] = 1 /\ m = <<<<"ssl", h>>, 1>>
    <3>1. certs[h] \in {0, 1}
      BY DEF Once
    <3>2. m \in {<<"ssl", h>>} \X (1..certs[h]) <=> m = <<<<"ssl", h>>, m[2]>> /\ m[2] \in 1..certs[h]
      OBVIOUS
    <3> QED BY <1>1, <3>1, <3>2
  <2> QED BY <2>1
<1>4. A!Rows = RowsOnce
  <2>1. ASSUME NEW m PROVE m \in A!Rows <=> m \in RowsOnce
    <3> HIDE DEF H, G
    <3> QED BY <1>0, <1>2, <1>3 DEF RowsOnce
  <2> QED BY <2>1
<1>5. A!Cardinality(A!Rows) = Cardinality(A!Rows)
  BY DEF A!Cardinality, Cardinality
<1>6. IsFiniteSet({s \in Site : watched[s] = 1}) /\ IsFiniteSet({h \in A!Host : certs[h] = 1})
  BY BulkConstants, FS_Subset
<1>7. /\ IsFiniteSet({<<<<"http", s>>, 1>> : s \in {s \in Site : watched[s] = 1}})
      /\ IsFiniteSet({<<<<"ssl", h>>, 1>> : h \in {h \in A!Host : certs[h] = 1}})
  <2> DEFINE W == {s \in Site : watched[s] = 1}
             V == {h \in A!Host : certs[h] = 1}
             w == [s \in W |-> <<<<"http", s>>, 1>>]
             c == [h \in V |-> <<<<"ssl", h>>, 1>>]
  <2>1. {w[s] : s \in W} = {<<<<"http", s>>, 1>> : s \in W}
    OBVIOUS
  <2>2. {c[h] : h \in V} = {<<<<"ssl", h>>, 1>> : h \in V}
    OBVIOUS
  <2>3. IsFiniteSet({w[s] : s \in W}) /\ IsFiniteSet({c[h] : h \in V})
    <3> HIDE DEF w, c
    <3> QED BY <1>6, ImageIsFinite
  <2> QED BY <2>1, <2>2, <2>3
<1>8. IsFiniteSet(RowsOnce)
  BY <1>7, FS_Union DEF RowsOnce
<1> QED BY <1>4, <1>5, <1>8, FS_CardinalityType DEF A!Used

LEMMA UsedNat == Once => A!Used \in Nat
BY UsedOnce

\* With fewer rows less is used.
LEMMA UsedLess ==
  ASSUME Once, Once', RowsOnce' \subseteq RowsOnce
  PROVE  A!Used' \in Nat /\ A!Used \in Nat /\ A!Used' <= A!Used
<1>1. (Once => /\ A!Used = Cardinality(RowsOnce) /\ IsFiniteSet(RowsOnce) /\ Cardinality(RowsOnce) \in Nat)'
  BY UsedOnce, PTL
<1>2. A!Used = Cardinality(RowsOnce) /\ A!Used' = Cardinality(RowsOnce') /\ IsFiniteSet(RowsOnce)
  BY <1>1, UsedOnce
<1>3. Cardinality(RowsOnce') <= Cardinality(RowsOnce)
  BY <1>2, FS_Subset
<1> QED BY <1>1, <1>2, <1>3, UsedOnce

\* A set of at most one element.
LEMMA AtMostOne ==
  ASSUME NEW S, \A i, j \in S : i = j
  PROVE  /\ Cardinality(S) \in {0, 1} /\ (Cardinality(S) > 0 <=> S # {})
         /\ A!Cardinality(S) = Cardinality(S)
<1>1. A!Cardinality(S) = Cardinality(S)
  BY DEF A!Cardinality, Cardinality
<1>2. CASE S = {}
  BY <1>1, <1>2, FS_EmptySet
<1>3. CASE S # {}
  <2>1. PICK i \in S : S = {i}
    BY <1>3
  <2>2. Cardinality(S) = 1
    BY <2>1, FS_Singleton
  <2> QED BY <1>1, <1>3, <2>2
<1> QED BY <1>2, <1>3

LEMMA SameFilter ==
  ASSUME NEW s, NEW kept PROVE A!Filter(s, kept) = Filter(s, kept)
BY DEF A!Filter, Filter

LEMMA NewSites ==
  ASSUME NEW list \in Seq(Site), \A i, j \in 1..Len(list) : list[i] = list[j] => i = j
  PROVE  /\ A!New(list) \in Seq(Site)
         /\ \A k \in 1..Len(A!New(list)) : watched[A!New(list)[k]] = 0
         /\ \A k, l \in 1..Len(A!New(list)) : A!New(list)[k] = A!New(list)[l] => k = l
         /\ \A i \in 1..Len(list) : list[i] \notin Bad /\ watched[list[i]] = 0
              => \E k \in 1..Len(A!New(list)) : A!New(list)[k] = list[i]
<1> DEFINE kept == {i \in DOMAIN list : list[i] \notin Bad /\ watched[list[i]] = 0}
           t == Filter(list, kept)
<1>1. A!New(list) = t
  BY SameFilter DEF A!New
<1>2. t \in Seq(Site) /\ \E ix : Chosen(t, list, kept, Len(list), ix)
  <2> HIDE DEF kept
  <2> QED BY FilterKeeps
<1>3. PICK ix : Chosen(t, list, kept, Len(list), ix)
  BY <1>2
<1>4. Len(list) \in Nat /\ DOMAIN list = 1..Len(list) /\ Len(t) \in Nat
  BY <1>2
<1> HIDE DEF t, kept
<1>5. /\ \A k \in 1..Len(t) : ix[k] \in kept \cap (1..Len(list)) /\ t[k] = list[ix[k]]
      /\ \A k, l \in 1..Len(t) : k < l => ix[k] < ix[l]
      /\ \A i \in kept \cap (1..Len(list)) : \E k \in 1..Len(t) : ix[k] = i
  BY <1>3 DEF Chosen
<1>6. \A k \in 1..Len(t) : watched[t[k]] = 0
  BY <1>5 DEF kept
<1>7. ASSUME NEW k \in 1..Len(t), NEW l \in 1..Len(t), t[k] = t[l] PROVE k = l
  <2>1. ix[k] = ix[l] /\ ix[k] \in Nat /\ ix[l] \in Nat
    BY <1>4, <1>5, <1>7
  <2>2. ~(k < l) /\ ~(l < k)
    BY <1>5, <2>1
  <2> QED BY <1>4, <2>2
<1>8. ASSUME NEW i \in 1..Len(list), list[i] \notin Bad, watched[list[i]] = 0
      PROVE  \E k \in 1..Len(t) : t[k] = list[i]
  <2>1. i \in kept \cap (1..Len(list))
    BY <1>4, <1>8 DEF kept
  <2> QED BY <1>5, <2>1
<1> QED BY <1>1, <1>2, <1>6, <1>7, <1>8

LEMMA SecureSites ==
  ASSUME NEW list, A!New(list) \in Seq(Site)
  PROVE  /\ A!Secure(list) \in Seq(Site)
         /\ \A k \in 1..Len(A!Secure(list)) : certs[HostOf[A!Secure(list)[k]]] = 0
         /\ \A k, l \in 1..Len(A!Secure(list)) :
              HostOf[A!Secure(list)[k]] = HostOf[A!Secure(list)[l]] => k = l
<1> DEFINE new == A!New(list)
           kept == {i \in DOMAIN new :
                      /\ new[i] \in Https /\ certs[HostOf[new[i]]] = 0
                      /\ \A j \in 1..(i - 1) : new[j] \in Https => HostOf[new[j]] # HostOf[new[i]]}
           t == Filter(new, kept)
<1>1. A!Secure(list) = t
  BY SameFilter DEF A!Secure
<1>2. t \in Seq(Site) /\ \E ix : Chosen(t, new, kept, Len(new), ix)
  <2> HIDE DEF kept
  <2> QED BY FilterKeeps
<1>3. PICK ix : Chosen(t, new, kept, Len(new), ix)
  BY <1>2
<1>4. Len(new) \in Nat /\ DOMAIN new = 1..Len(new) /\ Len(t) \in Nat
  BY <1>2
<1> HIDE DEF t, kept, new
<1>5. /\ \A k \in 1..Len(t) : ix[k] \in kept \cap (1..Len(new)) /\ t[k] = new[ix[k]]
      /\ \A k, l \in 1..Len(t) : k < l => ix[k] < ix[l]
  BY <1>3 DEF Chosen
<1>6. \A k \in 1..Len(t) : certs[HostOf[t[k]]] = 0
  BY <1>5 DEF kept
<1>7. ASSUME NEW k \in 1..Len(t), NEW l \in 1..Len(t), k < l PROVE HostOf[t[k]] # HostOf[t[l]]
  <2>1. ix[k] < ix[l] /\ ix[k] \in 1..Len(new) /\ ix[l] \in 1..Len(new)
    BY <1>5, <1>7
  <2>2. ix[k] \in 1..(ix[l] - 1)
    BY <1>4, <2>1
  <2>3. new[ix[k]] \in Https
    BY <1>5 DEF kept
  <2>4. HostOf[new[ix[k]]] # HostOf[new[ix[l]]]
    BY <1>5, <2>2, <2>3 DEF kept
  <2> QED BY <1>5, <2>4
<1>8. \A k, l \in 1..Len(t) : HostOf[t[k]] = HostOf[t[l]] => k = l
  <2> TAKE k, l \in 1..Len(t)
  <2>1. k < l \/ l < k \/ k = l
    BY <1>4
  <2> QED BY <1>7, <2>1
<1> QED BY <1>1, <1>2, <1>6, <1>8

\* What is planned fits: the cut leaves no more than there is room for.
LEMMA PlannedFits ==
  ASSUME BulkTypes, A!Used <= Plan[plan], NEW also_ssl \in BOOLEAN,
         NEW list \in Seq(Site), \A i, j \in 1..Len(list) : list[i] = list[j] => i = j
  PROVE  A!Planned(list, also_ssl) \in Seq(Entry) /\ Fits(A!Planned(list, also_ssl), list)
<1> DEFINE new == A!New(list)
           sec == IF also_ssl THEN A!Secure(list) ELSE <<>>
           all == A!Monitors("http", new) \o A!Monitors("ssl", sec)
           room == Plan[plan] - A!Used
           t == First(all, room)
<1>1. /\ new \in Seq(Site) /\ sec \in Seq(Site)
      /\ Len(new) \in Nat /\ Len(sec) \in Nat /\ DOMAIN new = 1..Len(new) /\ DOMAIN sec = 1..Len(sec)
      /\ \A k \in 1..Len(new) : watched[new[k]] = 0
      /\ \A k, l \in 1..Len(new) : new[k] = new[l] => k = l
      /\ \A k \in 1..Len(sec) : certs[HostOf[sec[k]]] = 0
      /\ \A k, l \in 1..Len(sec) : HostOf[sec[k]] = HostOf[sec[l]] => k = l
  BY NewSites, SecureSites
<1>2. room \in Nat /\ A!Used \in Nat /\ Plan[plan] \in Nat
  BY BulkConstants, UsedNat DEF BulkTypes, Once
<1>3. A!Larger(Plan[plan] - A!Used, 0) = room
  BY <1>2 DEF A!Larger
<1>4. A!Planned(list, also_ssl) = A!Cut(all)
  <2>1. A!Monitors("ssl", <<>>) = <<>>
    BY DEF A!Monitors
  <2> QED BY <2>1 DEF A!Planned
<1>5. A!Cut(all) = t
  <2>1. A!First(all, room) = First(all, room)
    BY DEF A!First, First
  <2> QED BY <1>3, <2>1 DEF A!Cut
<1> HIDE DEF new, sec
<1>6. /\ A!Monitors("http", new) \in Seq(Entry) /\ Len(A!Monitors("http", new)) = Len(new)
      /\ \A k \in 1..Len(new) : A!Monitors("http", new)[k] = [kind |-> "http", site |-> new[k]]
  <2>1. \A k \in 1..Len(new) : [kind |-> "http", site |-> new[k]] \in Entry
    BY <1>1 DEF Entry
  <2> QED BY <1>1, <2>1 DEF A!Monitors
<1>7. /\ A!Monitors("ssl", sec) \in Seq(Entry) /\ Len(A!Monitors("ssl", sec)) = Len(sec)
      /\ \A k \in 1..Len(sec) : A!Monitors("ssl", sec)[k] = [kind |-> "ssl", site |-> sec[k]]
  <2>1. \A k \in 1..Len(sec) : [kind |-> "ssl", site |-> sec[k]] \in Entry
    BY <1>1 DEF Entry
  <2> QED BY <1>1, <2>1 DEF A!Monitors
<1>8. all \in Seq(Entry) /\ Len(all) = Len(new) + Len(sec)
  BY <1>6, <1>7
<1>9. ASSUME NEW k \in 1..Len(all)
      PROVE  \/ k \in 1..Len(new) /\ all[k] = [kind |-> "http", site |-> new[k]]
             \/ k - Len(new) \in 1..Len(sec) /\ k > Len(new)
                /\ all[k] = [kind |-> "ssl", site |-> sec[k - Len(new)]]
  <2>1. CASE k <= Len(new)
    BY <1>1, <1>6, <1>7, <1>8, <1>9, <2>1
  <2>2. CASE k > Len(new)
    <3>1. k - Len(new) \in 1..Len(sec)
      BY <1>1, <1>8, <2>2
    <3> QED BY <1>1, <1>6, <1>7, <1>8, <2>2, <3>1
  <2> QED BY <1>1, <1>8, <2>1, <2>2
<1> HIDE DEF all, room
<1>10. /\ t \in Seq(Entry) /\ Len(t) = (IF room < Len(all) THEN room ELSE Len(all))
       /\ \A k \in 1..Len(t) : t[k] = all[k]
  BY <1>2, <1>8, FirstHolds
<1>11. Len(t) \in Nat /\ Len(t) <= Len(all) /\ Len(t) <= room /\ Len(all) \in Nat
  BY <1>2, <1>8, <1>10
<1> HIDE DEF t
<1>12. ASSUME NEW k \in 1..Len(t)
       PROVE  /\ k \in 1..Len(all) /\ k \in Nat
              /\ t[k].kind = "http" => k \in 1..Len(new) /\ t[k].site = new[k]
              /\ t[k].kind # "http" => t[k].kind = "ssl"
              /\ t[k].kind = "ssl" => /\ k - Len(new) \in 1..Len(sec) /\ k > Len(new)
                                      /\ t[k].site = sec[k - Len(new)]
  <2>1. k \in 1..Len(all) /\ t[k] = all[k]
    BY <1>10, <1>11
  <2>2. CASE k \in 1..Len(new) /\ all[k] = [kind |-> "http", site |-> new[k]]
    <3>1. t[k].kind = "http" /\ t[k].site = new[k] /\ "http" # "ssl"
      BY <2>1, <2>2
    <3> QED BY <2>1, <2>2, <3>1
  <2>3. CASE /\ k - Len(new) \in 1..Len(sec) /\ k > Len(new)
             /\ all[k] = [kind |-> "ssl", site |-> sec[k - Len(new)]]
    <3>1. t[k].kind = "ssl" /\ t[k].site = sec[k - Len(new)] /\ "http" # "ssl"
      BY <2>1, <2>3
    <3> QED BY <2>1, <2>3, <3>1
  <2> QED BY <1>9, <2>1, <2>2, <2>3
<1>13. ASSUME NEW i \in 1..Len(t)
       PROVE  IF t[i].kind = "http" THEN watched[t[i].site] = 0 ELSE certs[HostOf[t[i].site]] = 0
  <2>1. CASE t[i].kind = "http"
    BY <1>1, <1>12, <2>1
  <2>2. CASE t[i].kind # "http"
    <3>1. i - Len(new) \in 1..Len(sec) /\ t[i].site = sec[i - Len(new)]
      BY <1>12, <2>2
    <3> QED BY <1>1, <2>2, <3>1
  <2> QED BY <2>1, <2>2
<1>14. ASSUME NEW i \in 1..Len(t), NEW j \in 1..Len(t), t[i].kind = "http", t[j].kind = "http",
              t[i].site = t[j].site
       PROVE  i = j
  <2>1. i \in 1..Len(new) /\ t[i].site = new[i]
    BY <1>12, <1>14
  <2>2. j \in 1..Len(new) /\ t[j].site = new[j]
    BY <1>12, <1>14
  <2>3. new[i] = new[j]
    BY <1>14, <2>1, <2>2
  <2> QED BY <1>1, <2>1, <2>2, <2>3
<1>15. ASSUME NEW i \in 1..Len(t), NEW j \in 1..Len(t), t[i].kind = "ssl", t[j].kind = "ssl",
              HostOf[t[i].site] = HostOf[t[j].site]
       PROVE  i = j
  <2>1. i \in Nat /\ i - Len(new) \in 1..Len(sec) /\ t[i].site = sec[i - Len(new)]
    BY <1>12, <1>15
  <2>2. j \in Nat /\ j - Len(new) \in 1..Len(sec) /\ t[j].site = sec[j - Len(new)]
    BY <1>12, <1>15
  <2>3. HostOf[sec[i - Len(new)]] = HostOf[sec[j - Len(new)]]
    BY <1>15, <2>1, <2>2
  <2>4. i - Len(new) = j - Len(new)
    BY <1>1, <2>1, <2>2, <2>3
  <2> QED BY <1>1, <2>1, <2>2, <2>4
<1>16. ASSUME NEW i \in 1..Len(t), NEW k \in 1..Len(list), t[i].kind = "ssl",
              list[k] \notin Bad, watched[list[k]] = 0
       PROVE  \E j \in 1..Len(t) : t[j].kind = "http" /\ t[j].site = list[k]
  <2>1. PICK j \in 1..Len(new) : new[j] = list[k]
    BY <1>16, NewSites DEF new
  <2>2. i > Len(new) /\ i \in Nat
    BY <1>12, <1>16
  <2>3. j \in 1..Len(t)
    BY <1>1, <1>11, <2>2
  <2>4. t[j].kind = "http"
    <3>1. ~(j > Len(new))
      BY <1>1
    <3> QED BY <1>12, <2>3, <3>1
  <2> QED BY <1>12, <2>1, <2>3, <2>4
<1>17. A!Used + Len(t) <= Plan[plan]
  BY <1>2, <1>11 DEF room
<1>18. Fits(t, list)
  BY <1>13, <1>14, <1>15, <1>16, <1>17 DEF Fits
<1> QED BY <1>4, <1>5, <1>10, <1>18

LEMMA BulkInit == A!Init => BulkInv
<1> SUFFICES ASSUME A!Init PROVE BulkInv
  OBVIOUS
<1>1. BulkTypes /\ Planless /\ AllFit
  <2>1. A!Idle \in [pc : {"idle", "planned"}, list : Seq(Site), planned : Seq(Entry)]
    BY DEF A!Idle
  <2>2. 1 \in DOMAIN Plan
    BY BulkConstants
  <2> QED BY <2>1, <2>2 DEF A!Init, A!Idle, BulkTypes, Planless, AllFit
<1>2. A!Used <= Plan[plan]
  <2>1. RowsOnce = {}
    BY DEF A!Init, RowsOnce
  <2>2. A!Used = 0
    BY <1>1, <2>1, UsedOnce, FS_EmptySet DEF BulkTypes, Once
  <2>3. Plan[plan] \in Nat
    BY <1>1, BulkConstants DEF BulkTypes
  <2> QED BY <2>2, <2>3
<1> QED BY <1>1, <1>2 DEF BulkInv

\* Nothing is under way, and some rows may go.
LEMMA RowsGo ==
  ASSUME BulkTypes, A!Used <= Plan[plan], Planless, BulkTypes', plan' = plan, paste' = paste,
         RowsOnce' \subseteq RowsOnce, \A p \in Paste : paste[p].pc # "planned"
  PROVE  BulkInv'
<1>1. A!Used' \in Nat /\ A!Used \in Nat /\ A!Used' <= A!Used
  BY UsedLess DEF BulkTypes, Once
<1>2. Plan[plan] \in Nat
  BY BulkConstants DEF BulkTypes
<1>3. A!Used' <= Plan[plan']
  BY <1>1, <1>2
<1> QED BY <1>3 DEF BulkInv, Planless, AllFit

\* The monitors of one submit are committed, and no other was under way.
LEMMA CommitStep ==
  ASSUME BulkTypes, A!Used <= Plan[plan], Planless, AllFit, NEW p \in Paste, A!Commit(p),
         \A q \in Paste \ {p} : paste[q].pc # "planned"
  PROVE  BulkInv'
<1> DEFINE t == paste[p].planned
           At(kind, sites) == {i \in DOMAIN t : t[i].kind = kind /\ t[i].site \in sites}
           On(h) == {s \in Site : HostOf[s] = h}
<1>1. /\ paste[p].pc = "planned"
      /\ watched' = [s \in Site |-> watched[s] + A!Count(p, "http", {s})]
      /\ certs' = [h \in A!Host |-> certs[h] + A!Count(p, "ssl", {s \in Site : HostOf[s] = h})]
      /\ paste' = [paste EXCEPT ![p] = A!Idle] /\ plan' = plan
  BY DEF A!Commit
<1>2. t \in Seq(Entry) /\ Len(t) \in Nat /\ DOMAIN t = 1..Len(t) /\ \A i \in 1..Len(t) : t[i] \in Entry
  BY DEF BulkTypes
<1>3. Fits(t, paste[p].list)
  BY <1>1 DEF AllFit
<1>4. ASSUME NEW kind, NEW sites PROVE A!Count(p, kind, sites) = A!Cardinality(At(kind, sites))
  BY DEF A!Count
<1> HIDE DEF t
<1>5. ASSUME NEW s \in Site
      PROVE  /\ A!Count(p, "http", {s}) \in {0, 1}
             /\ watched[s] = 1 => A!Count(p, "http", {s}) = 0
             /\ A!Count(p, "http", {s}) = 1 => \E i \in 1..Len(t) : t[i].kind = "http" /\ t[i].site = s
  <2>1. \A i, j \in At("http", {s}) : i = j
    BY <1>2, <1>3 DEF Fits
  <2>2. /\ A!Count(p, "http", {s}) \in {0, 1}
        /\ A!Count(p, "http", {s}) > 0 <=> At("http", {s}) # {}
    <3>1. A!Count(p, "http", {s}) = A!Cardinality(At("http", {s}))
      BY <1>4
    <3> HIDE DEF At
    <3>2. /\ Cardinality(At("http", {s})) \in {0, 1}
          /\ Cardinality(At("http", {s})) > 0 <=> At("http", {s}) # {}
          /\ A!Cardinality(At("http", {s})) = Cardinality(At("http", {s}))
      BY <2>1, AtMostOne
    <3> QED BY <3>1, <3>2
  <2>3. watched[s] = 1 => At("http", {s}) = {}
    BY <1>2, <1>3 DEF Fits
  <2>4. At("http", {s}) # {} => \E i \in 1..Len(t) : t[i].kind = "http" /\ t[i].site = s
    BY <1>2
  <2> DEFINE n == A!Count(p, "http", {s})
             S == At("http", {s})
  <2>5. /\ n \in {0, 1} /\ (n > 0 <=> S # {}) /\ (watched[s] = 1 => S = {})
        /\ S # {} => \E i \in 1..Len(t) : t[i].kind = "http" /\ t[i].site = s
    BY <2>2, <2>3, <2>4
  <2>6. /\ n \in {0, 1} /\ (watched[s] = 1 => n = 0)
        /\ n = 1 => \E i \in 1..Len(t) : t[i].kind = "http" /\ t[i].site = s
    <3> HIDE DEF n, S
    <3> QED BY <2>5
  <2> QED BY <2>6
<1>6. ASSUME NEW h \in A!Host
      PROVE  /\ A!Count(p, "ssl", On(h)) \in {0, 1}
             /\ certs[h] = 1 => A!Count(p, "ssl", On(h)) = 0
             /\ A!Count(p, "ssl", On(h)) = 1 => \E i \in 1..Len(t) : t[i].kind = "ssl" /\ HostOf[t[i].site] = h
  <2>1. \A i, j \in At("ssl", On(h)) : i = j
    BY <1>2, <1>3 DEF Fits
  <2>2. /\ A!Count(p, "ssl", On(h)) \in {0, 1}
        /\ A!Count(p, "ssl", On(h)) > 0 <=> At("ssl", On(h)) # {}
    <3> DEFINE S == At("ssl", On(h))
    <3>1. A!Count(p, "ssl", On(h)) = A!Cardinality(S)
      BY <1>4
    <3>2. \A i, j \in S : i = j
      BY <2>1
    <3> HIDE DEF At, S, On
    <3>3. Cardinality(S) \in {0, 1} /\ (Cardinality(S) > 0 <=> S # {}) /\ A!Cardinality(S) = Cardinality(S)
      BY <3>2, AtMostOne
    <3> QED BY <3>1, <3>3 DEF S
  <2>3. certs[h] = 1 => At("ssl", On(h)) = {}
    BY <1>2, <1>3 DEF Fits
  <2>4. At("ssl", On(h)) # {} => \E i \in 1..Len(t) : t[i].kind = "ssl" /\ HostOf[t[i].site] = h
    BY <1>2
  <2> HIDE DEF At, On
  <2> QED BY <2>2, <2>3, <2>4
<1>7. watched' \in [Site -> {0, 1}]
  <2>1. ASSUME NEW s \in Site PROVE watched[s] + A!Count(p, "http", {s}) \in {0, 1}
    <3>1. watched[s] \in {0, 1}
      BY DEF BulkTypes
    <3> QED BY <1>5, <3>1
  <2> QED BY <1>1, <2>1
<1>8. certs' \in [A!Host -> {0, 1}]
  <2>1. ASSUME NEW h \in A!Host PROVE certs[h] + A!Count(p, "ssl", On(h)) \in {0, 1}
    <3>1. certs[h] \in {0, 1}
      BY DEF BulkTypes
    <3> HIDE DEF On
    <3> QED BY <1>6, <3>1
  <2> QED BY <1>1, <2>1
<1>9. A!Host' = A!Host
  BY DEF A!Host
<1>10. BulkTypes'
  <2>1. A!Idle \in [pc : {"idle", "planned"}, list : Seq(Site), planned : Seq(Entry)]
    BY DEF A!Idle
  <2>2. paste' \in [Paste -> [pc : {"idle", "planned"}, list : Seq(Site), planned : Seq(Entry)]]
    BY <1>1, <2>1 DEF BulkTypes
  <2> QED BY <1>1, <1>7, <1>8, <1>9, <2>2 DEF BulkTypes
<1>11. Planless' /\ AllFit'
  <2>1. \A q \in Paste : paste'[q] = (IF q = p THEN A!Idle ELSE paste[q])
    BY <1>1 DEF BulkTypes
  <2>2. A!Idle.pc = "idle" /\ A!Idle.planned = <<>>
    BY DEF A!Idle
  <2> QED BY <2>1, <2>2 DEF Planless, AllFit
\* A row that is there now was there or is one of those planned.
<1> DEFINE made == [i \in 1..Len(t) |-> IF t[i].kind = "http" THEN <<<<"http", t[i].site>>, 1>>
                                         ELSE <<<<"ssl", HostOf[t[i].site]>>, 1>>]
           Made == {made[i] : i \in 1..Len(t)}
<1>12. RowsOnce' \subseteq RowsOnce \cup Made
  <2>1. ASSUME NEW s \in Site, watched'[s] = 1 PROVE <<<<"http", s>>, 1>> \in RowsOnce \cup Made
    <3>1. CASE watched[s] = 1
      BY <3>1 DEF RowsOnce
    <3>2. CASE watched[s] = 0
      <4>1. A!Count(p, "http", {s}) = 1
        BY <1>1, <1>5, <2>1, <3>2
      <4>2. PICK i \in 1..Len(t) : t[i].kind = "http" /\ t[i].site = s
        BY <1>5, <4>1
      <4>3. made[i] = <<<<"http", s>>, 1>>
        BY <4>2
      <4> HIDE DEF made
      <4> QED BY <4>3
    <3> QED BY <3>1, <3>2 DEF BulkTypes
  <2>2. ASSUME NEW h \in A!Host, certs'[h] = 1 PROVE <<<<"ssl", h>>, 1>> \in RowsOnce \cup Made
    <3>1. CASE certs[h] = 1
      BY <3>1 DEF RowsOnce
    <3>2. CASE certs[h] = 0
      <4>1. A!Count(p, "ssl", On(h)) = 1
        BY <1>1, <1>6, <2>2, <3>2
      <4>2. PICK i \in 1..Len(t) : t[i].kind = "ssl" /\ HostOf[t[i].site] = h
        <5> HIDE DEF On
        <5> QED BY <1>6, <4>1
      <4>3. made[i] = <<<<"ssl", h>>, 1>>
        BY <4>2
      <4> HIDE DEF made
      <4> QED BY <4>3
    <3> QED BY <3>1, <3>2 DEF BulkTypes
  <2>3. RowsOnce' = {<<<<"http", s>>, 1>> : s \in {s \in Site : watched'[s] = 1}}
                    \cup {<<<<"ssl", h>>, 1>> : h \in {h \in A!Host : certs'[h] = 1}}
    BY <1>9 DEF RowsOnce
  <2> HIDE DEF Made
  <2> QED BY <2>1, <2>2, <2>3
<1>13. IsFiniteSet(1..Len(t)) /\ Cardinality(1..Len(t)) = Len(t)
  BY <1>2, CountOfInterval
<1>14. IsFiniteSet(Made) /\ Cardinality(Made) <= Len(t) /\ Cardinality(Made) \in Nat
  <2>1. IsFiniteSet(Made) /\ Cardinality(Made) <= Cardinality(1..Len(t))
    <3> HIDE DEF made
    <3> QED BY <1>13, ImageIsFinite
  <2> QED BY <1>13, <2>1, FS_CardinalityType
<1> HIDE DEF Made
<1>15. A!Used = Cardinality(RowsOnce) /\ IsFiniteSet(RowsOnce) /\ Cardinality(RowsOnce) \in Nat
  BY UsedOnce DEF BulkTypes, Once
<1>16. A!Used' = Cardinality(RowsOnce') /\ Cardinality(RowsOnce') \in Nat
  <2>1. (Once => /\ A!Used = Cardinality(RowsOnce) /\ IsFiniteSet(RowsOnce) /\ Cardinality(RowsOnce) \in Nat)'
    BY UsedOnce, PTL
  <2> QED BY <1>10, <2>1 DEF BulkTypes, Once
<1>17. /\ IsFiniteSet(RowsOnce \cup Made)
       /\ Cardinality(RowsOnce \cup Made) = Cardinality(RowsOnce) + Cardinality(Made) - Cardinality(RowsOnce \cap Made)
  BY <1>14, <1>15, FS_Union
<1>18. Cardinality(RowsOnce \cap Made) \in Nat /\ Cardinality(RowsOnce \cup Made) \in Nat
  BY <1>14, <1>17, FS_Intersection, FS_CardinalityType
<1>19. Cardinality(RowsOnce') <= Cardinality(RowsOnce \cup Made)
  BY <1>12, <1>17, FS_Subset
<1>20. A!Used + Len(t) <= Plan[plan] /\ Plan[plan] \in Nat
  BY <1>3, BulkConstants DEF Fits, BulkTypes
<1>21. A!Used' <= Plan[plan']
  BY <1>1, <1>2, <1>14, <1>15, <1>16, <1>17, <1>18, <1>19, <1>20
<1> QED BY <1>10, <1>11, <1>21 DEF BulkInv

\* An order of a set of sites lists each of them once.
LEMMA PasteIsList ==
  ASSUME NEW sites \in SUBSET Site, NEW list \in A!SetToSeqs(sites)
  PROVE  list \in Seq(Site) /\ \A i, j \in 1..Len(list) : list[i] = list[j] => i = j
<1>1. A!Cardinality(sites) \in Nat
  <2>1. A!Cardinality(sites) = Cardinality(sites)
    BY DEF A!Cardinality, Cardinality
  <2> QED BY <2>1, BulkConstants, FS_Subset, FS_CardinalityType
<1>2. /\ list \in [1..A!Cardinality(sites) -> sites]
      /\ \A i, j \in 1..A!Cardinality(sites) : i # j => list[i] # list[j]
  BY DEF A!SetToSeqs
<1> HIDE DEF A!Cardinality
<1>3. list \in Seq(Site) /\ Len(list) = A!Cardinality(sites)
  BY <1>1, <1>2, SeqDef
<1> QED BY <1>2, <1>3

LEMMA BulkStep == BulkInv /\ [A!Next]_A!vars => BulkInv'
<1> SUFFICES ASSUME BulkInv, [A!Next]_A!vars PROVE BulkInv'
  OBVIOUS
<1>0. ASSUME overlapped' PROVE BulkInv'
  BY <1>0 DEF BulkInv
<1>1. ASSUME overlapped, A!Next PROVE overlapped'
  BY <1>1 DEF A!Next, A!Submit, A!Commit, A!Abort, A!DeleteMonitor, A!DeleteCertificate, A!Upgrade
<1>2. CASE UNCHANGED A!vars
  <2>1. watched' = watched /\ certs' = certs /\ plan' = plan /\ paste' = paste /\ overlapped' = overlapped
    BY <1>2 DEF A!vars
  <2>2. A!Used' = A!Used /\ (BulkTypes => BulkTypes') /\ (Planless => Planless')
    BY <2>1 DEF A!Used, A!Rows, A!Host, BulkTypes, Planless
  <2>3. \A t, list : Fits(t, list)' <=> Fits(t, list)
    BY <2>1, <2>2 DEF Fits
  <2>4. AllFit => AllFit'
    BY <2>1, <2>3 DEF AllFit
  <2> QED BY <2>1, <2>2, <2>4 DEF BulkInv
<1> SUFFICES ASSUME A!Next, ~overlapped, ~overlapped' PROVE BulkInv'
  BY <1>0, <1>1, <1>2
<1>3. BulkTypes /\ A!Used <= Plan[plan] /\ Planless /\ AllFit
  BY DEF BulkInv
<1>a. A!Host' = A!Host
  BY DEF A!Host
\* The rows and the plan stay: so does what fits.
<1>b. ASSUME watched' = watched, certs' = certs, plan' = plan
      PROVE  A!Used' = A!Used /\ \A t, list : Fits(t, list)' <=> Fits(t, list)
  BY <1>b DEF A!Used, A!Rows, A!Host, Fits
<1>c. ASSUME NEW p \in Paste, NEW new \in [pc : {"idle", "planned"}, list : Seq(Site), planned : Seq(Entry)],
             watched' = watched, certs' = certs, plan' = plan, paste' = [paste EXCEPT ![p] = new],
             new.pc = "idle" => new.planned = <<>>, new.pc = "planned" => Fits(new.planned, new.list)
      PROVE  BulkInv'
  <2>1. \A q \in Paste : paste'[q] = (IF q = p THEN new ELSE paste[q])
    BY <1>3, <1>c DEF BulkTypes
  <2>2. BulkTypes'
    BY <1>3, <1>a, <1>c DEF BulkTypes
  <2>3. Planless'
    BY <1>3, <1>c, <2>1 DEF Planless
  <2>4. AllFit'
    BY <1>3, <1>b, <1>c, <2>1 DEF AllFit
  <2> QED BY <1>3, <1>b, <1>c, <2>2, <2>3, <2>4 DEF BulkInv
<1>4. ASSUME NEW p \in Paste, NEW sites \in SUBSET Site, NEW list \in A!SetToSeqs(sites), NEW also_ssl \in BOOLEAN,
             A!Submit(p, list, also_ssl)
      PROVE  BulkInv'
  <2> DEFINE new == [pc |-> "planned", list |-> list, planned |-> A!Planned(list, also_ssl)]
  <2>1. list \in Seq(Site) /\ A!Planned(list, also_ssl) \in Seq(Entry) /\ Fits(A!Planned(list, also_ssl), list)
    BY <1>3, PasteIsList, PlannedFits
  <2>2. /\ new \in [pc : {"idle", "planned"}, list : Seq(Site), planned : Seq(Entry)]
        /\ new.pc = "planned" /\ Fits(new.planned, new.list)
    BY <2>1
  <2>3. /\ watched' = watched /\ certs' = certs /\ plan' = plan
        /\ paste' = [paste EXCEPT ![p] = new]
    BY <1>4 DEF A!Submit
  <2> HIDE DEF new
  <2> QED BY <1>c, <2>2, <2>3
<1>5. ASSUME NEW p \in Paste, A!Commit(p) PROVE BulkInv'
  <2>1. \A q \in Paste \ {p} : paste[q].pc # "planned"
    BY <1>5 DEF A!Commit
  <2> QED BY <1>3, <1>5, <2>1, CommitStep
<1>6. ASSUME NEW p \in Paste, A!Abort(p) PROVE BulkInv'
  <2>1. /\ A!Idle \in [pc : {"idle", "planned"}, list : Seq(Site), planned : Seq(Entry)]
        /\ A!Idle.pc = "idle" /\ A!Idle.planned = <<>>
    BY DEF A!Idle
  <2>2. watched' = watched /\ certs' = certs /\ plan' = plan /\ paste' = [paste EXCEPT ![p] = A!Idle]
    BY <1>6 DEF A!Abort
  <2> QED BY <1>c, <2>1, <2>2
<1>7. ASSUME NEW s \in Site, A!DeleteMonitor(s) PROVE BulkInv'
  <2>1. /\ watched[s] > 0 /\ watched' = [watched EXCEPT ![s] = @ - 1]
        /\ certs' = certs /\ plan' = plan /\ paste' = paste
        /\ \A p \in Paste : paste[p].pc # "planned"
    BY <1>7 DEF A!DeleteMonitor, A!Planning
  <2>2. watched[s] \in {0, 1}
    BY <1>3 DEF BulkTypes
  <2>3. watched[s] = 1 /\ watched' \in [Site -> {0, 1}]
    BY <1>3, <2>1, <2>2 DEF BulkTypes
  <2>4. \A x \in Site : watched'[x] = 1 => watched[x] = 1
    BY <1>3, <2>1, <2>3 DEF BulkTypes
  <2>5. RowsOnce' \subseteq RowsOnce
    BY <1>a, <2>1, <2>4 DEF RowsOnce
  <2>6. BulkTypes'
    BY <1>3, <1>a, <2>1, <2>3 DEF BulkTypes
  <2> QED BY <1>3, <2>1, <2>5, <2>6, RowsGo
<1>8. ASSUME NEW h \in A!Host, A!DeleteCertificate(h) PROVE BulkInv'
  <2>1. /\ certs[h] > 0 /\ certs' = [certs EXCEPT ![h] = @ - 1]
        /\ watched' = watched /\ plan' = plan /\ paste' = paste
        /\ \A p \in Paste : paste[p].pc # "planned"
    BY <1>8 DEF A!DeleteCertificate, A!Planning
  <2>2. certs[h] \in {0, 1}
    BY <1>3 DEF BulkTypes
  <2>3. certs[h] = 1 /\ certs' \in [A!Host -> {0, 1}]
    BY <1>3, <2>1, <2>2 DEF BulkTypes
  <2>4. \A x \in A!Host : certs'[x] = 1 => certs[x] = 1
    BY <1>3, <2>1, <2>3 DEF BulkTypes
  <2>5. RowsOnce' \subseteq RowsOnce
    BY <1>a, <2>1, <2>4 DEF RowsOnce
  <2>6. BulkTypes'
    BY <1>3, <1>a, <2>1, <2>3 DEF BulkTypes
  <2> QED BY <1>3, <2>1, <2>5, <2>6, RowsGo
<1>9. CASE A!Upgrade
  <2>1. /\ plan < Len(Plan) /\ plan' = plan + 1
        /\ watched' = watched /\ certs' = certs /\ paste' = paste
    BY <1>9 DEF A!Upgrade
  <2>2. plan \in DOMAIN Plan /\ plan' \in DOMAIN Plan /\ plan < plan'
    BY <1>3, <2>1, BulkConstants DEF BulkTypes
  <2>3. Plan[plan] <= Plan[plan'] /\ Plan[plan] \in Nat /\ Plan[plan'] \in Nat
    BY <2>2, BulkConstants
  <2>4. A!Used' = A!Used /\ A!Used \in Nat
    BY <1>3, <2>1, UsedNat DEF A!Used, A!Rows, A!Host, BulkTypes, Once
  <2>5. BulkTypes' /\ Planless'
    BY <1>3, <1>a, <2>1, <2>2 DEF BulkTypes, Planless
  <2>6. AllFit'
    <3>1. ASSUME NEW p \in Paste, paste'[p].pc = "planned" PROVE Fits(paste[p].planned, paste[p].list)'
      <4> DEFINE t == paste[p].planned
      <4>1. Fits(t, paste[p].list) /\ Len(t) \in Nat
        BY <1>3, <2>1, <3>1 DEF AllFit, BulkTypes
      <4>2. A!Used + Len(t) <= Plan[plan]
        BY <4>1 DEF Fits
      <4>3. A!Used' + Len(t') <= Plan[plan']
        BY <2>1, <2>3, <2>4, <4>1, <4>2
      <4> QED BY <2>1, <4>1, <4>3 DEF Fits
    <3> QED BY <3>1 DEF AllFit
  <2> QED BY <2>3, <2>4, <2>5, <2>6, <1>3 DEF BulkInv
<1> QED BY <1>4, <1>5, <1>6, <1>7, <1>8, <1>9 DEF A!Next

LEMMA BulkInvariance == A!Spec => []BulkInv
BY BulkInit, BulkStep, PTL DEF A!Spec

LEMMA BulkIsRight == BulkInv => WidestCoverage
<1> SUFFICES ASSUME BulkInv, ~overlapped PROVE WidestCoverage
  BY DEF WidestCoverage, A!WidestCoverage
<1>1. BulkTypes /\ A!Used <= Plan[plan] /\ Planless /\ AllFit
  BY DEF BulkInv
<1>2. ASSUME NEW p \in Paste, A!Count(p, "ssl", Site) > 0, NEW s \in A!ToSet(paste[p].list) \ Bad
      PROVE  watched[s] > 0 \/ A!Count(p, "http", {s}) > 0
  <2> DEFINE t == paste[p].planned
             At(kind, sites) == {i \in DOMAIN t : t[i].kind = kind /\ t[i].site \in sites}
  <2>1. /\ t \in Seq(Entry) /\ DOMAIN t = 1..Len(t) /\ Len(t) \in Nat /\ paste[p].list \in Seq(Site)
        /\ paste[p].pc \in {"idle", "planned"}
    BY <1>1 DEF BulkTypes
  <2>2. ASSUME NEW kind, NEW sites
        PROVE  /\ A!Count(p, kind, sites) = Cardinality(At(kind, sites)) /\ IsFiniteSet(At(kind, sites))
    <3>1. A!Count(p, kind, sites) = A!Cardinality(At(kind, sites))
      BY DEF A!Count
    <3>2. A!Cardinality(At(kind, sites)) = Cardinality(At(kind, sites))
      BY DEF A!Cardinality, Cardinality
    <3>3. IsFiniteSet(1..Len(t)) /\ At(kind, sites) \subseteq 1..Len(t)
      BY <2>1, CountOfInterval
    <3> HIDE DEF At
    <3> QED BY <3>1, <3>2, <3>3, FS_Subset
  <2>3. At("ssl", Site) # {}
    <3> HIDE DEF At
    <3>1. SUFFICES ASSUME At("ssl", Site) = {} PROVE FALSE
      OBVIOUS
    <3>2. A!Count(p, "ssl", Site) = 0
      BY <2>2, <3>1, FS_EmptySet
    <3> QED BY <1>2, <3>2
  <2>4. PICK i \in 1..Len(t) : t[i].kind = "ssl"
    BY <2>1, <2>3
  <2>5. Fits(t, paste[p].list)
    <3>1. t # <<>>
      BY <2>1, <2>4
    <3> QED BY <1>1, <2>1, <3>1 DEF Planless, AllFit
  <2>6. PICK k \in 1..Len(paste[p].list) : s = paste[p].list[k]
    BY <2>1 DEF A!ToSet
  <2>7. s \in Site /\ watched[s] \in {0, 1}
    BY <1>1, <2>1, <2>6 DEF BulkTypes
  <2>8. SUFFICES ASSUME watched[s] = 0 PROVE A!Count(p, "http", {s}) > 0
    BY <2>7
  <2>9. PICK j \in 1..Len(t) : t[j].kind = "http" /\ t[j].site = s
    BY <1>2, <2>4, <2>5, <2>6, <2>8 DEF Fits
  <2>10. At("http", {s}) # {}
    BY <2>1, <2>9
  <2> HIDE DEF At
  <2>11. A!Count(p, "http", {s}) \in Nat /\ A!Count(p, "http", {s}) # 0
    BY <2>2, <2>10, FS_EmptySet, FS_CardinalityType
  <2> QED BY <2>11
<1>3. \A s \in Site : watched[s] <= 1
  <2>1. \A s \in Site : watched[s] \in {0, 1}
    BY <1>1 DEF BulkTypes
  <2> QED BY <2>1
<1>4. \A h \in A!Host : certs[h] <= 1
  <2>1. \A h \in A!Host : certs[h] \in {0, 1}
    BY <1>1 DEF BulkTypes
  <2> QED BY <2>1
<1> QED BY <1>1, <1>2, <1>3, <1>4 DEF WidestCoverage, A!WidestCoverage

-----------------------------------------------------------------------------
(* The parts side by side.                                                 *)

allVars == <<part, fitVars, billingVars, settingsVars, pageVars, checkerVars, bulkVars, importVars>>

\* In a step one part moves by its own rules and the others rest.
LEMMA PartStep ==
  [Next]_allVars => /\ [F!Next]_fitVars /\ [B!Next]_B!vars /\ [M!Next]_M!vars /\ [P!Next]_P!vars
                    /\ [K!Next]_K!vars /\ [A!Next]_A!vars /\ [I!Next]_I!vars
<1> SUFFICES ASSUME [Next]_allVars
             PROVE  /\ [F!Next]_fitVars /\ [B!Next]_B!vars /\ [M!Next]_M!vars /\ [P!Next]_P!vars
                    /\ [K!Next]_K!vars /\ [A!Next]_A!vars /\ [I!Next]_I!vars
  OBVIOUS
<1> USE DEF B!vars, M!vars, P!vars, K!vars, A!vars, I!vars,
            fitVars, billingVars, settingsVars, pageVars, checkerVars, bulkVars, importVars
<1>1. CASE Next
  BY <1>1 DEF Next
<1>2. CASE UNCHANGED allVars
  BY <1>2 DEF allVars
<1> QED BY <1>1, <1>2

\* A behaviour of MCRules is one of Billing, of MonitorSettings, of StatusPage, of
\* Checkers, of BulkAdd and of SiteImport: what is proved of a part holds of the
\* composition.
THEOREM PartsRunAsSpecified ==
  Spec => B!Spec /\ M!Spec /\ P!Spec /\ K!Spec /\ A!Spec /\ I!Spec
<1>1. Init => B!Init /\ M!Init /\ P!Init /\ K!Init /\ A!Init /\ I!Init
  BY DEF Init
<1> QED BY <1>1, PartStep, PTL
        DEF Spec, allVars, B!Spec, M!Spec, P!Spec, K!Spec, A!Spec, I!Spec

\* A list of sites that was added or dismissed is offered again only for the reasons
\* SiteImport names: its link, another browser, a page that sent the cookie before the
\* answer dropped it, a lost answer, or a Redis that did not answer.
THEOREM DismissedStaysAway == Spec => []FinishedIsOver
<1>1. ImportInv => FinishedIsOver
  BY DEF ImportInv, Gone, FinishedIsOver, I!FinishedIsOver
<1> QED BY <1>1, PartsRunAsSpecified, ImportInvariance, PTL

\* A checker calls a monitor down for an error that may pass only after a second
\* attempt, and each attempt asks what the job asked.
THEOREM SecondChance == Spec => []OneFlakeIsForgiven
<1>1. CheckersInv => OneFlakeIsForgiven
  BY DEF CheckersInv, OneFlakeIsForgiven
<1> QED BY <1>1, PartsRunAsSpecified, CheckersInvariance, PTL

\* Whatever the forms, the API and the plan write one after the other, a running monitor
\* is not checked more often than every plan forbids that the account had since
\* fit_to_limits last ran on it, unless a request the limits changed under wrote it; and
\* what the API did not touch keeps to the forms' time-outs.
THEOREM IntervalsAreAllowed == Spec => []SettingsHold
<1>1. SettingsInv => SettingsHold
  BY DEF SettingsInv, SettingsHold
<1> QED BY <1>1, PartsRunAsSpecified, SettingsInvariance, PTL

\* A status page shows fewer failures than there were only if a site answered between its
\* queries, more only if the cleanup ran, and with nothing new it draws the day of every
\* failure it counted amber or red, unless they are rounded away.
THEOREM PageIsRight == Spec => []ShownUptime
<1>1. PageInv => ShownUptime
  BY PageTells DEF ShownUptime
<1> QED BY <1>1, PartsRunAsSpecified, PageInvariance, PTL

\* As long as nobody's changes crossed a paste's: no certificate is planned while a site
\* of the paste is left out, nothing is monitored twice and the plan's limit is kept.
THEOREM CoverageIsWidest == Spec => []WidestCoverage
BY PartsRunAsSpecified, BulkInvariance, BulkIsRight, PTL

LEMMA FitInvariance == Spec => []FitInv
<1>1. FitInv /\ [Next]_allVars => FitInv'
  BY PartStep, FitStep
<1> QED BY <1>1, FitInit, PTL DEF Spec, allVars

\* For every account and all limits the monitors that run are the oldest of the oldest
\* projects, and the plan pauses the other candidates.
THEOREM OldestMonitorsRun == Spec => []OldestWin
BY FitInvariance, FitIsOldest, PTL

\* Applying the decision leaves it as it is, so that the task may meet an account again.
THEOREM DecisionRepeats == Spec => FitIsStable
<1>1. FitInv /\ [Next]_allVars => [F!Fit' = F!Fit]_<<monitors, limits>>
  BY PartStep, FitRepeats
<1> QED BY <1>1, FitInvariance, PTL DEF Spec, allVars, FitIsStable, F!FitIsStable
=============================================================================

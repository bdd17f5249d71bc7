----------------------------- MODULE SiteImport -----------------------------
(***************************************************************************)
(* Carrying the sites of a public check into an account:                   *)
(* app/services/site_import.py and the pages of the dashboard that use it. *)
(* The run's id travels in a cookie of the browser and is bound to the     *)
(* account in Redis; a page asks Redis three times in a row, and its tab   *)
(* may be one of several.                                                  *)
(***************************************************************************)
EXTENDS FiniteSets

CONSTANTS
  Run,        \* finished site checks
  NoRun,
  Tab,        \* pages that may be loading or open at once
  BrowserOf   \* [Tab -> browser]

SiteImportAssumption == NoRun \notin Run

Browser == {BrowserOf[t] : t \in Tab}

VARIABLES
  live,       \* the runs Redis still has
  claim,      \* the run that is bound to the account
  cookie,     \* the run each browser carries
  visit,      \* what each tab does
  finished,   \* history: lists the user added or dismissed, and did not open again
  pardoned    \* history: those of them that something may bring back

vars == <<live, claim, cookie, visit, finished, pardoned>>

Idle == [pc |-> "idle", run |-> NoRun]

\* /dashboard/register?run=...: the link is opened signed in, or not.  A run that
\* expired is neither bound nor carried.
OpenLink(b, r, signedIn) ==
  /\ r \in live
  /\ IF signedIn THEN claim' = r /\ UNCHANGED cookie
                 ELSE cookie' = [cookie EXCEPT ![b] = r] /\ UNCHANGED claim
  /\ finished' = finished \ {r} /\ pardoned' = pardoned \ {r}
  /\ UNCHANGED <<live, visit>>

\* A page of the signed-in user sends the browser's cookie: pending() begins. It may
\* be one that an answer under way is about to drop.
Load(t) ==
  LET r == cookie[BrowserOf[t]]
      late == \E u \in Tab : visit[u] = [pc |-> "answering", run |-> r] /\ BrowserOf[u] = BrowserOf[t]
  IN  /\ visit[t].pc = "idle"
      /\ visit' = [visit EXCEPT ![t] = [pc |-> "bind", run |-> r]]
      /\ pardoned' = IF late THEN pardoned \cup {r} ELSE pardoned
      /\ UNCHANGED <<live, claim, cookie, finished>>

\* The run in the cookie is bound, if it is still there.
bind(t) ==
  /\ visit[t].pc = "bind"
  /\ claim' = IF visit[t].run \in live THEN visit[t].run ELSE claim
  /\ visit' = [visit EXCEPT ![t].pc = "get"]
  /\ UNCHANGED <<live, cookie, finished, pardoned>>

GetClaim(t) ==
  /\ visit[t].pc = "get"
  /\ visit' = [visit EXCEPT ![t] = IF claim = NoRun THEN Idle ELSE [pc |-> "look", run |-> claim]]
  /\ UNCHANGED <<live, claim, cookie, finished, pardoned>>

\* The list is offered; the claim of a run that expired is deleted, whichever it is by now.
run_sites(t) ==
  /\ visit[t].pc = "look"
  /\ IF visit[t].run \in live
     THEN visit' = [visit EXCEPT ![t].pc = "open"] /\ UNCHANGED claim
     ELSE visit' = [visit EXCEPT ![t] = Idle] /\ claim' = NoRun
  /\ UNCHANGED <<live, cookie, finished, pardoned>>

\* The tab is closed; an answer that was under way is lost with it.
Leave(t) ==
  /\ visit[t].pc # "idle"
  /\ visit' = [visit EXCEPT ![t] = Idle]
  /\ pardoned' = IF visit[t].pc = "answering" THEN pardoned \cup {visit[t].run} ELSE pardoned
  /\ UNCHANGED <<live, claim, cookie, finished>>

\* bulk_add_monitors that added something, or dismiss_site_check: clear() deletes the
\* claim, or logs that Redis did not answer. A dismissal whose request carried no
\* cookie has none to drop. (A paste that added nothing leaves the offer as it is.)
Clear(t, cleared, drops) ==
  LET r == visit[t].run
      mayReturn == \/ ~cleared
                   \/ \E b \in Browser \ {BrowserOf[t]} : cookie[b] = r
                   \/ \E u \in Tab \ {t} : visit[u].pc = "bind" /\ visit[u].run = r
  IN  /\ visit[t].pc = "open"
      /\ cookie[BrowserOf[t]] # NoRun => drops
      /\ claim' = IF cleared THEN NoRun ELSE claim
      /\ visit' = [visit EXCEPT ![t] = IF drops THEN [@ EXCEPT !.pc = "answering"] ELSE Idle]
      /\ finished' = finished \cup {r}
      /\ pardoned' = IF mayReturn THEN pardoned \cup {r} ELSE pardoned
      /\ UNCHANGED <<live, cookie>>

\* Bug: the cookie outlives the offer.
Answer_KeepCookie(t) ==
  /\ visit[t].pc = "answering"
  /\ visit' = [visit EXCEPT ![t] = Idle]
  /\ UNCHANGED <<live, claim, cookie, finished, pardoned>>

\* The response reaches the browser, which drops the cookie.
Answer(t) ==
  /\ visit[t].pc = "answering"
  /\ cookie' = [cookie EXCEPT ![BrowserOf[t]] = NoRun]
  /\ visit' = [visit EXCEPT ![t] = Idle]
  /\ UNCHANGED <<live, claim, finished, pardoned>>

\* A day after the run was started; the claim and the cookie were given the time left.
Expire(r) ==
  /\ live' = live \ {r}
  /\ claim' = IF claim = r THEN NoRun ELSE claim
  /\ cookie' = [b \in Browser |-> IF cookie[b] = r THEN NoRun ELSE cookie[b]]
  /\ UNCHANGED <<visit, finished, pardoned>>

Init ==
  /\ live = Run /\ claim = NoRun /\ cookie = [b \in Browser |-> NoRun]
  /\ visit = [t \in Tab |-> Idle] /\ finished = {} /\ pardoned = {}

Next ==
  \/ \E b \in Browser, r \in Run, signedIn \in BOOLEAN : OpenLink(b, r, signedIn)
  \/ \E t \in Tab :
       \/ Load(t) \/ bind(t) \/ GetClaim(t) \/ run_sites(t) \/ Leave(t) \/ Answer(t)
       \/ \E cleared, drops \in BOOLEAN : Clear(t, cleared, drops)
  \/ \E r \in live : Expire(r)

Spec == Init /\ [][Next]_vars

-----------------------------------------------------------------------------

\* A list that was added or dismissed is not offered again, unless its link is opened
\* again, another browser carries it, a page of this one sent the cookie before the
\* answer dropped it, the answer was lost, or Redis did not answer.
FinishedIsOver == claim \in finished => claim \in pardoned
=============================================================================

------------------------------- MODULE Access -------------------------------
(***************************************************************************)
(* How the owner of an e-mail address gets into an account: registering,   *)
(* verifying the address, signing in, asking for new links and resetting a *)
(* forgotten password (app/api/routes/dashboard.py, app/api/routes/auth.py *)
(* and app/services/auth.py, in production).  A request loads the row,     *)
(* commits and then sends its mail; it may die in between, mails get lost  *)
(* and links expire.                                                       *)
(*                                                                         *)
(* A token is random and looked up by equality, so of the links that were  *)
(* mailed only the one its column holds now matters: `mails' keeps that    *)
(* one, and a request whose link was replaced knows that it is not current.*)
(* Not here: API keys, changing a known password, deleting the account     *)
(* (module Billing).                                                       *)
(***************************************************************************)
EXTENDS Naturals

CONSTANTS
  Typed,     \* how an owner may write the address: "lower", "mixed"
  Opener     \* opened links that may be under way at once

AccessAssumption == Typed \subseteq {"lower", "mixed"}

Kind == {"verify", "reset"}

VARIABLES
  address,   \* the address as the owner types it
  account,   \* the users row
  session,   \* the owner's browser is signed in
  mails,     \* the columns whose link is in the owner's mailbox
  form,      \* the form the owner sent and waits for
  opener,    \* each opened link
  used       \* history: the columns whose link has done its work

vars == <<address, account, session, mails, form, opener, used>>

Account == [stored   : {"none"} \cup Typed,     \* email; "none": no row
            verified : BOOLEAN,
            password : {"known", "forgotten"},  \* by the owner
            token    : [Kind -> {"null", "live", "expired"}]]

NoAccount == [stored |-> "none", verified |-> FALSE, password |-> "known",
              token |-> [k \in Kind |-> "null"]]

Registered == account.stored # "none"

IdleForm == [pc |-> "idle", op |-> "none", current |-> FALSE]

IdleOpener == [pc |-> "idle", kind |-> "verify", again |-> FALSE]

KindOf(op) == IF op = "forgot" THEN "reset" ELSE "verify"

-----------------------------------------------------------------------------
(* The forms that send mail.                                               *)

\* A form is answered when the human check passed; an unreachable checker
\* counts as a failure.
verify_turnstile(outcome) == outcome = "passed"

Lower == "lower"

\* The row a form looks for: /forgot-password lower-cases what was typed, the
\* others take it as it comes.
Matches(op) ==
  CASE op = "register" -> ~Registered
    [] op = "resend"   -> account.stored = address /\ ~account.verified
    [] op = "forgot"   -> account.stored = Lower /\ account.verified

Submit(op) ==
  /\ form.pc = "idle"
  /\ \E outcome \in {"passed", "rejected", "unreachable"} : verify_turnstile(outcome)
  /\ Matches(op)
  /\ form' = [IdleForm EXCEPT !.pc = "loaded", !.op = op]
  /\ UNCHANGED <<address, account, session, mails, opener, used>>

\* Bug: resending mails the link the account has, however old it is.
CommitForm_SameLink ==
  /\ form.pc = "loaded"
  /\ LET kind == KindOf(form.op)
     IN  /\ account' = [account EXCEPT
              !.stored = IF form.op = "register" THEN address ELSE @,
              !.token[kind] = IF form.op = "resend" THEN @ ELSE "live"]
         /\ mails' = mails \ {kind} /\ used' = used \ {kind}
  /\ form' = [form EXCEPT !.pc = "mailing", !.current = TRUE]
  /\ UNCHANGED <<address, session, opener>>

\* The row is inserted, or a new token replaces what its column holds by now.
CommitForm ==
  /\ form.pc = "loaded"
  /\ LET kind == KindOf(form.op)
     IN  /\ account' = [account EXCEPT
              !.stored = IF form.op = "register" THEN address ELSE @,
              !.token[kind] = "live"]
         /\ mails' = mails \ {kind} /\ used' = used \ {kind}
  /\ form' = [form EXCEPT !.pc = "mailing", !.current = TRUE]
  /\ UNCHANGED <<address, session, opener>>

SendMail ==
  /\ form.pc = "mailing"
  /\ mails' = IF form.current THEN mails \cup {KindOf(form.op)} ELSE mails
  /\ form' = IdleForm
  /\ UNCHANGED <<address, account, session, opener, used>>

\* An exception, a crash, or a provider that refuses the mail.
AbortForm ==
  /\ form.pc # "idle"
  /\ form' = IdleForm
  /\ UNCHANGED <<address, account, session, mails, opener, used>>

-----------------------------------------------------------------------------
(* Opening a link.                                                         *)

\* GET /verify and POST /reset-password look up the token and its expiry.
Open(o, kind) ==
  /\ opener[o].pc = "idle" /\ kind \in mails
  /\ account.token[kind] = "live"
  /\ opener' = [opener EXCEPT ![o] =
       [pc |-> "loaded", kind |-> kind, again |-> kind \in used]]
  /\ UNCHANGED <<address, account, session, mails, form, used>>

Redeem(kind) ==
  IF kind = "verify" THEN [account EXCEPT !.verified = TRUE]
                     ELSE [account EXCEPT !.password = "known"]

\* Bug: the reset leaves its token in the row.
CommitOpen_KeepToken(o) ==
  /\ opener[o].pc = "loaded"
  /\ LET kind == opener[o].kind
     IN  /\ account' = Redeem(kind)
         /\ session' = (session \/ kind = "verify")
         /\ used' = used \cup {kind}
  /\ opener' = [opener EXCEPT ![o] = IdleOpener]
  /\ UNCHANGED <<address, mails, form>>

\* The token becomes NULL, also when another one has replaced it since:
\* a link that is being mailed may be dead on arrival.  Verifying signs in.
CommitOpen(o) ==
  /\ opener[o].pc = "loaded"
  /\ LET kind == opener[o].kind
     IN  /\ account' = [Redeem(kind) EXCEPT !.token[kind] = "null"]
         /\ session' = (session \/ kind = "verify")
         /\ mails' = mails \ {kind} /\ used' = used \cup {kind}
         /\ form' = [form EXCEPT !.current = @ /\ KindOf(form.op) # kind]
  /\ opener' = [opener EXCEPT ![o] = IdleOpener]
  /\ UNCHANGED address

AbortOpen(o) ==
  /\ opener[o].pc # "idle"
  /\ opener' = [opener EXCEPT ![o] = IdleOpener]
  /\ UNCHANGED <<address, account, session, mails, form, used>>

-----------------------------------------------------------------------------
(* Sessions.                                                               *)

\* The address is compared as it is stored.
Login ==
  /\ account.stored = address /\ account.password = "known"
  /\ account.verified
  /\ session' = TRUE
  /\ UNCHANGED <<address, account, mails, form, opener, used>>

\* The token runs out, or the owner signs out.
SessionEnds ==
  /\ session
  /\ session' = FALSE
  /\ UNCHANGED <<address, account, mails, form, opener, used>>

Forget ==
  /\ account.verified /\ ~session
  /\ account' = [account EXCEPT !.password = "forgotten"]
  /\ UNCHANGED <<address, session, mails, form, opener, used>>

\* A day after it was made for verifying, an hour after for a reset.  Bound: no
\* mail takes as long to arrive.
LinkExpires(kind) ==
  /\ account.token[kind] = "live" /\ form.pc # "mailing"
  /\ account' = [account EXCEPT !.token[kind] = "expired"]
  /\ UNCHANGED <<address, session, mails, form, opener, used>>

-----------------------------------------------------------------------------

Init ==
  /\ address \in Typed
  /\ account = NoAccount
  /\ session = FALSE /\ mails = {} /\ used = {}
  /\ form = IdleForm
  /\ opener = [o \in Opener |-> IdleOpener]

Next ==
  \/ \E op \in {"register", "resend", "forgot"} : Submit(op)
  \/ CommitForm \/ SendMail \/ AbortForm
  \/ \E o \in Opener : (\E kind \in Kind : Open(o, kind)) \/ CommitOpen(o) \/ AbortOpen(o)
  \/ Login \/ SessionEnds \/ Forget
  \/ \E kind \in Kind : LinkExpires(kind)

Spec == Init /\ [][Next]_vars

-----------------------------------------------------------------------------

\* Every variable keeps its type.
TypeOK ==
  /\ address \in Typed /\ account \in Account /\ session \in BOOLEAN
  /\ mails \subseteq Kind /\ used \subseteq Kind
  /\ form \in [pc : {"idle", "loaded", "mailing"}, current : BOOLEAN,
               op : {"none", "register", "resend", "forgot"}]
  /\ opener \in [Opener -> [pc : {"idle", "loaded"}, kind : Kind, again : BOOLEAN]]

\* A link works once: no request that starts after its token was redeemed is
\* accepted, whatever overlaps with the redemption.
UsedLinkIsDead == \A o \in Opener : ~opener[o].again

\* The owner asks again when nothing came, opens the links that come and signs
\* in; not every attempt fails, and not every link has expired by then.
OwnerFairness ==
  /\ SF_vars(Submit("resend")) /\ SF_vars(Submit("forgot"))
  /\ SF_vars(CommitForm) /\ SF_vars(SendMail)
  /\ SF_vars(\E o \in Opener : Open(o, "verify"))
  /\ SF_vars(\E o \in Opener : Open(o, "reset"))
  /\ SF_vars(\E o \in Opener : CommitOpen(o))
  /\ SF_vars(Login)

FairSpec == Spec /\ OwnerFairness

\* An owner who registered signs in, and does so again after forgetting the
\* password, though mails are lost, links expire and requests die.
EveryOwnerGetsIn == []<>(Registered => session)

\* The same for an address that is written in lower case.
OwnerGetsIn == address = Lower => EveryOwnerGetsIn
=============================================================================

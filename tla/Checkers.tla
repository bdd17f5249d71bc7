------------------------------ MODULE Checkers ------------------------------
(***************************************************************************)
(* One check in a region's worker: execute_check of worker/run.py and the  *)
(* checkers of worker/checkers/ for HTTP, certificates and DNS.  A checker *)
(* tries once more after an error that may pass; an HTTP attempt follows   *)
(* redirects one hop at a time.  A thread that overruns the hard time-out  *)
(* goes on with nobody listening.                                          *)
(*                                                                         *)
(* What the network and the site do is a free choice.  A certificate is    *)
(* the days it has left, a DNS answer the share of the expected values in  *)
(* it; addresses, ports and messages are left out.                         *)
(***************************************************************************)
EXTENDS Integers, Sequences

CONSTANTS
  MAX_REDIRECTS,   \* bound: smaller here than the code's 10
  WarnDays         \* warn_days_before_expiry

CheckersAssumption == MAX_REDIRECTS \in Nat /\ WarnDays \in Nat

Type == {"http", "ssl", "dns"}

VARIABLES
  type,      \* of the monitor
  mode,      \* its dns_match_mode
  busy,      \* the checker's thread runs
  asking,    \* the request of this hop: its method and whose credentials it has
  hop,       \* hops of this attempt so far
  answers,   \* how each attempt ended
  verdict    \* what execute_check returns, and why

vars == <<type, mode, busy, asking, hop, answers, verdict>>

NoVerdict == [status |-> "none", why |-> "none"]

\* The job's own request: a POST with credentials tells most.
Asked == [method |-> "POST", credentials |-> TRUE, home |-> TRUE]

\* TRANSIENT_ERRORS of each checker.
TRANSIENT_ERRORS(t) ==
  CASE t = "http" -> {"timeout", "connect", "read", "protocol", "unresolved"}
    [] t = "ssl"  -> {"timeout", "unresolved", "refused"}
    [] t = "dns"  -> {"timeout", "no nameservers"}

\* Errors that end the check at once: an address the guard does not let through, what
\* will not pass, and a host without a route, which only the HTTP checker retries.
OtherError(t) ==
  CASE t = "http" -> {"blocked", "write"}
    [] t = "ssl"  -> {"blocked", "TLS", "no route"}
    [] t = "dns"  -> {"blocked", "NXDOMAIN", "no answer"}

\* What the site says when there is no error: a status, a day, the values found.
Said(t) ==
  CASE t = "http" -> {"expected", "another status"}
    [] t = "ssl"  -> {"past", "today", "warned", "later"}
    [] t = "dns"  -> {"all", "some", "none"}

Answer(t) == [kind : {"error"}, of : TRANSIENT_ERRORS(t) \cup OtherError(t)]
             \cup [kind : {"said"}, of : Said(t)]

Transient(t, answer) == answer.kind = "error" /\ answer.of \in TRANSIENT_ERRORS(t)

\* The days a certificate has left, around both limits.
Days == [past |-> -1, today |-> 0, warned |-> WarnDays, later |-> WarnDays + 1]

\* A certificate is bad from the day it warns on; dns_match_mode is "all" or "any".
Good(t, said, m) ==
  CASE t = "http" -> said = "expected"
    [] t = "ssl"  -> Days[said] >= 0 /\ Days[said] > WarnDays
    [] t = "dns"  -> said = "all" \/ (m = "any" /\ said = "some")

CheckResult(t, answer, m) ==
  IF answer.kind = "said" /\ Good(t, answer.of, m) THEN [status |-> "up", why |-> "none"]
  ELSE [status |-> "down", why |-> IF answer.kind = "error" THEN "error" ELSE "said"]

-----------------------------------------------------------------------------

\* execute_check hands the job to a thread of its own; one that overran is left behind.
Begin(t, m) ==
  /\ ~busy \/ verdict # NoVerdict
  /\ type' = t /\ mode' = m /\ busy' = TRUE
  /\ asking' = Asked /\ hop' = 0 /\ answers' = <<>> /\ verdict' = NoVerdict

\* A redirect that leads home or away, to be asked again or with a GET.
Redirect(away, toGet) ==
  /\ busy /\ type = "http" /\ hop < MAX_REDIRECTS
  /\ hop' = hop + 1
  /\ asking' = [method      |-> IF toGet THEN "GET" ELSE asking.method,
                credentials |-> asking.credentials /\ ~away,
                home        |-> ~away]
  /\ UNCHANGED <<type, mode, busy, answers, verdict>>

\* One redirect more than are followed.
TooManyRedirects == [kind |-> "error", of |-> "redirects"]

\* Bug: the second attempt starts where the redirects had led the first.
Retry_WhereItWas == hop' = 0 /\ UNCHANGED <<type, mode, busy, asking, verdict>>

\* The attempt is made again from the job's request.
Retry == hop' = 0 /\ asking' = Asked /\ UNCHANGED <<type, mode, busy, verdict>>

Return(answer) ==
  /\ verdict' = IF verdict = NoVerdict THEN CheckResult(type, answer, mode) ELSE verdict
  /\ busy' = FALSE
  /\ UNCHANGED <<type, mode, asking, hop>>

\* The attempt ends with an answer.
Attempt(answer) ==
  /\ busy
  /\ answers' = Append(answers, answer)
  /\ IF Transient(type, answer) /\ answers = <<>> THEN Retry ELSE Return(answer)

\* Twice the monitor's time-out and some slack have passed.
HardTimeout ==
  /\ busy /\ verdict = NoVerdict
  /\ verdict' = [status |-> "down", why |-> "overrun"]
  /\ UNCHANGED <<type, mode, busy, asking, hop, answers>>

Init ==
  /\ type = "http" /\ mode = "all" /\ busy = FALSE
  /\ asking = Asked /\ hop = 0 /\ answers = <<>> /\ verdict = NoVerdict

Next ==
  \/ \E t \in Type, m \in {"all", "any"} : Begin(t, m)
  \/ \E away, toGet \in BOOLEAN : Redirect(away, toGet)
  \/ \E answer \in Answer(type) : Attempt(answer)
  \/ hop = MAX_REDIRECTS /\ type = "http" /\ Attempt(TooManyRedirects)
  \/ HardTimeout

Spec == Init /\ [][Next]_vars

-----------------------------------------------------------------------------

\* A check is down for an error that may pass only if it came twice; what the site says
\* is never asked again; and each attempt starts from the job's own request, whose
\* credentials no redirect takes to another host.
OneFlakeIsForgiven ==
  /\ \A i \in DOMAIN answers : i < Len(answers) => Transient(type, answers[i])
  /\ ~busy /\ answers # <<>> /\ Transient(type, answers[Len(answers)]) => Len(answers) = 2
  /\ verdict.status = "up" =>
       answers[Len(answers)].kind = "said" /\ Good(type, answers[Len(answers)].of, mode)
  /\ busy /\ hop = 0 => asking = Asked
  /\ asking.credentials => asking.home
=============================================================================

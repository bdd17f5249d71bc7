------------------------------ MODULE MCRules ------------------------------
(***************************************************************************)
(* Small instances of seven parts of the system that share no state, for   *)
(* one run of TLC: as in MCServices one part runs and the others rest in   *)
(* an initial state.                                                       *)
(***************************************************************************)
EXTENDS Integers, Sequences, TLC

CONSTANTS
  MaxMonitors,                                          \* MCPlanFit
  Sub, Buyer, Handler, NoSub, MaxEvents, Races,         \* Billing
  MinInterval, Interval, Timeout, MaxTimeout, Request,  \* MonitorSettings
  Window, Retention, LastTime, MaxChecks, Tenths, Amber, \* StatusPage
  MAX_REDIRECTS, WarnDays,                              \* Checkers
  Site, Https, HostOf, Bad, Paste, Plan,                \* BulkAdd
  Run, NoRun, Tab, BrowserOf                            \* SiteImport

VARIABLES
  part,
  monitors, limits,                                     \* MCPlanFit
  sub, events, row, buyer, handler, deletion,           \* Billing
  tier, trial, floor, settings, request, straddled, touched, \* MonitorSettings
  now, checks, status, page, stirred,                   \* StatusPage
  type, mode, busy, asking, hop, answers, verdict,      \* Checkers
  watched, certs, plan, paste, overlapped,              \* BulkAdd
  live, claim, cookie, visit, finished, pardoned        \* SiteImport

fitVars      == <<monitors, limits>>
billingVars  == <<sub, events, row, buyer, handler, deletion>>
settingsVars == <<tier, trial, floor, settings, request, straddled, touched>>
pageVars     == <<now, checks, status, page, stirred>>
checkerVars  == <<type, mode, busy, asking, hop, answers, verdict>>
bulkVars     == <<watched, certs, plan, paste, overlapped>>
importVars   == <<live, claim, cookie, visit, finished, pardoned>>

F == INSTANCE MCPlanFit
B == INSTANCE Billing
M == INSTANCE MonitorSettings
P == INSTANCE StatusPage
K == INSTANCE Checkers
A == INSTANCE BulkAdd
I == INSTANCE SiteImport

ASSUME RulesAssumption ==
  /\ F!MaxMonitorsAssumption /\ B!BillingAssumption /\ M!SettingsAssumption
  /\ P!StatusPageAssumption /\ K!CheckersAssumption /\ A!BulkAddAssumption /\ I!SiteImportAssumption

\* A trial has the minimum of the Starter plan, between Free's and Pro's.
MinIntervals == [free |-> 4, trial |-> 3, starter |-> 3, pro |-> 2]

\* Two sites of one host, and one of another.
Hosts == [s \in Site |-> IF s = "z" THEN "h2" ELSE "h1"]

\* A plan without room for all monitors of the sites, and one with it.
Plans == <<2, 5>>

\* Two tabs of one browser, one of another.
Browsers == [t \in Tab |-> IF t = "t3" THEN "b2" ELSE "b1"]

RequestSymmetry == Permutations(Request)

Init ==
  /\ part \in {"plan fit", "billing", "settings", "status page", "checkers",
               "bulk add", "site import"}
  /\ IF part = "plan fit" THEN F!Init ELSE monitors = <<>> /\ limits = [projects |-> 0, monitors |-> 0]
  /\ B!Init /\ M!Init /\ P!Init /\ K!Init /\ A!Init /\ I!Init
  /\ part # "status page" => status = "up"

Next ==
  \/ /\ part = "plan fit" /\ F!Next
     /\ UNCHANGED <<part, billingVars, settingsVars, pageVars,
                     checkerVars, bulkVars, importVars>>
  \/ /\ part = "billing" /\ B!Next
     /\ UNCHANGED <<part, fitVars, settingsVars, pageVars,
                     checkerVars, bulkVars, importVars>>
  \/ /\ part = "settings" /\ M!Next
     /\ UNCHANGED <<part, fitVars, billingVars, pageVars,
                     checkerVars, bulkVars, importVars>>
  \/ /\ part = "status page" /\ P!Next
     /\ UNCHANGED <<part, fitVars, billingVars, settingsVars,
                     checkerVars, bulkVars, importVars>>
  \/ /\ part = "checkers" /\ K!Next
     /\ UNCHANGED <<part, fitVars, billingVars, settingsVars, pageVars,
                     bulkVars, importVars>>
  \/ /\ part = "bulk add" /\ A!Next
     /\ UNCHANGED <<part, fitVars, billingVars, settingsVars, pageVars,
                     checkerVars, importVars>>
  \/ /\ part = "site import" /\ I!Next
     /\ UNCHANGED <<part, fitVars, billingVars, settingsVars, pageVars,
                     checkerVars, bulkVars>>

Spec ==
  Init /\ [][Next]_<<part, fitVars, billingVars, settingsVars, pageVars,
                     checkerVars, bulkVars, importVars>>

-----------------------------------------------------------------------------

\* plan_fit picks the oldest monitors of the oldest projects, up to the limits.
OldestWin == F!OldestWin

\* Applying the plan's decision does not change it.
FitIsStable == F!FitIsStable

\* With Stripe's events answered the account is on the plan it pays for.
InSync == B!InSync

\* Nothing is paid for an account that is gone.
NoPhantom == B!NoPhantom

\* A running monitor keeps to a plan the account had since it was fitted, and to the
\* forms' rules.
SettingsHold == M!SettingsHold

\* The status page shows the failures there were, but for what changed under it and
\* what it rounds away.
ShownUptime == P!ShownUptime

\* A check is down for an error that may pass only if it came twice.
OneFlakeIsForgiven == K!OneFlakeIsForgiven

\* No room goes to a certificate while a pasted site is left unwatched.
WidestCoverage == A!WidestCoverage

\* A list of sites that was added or dismissed is not offered again.
FinishedIsOver == I!FinishedIsOver
=============================================================================

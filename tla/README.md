# Verification of CheckPulse

TLA+ models of the uptime monitor in this repository (FastAPI application,
Celery tasks, regional check workers, PostgreSQL, Redis), the TLC runs that
check them on small instances, and proofs that TLAPS checks for all instances.
Paths below are relative to the repository's root.

    tlc -config MCPendingChecks.cfg MCPendingChecks     # a run
    tlapm PendingChecksProofs.tla                        # a proof module

`PROJECT.json` lists the components, runs, mutants (a plausible bug for every
property, which TLC must find), the source lines of every definition, findings,
hazards and theorems.

## The system

A *monitor* belongs to a project of a user. Celery beat fills a table of pending
checks; workers in several regions lease them over HTTP, run them and post
results; each result triggers a task that recomputes the monitor's status from
the regions' votes, opens or resolves an incident and writes alert deliveries;
another task sends those. Plans and a trial limit what an account may run. A
public page checks a list of sites with the same workers.

| Component | State | Operations | What makes it hard | What must hold |
|---|---|---|---|---|
| verdict rule, `services/regions.py` | none (a 60 s cache of the regions) | `quorum`, `consensus` | votes go stale, voters change | a reversal needs a vote that changed |
| lease queue, `workers/tasks.py`, `api/routes/internal.py`, `worker/run.py` | `pending_checks` (id, lease, attempts, dead), each worker's batch | schedule, reap, clean up, check now, claim, post | leases that expire under a running worker, lost requests and answers, the 422 of a whole batch | one live row per slot, nobody loses a lease he holds, no check without a lease, a dead row stays dead, queued work leaves |
| incidents, `finalize_check_result` | `current_status`, `incidents`, `alert_deliveries` | one task run: lock, read votes one by one, decide, commit, dispatch | concurrent runs, retries, crashes after the commit, deletion in between | one open incident, log and status agree, alerts match |
| alert delivery, `send_alert_delivery` | the row's state and attempts, Celery's retry count | load, count, send, record | crash or database error between sending and recording, repeated messages | counted, true, final, decided in the end |
| trial and limits, `services/trial.py`, `services/plans.py` | `users` row, `monitors.is_active`, `paused_reason` | start, expire, fit, clear; create, pause, resume, delete | check-then-act, a bulk add that checks once for many, row locks given up by a commit, copies written back later | Free limits after the trial, a paid plan resumes what a plan paused |
| billing, `api/routes/billing.py`, account deletion in `dashboard.py` | subscription columns of `users`, Stripe's subscriptions and events | checkout, completed, changed, deleted, payment failed; delete the account | events repeated, overlapping, out of order; Stripe called between load and commit | the plan is the one that is paid; nothing is paid for an account that is gone; a trial does not come back |
| reminders, `services/trial.py` | `trial_reminder_sent_at`, the task's batch and row locks | select, send, mark | a crash between mail and mark, an exception that ends the batch | one reminder, and each account gets it |
| a monitor's settings, forms and API | interval, time-out, `is_active` | create, edit, patch, pause, resume, fit | four levels with their own minimum, changes of plan that fit nothing, requests that overlap them, columns written one by one | no running monitor is faster than a plan allowed since it was fitted |
| public site check, `services/site_check.py` | a record in Redis, throwaway monitors | start, load, sweep | loads of one run overlap | what is shown was reported, monitors go |
| site import, `services/site_import.py` | run id in cookies, claim in Redis | carry, bind, offer, clear, answer | several tabs and browsers, a cookie that outlives the claim | a finished list is not offered again |
| bulk add, `services/bulk_add.py` | the account's monitors | paste, plan, commit | the plan's room is read long before the commit | widest coverage, no duplicates |
| accounts, `services/auth.py` and the dashboard's forms | `users` row, one-time tokens, session | register, verify, sign in, resend, forget, reset | lost mails, expiring and replaced links, overlapping requests | a link works once, the owner gets in |
| rate limits, `tools.py`, `monitors.py` | counters with a time to live in Redis | INCR, EXPIRE, SET NX | two commands, failures between them | windows end |
| checkers, `worker/checkers/` | one check under way | attempt, redirect, retry, hard time-out | the retry after redirects, the time-out racing the answer | one flake is forgiven, the site's word is final |
| alert channels, `services/alerts.py`, forms and API | `alert_channels.config` | create, update, delete, test, deliver | payloads of two families of senders | not modelled, see below |
| status page, `api/routes/status.py` | none | count query by query | checks arrive and are deleted in between | failures shown are those there were |
| pages, API keys, funnel, mail's protocol, guards, probes, health | mostly requests on the same tables | | | see *Not modelled* |

Components talk through rows (PostgreSQL), messages (Celery on Redis) and HTTP.
No component calls another while it holds a lock, except for `finalize`, whose
commit ends its advisory lock before it dispatches.

## Modules

| Module | Models | EXTENDS / uses |
|---|---|---|
| `Consensus` | `quorum`, `consensus` | |
| `PendingChecks` | the lease queue and the worker's loop | |
| `SlotLease` | abstract: what the queue promises one (monitor, region) | refined by `PendingChecks` |
| `Incidents` | finalize, alerts enqueued, channels, deletion | `Consensus` |
| `IncidentLedger` | abstract: what the log promises a reader | refined by `Incidents` |
| `AlertDelivery` | one delivery and its messages | |
| `Lists` | slices and comprehensions of Python's lists | |
| `PlanFit` | `plan_fit` as an operator: the candidates, sorted project by project as the stable sort does, and cut | `Lists` |
| `Trial` | one account against task, webhook and user | `PlanFit` |
| `Reminders` | the reminder task and its batch | |
| `MonitorSettings` | interval, time-out and activity of one monitor | |
| `Billing` | one account, Stripe's subscriptions and events, deletion | |
| `SiteCheck` | one public run and its visitors | |
| `SiteImport` | carrying a run's sites into an account | |
| `BulkAdd` | pastes against the plan's room | `Lists` |
| `Access` | one owner's ways into an account | |
| `Limits` | the counters and semaphores in front of tools and check-now | |
| `Checkers` | one check of a regional worker | |
| `StatusPage` | one load of a status page | |
| `MCServices` | `SiteCheck`, `Access`, `Limits`, `Reminders`, `PendingChecks` side by side | INSTANCE of each |
| `MCRules` | `MCPlanFit`, `Billing`, `MonitorSettings`, `StatusPage`, `Checkers`, `BulkAdd`, `SiteImport` side by side | INSTANCE of each |
| other `MC*` | constants for TLC; `MCPlanFit` also the inputs of `plan_fit` and the rule it is compared with | |
| `*Proofs`, `PendingChecksBounds` | theorems | their component (`ServicesProofs`: `MCServices`; `RulesProofs`: `MCRules`; `PendingChecksBounds`: `MCPendingChecks` too), TLAPS |

**How a model relates to the code.** An action is one transaction, or one step
between two points where another process can come in (a commit, an `await`, a
call of a service). Its guard holds the code's conditions, and what a
transaction read earlier is kept in the record of the run, so that stale reads
happen in the model when they do in the code. There is no clock: each stored
time is replaced by the outcome of its comparison with now (`lease`, `stale`,
`due`, `age`, `ends`), and an action flips it. Any order of timeouts that time
allows is a behaviour, and some that time forbids are as well; a property that
holds for all of them holds for the real ones.

*PendingChecks.* `rows` and `row` are the table; `claimed`, `batch` and
`posting` are the rows of a worker in a `GET /jobs` not yet answered, in its
thread pool and in a `POST /results` not yet handled. `ClaimJobs` is the
`UPDATE … FOR UPDATE SKIP LOCKED`; `AnswerJobs` is the rest of the handler, with
the blocked targets' rows; `SaveResults` handles a post, dropping results of
deleted monitors, refusing the batch for a region that is not scheduled, and
deleting by (id, worker). Requests and answers get lost (`LoseJobs`,
`LoseResults`), and a worker may abandon its batch. Dashboard and API handlers
that do the same are one action. The cached list of regions is the one
`scheduled` a step sees.

*Incidents.* An executor runs finalize: lock, `session.get`, one read per
voting region, then the branch (`NoQuorum`, `Confirm`, `OpenIncident`,
`ResolveIncident`), each with its commit, then one `Dispatch` per delivery. It
may crash, fail and be retried at any point. Ids that nothing mentions are used
again, so that a few ids carry behaviours of any length. The skip of the site
check's system project (`tasks.py:281-287`) is left out: it changes nothing.

*AlertDelivery.* A run of the task is split at its commits and at the send; a
commit may take effect and still raise. Celery's retry puts the message back
with a count; `Duplicate` delivers a copy of it.

*Trial.* `hk` is `expire_due` where it is about this account, `webhook` one
event, `request` a user's request. Each keeps the rows it loaded and writes the
columns that differ (`Written`), as the ORM does. `lock` is the row lock of the
account, which `CommitOther` (the commit for an earlier account of the batch)
gives up. `Check` asks for room for one monitor or for as many as a bulk add finds
room for, and `CreateMonitors` inserts them in one commit, any time later. `late` says of a
request that its answer is older than the plan, the end of the trial or what another
request added; `extra` are the monitors such requests added after the task had counted.

*SiteCheck.* `load()` is split at its awaits: record, checks, storing,
deletion. The queue in between is one action, `PostResult`.

*Billing.* `sub` is what Stripe knows, `events` what it has emitted and got no
answer for, `handler` a delivery between the load of the user and its commit;
`Written` is again the ORM's write of changed columns. `Races` switches on
events out of order, overlapping deliveries, a second checkout and a deletion
in the middle of either.

*MonitorSettings.* A request keeps the plan and the row it read; each path
(form, API, PATCH, resume, fit) checks what it checks in the code, against the
minimum of the level it read: Free, the trial, Starter or Pro. `Shift` is a change of
the level that leaves the monitors as they are (a trial starts or ends, a
subscription is cancelled, or changed while `clear_for_paid_plan` finds no trial and
nothing paused by the plan), `Fit` one that runs `fit_to_limits`. `floor` is the
smallest minimum since the last fit, the most that holds of a running monitor.

*Reminders.* A task selects with SKIP LOCKED, sends, marks, and commits account
by account; `Abort` is the exception outside the `try`.

*Access.* Of the links that were mailed only the one its column holds matters;
a request that loses its token while it waits for the mail knows it (`current`).

*Limits.* INCR and EXPIRE are two actions; a failure between them leaves the
counter in `torn`.

*SiteImport.* Adding or dismissing a list is two steps, as in the code: `Clear` deletes
the claim in Redis, `Answer` is the response that drops the browser's cookie. Pages may
load in between, the tab may be closed, the response lost.

*StatusPage.* Each query is a step: the two of the window, then for each day its total
and, if there is one, what was up. `RoundsTo` is `round(…, 1)`, with `Tenths` for 100 %,
and `Colour` the three colours of a day with a check.

*BulkAdd, Checkers.* A paste, a check: each keeps what it read and uses it later. Data
are what the rules tell apart: a site is a name with a host, an attempt's answer is a
verdict or a kind of error.
What a query counts is the cardinality of the set of rows it selects.

**Parts side by side.** The modules that share no state are checked in two runs.
`MCServices` and `MCRules` instantiate them, and `part` chooses which of them
runs in a behaviour while the others rest in an initial state, so that the
states add up and do not multiply. An invariant of a part is checked as it is
(it holds of the resting ones). A liveness property is stated for the
behaviours of its part under that part's own fairness,
`part = "access" => (A!OwnerFairness => A!OwnerGetsIn)`, so that no part borrows
the fairness of another.

## Runs

| Run | Instance | Distinct states | What it shows |
|---|---|---|---|
| `queue` | 1 slot, 2 workers, 2 row ids, cap 2 | 127,788 (symmetry) | type, one live row per slot, leases pay for checks, holders keep leases, late results spare fresh rows; the slot implements `SlotLease` |
| `queue_dead_region` | 1 slot, 1 worker that may stop | violation | a docstring's claim about dead regions |
| `incidents` | 2 regions, 2 executors, 1 channel, 2 ids, queue of 2 | 378,554 (symmetry) | type, one open incident, alerts match, reversals, `IncidentLedger` |
| `incidents_live` | 2 regions, the second gains and loses its vote, 1 executor, fair | 21,676 | the status converges |
| `alert_lost` | 1 region, 1 channel, fair | violation | a document's claim that no alert is lost |
| `delivery` | 2 messages (one may be a copy), 2 retries, fair | 96,112 | counts, truth, finality, decision |
| `trial` | 2 monitors in 2 projects, 1 request, fair | 578,248 | Free limits afterwards, upgrades resume, every trial is wound up |
| `trial_batch`, `trial_resurrected` | the same, with a third plan | violation | two races, below |
| `services` | 2 cells and 2 visitors; 2 opened links; 2 requests and 5 counters; 3 accounts and 2 tasks; 1 slot and 1 worker; each fair | 130,424 | results were reported and overlapping loads do not undo each other; links work once and owners get in; windows end; reminders are sent, and once; queued work leaves its slot and an active monitor is checked for ever |
| `rules` | 3 monitors in 3 projects; 2 subscriptions, checkouts and deliveries, in order; 2 requests and 4 levels; 3 half days; one check; 3 sites on 2 hosts and 2 pastes; 1 run in 3 tabs of 2 browsers | 403,729 (symmetry) | the oldest monitors win and a second fit changes nothing; the plan is the one that is paid and nothing is paid for nobody, as long as events come in order; settings keep to a plan since the last fit; the page's counts and colours; one flake is forgiven; widest coverage; finished lists are over but for the named ways |
| `owner_locked_out` | an owner who may type a capital letter, fair | violation | a page's promise of a reset link |

**Why the bounds are enough.** The queue's rules are per slot and compare one
worker with "another": two workers make a stale holder and a new one, two row
ids a dead row and the fresh one that replaced it, a cap of 2 a retry and its
exhaustion (the code's 3 adds one more of the same). Two regions make a
majority and its loss, two executors a race for the lock, two incident ids a
resolved incident and an open one. A copy of a message overlaps with one
original. Free's limit in `trial` is 0, so that two monitors exceed it by more
than one, and a bulk add of two crosses the end of the trial. Three monitors in plan fit make a
winner, a loser and one in another project. Two subscriptions make one that
replaces another, two events outstanding one that is overtaken; three accounts a
batch with one before and one after the account in trouble, the third being the
one the provider refuses; two counters in a row a request that passes the first
and fails at the second; two opened links one that overlaps with the redemption
of the other; three tabs two of one browser and one of another; three sites two
that share a certificate and one that does not; three half days a window, the
retention and a bucket whose borders differ; with `Tenths` 1 a day's percentage is
rounded to 0 or 100, so that one failure of two may be drawn green and one of one not;
four levels with three different minima, and intervals at the least and the largest of
them. What the bounds leave out, the
theorems cover where there is one.

**Bounds that are not constants.** One webhook at a time, and none that takes
as long as a whole trial (`TrialEnds`); a monitor id of an account is used once
(`made`). The broker's queue of finalize messages is at most `MaxQueued`.
Stripe changes nothing with more than `MaxEvents` events outstanding; a link
does not expire before its mail is there (`LinkExpires`); a counter beyond its
limit counts no further (`Hit`); reminders fail at most `MaxFaults` times; once
pastes overlapped there are no more of them (`BulkAdd`). `Races` is FALSE in
`rules`, which neither Stripe nor the webhook guarantees: `InSync` and `NoPhantom` are
checked for events that come in order, one at a time, and stop to hold otherwise, see
*Findings*. That is why no theorem is stated of them.

**Fairness.** Celery beat runs its tasks for ever and leases run out
(`BackendFairness`). Workers loop for ever, swallowing every exception, and of
the exchanges they try for ever one comes through: strong fairness on claiming,
answering, submitting and saving. Executors run what is queued and finish
it unless they crash, not every transaction they begin is aborted, caches are
refreshed, and of the posts of a region's workers some reach the broker: each
region is checked again every interval, so a lost message has successors. In `Trial`
the hourly task finds the row unlocked again and again (locks last for one
request), and commits infinitely often if it starts infinitely often. In
`SiteCheck` only the reaper and time are fair: visitors may go away. In `Access`
the owner asks again when nothing came, and not every mail is lost nor every
link too old when it is opened. In `Limits` time passes and no request stays
between two commands (each has a time-out of half a second). In `Reminders` the
task that began ends, and the beat begins another.
`CHECK_DEADLOCK FALSE` is given where the system really stops: a deleted
monitor with no work left, a public run that is over.

## Findings

Runs with `expect: violation`, each with the line it contradicts in
`PROJECT.json`:

1. `queue_dead_region`: a row leased once or twice before its region died is
   neither exhausted nor an orphan, and keeps its slot for ever.
2. `alert_lost`: deliveries are committed before their messages are sent, and
   nothing looks for pending ones.
3. `trial_batch`: `expire_due` commits after each account and so releases the
   locks of its whole batch; an account that upgrades in that moment has its
   monitors paused on a paid plan. `LockedPaidRunsAll` shows that the lock
   suffices as long as it is kept and no resume crosses a pause of the same monitor.
4. `trial_resurrected`: the webhook decides by a user it loaded before a call to
   Stripe; a trial started meanwhile survives the upgrade.
5. `owner_locked_out`: `/forgot-password` lower-cases the address, registering
   stores it as typed: an account with a capital letter gets no link, ever.
   `OwnerGetsIn` shows that the others do.

Seen while modelling, without a run of their own:

- Two overlapping copies of a delivery's message both send, whatever
  `send_alert_delivery`'s docstring says of duplicates. Celery acknowledges
  before it runs, so copies are rare; `SendsCounted` and `TerminalIsFinal` are
  stated up to the first copy, `SentWasAccepted` without that condition.
- Past `WAIT_SECONDS` two loads of a public run may both finish it, and the
  later write can hold fewer answers than the earlier, or none, once the
  monitors are gone. `DoneInTime` shows that this needs the wait to be over.
- A cancelled subscription (`billing.py:273`) lowers the plan and pauses
  nothing, against `plans.py:96`.
- Starter allows 60 seconds and Pro 30 (`plans.py:20-21`). From Pro to Starter, or with a
  cancellation and a new subscription to Starter, `clear_for_paid_plan` finds no trial and
  nothing paused by the plan and returns (`trial.py:197-198`): a monitor that runs every 30
  seconds goes on on the 60-second plan, and so do monitors beyond its number.
  `SettingsHold` says how far it goes: no faster than a plan the account had since the last
  fit.
- A bulk add reads the room once, by the limits of the trial if it still runs
  (`dashboard.py:1491-1495`), validates its sites one by one and commits all of them
  (`1561`). If the trial ends and the hourly task is done in between, the Free account runs
  up to the trial's room of monitors more, and nothing counts them again. `FreeAfterTrial`
  says that nothing but such a request exceeds the limit.
- The list of a public check comes back after it was added or dismissed if a page of the
  same browser loads between the deletion of the claim (`dashboard.py:1572`, `1648`) and
  the response that drops the cookie (`1579`, `1654`): `pending()` binds the run again
  (`site_import.py:103`). So it does if the response is lost.
- The test of a Telegram channel says "Your Telegram notifications are working!"
  (`alerts.py:243`), but an alert carries the monitor's name unescaped in HTML
  (`alerts.py:210-229`), which Telegram may refuse, and is sent to active channels only
  (`91`). It was read, not checked.
- Rows of the queue are ordered by a `scheduled_at` taken before they are inserted
  (`tasks.py:55`, `monitors.py:336`): one that is committed later can get in front of one
  that waits, and a poll passes over rows that another transaction has locked
  (`internal.py:75-77`). Nothing of the order is modelled; a poll leases any rows that it may.
- `StatusConverges` needs one fixed majority. A majority that lasts while its
  members change is not enough: the votes are read one after the other and the
  read may meet each region in its minority moment.
- With two slots competing for one worker a row can be retired before its turn,
  so that "checked for ever" holds for a slot only while the workers keep up.
- `MAX_ATTEMPTS` is written down in two files; the proofs assume one value.
- With `Races = TRUE` in `rules`, `InSync` and `NoPhantom` fail: the webhook
  applies events in the order they come (a late "updated" revives a cancelled
  plan), nobody asks for an existing subscription before a second checkout, and
  a checkout paid while the account is being deleted is billed for nobody.
- A monitor paused with results in flight still opens an incident and alerts:
  finalize does not look at `is_active` (`tasks.py:276`).
- "The only reminder we send" is sent twice after a crash between the mail and
  its mark (`trial.py:277-283`) or when two tasks hold the account on their
  lists; and one account that upgraded meanwhile ends the whole batch
  (`trial.py:219`, outside the `try`), until the next hour.
- A counter whose EXPIRE is lost after its INCR never ends (`tools.py:65-67`):
  its visitor is refused until someone deletes the key.
- More than four check-nows can wait: the semaphore is looked at before the
  limits are asked, and taken after (`monitors.py:28-31`, `321`).
- The API takes a time-out of 0, and a PATCH one above the interval; the form
  does not (`monitors.py:117-118`).
- The status page can say more than 100 % for a load in which a site answered,
  as the total is counted first (`status.py:109-127`); and a day with one failure
  in more than two thousand checks rounds to 100 % and is drawn green
  (`status.py:210`, `255`), which `ShownUptime` excuses and bounds.
- Pasting a list again adds no certificate that an earlier limit left out, since
  only sites whose HTTP monitor is new are looked at; and importing a list that
  is monitored already leaves the offer where it is.
- `pending()` deletes the claim it finds expired, which by then may be a newer
  one (`site_import.py:112`).
- Two requests that overlap an expiry can leave a monitor of a paid plan paused by
  the plan, with every lock kept: a pause that loaded the running monitor and a
  resume that loaded it paused by the user, around the task's fit, each write the
  columns they changed, and what remains is "not active" from one and
  "trial_ended" from the other, after the upgrade has looked. It came up as the step
  the invariant of `UpgradeRunsAll` could not take, and is the only one: the theorem
  assumes that no resume overlaps a pause of the same monitor (`NoCrossing`), and
  nothing else of the requests.
- A chain of slow redirects can take longer than twice the time-out, so that the
  hard time-out answers for a site that would have been up.

## Proofs

All are for every value of the constants under the module's named assumptions,
which TLC evaluates in the runs. They ask for what the code or its configuration
gives: finite sets of workers, requests, subscriptions, checkouts and sites,
positive caps, a "nobody" that is no worker; no project listed twice (they are
rows); a paid plan's least interval no longer than Free's, and plans in the order
of their limits (`services/plans.py`).

One theorem has a hypothesis of its own: `UpgradeRunsAll` assumes `[]NoCrossing`: never does a resume of a
monitor overlap a pause of the same monitor. That is what its counterexample with two
requests needs, and all other requests may overlap in any number; with one request,
as in the run `trial`, none can cross (`OneRequestRunsAll`).

| Module | Theorems | Argument |
|---|---|---|
| `PendingChecksProofs` | `TypeCorrect`, `SlotsExclusive`, `HolderKeepsItsLease`, `LateResultsSpareFreshRows`, `DeadRowsStayDead`, `QueueNeverWedged` | `IndInv`: the types, one live row per slot, and `InHandLeased`: a job that is claimed, executed or posted was leased. Without the last, a post could complete a row nobody leased |
| `PendingChecksBounds` | `LeasesArePaid`, `SlotsImplementLease`, `SlotKeepsLease` | an attempt is paid with a lease and is from then on a copy of the job, which moves from `claimed` to `batch` to `posting` and is lost or saved once; the proof counts the workers that hold a copy. Every step is, for the slot (m, r), a step of `SlotLease` or a stutter; the refinement mapping reads the slot's one live row; `SlotKeepsLease` is this for the slot of `MCPendingChecks`, whose property it states |
| `IncidentsProofs` | `ReversalNeedsAChangedVote`, `VerdictIsStrictMajority`, `WorseVotesNeverHeal`, `TypeCorrect`, `IncidentsExclusive`, `AlertsAgree`, `SilenceReversesNothing`, `FinalizeKeepsLedger` | two strict majorities of a finite set intersect. `IndInv` adds to the properties `Serialized` (only the lock's holder is between its read of the monitor and its commit, so the status it read still holds) and `BasisDecides` (the votes that led to the status still lead to it), with which the consensus theorem gives the reversals |
| `AlertDeliveryProofs` | `SentIsTrue`, `AttemptsCoverSends`, `OutcomeIsFinal`, `PendingIsNeverForgotten`, `RetriesAreFinite` | `SentInv`: who came back from the service was accepted. `CountInv`, up to the first copy: the row's counter is in step with Celery's. The last two are the part of `Settled` that is not scheduling, below |
| `PlanFitProofs` | `PlanFitTakesOldest`, `PlanFitKeepsLimit`, `PlanFitWithRoom`, `PlanFitByRank`, `PlanFitMonotone`, `PlanFitForgets` | what each list holds, as a map from its places to the places it took its elements from (`Chosen`, `Arranged`); the maps come from the recursive functions by counting up, the ranks and the limit from cardinalities of their images. By its rank a monitor's place can be compared between two decisions: larger limits only add admitted monitors behind the ones there (`AheadStaysAhead`) |
| `TrialProofs` | `FreeIsFree`, `UpgradeRunsAll` | see below |
| `ServicesProofs` | `PartsRunAsSpecified`, `TypeCorrect`, `ShownWasReported`, `LoadsDoNotUndo`, `LinksWorkOnce`, `OneReminder`, `WindowsAreGuarded`, `TornNeverEnds` | one invariant a part, below |
| `RulesProofs` | `PartsRunAsSpecified`, `DismissedStaysAway`, `SecondChance`, `IntervalsAreAllowed`, `OldestMonitorsRun`, `DecisionRepeats`, `PageIsRight`, `CoverageIsWidest` | one invariant a part, below |

`PartsRunAsSpecified`: in a step of `MCServices` or `MCRules` one part moves by its
own rules and the others stutter, so a behaviour of the composition is one of each
part. Every other theorem of the two modules is proved of a part alone, by an
invariant that says why the property survives the interleavings:

- *SiteCheck*, `SiteInv`: the table, the record and what every load holds were
  reported, and a finished run was waited for or is complete; then no write within
  the time can take an answer away.
- *Access*, `UsedHasNoToken`: a link that did its work has no token any more,
  however many requests had loaded the row with it.
- *Limits*, `GuardInv`: a counter that is there has a time to live, or one request
  that is about to send its EXPIRE, or has lost it, and only one of the three.
- *Reminders*, `Once`: an account with one mail and no excuse is marked or still in
  the hands of the task that sent it, and a marked one is on nobody's list.
- *SiteImport*, `Gone`: a finished list that is not pardoned is not bound, about to be
  bound by no page, in no other browser's cookie, and in its own browser's only while the
  answer that drops it is under way.
- *Checkers*, `CheckersInv`: while the thread runs there was at most one answer, one
  that may pass, and the request of an attempt follows from its hop.
- *MonitorSettings*, `SettingsInv`: `StillLong` says of a request that is not behind: if
  the interval it read is long enough for the level in force, the row's is so still;
  without it a write of one column next to another's
  breaks the rule.
- *MCPlanFit*, `FitInv`: the account is a list of monitors with their places as ids;
  the rest is `PlanFitByRank`, and that a fit changes no candidate.
- *StatusPage*, `PageInv`: between the queries, more sites up than the total leaves
  room for means that one answered meanwhile, fewer that the cleanup ran
  (`Counting`); with nothing new, no failure is of a later day than the
  page's (`NoneAhead`), and each day that
  was drawn has the colour its counts give it or is rounded up (`Fair`).
- *BulkAdd*, `BulkInv`: unless changes crossed, what each submit planned is new and
  said once, has every site of the paste in it before any certificate, and fits what
  the plan still has room for (`Fits`). A commit adds at most one row for each entry:
  the rows are a set, and their number grows by no more than the list's length.

*What liveness rests on.* Three properties that TLC checks under fairness have a part
that is no matter of scheduling, and that part is proved. For `SlotFreed` it is
that no live row is out of reach of both poll and reaper (`QueueNeverWedged`). For `Settled` it is that a
pending delivery is on its way (`PendingIsNeverForgotten`) and that every step of a
message takes something off a natural number (`RetriesAreFinite`). For
`UntornWindowsEnd` it is `WindowsAreGuarded`; `TornNeverEnds` is the finding about a
lost EXPIRE, for every number of requests.

*Trial.* `FreeInv` keeps, for every request in time, the room its check was told of
(`RoomFor`): whoever adds monitors makes the others late (`Overtaken`), and with no others
the room can only grow. So what runs, `extra` aside, stays within Free's limit
(`CountKept`), and the task's list of what to pause is set aside before its commit
(`ToPause`). That needs `OneTrial` (a trial does not come twice), `StillDue` (what the
task works on was due), `NothingFitted` (before the end of the trial no copy anywhere
carries a plan's pause) and `LimitsKnown` (a request in time looks at the limits as they
are). `PaidInv`, as
long as the locks are kept: task and webhook exclude each other (`LocksExclude`), the
rows the webhook loaded to resume are all there are (`UpgradeSees`), and a pause that
read a running monitor finds no plan's reason on it (`PauseIsWhole`), which among all
requests only a resume of that monitor can break.

Each proof is split by action, one lemma per group of actions; TLC checked the
invariants on small instances before they were proved, those of `Trial` with one
request and, where they hold, with two. What the provers could not reason about was
said anew in the models without changing what it computes, and the runs pass with it:
sorts and comprehensions as recursive functions (`Lists`, `PlanFit`), counts and sums
as sets of rows (`StatusPage`, `BulkAdd`).

**Only model-checked.** Every safety invariant of a run that passes, every action
property and the refinements are proved (`SlotIsLeased` is `SlotsImplementLease` for
the slot its run follows), but for `InSync` and `NoPhantom`, which hold only of events in
order. What remains is liveness: `SlotFreed`, `CheckedForEver`,
`StatusConverges`, `Settled`, `TrialIsWoundUp`, `MonitorsGo`, `OwnerGetsIn`,
`UntornWindowsEnd`, `EachReminded`. They rest on fairness, and so on `ENABLED`, which
is beyond the prover; what is proved towards them is listed under *What liveness rests
on*.

## Not modelled

Alert channels' own forms and senders: a row written in one transaction and a payload
sent in one call; what could be wrong is in the payloads' text. What happens to
deliveries when a channel is switched off or deleted is in `Incidents` and
`AlertDelivery`. Pages that render, and the projects' and API keys' own forms. The target guards
and the SSL probe are address parsing and network I/O, and appear as free choices
(`blocked`, an attempt's answer). Funnel, analytics and health are counters and
log lines nothing else reads. Schemas, migrations, templates and scripts are
declarations. Within the modelled parts: the normalisation of a pasted line
(`BulkAdd`), eligible regions, certificates and wording (`SiteCheck`), the text
of mails, names and targets of monitors
(`MonitorSettings`), incident lists and access to a status page, the change of a
known password, slowapi's limits in the middleware. A module that composes the
queue, the incidents and the delivery was given up: their product exceeds what
can be explored in minutes, and each takes the others' messages as free choices,
in any order and number.

## Plan

| | Module | Status |
|---|---|---|
| 1 | `Consensus`, `PendingChecks`, `SlotLease` | done, proved |
| 2 | `Incidents`, `IncidentLedger` | done, proved |
| 3 | `AlertDelivery` | done, proved |
| 4 | `PlanFit`, `Trial`, `Reminders`, `MonitorSettings` | done, safety proved |
| 5 | `SiteCheck`, `Access`, `Limits` | done, safety proved |
| 6 | `Billing` | done, checked for events in order |
| 7 | `BulkAdd`, `SiteImport`, `Checkers`, `StatusPage` | done, proved |
| 8 | `Billing` with races: what still holds of the plan when events overlap (the row is one that some event told) | open |
| 9 | the safety half of the liveness properties | proved for the queue, the delivery and the limits; open for `Trial`, `Reminders`, `SiteCheck` |
| 10 | API keys, password change, projects | open |

Runs stay few: a module that shares no state with the others is added to
`MCServices` or `MCRules`, at the price of its own states only.

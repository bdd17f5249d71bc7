-------------------------- MODULE MonitorSettings --------------------------
(***************************************************************************)
(* The interval and the time-out of one monitor: written by the dashboard's*)
(* forms (app/api/routes/dashboard.py), the REST API (monitors.py) and the *)
(* plan (fit_to_limits of app/services/trial.py), each by its own rules    *)
(* and, for a request, by the plan it read at its start. The plan and the  *)
(* trial change in order: what the webhook, the trial and expire_due do to *)
(* each other is Trial's.                                                  *)
(*                                                                         *)
(* Names, targets and the other fields are accepted or refused by the same *)
(* validators on every path and are left out; so is which of the account's *)
(* monitors a limit lets run (PlanFit).                                    *)
(***************************************************************************)
EXTENDS Integers

CONSTANTS
  MinInterval,  \* min_interval_seconds of each plan's limits and of the trial's
  Interval,     \* the intervals that are asked for
  Timeout,      \* the time-outs that are asked for, 0 among them
  MaxTimeout,   \* 60 seconds
  Request       \* the user's requests that may be under way at once

Paid == {"starter", "pro"}

SettingsAssumption ==
  /\ MinInterval \in [{"free", "trial"} \cup Paid -> Nat \ {0}]
  /\ Interval \subseteq Nat /\ Timeout \subseteq Int /\ MaxTimeout \in Nat

VARIABLES
  tier,      \* users.plan
  trial,     \* the account's one trial; "cleared" when a paid plan replaced it
  floor,     \* history: the smallest minimum since the plan was last fitted
  settings,  \* the monitors row
  request,   \* each with the limits and the row it read; history: "behind" those in force
  straddled, \* history: a request that was behind wrote the interval, or resumed
  touched    \* history: written through the API

vars == <<tier, trial, floor, settings, request, straddled, touched>>

\* get_limits
Level(t, r) == IF t = "free" /\ r = "runs" THEN "trial" ELSE t

level == Level(tier, trial)

NoRow == [made |-> FALSE, active |-> FALSE, interval |-> 0, timeout |-> 0]

Idle == [pc |-> "idle", level |-> "free", row |-> NoRow, behind |-> FALSE]

Larger(a, b) == IF a > b THEN a ELSE b

Smaller(a, b) == IF a < b THEN a ELSE b

Read(q, what) ==
  /\ request[q].pc = "idle"
  /\ request' = [request EXCEPT ![q] = [pc |-> what, level |-> level, row |-> settings, behind |-> FALSE]]
  /\ UNCHANGED <<tier, trial, floor, settings, straddled, touched>>

Begin(q) == \E what \in {"create", "change"} : (what = "change" <=> settings.made) /\ Read(q, what)

\* The request ends; the ORM writes the columns that differ from what it read.
Write(q, new, api) ==
  LET old == request[q].row
  IN  /\ settings' = [f \in DOMAIN settings |-> IF new[f] # old[f] THEN new[f] ELSE settings[f]]
      /\ request' = [request EXCEPT ![q] = Idle]
      /\ straddled' = \/ straddled
                      \/ request[q].behind /\ (new.interval # old.interval \/ (new.active /\ ~old.active))
      /\ touched' = (touched \/ api)
      /\ UNCHANGED <<tier, trial, floor>>

Refuse(q) ==
  /\ request[q].pc # "idle"
  /\ request' = [request EXCEPT ![q] = Idle]
  /\ UNCHANGED <<tier, trial, floor, settings, straddled, touched>>

\* _validate_monitor_fields, _validate_ssl_fields, _validate_dns_fields.
Validated(i, t) == t < i /\ t <= MaxTimeout

\* check_interval_limit
Allowed(q, i) == i >= MinInterval[request[q].level]

\* Bug: the interval is held against no plan.
Submitted_AnyInterval(q, i, t) == i >= 1 /\ t >= 1 /\ Validated(i, t)

\* The form: _parse_int_field first.
Submitted(q, i, t) == i >= 1 /\ t >= 1 /\ Validated(i, t) /\ Allowed(q, i)

\* Whether the number of monitors allows one more is checked too (Trial).
FormCreate(q, i, t) ==
  /\ request[q].pc = "create" /\ ~settings.made /\ Submitted(q, i, t)
  /\ Write(q, [made |-> TRUE, active |-> TRUE, interval |-> i, timeout |-> t], FALSE)

\* "Same validators as the dashboard form": but for _parse_int_field.
ApiCreate(q, i, t) ==
  /\ request[q].pc = "create" /\ ~settings.made /\ Validated(i, t) /\ Allowed(q, i)
  /\ Write(q, [made |-> TRUE, active |-> TRUE, interval |-> i, timeout |-> t], TRUE)

\* edit_monitor_submit
FormEdit(q, i, t) ==
  /\ request[q].pc = "change" /\ Submitted(q, i, t)
  /\ Write(q, [request[q].row EXCEPT !.interval = i, !.timeout = t], FALSE)

\* PATCH of the fields that are in its body; one that it leaves out keeps the value that
\* was read. An interval it repeats is held against the plan too, and with a new URL the
\* validators run: such a body is refused, or does what it would have done without.
Patch(q, i, t) ==
  LET old == request[q].row
  IN  /\ request[q].pc = "change"
      /\ i # old.interval => Allowed(q, i)
      /\ Write(q, [old EXCEPT !.interval = i, !.timeout = t], TRUE)

Pause(q) ==
  /\ request[q].pc = "change"
  /\ Write(q, [request[q].row EXCEPT !.active = FALSE], FALSE)

\* A paused monitor resumes at the plan's minimum.
Resume(q) ==
  LET old == request[q].row
  IN  /\ request[q].pc = "change"
      /\ Write(q, [old EXCEPT !.active = TRUE,
                     !.interval = IF old.active THEN @ ELSE Larger(@, MinInterval[request[q].level])],
               FALSE)

-----------------------------------------------------------------------------

\* A request under way when the limits change goes on with those it read.
Overtake(t, r) ==
  request' = [q \in Request |->
    [request[q] EXCEPT !.behind = @ \/ (request[q].pc # "idle" /\ Level(t, r) # level)]]

\* The account's plan and trial change, and nothing is done to the monitors.
Shift(t, r) ==
  /\ tier' = t /\ trial' = r
  /\ floor' = Smaller(floor, MinInterval[Level(t, r)])
  /\ Overtake(t, r)
  /\ UNCHANGED <<settings, straddled, touched>>

\* They change, and fit_to_limits pauses the monitor, or lets it run at the new
\* minimum at least; which depends on the others of the account (PlanFit).
Fit(t, r) ==
  /\ tier' = t /\ trial' = r
  /\ floor' = MinInterval[Level(t, r)]
  /\ Overtake(t, r)
  /\ settings' \in IF ~settings.made THEN {settings}
               ELSE {[settings EXCEPT !.active = FALSE],
                     [settings EXCEPT !.active = TRUE, !.interval = Larger(@, floor')]}
  /\ straddled' = (straddled /\ ~settings'.active)
  /\ UNCHANGED touched

StartTrial == tier = "free" /\ trial = "unused" /\ Shift(tier, "runs")

\* trial_ends_at passes: the limits are Free's at once, and the hourly expire_due
\* fits the monitors to them later.
TrialEnds == trial = "runs" /\ Shift(tier, "ended")

Expire == tier = "free" /\ trial = "ended" /\ Fit(tier, "expired")

\* The webhook finds an active subscription to p, the plan the account has or
\* another. clear_for_paid_plan fits the monitors if there was a trial or if the
\* plan paused one of the account's; else it returns None.
Subscribe(p) ==
  IF trial \in {"runs", "ended", "expired"} THEN Fit(p, "cleared")
                                            ELSE Fit(p, trial) \/ Shift(p, trial)

\* A cancellation lowers the plan and fits nothing.
Cancel == tier \in Paid /\ Shift("free", trial)

Init ==
  /\ tier = "free" /\ trial = "unused" /\ floor = MinInterval["free"]
  /\ settings = NoRow
  /\ request = [q \in Request |-> Idle]
  /\ straddled = FALSE /\ touched = FALSE

Next ==
  \/ \E q \in Request :
       \/ Begin(q) \/ Refuse(q) \/ Pause(q) \/ Resume(q)
       \/ \E i \in Interval, t \in Timeout :
            FormCreate(q, i, t) \/ ApiCreate(q, i, t) \/ FormEdit(q, i, t)
       \/ \E i \in Interval \cup {request[q].row.interval}, t \in Timeout \cup {request[q].row.timeout} :
            Patch(q, i, t)
  \/ StartTrial \/ TrialEnds \/ Expire \/ Cancel
  \/ \E p \in Paid : Subscribe(p)

Spec == Init /\ [][Next]_vars

-----------------------------------------------------------------------------

\* Every variable keeps its type.
TypeOK ==
  /\ {level} \cup {request[q].level : q \in Request} \subseteq DOMAIN MinInterval
  /\ trial \in {"unused", "runs", "ended", "expired", "cleared"} /\ floor \in Nat
  /\ settings.made \in BOOLEAN /\ settings.active \in BOOLEAN /\ settings.interval \in Nat /\ settings.timeout \in Int
  /\ {straddled, touched} \cup {request[q].behind : q \in Request} \subseteq BOOLEAN

\* A monitor that runs is not checked more often than some plan of the account
\* allowed since fit_to_limits last ran on it, unless a request the limits changed
\* under wrote it; and what only the forms and the plan wrote keeps to the forms'
\* rules. That it keeps to the plan the account has now is not true: a change to a
\* smaller paid plan, or to Free, fits nothing (Subscribe, Cancel).
SettingsHold ==
  /\ settings.active /\ ~straddled => settings.interval >= floor
  /\ settings.made /\ ~touched => settings.timeout \in 1..MaxTimeout
=============================================================================

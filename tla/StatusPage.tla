----------------------------- MODULE StatusPage -----------------------------
(***************************************************************************)
(* The uptime of one monitor on the public status page: public_status_page *)
(* and _get_daily_uptimes of app/api/routes/status.py.  The page counts    *)
(* with one query after the other, READ COMMITTED, while results arrive    *)
(* and cleanup_old_checks (app/workers/tasks.py) deletes old ones.         *)
(*                                                                         *)
(* Time goes in half days; a bucket of the bar is a day. The percentage of *)
(* the window is kept as the counts it is made of; that of a day is rounded*)
(* as the code rounds it. Incidents, which one query reads, and the layout *)
(* are left out.                                                           *)
(***************************************************************************)
EXTENDS Integers, FiniteSets

CONSTANTS
  Window,     \* 90 days, in half days
  Retention,  \* CHECK_RETENTION_DAYS of the owner's plan, in half days
  LastTime,   \* bound on time
  MaxChecks,  \* bound on checks of one result in one half day
  Tenths,     \* what 100 % is rounded to: 1000, for one decimal
  Amber       \* the least share of it that is amber: 990

StatusPageAssumption == {Window, Retention, LastTime, MaxChecks, Tenths, Amber} \subseteq Nat

VARIABLES
  now,
  checks,  \* how many of each result there are from each half day
  status,  \* current_status of the monitor, or "paused"
  page,    \* what the load has read
  stirred  \* history: what happened to the checks since the load began

vars == <<now, checks, status, page, stirred>>

Time == 0..LastTime

Result == {"up", "down"}

Unread == [pc |-> "idle", at |-> 0, listed |-> FALSE, total |-> 0, up |-> 0, failed |-> 0,
           day |-> 0, dayTotal |-> 0, bar |-> <<>>]

\* The rows of check_results: for each half day and result as many as there are.
Rows(times, results) == {c \in times \X results \X (1..MaxChecks) : c[3] <= checks[c[1]][c[2]]}

Count(times, results) == Cardinality(Rows(times, results))

\* checked_at >= since
Since == {t \in Time : t >= page.at - Window}

-----------------------------------------------------------------------------

\* post_results; the status follows by finalize (Incidents).
Arrive(r) ==
  /\ checks[now][r] < MaxChecks
  /\ checks' = [checks EXCEPT ![now][r] = @ + 1]
  /\ stirred' = IF page.pc = "idle" THEN stirred ELSE stirred \cup {r}
  /\ UNCHANGED <<now, status, page>>

Finalize(s) ==
  /\ status' = s
  /\ UNCHANGED <<now, checks, page, stirred>>

TimePasses ==
  /\ now < LastTime
  /\ now' = now + 1
  /\ UNCHANGED <<checks, status, page, stirred>>

\* cleanup_old_checks, nightly: one DELETE for the owner's plan.
Cleanup ==
  /\ checks' = [t \in Time |-> IF t < now - Retention THEN [r \in Result |-> 0] ELSE checks[t]]
  /\ stirred' = IF page.pc = "idle" THEN stirred ELSE stirred \cup {"cleanup"}
  /\ UNCHANGED <<now, status, page>>

\* The monitors that are active are listed, with the status of that moment.
Open ==
  /\ page.pc = "idle"
  /\ page' = [Unread EXCEPT !.pc = "listed", !.at = now, !.listed = (status # "paused")]
  /\ stirred' = {}
  /\ UNCHANGED <<now, checks, status>>

\* The total; with none the page says 100%.
CountAll ==
  /\ page.pc = "listed" /\ page.listed
  /\ page' = [page EXCEPT !.pc = "total", !.total = Count(Since, Result),
                          !.failed = Count(Since, {"down"})]
  /\ UNCHANGED <<now, checks, status, stirred>>

\* Bug: what was up is counted without the window.
CountUp_AllTime ==
  /\ page.pc = "total"
  /\ page' = [page EXCEPT !.pc = "up",
                          !.up = IF page.total = 0 THEN 0 ELSE Count(Time, {"up"})]
  /\ UNCHANGED <<now, checks, status, stirred>>

CountUp ==
  /\ page.pc = "total"
  /\ page' = [page EXCEPT !.pc = "up",
                          !.up = IF page.total = 0 THEN 0 ELSE Count(Since, {"up"})]
  /\ UNCHANGED <<now, checks, status, stirred>>

\* The days of the bar, from the midnight before the window begins.
Buckets == {t \div 2 : t \in {s \in Time : (page.at - Window) \div 2 <= s \div 2 /\ s <= page.at}}

Day(d) == {t \in Time : t \div 2 = d}

\* d is the next day to draw.
NextDay(d) == d \in Buckets \ DOMAIN page.bar /\ \A e \in Buckets \ DOMAIN page.bar : d <= e

Drawn(d, colour) == [e \in DOMAIN page.bar \cup {d} |-> IF e = d THEN colour ELSE page.bar[e]]

\* round: what is up of the total is nearest to p tenths; half way, a float is on
\* either side.
RoundsTo(p, up, total) == 2 * (p * total - Tenths * up) \in (-total)..total

Colour(p) ==
  IF p = Tenths THEN "green" ELSE IF p >= Amber THEN "amber" ELSE "red"

\* The total of the next day; without a check it is grey.
CountDay(d) ==
  /\ page.pc = "up" /\ NextDay(d)
  /\ \/ /\ Count(Day(d), Result) = 0
        /\ page' = [page EXCEPT !.bar = Drawn(d, "grey")]
     \/ /\ Count(Day(d), Result) > 0
        /\ page' = [page EXCEPT !.pc = "day", !.day = d, !.dayTotal = Count(Day(d), Result)]
  /\ UNCHANGED <<now, checks, status, stirred>>

\* What was up on it gives its colour.
CountDayUp ==
  /\ page.pc = "day"
  /\ LET up == Count(Day(page.day), {"up"})
     IN  \E p \in 0..(Tenths * up) :
           /\ RoundsTo(p, up, page.dayTotal)
           /\ page' = [page EXCEPT !.pc = "up", !.bar = Drawn(page.day, Colour(p))]
  /\ UNCHANGED <<now, checks, status, stirred>>

Shown == page.pc = "up" /\ Buckets \subseteq DOMAIN page.bar

Close ==
  /\ Shown \/ (page.pc = "listed" /\ ~page.listed)
  /\ page' = Unread /\ stirred' = {}
  /\ UNCHANGED <<now, checks, status>>

Init ==
  /\ now = 0
  /\ checks = [t \in Time |-> [r \in Result |-> 0]]
  /\ status \in Result
  /\ page = Unread /\ stirred = {}

Next ==
  \/ \E r \in Result : Arrive(r)
  \/ \E s \in Result \cup {"paused"} : Finalize(s)
  \/ TimePasses \/ Cleanup \/ Open \/ CountAll \/ CountUp
  \/ (\E d \in Buckets : CountDay(d)) \/ CountDayUp \/ Close

Spec == Init /\ [][Next]_vars

-----------------------------------------------------------------------------

\* Every variable keeps its type.
TypeOK ==
  /\ now \in Time /\ status \in Result \cup {"paused"}
  /\ checks \in [Time -> [Result -> 0..MaxChecks]]
  /\ page.pc \in {"idle", "listed", "total", "up", "day"}
  /\ stirred \subseteq Result \cup {"cleanup"}

\* The page shows as many failures as there were when it began to count, unless the
\* checks changed under it: fewer (even more than 100% up) only if a site answered
\* meanwhile, more only if the cleanup ran. And the bar shows each of them, by a day
\* that is not green, unless that day's are so few that they are rounded away.
ShownUptime ==
  Shown =>
    /\ page.total - page.up < page.failed => "up" \in stirred
    /\ page.total - page.up > page.failed => "cleanup" \in stirred
    /\ stirred = {} =>
         \A c \in Rows(Since, {"down"}) :
           LET d == c[1] \div 2
           IN  /\ d \in DOMAIN page.bar
               /\ \/ page.bar[d] \in {"amber", "red"}
                  \/ 2 * Tenths * Count(Day(d), {"down"}) <= Count(Day(d), Result)
=============================================================================

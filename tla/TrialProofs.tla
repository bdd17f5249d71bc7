---------------------------- MODULE TrialProofs ----------------------------
(***************************************************************************)
(* Theorems about Trial.  The first invariant, FreeInv, counts the running *)
(* monitors of a Free account whose trial is over, and keeps the room that *)
(* a request in time was told of; the second, PaidInv, follows what the    *)
(* task, the webhook and a request know of the monitors a plan has paused. *)
(***************************************************************************)
EXTENDS Trial, PlanFitProofs

-----------------------------------------------------------------------------
(* Types.                                                                  *)

LimitsOf == {Limits[p] : p \in DOMAIN Limits}

Rows == [Monitor -> Row]

Asked == [pc : {"idle", "begun", "checked"}, op : {"create", "pause", "resume", "delete"},
          m : Monitor \cup {0}, n : Monitor \cup {0}, row : Row,
          plan : Plan, ends : {"none", "ahead", "past"}, late : BOOLEAN]

Types ==
  /\ user \in User /\ monitors \in Rows /\ made \in 0..Len(Home)
  /\ lock \in {"none", "hk", "webhook"} /\ split \in BOOLEAN /\ extra \subseteq Monitor
  /\ hk \in [pc : {"idle", "selected", "limited", "loaded"}, limits : LimitsOf, rows : Rows]
  /\ webhook \in [pc : {"idle", "received", "flushed", "fitting", "done", "fitted"},
                  event : Plan \cup {"same"}, plan : Plan, ends : {"none", "ahead", "past"}, rows : Rows]
  /\ request \in [Request -> Asked]
  /\ \A r \in Request : request[r].pc # "idle" /\ request[r].op # "create" => request[r].m \in Monitor

-----------------------------------------------------------------------------
(* One trial, and who may end it.                                          *)

\* The trial is used once, and once it is over it stays over: wound up by the task or
\* cleared by an upgrade.
OneTrial ==
  /\ user.ends # "none" \/ user.expired => user.used
  /\ user.ends = "ahead" => ~user.expired
  /\ user.ends = "past" /\ user.expired => user.plan = "FREE"
  /\ webhook.pc # "idle" /\ webhook.ends # "none" => user.used
  /\ webhook.pc # "idle" /\ user.ends = "past" => webhook.ends # "none"

\* What the task works on stays due, or was upgraded away.
StillDue ==
  /\ hk.pc # "idle" =>
       user.used /\ (user.ends = "none" \/ (user.plan = "FREE" /\ user.ends = "past" /\ ~user.expired))
  /\ hk.pc \in {"limited", "loaded"} /\ user.ends = "past" => hk.limits = Limits["FREE"]

\* Before a trial is over no monitor is paused by a plan, on no copy of it.
Unfitted == ~user.used \/ (user.ends # "none" /\ ~user.expired)

ByUser(row) == row.paused_reason \notin PLAN_PAUSE_REASONS

NothingFitted ==
  Unfitted =>
    /\ \A m \in Monitor : ByUser(monitors[m]) /\ ByUser(hk.rows[m])
    /\ \A r \in Request : ByUser(request[r].row)
    /\ webhook.pc \in {"fitting", "fitted"} => webhook.ends # "none"

-----------------------------------------------------------------------------
(* The count.                                                              *)

Existing == {m \in Monitor : monitors[m] # Absent}

\* A request in time looks at the limits of the plan and of the trial as they are.
LimitsKnown ==
  \A r \in Request :
    request[r].pc = "begun" /\ Adds(request[r]) /\ ~request[r].late =>
      /\ request[r].plan = user.plan
      /\ user.ends = "past" => request[r].ends # "ahead"

\* There still is the room a request in time was told of.
RoomFor(r) ==
  request[r].pc = "checked" /\ ~request[r].late =>
    /\ request[r].op = "create" => Cardinality(Existing) + request[r].n <= Limits["FREE"].monitors
    /\ request[r].op = "resume" /\ ~request[r].row.is_active
         => RunningCount(monitors) + 1 <= Limits["FREE"].monitors

\* The monitors the task is about to pause.
ToPause == {m \in Monitor : hk.rows[m].is_active /\ m \notin Fit(hk.rows, hk.limits).run}

\* Those that run, Z and what late requests added set aside.
RunningBut(rows, Z, over) == {m \in Monitor : rows[m].is_active /\ m \notin Z /\ m \notin over}

WithinFree(rows, Z, over) == Cardinality(RunningBut(rows, Z, over)) <= Limits["FREE"].monitors

CountKept ==
  user.plan = "FREE" /\ user.ends = "past" =>
    /\ \A r \in Request : RoomFor(r)
    /\ user.expired => WithinFree(monitors, {}, extra)
    /\ hk.pc = "loaded" => WithinFree(monitors, ToPause, extra)

\* Nobody but the webhook changes the plan, and it fits only for a paid one.
WebhookKnows ==
  /\ webhook.pc # "idle" => webhook.plan = user.plan
  /\ webhook.pc \in {"fitting", "fitted"} => NewPlan # "FREE"

FreeInv == Types /\ WebhookKnows /\ OneTrial /\ StillDue /\ NothingFitted /\ LimitsKnown /\ CountKept

-----------------------------------------------------------------------------
(* The upgrade.                                                            *)

ByPlan(row) == ~row.is_active /\ row.paused_reason \in PLAN_PAUSE_REASONS

\* As long as no lock was given up early the task and the webhook exclude each other
\* where the webhook changes the plan or fits.
LocksExclude ==
  /\ hk.pc # "idle" => lock = "hk" /\ user.plan = "FREE"
  /\ webhook.pc \in {"flushed", "fitting", "done", "fitted"} /\ PlanChanges => lock = "webhook"

UpgradeSees ==
  /\ webhook.pc = "done" /\ NewPlan # "FREE" => PausedByPlan = {}
  /\ webhook.pc = "fitted" => \A m \in Monitor : ByPlan(monitors[m]) => ByPlan(webhook.rows[m])

\* A request that read a running monitor does not find it running with the reason of a
\* pause: only another request could have written that.
PauseIsWhole ==
  \A r \in Request :
    /\ request[r].pc # "idle" /\ request[r].op = "pause"
    /\ request[r].row.is_active /\ ByUser(request[r].row)
    /\ monitors[request[r].m].is_active
    => ByUser(monitors[request[r].m])

NoneLeftPaused == user.plan # "FREE" /\ RoomForAll(user.plan) => PausedByPlan = {}

PaidInv ==
  /\ Types /\ WebhookKnows /\ PauseIsWhole
  /\ split \/ (LocksExclude /\ UpgradeSees /\ NoneLeftPaused)

-----------------------------------------------------------------------------
(* What fit_to_limits does to the rows.                                    *)

\* Whatever a plan allows is a limit plan_fit understands, in each of these readings.
LEMMA LimitsAreLimits ==
  /\ \A l \in LimitsOf : l.projects \in Nat \cup {Unlimited} /\ l.monitors \in Nat
  /\ Limits["FREE"] \in LimitsOf
  /\ \A p \in Plan : Limits[p] \in LimitsOf
  /\ \A u \in User : get_limits(u) \in LimitsOf
<1>1. /\ Limits \in [DOMAIN Limits -> [projects : Nat \cup {Unlimited}, monitors : Nat]]
      /\ "FREE" \in DOMAIN Limits /\ "trial" \in DOMAIN Limits
  BY ConstantsAssumption
<1>2. \A u \in User : (IF trial_active(u) THEN "trial" ELSE u.plan) \in DOMAIN Limits
  BY <1>1 DEF User, Plan
<1>3. \A p \in DOMAIN Limits : Limits[p] \in LimitsOf
  BY DEF LimitsOf
<1>4. \A l \in LimitsOf : l.projects \in Nat \cup {Unlimited} /\ l.monitors \in Nat
  BY <1>1 DEF LimitsOf
<1> QED BY <1>1, <1>2, <1>3, <1>4 DEF Plan, get_limits

LEMMA MonitorsAreFew ==
  /\ Len(Home) \in Nat /\ Monitor = 1..Len(Home)
  /\ IsFiniteSet(Monitor)
  /\ \A S \in SUBSET Monitor : IsFiniteSet(S) /\ Cardinality(S) \in Nat
<1>1. Len(Home) \in Nat /\ Monitor = 1..Len(Home)
  BY ConstantsAssumption DEF Monitor
<1>2. IsFiniteSet(Monitor)
  BY <1>1, CountOfInterval
<1>3. \A S \in SUBSET Monitor : IsFiniteSet(S) /\ Cardinality(S) \in Nat
  BY <1>2, FS_Subset, FS_CardinalityType
<1> QED BY <1>1, <1>2, <1>3

\* The list fit_to_limits hands to plan_fit.
Listing(rows) == [m \in Monitor |-> [id |-> m, project |-> Home[m],
                                     is_active |-> rows[m].is_active,
                                     paused_reason |-> rows[m].paused_reason]]

Entry == [id : Monitor, project : ToSet(Projects), is_active : BOOLEAN,
            paused_reason : {"none", "gone"} \cup PLAN_PAUSE_REASONS]

LEMMA ListingIsList ==
  ASSUME NEW rows \in Rows
  PROVE  /\ Listing(rows) \in Seq(Entry) /\ Len(Listing(rows)) = Len(Home)
         /\ \A i \in 1..Len(Home) : /\ Listing(rows)[i].id = i
                                    /\ \E p \in 1..Len(Projects) : Listing(rows)[i].project = Projects[p]
                                    /\ Candidate(Listing(rows)[i]) <=> Candidate(rows[i])
         /\ \A limits : Fit(rows, limits) = plan_fit(Projects, Listing(rows), limits)
         /\ Projects \in Seq(STRING) /\ Distinct(Projects)
<1>1. /\ Len(Home) \in Nat /\ Monitor = 1..Len(Home) /\ Projects \in Seq(STRING)
      /\ \A m \in Monitor : Home[m] \in ToSet(Projects)
  BY ConstantsAssumption, MonitorsAreFew
<1>2. DOMAIN Projects = 1..Len(Projects) /\ ToSet(Projects) = {Projects[p] : p \in 1..Len(Projects)}
  BY <1>1 DEF ToSet
<1>3. \A m \in Monitor : [id |-> m, project |-> Home[m], is_active |-> rows[m].is_active,
                          paused_reason |-> rows[m].paused_reason] \in Entry
  BY <1>1 DEF Rows, Row, Entry
<1>4. Listing(rows) \in [1..Len(Home) -> Entry]
  BY <1>1, <1>3 DEF Listing
<1>5. Listing(rows) \in Seq(Entry) /\ Len(Listing(rows)) = Len(Home)
  BY <1>1, <1>4
<1>6. ASSUME NEW i \in 1..Len(Home)
      PROVE  /\ Listing(rows)[i].id = i
             /\ \E p \in 1..Len(Projects) : Listing(rows)[i].project = Projects[p]
             /\ Candidate(Listing(rows)[i]) <=> Candidate(rows[i])
  <2>1. Listing(rows)[i] = [id |-> i, project |-> Home[i], is_active |-> rows[i].is_active,
                            paused_reason |-> rows[i].paused_reason]
    BY <1>1 DEF Listing
  <2> QED BY <1>1, <1>2, <2>1 DEF Candidate
<1>7. Distinct(Projects)
  BY <1>2, ConstantsAssumption DEF Distinct, IsInjective
<1> QED BY <1>1, <1>5, <1>6, <1>7 DEF Fit, Listing

\* The monitors that run were candidates and are no more than the plan allows, and the
\* other candidates are paused.
LEMMA FitKeepsLimit ==
  ASSUME NEW rows \in Rows, NEW limits \in LimitsOf
  PROVE  /\ Fit(rows, limits).run \subseteq {m \in Monitor : Candidate(rows[m])}
         /\ Cardinality(Fit(rows, limits).run) <= limits.monitors
         /\ Fit(rows, limits).pause = {m \in Monitor : Candidate(rows[m])} \ Fit(rows, limits).run
<1> DEFINE list == Listing(rows)
<1>1. /\ list \in Seq(Entry) /\ Len(list) = Len(Home) /\ Projects \in Seq(STRING) /\ Distinct(Projects)
      /\ \A i \in 1..Len(list) : list[i].id = i /\ (Candidate(list[i]) <=> Candidate(rows[i]))
      /\ Fit(rows, limits) = plan_fit(Projects, list, limits)
      /\ Monitor = 1..Len(list)
  BY ListingIsList, MonitorsAreFew
<1>2. limits.projects \in Nat \cup {Unlimited} /\ limits.monitors \in Nat
  BY LimitsAreLimits
<1> HIDE DEF list
<1>3. LET fit == plan_fit(Projects, list, limits)
      IN  /\ fit.run \subseteq {i \in 1..Len(list) : Candidate(list[i])}
          /\ IsFiniteSet(fit.run) /\ Cardinality(fit.run) <= limits.monitors
          /\ fit.pause = {i \in 1..Len(list) : Candidate(list[i])} \ fit.run
  BY <1>1, <1>2, PlanFitKeepsLimit
<1>4. {i \in 1..Len(list) : Candidate(list[i])} = {m \in Monitor : Candidate(rows[m])}
  BY <1>1
<1> QED BY <1>1, <1>3, <1>4

\* Where there is room for all of them, all candidates run.
LEMMA FitWithRoom ==
  ASSUME NEW rows \in Rows, NEW plan \in Plan, RoomForAll(plan)
  PROVE  /\ Fit(rows, Limits[plan]).run = {m \in Monitor : Candidate(rows[m])}
         /\ Fit(rows, Limits[plan]).pause = {}
<1> DEFINE list == Listing(rows)
           limits == Limits[plan]
<1>1. /\ list \in Seq(Entry) /\ Len(list) = Len(Home) /\ Projects \in Seq(STRING) /\ Distinct(Projects)
      /\ \A i \in 1..Len(list) : /\ list[i].id = i /\ (Candidate(list[i]) <=> Candidate(rows[i]))
                                 /\ \E p \in 1..Len(Projects) : list[i].project = Projects[p]
      /\ Fit(rows, limits) = plan_fit(Projects, list, limits)
      /\ Monitor = 1..Len(list) /\ Len(list) \in Nat /\ Len(Projects) \in Nat
  BY ListingIsList, MonitorsAreFew
<1>2. limits.projects \in Nat \cup {Unlimited} /\ limits.monitors \in Nat
  BY LimitsAreLimits
<1>3. limits.projects = Unlimited \/ Len(Projects) <= limits.projects
  BY <1>1, <1>2 DEF RoomForAll, Unlimited
<1>4. Len(list) <= limits.monitors
  BY <1>1, <1>2 DEF RoomForAll
<1> HIDE DEF list, limits
<1>5. LET fit == plan_fit(Projects, list, limits)
      IN  /\ fit.run = {i \in 1..Len(list) : Candidate(list[i])}
          /\ fit.pause = {}
  BY <1>1, <1>2, <1>3, <1>4, PlanFitWithRoom
<1>6. {i \in 1..Len(list) : Candidate(list[i])} = {m \in Monitor : Candidate(rows[m])}
  BY <1>1
<1> QED BY <1>1, <1>5, <1>6 DEF limits

\* The task's fit before the trial is over: nothing is resumed, and what does not run
\* is paused.
LEMMA FitOnlyPauses ==
  ASSUME NEW rows \in Rows, NEW limits \in LimitsOf, NEW reason, NEW m \in Monitor, ByUser(rows[m])
  PROVE  Fitted(rows, limits, reason)[m]
           = IF rows[m].is_active /\ m \notin Fit(rows, limits).run
             THEN [is_active |-> FALSE, paused_reason |-> reason] ELSE rows[m]
<1>1. m \in Fit(rows, limits).run => rows[m].is_active
  BY FitKeepsLimit DEF Candidate, ByUser
<1>2. m \in Fit(rows, limits).pause <=> Candidate(rows[m]) /\ m \notin Fit(rows, limits).run
  BY FitKeepsLimit
<1>3. Fitted(rows, limits, reason)[m]
        = IF m \in Fit(rows, limits).run /\ ~rows[m].is_active THEN Running
          ELSE IF m \in Fit(rows, limits).pause /\ rows[m].is_active
          THEN [is_active |-> FALSE, paused_reason |-> reason]
          ELSE rows[m]
  BY DEF Fitted
<1> QED BY <1>1, <1>2, <1>3 DEF Candidate

\* The fit of a plan with room resumes what a plan has paused and leaves the rest.
LEMMA FitOnlyResumes ==
  ASSUME NEW rows \in Rows, NEW plan \in Plan, RoomForAll(plan), NEW reason, NEW m \in Monitor
  PROVE  Fitted(rows, Limits[plan], reason)[m] = IF ByPlan(rows[m]) THEN Running ELSE rows[m]
<1>1. m \in Fit(rows, Limits[plan]).run <=> Candidate(rows[m])
  BY FitWithRoom
<1>2. m \notin Fit(rows, Limits[plan]).pause
  BY FitWithRoom
<1>3. Fitted(rows, Limits[plan], reason)[m]
        = IF m \in Fit(rows, Limits[plan]).run /\ ~rows[m].is_active THEN Running
          ELSE IF m \in Fit(rows, Limits[plan]).pause /\ rows[m].is_active
          THEN [is_active |-> FALSE, paused_reason |-> reason]
          ELSE rows[m]
  BY DEF Fitted
<1> QED BY <1>1, <1>2, <1>3 DEF Candidate, ByPlan

\* A fit leaves a row, resumes one that a plan has paused, or pauses a running one.
LEMMA FitChanges ==
  ASSUME NEW rows \in Rows, NEW limits \in LimitsOf, NEW reason, NEW m \in Monitor
  PROVE  \/ Fitted(rows, limits, reason)[m] = rows[m]
         \/ ByPlan(rows[m]) /\ Fitted(rows, limits, reason)[m] = Running
         \/ rows[m].is_active /\ Fitted(rows, limits, reason)[m] = [is_active |-> FALSE, paused_reason |-> reason]
<1>1. m \in Fit(rows, limits).run => Candidate(rows[m])
  BY FitKeepsLimit
<1>2. Fitted(rows, limits, reason)[m]
        = IF m \in Fit(rows, limits).run /\ ~rows[m].is_active THEN Running
          ELSE IF m \in Fit(rows, limits).pause /\ rows[m].is_active
          THEN [is_active |-> FALSE, paused_reason |-> reason]
          ELSE rows[m]
  BY DEF Fitted
<1> QED BY <1>1, <1>2 DEF Candidate, ByPlan

LEMMA RowsAreRows ==
  /\ Running \in Row /\ UserPaused \in Row /\ Absent \in Row /\ NoRows \in Rows
  /\ \A row, loaded, new \in Row : Written(row, loaded, new) \in Row
  /\ \A rows \in Rows, limits \in LimitsOf, reason \in PLAN_PAUSE_REASONS :
       Fitted(rows, limits, reason) \in Rows
<1>1. Running \in Row /\ UserPaused \in Row /\ Absent \in Row
  BY DEF Running, UserPaused, Absent, Row
<1>2. \A row, loaded, new \in Row : Written(row, loaded, new) \in Row
  BY DEF Written, Row
<1>3. ASSUME NEW rows \in Rows, NEW limits \in LimitsOf, NEW reason \in PLAN_PAUSE_REASONS
      PROVE  Fitted(rows, limits, reason) \in Rows
  <2>1. [is_active |-> FALSE, paused_reason |-> reason] \in Row
    BY DEF Row
  <2>2. \A m \in Monitor : rows[m] \in Row
    BY DEF Rows
  <2> DEFINE fit == Fit(rows, limits)
  <2>3. Fitted(rows, limits, reason)
         = [m \in Monitor |->
             IF m \in fit.run /\ ~rows[m].is_active THEN Running
             ELSE IF m \in fit.pause /\ rows[m].is_active
             THEN [is_active |-> FALSE, paused_reason |-> reason] ELSE rows[m]]
    BY DEF Fitted
  <2> HIDE DEF fit
  <2>4. Fitted(rows, limits, reason) \in [Monitor -> Row]
    BY <1>1, <2>1, <2>2, <2>3
  <2> QED BY <2>4 DEF Rows
<1>4. NoRows \in Rows
  BY <1>1 DEF NoRows, Rows
<1> QED BY <1>1, <1>2, <1>3, <1>4

\* Saving keeps rows of rows.
LEMMA SavedRows ==
  ASSUME monitors \in Rows, NEW loaded \in Rows, NEW new \in Rows, Save(loaded, new)
  PROVE  monitors' \in Rows /\ \A m \in Monitor : monitors'[m] = Written(monitors[m], loaded[m], new[m])
<1>1. monitors' = [m \in Monitor |-> Written(monitors[m], loaded[m], new[m])]
  BY DEF Save
<1>2. \A m \in Monitor : Written(monitors[m], loaded[m], new[m]) \in Row
  BY RowsAreRows DEF Rows
<1> QED BY <1>1, <1>2 DEF Rows

-----------------------------------------------------------------------------
(* Every step keeps the types.                                             *)

LEMMA TypesInit == Init => Types
<1>1. Limits["FREE"] \in LimitsOf /\ "FREE" \in Plan /\ NoRows \in Rows /\ Absent \in Row /\ Len(Home) \in Nat
  BY LimitsAreLimits, RowsAreRows, MonitorsAreFew, ConstantsAssumption DEF Plan
<1> SUFFICES ASSUME Init PROVE Types
  OBVIOUS
<1>2. monitors \in Rows /\ made \in 0..Len(Home)
  BY <1>1 DEF Init
<1>9. lock \in {"none", "hk", "webhook"} /\ split \in BOOLEAN /\ extra \subseteq Monitor
  BY DEF Init
<1>8. user \in User
  BY <1>1 DEF Init, User
<1>3. hk \in [pc : {"idle", "selected", "limited", "loaded"}, limits : LimitsOf, rows : Rows]
  BY <1>1 DEF Init, NoTask
<1>4. webhook \in [pc : {"idle", "received", "flushed", "fitting", "done", "fitted"},
                  event : Plan \cup {"same"}, plan : Plan, ends : {"none", "ahead", "past"}, rows : Rows]
  BY <1>1 DEF Init, NoEvent
<1>5. NoRequest \in Asked
  BY <1>1 DEF NoRequest, Asked
<1>6. \A r \in Request : request[r] = NoRequest /\ request[r].pc = "idle"
  BY DEF Init, NoRequest
<1>7. request \in [Request -> Asked]
  BY <1>5 DEF Init
<1> QED BY <1>2, <1>3, <1>4, <1>6, <1>7, <1>8, <1>9 DEF Types

LEMMA NoRequestAsks == NoRequest \in Asked /\ NoRequest.pc = "idle"
<1>1. "FREE" \in Plan
  BY ConstantsAssumption DEF Plan
<1> QED BY <1>1, RowsAreRows DEF NoRequest, Asked

\* A request that gets late or outlives the trial is otherwise what it was.
LEMMA RequestsAge ==
  ASSUME Types, TrialEnds \/ CommitEvent
  PROVE  /\ request' \in [Request -> Asked]
         /\ \A s \in Request :
              /\ request'[s].pc = request[s].pc /\ request'[s].op = request[s].op
              /\ request'[s].m = request[s].m /\ request'[s].n = request[s].n
              /\ request'[s].row = request[s].row /\ request'[s].plan = request[s].plan
              /\ request[s].late => request'[s].late
         /\ \A s \in Request : request'[s].pc # "idle" /\ request'[s].op # "create" => request'[s].m \in Monitor
<1>1. request \in [Request -> Asked]
  BY DEF Types
<1>2. ASSUME NEW s \in Request
      PROVE  /\ request'[s] \in Asked
             /\ request'[s].pc = request[s].pc /\ request'[s].op = request[s].op
             /\ request'[s].m = request[s].m /\ request'[s].n = request[s].n
             /\ request'[s].row = request[s].row /\ request'[s].plan = request[s].plan
             /\ request[s].late => request'[s].late
  <2>1. request[s] \in Asked
    BY <1>1
  <2>2. CASE TrialEnds
    <3>1. request'[s] = [request[s] EXCEPT !.ends = IF @ = "ahead" THEN "past" ELSE @,
                                           !.late = @ \/ (request[s].pc = "checked" /\ Adds(request[s]))]
      BY <2>2 DEF TrialEnds, Outlived
    <3> QED BY <2>1, <3>1 DEF Asked
  <2>3. CASE CommitEvent
    <3>1. request'[s] = [request[s] EXCEPT !.late = @ \/ (PlanChanges /\ Adds(request[s]))]
      BY <2>3 DEF CommitEvent
    <3> QED BY <2>1, <3>1 DEF Asked
  <2> QED BY <2>2, <2>3
<1>3. request' = [s \in Request |-> request'[s]]
  BY DEF TrialEnds, CommitEvent
<1>4. request' \in [Request -> Asked]
  BY <1>2, <1>3
<1> QED BY <1>2, <1>4 DEF Types

\* The requests' types, for one request that changes.
LEMMA RequestStep ==
  ASSUME Types, NEW r \in Request, NEW q \in Asked, q.pc # "idle" /\ q.op # "create" => q.m \in Monitor,
         request' = [request EXCEPT ![r] = q]
  PROVE  /\ request' \in [Request -> Asked]
         /\ \A s \in Request : request'[s].pc # "idle" /\ request'[s].op # "create" => request'[s].m \in Monitor
         /\ request'[r] = q /\ \A s \in Request \ {r} : request'[s] = request[s]
<1>1. request \in [Request -> Asked]
  BY DEF Types
<1>2. \A s \in Request : request[s].pc # "idle" /\ request[s].op # "create" => request[s].m \in Monitor
  BY DEF Types
<1>3. \A s \in Request : request'[s] = IF s = r THEN q ELSE request[s]
  BY <1>1
<1> QED BY <1>1, <1>2, <1>3

HkTask == [pc : {"idle", "selected", "limited", "loaded"}, limits : LimitsOf, rows : Rows]

Delivery == [pc : {"idle", "received", "flushed", "fitting", "done", "fitted"},
             event : Plan \cup {"same"}, plan : Plan, ends : {"none", "ahead", "past"}, rows : Rows]

\* The types of what the housekeeping task and the webhook start from.
LEMMA NothingStarted ==
  NoTask \in HkTask /\ NoEvent \in Delivery /\ "FREE" \in Plan
<1>1. Limits["FREE"] \in LimitsOf /\ "FREE" \in Plan /\ NoRows \in Rows
  BY LimitsAreLimits, RowsAreRows, ConstantsAssumption DEF Plan
<1>2. NoTask \in HkTask
  BY <1>1 DEF NoTask, HkTask
<1>3. NoEvent \in Delivery
  BY <1>1 DEF NoEvent, Delivery
<1> QED BY <1>1, <1>2, <1>3

LEMMA TypesOf ==
  Types <=> /\ user \in User /\ monitors \in Rows /\ made \in 0..Len(Home)
            /\ lock \in {"none", "hk", "webhook"} /\ split \in BOOLEAN /\ extra \subseteq Monitor
            /\ hk \in HkTask /\ webhook \in Delivery /\ request \in [Request -> Asked]
            /\ \A r \in Request : request[r].pc # "idle" /\ request[r].op # "create" => request[r].m \in Monitor
BY DEF Types, HkTask, Delivery

\* What a request that commits makes of each row.
LEMMA CommitRows ==
  ASSUME Types, NEW r \in Request, CommitRequest(r), NEW m \in Monitor
  PROVE  \/ monitors'[m] = monitors[m]
         \/ /\ request[r].op = "create" /\ m \in made + 1..made + request[r].n
            /\ monitors'[m] = Running
         \/ /\ m = request[r].m /\ monitors[m] # Absent
            /\ \/ request[r].op = "pause" /\ monitors'[m] = Written(monitors[m], request[r].row, UserPaused)
               \/ request[r].op = "resume" /\ monitors'[m] = Written(monitors[m], request[r].row, Running)
               \/ request[r].op = "delete" /\ monitors'[m] = Absent
<1>1. monitors \in [Monitor -> Row]
  BY DEF Types, Rows
<1> DEFINE z == request[r].m
<1>2. CASE CreateMonitors(r)
  <2>1. /\ request[r].op = "create"
        /\ monitors'[m] = IF m \in made + 1..made + request[r].n THEN Running ELSE monitors[m]
    BY <1>2 DEF CreateMonitors
  <2> QED BY <2>1
<1>3. CASE PauseMonitor(r)
  <2>1. /\ request[r].op = "pause" /\ monitors[z] # Absent
        /\ monitors' = [monitors EXCEPT ![z] = Written(monitors[z], request[r].row, UserPaused)]
    BY <1>3 DEF PauseMonitor
  <2> QED BY <1>1, <2>1
<1>4. CASE ResumeMonitor(r)
  <2>1. /\ request[r].op = "resume" /\ monitors[z] # Absent
        /\ monitors' = [monitors EXCEPT ![z] = Written(monitors[z], request[r].row, Running)]
    BY <1>4 DEF ResumeMonitor
  <2> QED BY <1>1, <2>1
<1>5. CASE DeleteMonitor(r)
  <2>1. /\ request[r].op = "delete" /\ monitors[z] # Absent
        /\ monitors' = [monitors EXCEPT ![z] = Absent]
    BY <1>5 DEF DeleteMonitor
  <2> QED BY <1>1, <2>1
<1> QED BY <1>2, <1>3, <1>4, <1>5 DEF CommitRequest

\* A request that commits is done, and the others may be late by that.
LEMMA CommitForgets ==
  ASSUME Types, NEW r \in Request, CommitRequest(r)
  PROVE  /\ request[r].pc = "checked" /\ request'[r] = NoRequest
         /\ request' \in [Request -> Asked]
         /\ \A s \in Request : request'[s].pc # "idle" /\ request'[s].op # "create" => request'[s].m \in Monitor
         /\ \A s \in Request \ {r} :
              /\ request'[s].pc = request[s].pc /\ request'[s].op = request[s].op
              /\ request'[s].m = request[s].m /\ request'[s].n = request[s].n
              /\ request'[s].row = request[s].row /\ request'[s].plan = request[s].plan
              /\ request'[s].ends = request[s].ends
              /\ request[s].late => request'[s].late
              /\ request[s].pc = "checked" /\ Adds(request[s]) /\ Adds(request[r]) => request'[s].late
<1>1. request \in [Request -> Asked]
  BY DEF Types
<1>2. request' = [s \in Request |-> IF s = r THEN NoRequest ELSE Overtaken(r, request[s])]
  BY DEF CommitRequest
<1>3. ASSUME NEW s \in Request \ {r}
      PROVE  /\ request'[s] \in Asked
             /\ request'[s].pc = request[s].pc /\ request'[s].op = request[s].op
             /\ request'[s].m = request[s].m /\ request'[s].n = request[s].n
             /\ request'[s].row = request[s].row /\ request'[s].plan = request[s].plan
             /\ request'[s].ends = request[s].ends
             /\ request[s].late => request'[s].late
             /\ request[s].pc = "checked" /\ Adds(request[s]) /\ Adds(request[r]) => request'[s].late
  <2>1. request[s] \in Asked
    BY <1>1
  <2>2. request'[s] = [request[s] EXCEPT !.late = @ \/ (request[s].pc = "checked" /\ Adds(request[s]) /\ Adds(request[r]))]
    BY <1>2 DEF Overtaken
  <2> QED BY <2>1, <2>2 DEF Asked
<1>4. request'[r] = NoRequest /\ request[r].pc = "checked"
  BY <1>2 DEF CommitRequest
<1>5. request' \in [Request -> Asked]
  BY <1>2, <1>3, <1>4, NoRequestAsks
<1> QED BY <1>3, <1>4, <1>5, NoRequestAsks DEF Types

LEMMA TypesStep == Types /\ [Next]_vars => Types'
<1> SUFFICES ASSUME Types, [Next]_vars PROVE Types'
  OBVIOUS
<1>0. /\ user \in User /\ monitors \in Rows /\ made \in 0..Len(Home)
      /\ lock \in {"none", "hk", "webhook"} /\ split \in BOOLEAN /\ extra \subseteq Monitor
      /\ hk \in HkTask /\ webhook \in Delivery /\ request \in [Request -> Asked]
      /\ \A r \in Request : request[r].pc # "idle" /\ request[r].op # "create" => request[r].m \in Monitor
  BY TypesOf
<1> DEFINE Goal ==
      /\ user' \in User /\ monitors' \in Rows /\ made' \in 0..Len(Home)
      /\ lock' \in {"none", "hk", "webhook"} /\ split' \in BOOLEAN /\ extra' \subseteq Monitor
      /\ hk' \in HkTask /\ webhook' \in Delivery /\ request' \in [Request -> Asked]
      /\ \A r \in Request : request'[r].pc # "idle" /\ request'[r].op # "create" => request'[r].m \in Monitor
<1> SUFFICES Goal
  BY DEF Types, HkTask, Delivery
<1>1. CASE StartTrial
  <2>1. user' \in User
    BY <1>0, <1>1 DEF StartTrial, User
  <2> QED BY <1>0, <1>1, <2>1 DEF StartTrial
<1>2. CASE TrialEnds
  <2>1. user' \in User
    BY <1>0, <1>2 DEF TrialEnds, User
  <2> QED BY <1>0, <1>2, <2>1, RequestsAge DEF TrialEnds
<1>3. ASSUME NEW r \in Request, NEW op \in {"create", "pause", "resume", "delete"},
             NEW m \in Monitor \cup {0}, Begin(r, op, m)
      PROVE  Goal
  <2> DEFINE q == [pc |-> "begun", op |-> op, m |-> m, n |-> 0, plan |-> user.plan,
                   ends |-> user.ends, late |-> FALSE,
                   row |-> IF op = "create" THEN Absent ELSE monitors[m]]
  <2>1. (IF op = "create" THEN Absent ELSE monitors[m]) \in Row
    BY <1>0, <1>3, RowsAreRows DEF Begin, Rows
  <2>2. q \in Asked
    BY <1>0, <2>1 DEF Asked, User
  <2>3. q.op # "create" => q.m \in Monitor
    BY <1>3 DEF Begin
  <2>4. request' = [request EXCEPT ![r] = q]
    BY <1>3 DEF Begin
  <2> HIDE DEF q
  <2>5. /\ request' \in [Request -> Asked]
        /\ \A s \in Request : request'[s].pc # "idle" /\ request'[s].op # "create" => request'[s].m \in Monitor
    BY <2>2, <2>3, <2>4, RequestStep
  <2> QED BY <1>0, <1>3, <2>5 DEF Begin
<1>4. ASSUME NEW r \in Request, Check(r) PROVE Goal
  <2>1. request[r] \in Asked /\ request[r].pc = "begun" /\ "FREE" \in Plan
    BY <1>0, <1>4, NothingStarted DEF Check
  <2>5. PICK n \in Monitor \cup {0} :
          request' = [request EXCEPT ![r] =
            [request[r] EXCEPT !.pc = "checked", !.n = n, !.plan = "FREE", !.ends = "none"]]
    BY <1>4 DEF Check
  <2> DEFINE q == [request[r] EXCEPT !.pc = "checked", !.n = n, !.plan = "FREE", !.ends = "none"]
  <2>2. q \in Asked /\ q.op = request[r].op /\ q.m = request[r].m
    BY <2>1 DEF Asked
  <2>3. request' = [request EXCEPT ![r] = q]
    BY <2>5
  <2>4. q.op # "create" => q.m \in Monitor
    BY <1>0, <2>1, <2>2
  <2> HIDE DEF q
  <2>6. /\ request' \in [Request -> Asked]
        /\ \A s \in Request : request'[s].pc # "idle" /\ request'[s].op # "create" => request'[s].m \in Monitor
    BY <2>2, <2>3, <2>4, RequestStep
  <2> QED BY <1>0, <1>4, <2>6 DEF Check
<1>5. ASSUME NEW r \in Request, request' = [request EXCEPT ![r] = NoRequest]
      PROVE  /\ request' \in [Request -> Asked]
             /\ \A s \in Request : request'[s].pc # "idle" /\ request'[s].op # "create" => request'[s].m \in Monitor
  BY <1>5, NoRequestAsks, RequestStep
<1>6. ASSUME NEW r \in Request, Refuse(r) PROVE Goal
  BY <1>0, <1>5, <1>6 DEF Refuse
<1>7. ASSUME NEW r \in Request, CommitRequest(r) PROVE Goal
  <2>1. /\ request' \in [Request -> Asked]
        /\ \A s \in Request : request'[s].pc # "idle" /\ request'[s].op # "create" => request'[s].m \in Monitor
    BY <1>7, CommitForgets
  <2>2. monitors' \in Rows
    <3>1. \A m \in Monitor : monitors'[m] \in Row
      BY <1>0, <1>7, CommitRows, RowsAreRows DEF Asked, Rows
    <3>2. monitors' = [m \in Monitor |-> monitors'[m]]
      BY <1>0, <1>7 DEF CommitRequest, CreateMonitors, PauseMonitor, ResumeMonitor, DeleteMonitor, Rows
    <3> QED BY <3>1, <3>2 DEF Rows
  <2>3. made' \in 0..Len(Home)
    <3>1. request[r].n \in Nat /\ Len(Home) \in Nat
      BY <1>0, MonitorsAreFew DEF Asked
    <3> QED BY <1>0, <1>7, <3>1 DEF CommitRequest, CreateMonitors, PauseMonitor, ResumeMonitor, DeleteMonitor
  <2> QED BY <1>0, <1>7, <2>1, <2>2, <2>3 DEF CommitRequest
<1>8. CASE SelectDue
  <2>1. hk' \in HkTask
    BY <1>0, <1>8 DEF SelectDue, HkTask
  <2> QED BY <1>0, <1>8, <2>1 DEF SelectDue
<1>9. CASE CommitOther
  BY <1>0, <1>9 DEF CommitOther
<1>10. CASE ReadLimits
  <2>1. hk' \in HkTask
    BY <1>0, <1>10, LimitsAreLimits DEF ReadLimits, HkTask
  <2> QED BY <1>0, <1>10, <2>1 DEF ReadLimits
<1>11. CASE LoadMonitors
  <2>1. hk' \in HkTask
    BY <1>0, <1>11 DEF LoadMonitors, HkTask
  <2> QED BY <1>0, <1>11, <2>1 DEF LoadMonitors
<1>12. CASE CommitExpiry
  <2>1. hk.rows \in Rows /\ hk.limits \in LimitsOf
    BY <1>0 DEF HkTask
  <2>2. Fitted(hk.rows, hk.limits, "trial_ended") \in Rows
    BY <2>1, RowsAreRows DEF PLAN_PAUSE_REASONS
  <2>3. monitors' \in Rows
    BY <1>0, <1>12, <2>1, <2>2, SavedRows DEF CommitExpiry
  <2>4. user' \in User
    BY <1>0, <1>12 DEF CommitExpiry, User
  <2> QED BY <1>0, <1>12, <2>3, <2>4, NothingStarted DEF CommitExpiry, Unlock
<1>13. CASE AbortTask
  BY <1>0, <1>13, NothingStarted DEF AbortTask, Unlock
<1>14. ASSUME NEW event \in Plan \cup {"same"}, Receive(event) PROVE Goal
  <2>1. user.plan \in Plan /\ user.ends \in {"none", "ahead", "past"}
    BY <1>0 DEF User
  <2>2. webhook' \in Delivery
    BY <1>14, <2>1, NothingStarted DEF Receive, Delivery
  <2> QED BY <1>0, <1>14, <2>2 DEF Receive
<1>15. CASE Flush
  <2>1. webhook' \in Delivery
    BY <1>0, <1>15 DEF Flush, Delivery
  <2> QED BY <1>0, <1>15, <2>1 DEF Flush
<1>16. CASE ClearTrial
  <2>1. webhook' \in Delivery
    BY <1>0, <1>16 DEF ClearTrial, Delivery
  <2> QED BY <1>0, <1>16, <2>1 DEF ClearTrial
<1>17. CASE LoadForPlan
  <2>1. webhook' \in Delivery
    BY <1>0, <1>17 DEF LoadForPlan, Delivery
  <2> QED BY <1>0, <1>17, <2>1 DEF LoadForPlan
<1>18. CASE CommitEvent
  <2>1. NewPlan \in Plan
    BY <1>0 DEF NewPlan, Delivery
  <2>2. user' \in User
    BY <1>0, <1>18, <2>1 DEF CommitEvent, User
  <2>3. Fitted(webhook.rows, Limits[NewPlan], "plan_limit") \in Rows
    BY <1>0, <2>1, LimitsAreLimits, RowsAreRows DEF Delivery, PLAN_PAUSE_REASONS
  <2>4. webhook.rows \in Rows
    BY <1>0 DEF Delivery
  <2>5. monitors' \in Rows
    BY <1>0, <1>18, <2>3, <2>4, SavedRows DEF CommitEvent
  <2> QED BY <1>0, <1>18, <2>2, <2>5, NothingStarted, RequestsAge DEF CommitEvent, Unlock
<1>19. CASE AbortEvent
  BY <1>0, <1>19, NothingStarted DEF AbortEvent, Unlock
<1>20. CASE UNCHANGED vars
  BY <1>0, <1>20 DEF vars
<1> QED BY <1>1, <1>2, <1>3, <1>4, <1>6, <1>7, <1>8, <1>9, <1>10, <1>11, <1>12, <1>13, <1>14, <1>15,
           <1>16, <1>17, <1>18, <1>19, <1>20 DEF Next, UserStep, TaskStep, WebhookStep

-----------------------------------------------------------------------------
(* One trial, and who may end it.                                          *)

\* Every action, for a claim that each of them keeps.
LEMMA EveryStep ==
  ASSUME [Next]_vars
  PROVE  \/ StartTrial
         \/ TrialEnds
         \/ \E r \in Request, op \in {"create", "pause", "resume", "delete"}, m \in Monitor \cup {0} : Begin(r, op, m)
         \/ \E r \in Request : Check(r)
         \/ \E r \in Request : CommitRequest(r)
         \/ \E r \in Request : Refuse(r)
         \/ SelectDue \/ CommitOther \/ ReadLimits \/ LoadMonitors \/ CommitExpiry \/ AbortTask
         \/ \E event \in Plan \cup {"same"} : Receive(event)
         \/ Flush \/ ClearTrial \/ LoadForPlan \/ CommitEvent \/ AbortEvent
         \/ UNCHANGED vars
BY DEF Next, UserStep, TaskStep, WebhookStep

LEMMA KnowsStep == Types /\ WebhookKnows /\ [Next]_vars => WebhookKnows'
<1> SUFFICES ASSUME Types, WebhookKnows, [Next]_vars PROVE WebhookKnows'
  OBVIOUS
<1>1. ASSUME user'.plan = user.plan, webhook' = webhook PROVE WebhookKnows'
  BY <1>1 DEF WebhookKnows, NewPlan
<1>2. user \in User /\ webhook \in Delivery
  BY TypesOf
<1>3. CASE StartTrial \/ TrialEnds \/ CommitExpiry
  BY <1>1, <1>2, <1>3 DEF StartTrial, TrialEnds, CommitExpiry, User
<1>4. CASE UNCHANGED <<user, webhook>>
  BY <1>1, <1>4
<1>5. ASSUME NEW event \in Plan \cup {"same"}, Receive(event) PROVE WebhookKnows'
  <2>1. webhook'.pc = "received" /\ webhook'.plan = user.plan /\ user' = user
    BY <1>5 DEF Receive, NoEvent
  <2> QED BY <2>1 DEF WebhookKnows
<1>6. ASSUME user' = user, webhook.pc # "idle", NEW pc, webhook' = [webhook EXCEPT !.pc = pc],
             pc \in {"fitting", "fitted"} => NewPlan # "FREE"
      PROVE  WebhookKnows'
  <2>1. webhook'.pc = pc /\ webhook'.plan = webhook.plan /\ webhook'.event = webhook.event
    BY <1>2, <1>6 DEF Delivery
  <2> QED BY <1>6, <2>1 DEF WebhookKnows, NewPlan
<1>7. CASE Flush
  BY <1>6, <1>7 DEF Flush
<1>8. CASE ClearTrial
  BY <1>6, <1>8 DEF ClearTrial, NeedsFit
<1>9. CASE LoadForPlan
  <2>1. /\ webhook.pc = "fitting" /\ webhook'.plan = webhook.plan /\ webhook'.event = webhook.event
        /\ user' = user
    BY <1>2, <1>9 DEF LoadForPlan, Delivery
  <2> QED BY <2>1 DEF WebhookKnows, NewPlan
<1>10. CASE CommitEvent \/ AbortEvent
  BY <1>10 DEF CommitEvent, AbortEvent, NoEvent, WebhookKnows
<1> QED BY <1>3, <1>4, <1>5, <1>7, <1>8, <1>9, <1>10, EveryStep
        DEF Begin, Check, CommitRequest, Refuse, SelectDue, CommitOther, ReadLimits, LoadMonitors, AbortTask, vars

\* An event that leaves the trial's end in the past leaves a Free account.
LEMMA PastStaysFree ==
  ASSUME Types, WebhookKnows, OneTrial, CommitEvent, user'.ends = "past"
  PROVE  /\ NewPlan = "FREE" /\ user.ends = "past" /\ user'.plan = "FREE"
         /\ user'.used = user.used /\ user'.expired = user.expired /\ monitors' = monitors
<1>1. user \in User /\ webhook \in Delivery
  BY TypesOf
<1>2. webhook.pc \in {"done", "fitted"} /\ webhook.pc # "idle"
  BY DEF CommitEvent
<1>3. /\ user'.plan = IF PlanChanges THEN NewPlan ELSE user.plan
      /\ user'.ends = IF HadTrial THEN "none" ELSE user.ends
      /\ user'.used = user.used /\ user'.expired = user.expired
  BY <1>1 DEF CommitEvent, User
<1>4. user.ends = "past" /\ ~HadTrial
  BY <1>3
<1>5. NewPlan = "FREE"
  BY <1>2, <1>4 DEF HadTrial, OneTrial
<1>6. user'.plan = "FREE"
  BY <1>2, <1>3, <1>5 DEF PlanChanges, WebhookKnows
<1>7. webhook.pc # "fitted"
  BY <1>5 DEF WebhookKnows
<1> QED BY <1>3, <1>4, <1>5, <1>6, <1>7 DEF CommitEvent

LEMMA OneTrialStep == Types /\ WebhookKnows /\ OneTrial /\ StillDue /\ [Next]_vars => OneTrial'
<1> SUFFICES ASSUME Types, WebhookKnows, OneTrial, StillDue, [Next]_vars PROVE OneTrial'
  OBVIOUS
<1>1. user \in User /\ webhook \in Delivery
  BY TypesOf
<1>2. ASSUME user' = user,
             webhook'.pc = "idle" \/ (webhook.pc # "idle" /\ webhook'.ends = webhook.ends)
               \/ webhook'.ends = user.ends
      PROVE  OneTrial'
  BY <1>2 DEF OneTrial
<1>3. CASE StartTrial
  <2>1. /\ user'.plan = "FREE" /\ user'.ends = "ahead" /\ user'.used /\ ~user'.expired
        /\ webhook' = webhook /\ user'.plan = user.plan
    BY <1>1, <1>3 DEF StartTrial, User
  <2> QED BY <2>1 DEF OneTrial
<1>4. CASE TrialEnds
  <2>1. /\ user.ends = "ahead" /\ user'.ends = "past" /\ user'.used = user.used /\ user'.expired = user.expired
        /\ user'.plan = user.plan /\ webhook' = webhook /\ (webhook.pc # "idle" => webhook.ends # "none")
    BY <1>1, <1>4 DEF TrialEnds, User
  <2> QED BY <2>1 DEF OneTrial
<1>5. CASE CommitExpiry
  <2>1. /\ user'.ends = user.ends /\ user'.used = user.used /\ user'.expired
        /\ user'.plan = user.plan /\ webhook' = webhook /\ hk.pc # "idle"
    BY <1>1, <1>5 DEF CommitExpiry, User
  <2> QED BY <2>1 DEF OneTrial, StillDue
<1>6. CASE CommitEvent
  <2>1. webhook'.pc = "idle"
    BY <1>6 DEF CommitEvent, NoEvent
  <2>2. /\ user'.ends = "none" \/ user'.ends = user.ends
        /\ user'.used = user.used /\ user'.expired = user.expired
    BY <1>1, <1>6 DEF CommitEvent, User
  <2>3. user'.ends = "past" => user'.plan = "FREE"
    BY <1>6, PastStaysFree
  <2> QED BY <2>1, <2>2, <2>3 DEF OneTrial
<1>7. ASSUME NEW event \in Plan \cup {"same"}, Receive(event) PROVE OneTrial'
  <2>1. user' = user /\ webhook'.ends = user.ends
    BY <1>7 DEF Receive, NoEvent
  <2> QED BY <1>2, <2>1
<1>8. CASE Flush \/ ClearTrial \/ LoadForPlan
  <2>1. user' = user /\ webhook.pc # "idle" /\ webhook'.ends = webhook.ends
    BY <1>1, <1>8 DEF Flush, ClearTrial, LoadForPlan, Delivery
  <2> QED BY <1>2, <2>1
<1>9. CASE AbortEvent
  BY <1>2, <1>9 DEF AbortEvent, NoEvent
<1>10. CASE UNCHANGED <<user, webhook>>
  BY <1>10 DEF OneTrial
<1> QED BY <1>3, <1>4, <1>5, <1>6, <1>7, <1>8, <1>9, <1>10, EveryStep
        DEF Begin, Check, CommitRequest, Refuse, SelectDue, CommitOther, ReadLimits, LoadMonitors, AbortTask, vars

LEMMA StillDueStep == Types /\ WebhookKnows /\ OneTrial /\ StillDue /\ [Next]_vars => StillDue'
<1> SUFFICES ASSUME Types, WebhookKnows, OneTrial, StillDue, [Next]_vars PROVE StillDue'
  OBVIOUS
<1>1. user \in User /\ webhook \in Delivery /\ hk \in HkTask
  BY TypesOf
<1>2. CASE StartTrial
  <2>1. hk' = hk /\ hk.pc = "idle"
    BY <1>2 DEF StartTrial, StillDue
  <2> QED BY <2>1 DEF StillDue
<1>3. CASE TrialEnds
  <2>1. hk' = hk /\ hk.pc = "idle"
    BY <1>3 DEF TrialEnds, StillDue
  <2> QED BY <2>1 DEF StillDue
<1>4. CASE SelectDue
  <2>1. hk'.pc = "selected" /\ user' = user /\ user.plan = "FREE" /\ user.ends = "past" /\ ~user.expired
    BY <1>1, <1>4 DEF SelectDue, Due, HkTask
  <2> QED BY <2>1 DEF StillDue, OneTrial
<1>5. CASE ReadLimits
  <2>1. /\ user' = user /\ hk.pc # "idle" /\ hk'.pc = "limited" /\ hk'.limits = get_limits(user)
    BY <1>1, <1>5 DEF ReadLimits, HkTask
  <2>2. user.ends = "past" => hk'.limits = Limits["FREE"]
    BY <2>1 DEF StillDue, get_limits, trial_active
  <2> QED BY <2>1, <2>2 DEF StillDue
<1>6. CASE LoadMonitors
  <2>1. user' = user /\ hk.pc = "limited" /\ hk'.pc = "loaded" /\ hk'.limits = hk.limits
    BY <1>1, <1>6 DEF LoadMonitors, HkTask
  <2> QED BY <2>1 DEF StillDue
<1>7. CASE CommitExpiry \/ AbortTask
  BY <1>7 DEF CommitExpiry, AbortTask, NoTask, StillDue
<1>8. CASE CommitEvent
  <2>1. /\ user'.ends = "none" \/ user'.ends = user.ends
        /\ user'.used = user.used /\ user'.expired = user.expired /\ hk' = hk
    BY <1>1, <1>8 DEF CommitEvent, User
  <2>2. user'.ends = "past" => user'.plan = "FREE" /\ user.ends = "past"
    BY <1>8, PastStaysFree
  <2>3. user'.ends \in {"none", "ahead", "past"} /\ (user'.ends = "ahead" => user.ends = "ahead")
    BY <1>1, <2>1 DEF User
  <2> QED BY <2>1, <2>2, <2>3 DEF StillDue
<1>9. CASE UNCHANGED <<user, hk>>
  BY <1>9 DEF StillDue
<1> QED BY <1>2, <1>3, <1>4, <1>5, <1>6, <1>7, <1>8, <1>9, EveryStep
        DEF Begin, Check, CommitRequest, Refuse, CommitOther, Receive, Flush, ClearTrial, LoadForPlan, AbortEvent, vars

\* A request that begins copies the row.
LEMMA BeginCopies ==
  ASSUME Types, NEW r \in Request, NEW op \in {"create", "pause", "resume", "delete"},
         NEW m \in Monitor \cup {0}, Begin(r, op, m)
  PROVE  /\ request[r].pc = "idle"
         /\ request'[r].pc = "begun" /\ request'[r].op = op /\ request'[r].m = m
         /\ request'[r].plan = user.plan /\ request'[r].ends = user.ends /\ ~request'[r].late
         /\ IF op = "create" THEN request'[r].row = Absent
            ELSE m \in Monitor /\ request'[r].row = monitors[m]
         /\ \A s \in Request \ {r} : request'[s] = request[s]
BY TypesOf DEF Begin

LEMMA CheckMarks ==
  ASSUME Types, NEW r \in Request, Check(r)
  PROVE  /\ request[r].pc = "begun"
         /\ request'[r].pc = "checked" /\ request'[r].op = request[r].op /\ request'[r].m = request[r].m
         /\ request'[r].row = request[r].row /\ request'[r].late = request[r].late
         /\ request[r].op = "create" =>
              request'[r].n \in Monitor /\ check_monitor_limit(get_limits(request[r]), request'[r].n)
         /\ \A s \in Request \ {r} : request'[s] = request[s]
<1>1. request \in [Request -> Asked] /\ request[r] \in Asked
  BY TypesOf
<1>2. PICK n \in IF request[r].op = "create" THEN Monitor ELSE {0} :
        /\ n > 0 => check_monitor_limit(get_limits(request[r]), n)
        /\ request' = [request EXCEPT ![r] =
             [request[r] EXCEPT !.pc = "checked", !.n = n, !.plan = "FREE", !.ends = "none"]]
  BY DEF Check
<1>3. /\ request'[r] = [request[r] EXCEPT !.pc = "checked", !.n = n, !.plan = "FREE", !.ends = "none"]
      /\ \A s \in Request \ {r} : request'[s] = request[s]
  BY <1>1, <1>2
<1>4. request[r].op = "create" => n \in Monitor /\ n > 0
  BY <1>2, MonitorsAreFew
<1>5. request'[r].n = n
  BY <1>1, <1>3 DEF Asked
<1> QED BY <1>1, <1>2, <1>3, <1>4, <1>5 DEF Check, Asked

LEMMA RefuseForgets ==
  ASSUME Types, NEW r \in Request, Refuse(r)
  PROVE  request'[r] = NoRequest /\ \A s \in Request \ {r} : request'[s] = request[s]
BY TypesOf DEF Refuse

LEMMA NothingFittedStep ==
  Types /\ WebhookKnows /\ OneTrial /\ StillDue /\ NothingFitted /\ [Next]_vars => NothingFitted'
<1> SUFFICES ASSUME Types, WebhookKnows, OneTrial, StillDue, NothingFitted, [Next]_vars, Unfitted'
             PROVE  /\ \A m \in Monitor : ByUser(monitors'[m]) /\ ByUser(hk'.rows[m])
                    /\ \A r \in Request : ByUser(request'[r].row)
                    /\ webhook'.pc \in {"fitting", "fitted"} => webhook'.ends # "none"
  BY DEF NothingFitted, ByUser
<1> DEFINE Goal == /\ \A m \in Monitor : ByUser(monitors'[m]) /\ ByUser(hk'.rows[m])
                   /\ \A r \in Request : ByUser(request'[r].row)
                   /\ webhook'.pc \in {"fitting", "fitted"} => webhook'.ends # "none"
           Old == /\ \A m \in Monitor : ByUser(monitors[m]) /\ ByUser(hk.rows[m])
                  /\ \A r \in Request : ByUser(request[r].row)
                  /\ webhook.pc \in {"fitting", "fitted"} => webhook.ends # "none"
<1> HIDE DEF Goal
<1>0. Unfitted => Old
  BY DEF NothingFitted
<1>1. user \in User /\ webhook \in Delivery /\ hk \in HkTask
  BY TypesOf
<1>2. ByUser(Running) /\ ByUser(UserPaused) /\ ByUser(Absent) /\ ByUser(NoRequest.row)
      /\ \A m \in Monitor : ByUser(NoRows[m])
  BY DEF ByUser, Running, UserPaused, Absent, NoRequest, NoRows, PLAN_PAUSE_REASONS
<1>3. \A row, loaded, new : ByUser(row) /\ ByUser(new) => ByUser(Written(row, loaded, new))
  BY DEF ByUser, Written
<1>4. CASE StartTrial
  <2>1. Unfitted /\ UNCHANGED <<monitors, hk, request, webhook>>
    BY <1>4 DEF StartTrial, Unfitted
  <2> QED BY <1>0, <2>1 DEF Goal
<1>5. CASE TrialEnds
  <2>1. user.ends = "ahead" /\ UNCHANGED <<monitors, hk, webhook>>
    BY <1>5 DEF TrialEnds
  <2>2. Unfitted
    BY <2>1 DEF Unfitted, OneTrial
  <2>3. \A r \in Request : request'[r].row = request[r].row
    BY <1>5, RequestsAge
  <2> QED BY <1>0, <2>1, <2>2, <2>3 DEF Goal
<1>6. ASSUME NEW r \in Request, NEW op \in {"create", "pause", "resume", "delete"},
             NEW m \in Monitor \cup {0}, Begin(r, op, m)
      PROVE  Goal
  <2>1. UNCHANGED <<user, monitors, hk, webhook>>
    BY <1>6 DEF Begin
  <2>2. Old
    BY <1>0, <2>1 DEF Unfitted
  <2>3. ByUser(request'[r].row) /\ \A s \in Request \ {r} : request'[s] = request[s]
    BY <1>2, <1>6, <2>2, BeginCopies
  <2> QED BY <2>1, <2>2, <2>3 DEF Goal
<1>7. ASSUME NEW r \in Request, Check(r) \/ Refuse(r) PROVE Goal
  <2>1. UNCHANGED <<user, monitors, hk, webhook>>
    BY <1>7 DEF Check, Refuse
  <2>2. Old
    BY <1>0, <2>1 DEF Unfitted
  <2>3. /\ request'[r].row = request[r].row \/ request'[r] = NoRequest
        /\ \A s \in Request \ {r} : request'[s] = request[s]
    BY <1>7, CheckMarks, RefuseForgets
  <2> QED BY <1>2, <2>1, <2>2, <2>3 DEF Goal
<1>8. ASSUME NEW r \in Request, CommitRequest(r) PROVE Goal
  <2>1. UNCHANGED <<user, hk, webhook>>
    BY <1>8 DEF CommitRequest
  <2>2. Old
    BY <1>0, <2>1 DEF Unfitted
  <2>4. \A z \in Monitor : ByUser(monitors'[z])
    BY <1>2, <1>3, <1>8, <2>2, CommitRows
  <2>5. request'[r] = NoRequest /\ \A s \in Request \ {r} : request'[s].row = request[s].row
    BY <1>8, CommitForgets
  <2> QED BY <1>2, <2>1, <2>2, <2>4, <2>5 DEF Goal
<1>9. ASSUME user' = user, UNCHANGED <<monitors, request, webhook>>,
             hk'.rows = hk.rows \/ hk'.rows = monitors \/ hk'.rows = NoRows
      PROVE  Goal
  <2>1. Old
    BY <1>0, <1>9 DEF Unfitted
  <2> QED BY <1>2, <1>9, <2>1 DEF Goal
<1>10. CASE SelectDue \/ CommitOther \/ ReadLimits \/ LoadMonitors \/ AbortTask
  <2>1. user' = user /\ UNCHANGED <<monitors, request, webhook>>
    BY <1>10 DEF SelectDue, CommitOther, ReadLimits, LoadMonitors, AbortTask
  <2>2. hk'.rows = hk.rows \/ hk'.rows = monitors \/ hk'.rows = NoRows
    <3>1. CASE SelectDue \/ CommitOther \/ ReadLimits
      BY <1>1, <3>1 DEF SelectDue, CommitOther, ReadLimits, HkTask
    <3>2. CASE LoadMonitors
      BY <1>1, <3>2 DEF LoadMonitors, HkTask
    <3>3. CASE AbortTask
      BY <3>3 DEF AbortTask, NoTask
    <3> QED BY <1>10, <3>1, <3>2, <3>3
  <2> QED BY <1>9, <2>1, <2>2 DEF Goal
<1>11. CASE CommitExpiry
  <2>1. user'.expired /\ user'.used = user.used /\ hk.pc # "idle"
    BY <1>1, <1>11 DEF CommitExpiry, User
  <2> QED BY <2>1 DEF Unfitted, StillDue
<1>12. ASSUME user' = user, UNCHANGED <<monitors, request, hk>>,
              Old => (webhook'.pc \in {"fitting", "fitted"} => webhook'.ends # "none")
       PROVE  Goal
  <2>1. Old
    BY <1>0, <1>12 DEF Unfitted
  <2> QED BY <1>12, <2>1 DEF Goal
<1>13. ASSUME NEW event \in Plan \cup {"same"}, Receive(event) PROVE Goal
  <2>1. webhook'.pc = "received"
    BY <1>13 DEF Receive, NoEvent
  <2> QED BY <1>12, <1>13, <2>1 DEF Receive
<1>14. CASE Flush
  <2>1. webhook'.pc = "flushed"
    BY <1>1, <1>14 DEF Flush, Delivery
  <2> QED BY <1>12, <1>14, <2>1 DEF Flush, Goal
<1>15. CASE ClearTrial
  <2>1. webhook'.ends = webhook.ends /\ webhook'.pc = IF NeedsFit THEN "fitting" ELSE "done"
    BY <1>1, <1>15 DEF ClearTrial, Delivery
  <2>2. ASSUME Old PROVE PausedByPlan = {}
    BY <2>2 DEF PausedByPlan, ByUser
  <2> QED BY <1>12, <1>15, <2>1, <2>2 DEF ClearTrial, NeedsFit, HadTrial, Goal
<1>16. CASE LoadForPlan
  <2>1. webhook'.ends = webhook.ends /\ webhook.pc = "fitting"
    BY <1>1, <1>16 DEF LoadForPlan, Delivery
  <2> QED BY <1>12, <1>16, <2>1 DEF LoadForPlan, Goal
<1>17. CASE AbortEvent
  <2>1. webhook'.pc = "idle"
    BY <1>17 DEF AbortEvent, NoEvent
  <2> QED BY <1>12, <1>17, <2>1 DEF AbortEvent, Goal
<1>18. CASE CommitEvent
  <2>1. /\ user'.ends = (IF HadTrial THEN "none" ELSE user.ends)
        /\ user'.used = user.used /\ user'.expired = user.expired
    BY <1>1, <1>18 DEF CommitEvent, User
  <2>2. webhook.pc # "idle" /\ webhook'.pc = "idle" /\ hk' = hk
    BY <1>18 DEF CommitEvent, NoEvent
  <2>6. \A r \in Request : request'[r].row = request[r].row
    BY <1>18, RequestsAge
  <2>3. Unfitted
    BY <2>1 DEF Unfitted
  <2>4. webhook.pc # "fitted"
    <3> SUFFICES ASSUME webhook.pc = "fitted" PROVE FALSE
      OBVIOUS
    <3>1. webhook.ends # "none" /\ NewPlan # "FREE"
      BY <1>0, <2>3 DEF WebhookKnows
    <3>2. HadTrial /\ user.used
      BY <2>2, <3>1 DEF HadTrial, OneTrial
    <3> QED BY <2>1, <3>2 DEF Unfitted
  <2>5. monitors' = monitors
    BY <1>18, <2>4 DEF CommitEvent
  <2> QED BY <1>0, <2>2, <2>3, <2>5, <2>6 DEF Goal
<1>19. CASE UNCHANGED vars
  <2>1. UNCHANGED <<user, monitors, request, hk, webhook>>
    BY <1>19 DEF vars
  <2> QED BY <1>12, <2>1 DEF Goal
<1> QED BY <1>4, <1>5, <1>6, <1>7, <1>8, <1>10, <1>11, <1>13, <1>14, <1>15, <1>16, <1>17, <1>18, <1>19,
           EveryStep DEF Goal

-----------------------------------------------------------------------------
(* The count.                                                              *)

LEMMA LimitsKnownStep ==
  Types /\ WebhookKnows /\ OneTrial /\ LimitsKnown /\ [Next]_vars => LimitsKnown'
<1> SUFFICES ASSUME Types, WebhookKnows, OneTrial, LimitsKnown, [Next]_vars, NEW s \in Request,
                    request'[s].pc = "begun", Adds(request'[s]), ~request'[s].late
             PROVE  request'[s].plan = user'.plan /\ (user'.ends = "past" => request'[s].ends # "ahead")
  BY DEF LimitsKnown
<1> DEFINE Goal == request'[s].plan = user'.plan /\ (user'.ends = "past" => request'[s].ends # "ahead")
<1>1. user \in User /\ request \in [Request -> Asked]
  BY TypesOf
<1>2. ASSUME request'[s].pc = request[s].pc, request'[s].op = request[s].op,
             request[s].late => request'[s].late
      PROVE  request[s].plan = user.plan /\ (user.ends = "past" => request[s].ends # "ahead")
  BY <1>2 DEF LimitsKnown, Adds
<1>3. ASSUME request'[s] = request[s], user'.plan = user.plan, user'.ends = "past" => user.ends = "past"
      PROVE  Goal
  BY <1>2, <1>3
<1>4. CASE StartTrial
  <2>1. user'.plan = user.plan /\ user'.ends = "ahead" /\ request' = request
    BY <1>1, <1>4 DEF StartTrial, User
  <2> QED BY <1>3, <2>1
<1>5. CASE TrialEnds
  <2>1. user'.plan = user.plan
    BY <1>1, <1>5 DEF TrialEnds, User
  <2>2. /\ request'[s].pc = request[s].pc /\ request'[s].op = request[s].op
        /\ request'[s].plan = request[s].plan /\ (request[s].late => request'[s].late)
    BY <1>5, RequestsAge
  <2>3. request'[s].ends # "ahead"
    <3>1. request'[s] = [request[s] EXCEPT !.ends = IF @ = "ahead" THEN "past" ELSE @,
                                           !.late = @ \/ (request[s].pc = "checked" /\ Adds(request[s]))]
      BY <1>5 DEF TrialEnds, Outlived
    <3> QED BY <1>1, <3>1 DEF Asked
  <2> QED BY <1>2, <2>1, <2>2, <2>3
<1>6. ASSUME NEW r \in Request, NEW op \in {"create", "pause", "resume", "delete"},
             NEW m \in Monitor \cup {0}, Begin(r, op, m)
      PROVE  Goal
  <2>1. user' = user
    BY <1>6 DEF Begin
  <2>2. CASE s = r
    BY <1>6, <2>1, <2>2, BeginCopies
  <2>3. CASE s # r
    BY <1>3, <1>6, <2>1, <2>3, BeginCopies
  <2> QED BY <2>2, <2>3
<1>7. ASSUME NEW r \in Request, Check(r) \/ Refuse(r) PROVE Goal
  <2>1. user' = user
    BY <1>7 DEF Check, Refuse
  <2>2. s # r /\ request'[s] = request[s]
    BY <1>7, CheckMarks, RefuseForgets, NoRequestAsks
  <2> QED BY <1>3, <2>1, <2>2
<1>8. ASSUME NEW r \in Request, CommitRequest(r) PROVE Goal
  <2>1. user' = user
    BY <1>8 DEF CommitRequest
  <2>2. s # r
    BY <1>8, CommitForgets, NoRequestAsks
  <2>3. /\ request'[s].pc = request[s].pc /\ request'[s].op = request[s].op
        /\ request'[s].plan = request[s].plan /\ request'[s].ends = request[s].ends
        /\ request[s].late => request'[s].late
    BY <1>8, <2>2, CommitForgets
  <2> QED BY <1>2, <2>1, <2>3
<1>9. CASE CommitExpiry
  <2>1. user'.plan = user.plan /\ user'.ends = user.ends /\ request' = request
    BY <1>1, <1>9 DEF CommitExpiry, User
  <2> QED BY <1>3, <2>1
<1>10. CASE CommitEvent
  <2>1. request'[s] = [request[s] EXCEPT !.late = @ \/ (PlanChanges /\ Adds(request[s]))]
    BY <1>10 DEF CommitEvent
  <2>2. /\ request'[s].pc = request[s].pc /\ request'[s].op = request[s].op
        /\ request'[s].plan = request[s].plan /\ request'[s].ends = request[s].ends
        /\ request'[s].late = (request[s].late \/ (PlanChanges /\ Adds(request[s])))
    BY <1>1, <2>1 DEF Asked
  <2>3. ~PlanChanges
    BY <2>2 DEF Adds
  <2>4. user'.plan = user.plan
    BY <1>1, <1>10, <2>3 DEF CommitEvent, User
  <2>5. user'.ends = "past" => user.ends = "past"
    BY <1>10, PastStaysFree
  <2> QED BY <1>2, <2>2, <2>4, <2>5
<1>11. CASE UNCHANGED <<user, request>>
  BY <1>3, <1>11
<1> QED BY <1>4, <1>5, <1>6, <1>7, <1>8, <1>9, <1>10, <1>11, EveryStep
        DEF SelectDue, CommitOther, ReadLimits, LoadMonitors, AbortTask,
            Receive, Flush, ClearTrial, LoadForPlan, AbortEvent, vars

LEMMA FreeAllows == Limits["FREE"].monitors \in Nat
BY LimitsAreLimits

RunningOf(rows) == {m \in Monitor : rows[m].is_active}

LEMMA SetsOfCount ==
  /\ \A rows, Z, over : RunningBut(rows, Z, over) \subseteq RunningOf(rows)
  /\ \A rows : RunningOf(rows) \subseteq Monitor /\ RunningCount(rows) = Cardinality(RunningOf(rows))
  /\ Existing \subseteq Monitor /\ Existing' \subseteq Monitor
  /\ RunningOf(monitors) \subseteq Existing
BY DEF RunningBut, RunningOf, RunningCount, Existing, Absent

LEMMA Fewer ==
  ASSUME NEW A, NEW B \in SUBSET Monitor, A \subseteq B
  PROVE  Cardinality(A) <= Cardinality(B) /\ Cardinality(A) \in Nat /\ Cardinality(B) \in Nat
<1>1. IsFiniteSet(B) /\ Cardinality(B) \in Nat /\ Cardinality(A) \in Nat
  BY MonitorsAreFew
<1> QED BY <1>1, FS_Subset

\* With no monitor more, and none that runs more, a request's room is kept.
LEMMA RoomKept ==
  ASSUME Types, NEW s \in Request, RoomFor(s), Existing' \subseteq Existing,
         RunningOf(monitors') \subseteq RunningOf(monitors),
         request'[s].pc = request[s].pc, request'[s].op = request[s].op,
         request'[s].n = request[s].n, request'[s].row = request[s].row,
         request[s].late => request'[s].late
  PROVE  RoomFor(s)'
<1>1. Cardinality(Existing') <= Cardinality(Existing)
      /\ Cardinality(Existing') \in Nat /\ Cardinality(Existing) \in Nat
  BY SetsOfCount, Fewer
<1>2. RunningCount(monitors') <= RunningCount(monitors)
      /\ RunningCount(monitors') \in Nat /\ RunningCount(monitors) \in Nat
  BY SetsOfCount, Fewer
<1>3. request[s].n \in Nat
  BY TypesOf, MonitorsAreFew DEF Asked
<1> QED BY <1>1, <1>2, <1>3, FreeAllows DEF RoomFor

\* What a pause, a delete, and a resume of a monitor that ran, leave running did run.
LEMMA OnlyFewerRun ==
  ASSUME Types, NEW r \in Request, CommitRequest(r),
         request[r].op = "create" => FALSE,
         request[r].op = "resume" => request[r].row.is_active
  PROVE  RunningOf(monitors') \subseteq RunningOf(monitors)
<1> SUFFICES ASSUME NEW m \in Monitor, monitors'[m].is_active PROVE monitors[m].is_active
  BY DEF RunningOf
<1>1. request[r].row.is_active \in BOOLEAN /\ monitors[m].is_active \in BOOLEAN
  BY TypesOf DEF Asked, Row, Rows
<1>2. \A new : Written(monitors[m], request[r].row, new).is_active
               = IF new.is_active # request[r].row.is_active THEN new.is_active ELSE monitors[m].is_active
  BY DEF Written
<1>3. CASE monitors'[m] = Written(monitors[m], request[r].row, UserPaused)
  BY <1>1, <1>2, <1>3 DEF UserPaused
<1>4. CASE request[r].row.is_active = TRUE /\ monitors'[m] = Written(monitors[m], request[r].row, Running)
  BY <1>1, <1>2, <1>4 DEF Running
<1>5. CASE monitors'[m] = Absent
  BY <1>5 DEF Absent
<1> QED BY <1>1, <1>3, <1>4, <1>5, CommitRows

\* A request's commit keeps the room of the others.
LEMMA CommitKeepsRoom ==
  ASSUME Types, NEW r \in Request, CommitRequest(r), NEW s \in Request, RoomFor(s)
  PROVE  RoomFor(s)'
<1>1. CASE s = r
  BY <1>1, CommitForgets, NoRequestAsks DEF RoomFor
<1>2. CASE s # r
  <2>1. /\ request'[s].pc = request[s].pc /\ request'[s].op = request[s].op
        /\ request'[s].n = request[s].n /\ request'[s].row = request[s].row
        /\ request[s].late => request'[s].late
        /\ request[s].pc = "checked" /\ Adds(request[s]) /\ Adds(request[r]) => request'[s].late
    BY <1>2, CommitForgets
  <2>2. CASE Adds(request[r])
    BY <2>1, <2>2 DEF RoomFor, Adds
  <2>3. CASE ~Adds(request[r])
    <3>1. request[r].op # "create" /\ request[r].op # "resume"
      BY <2>3 DEF Adds
    <3>2. RunningOf(monitors') \subseteq RunningOf(monitors)
      BY <3>1, OnlyFewerRun
    <3>3. \A m \in Monitor : monitors'[m] # Absent => monitors[m] # Absent
      BY <3>1, CommitRows
    <3>4. Existing' \subseteq Existing
      BY <3>3 DEF Existing
    <3> QED BY <2>1, <3>2, <3>4, RoomKept
  <2> QED BY <2>2, <2>3
<1> QED BY <1>1, <1>2

\* A commit keeps the count: what a late request adds is set aside, and one in time has
\* the room.
LEMMA CommitKeepsCount ==
  ASSUME Types, HasCounted, NEW r \in Request, CommitRequest(r), RoomFor(r),
         NEW Z, WithinFree(monitors, Z, extra)
  PROVE  WithinFree(monitors', Z, extra')
<1> DEFINE A == RunningBut(monitors', Z, extra')
           B == RunningBut(monitors, Z, extra)
           N == Limits["FREE"].monitors
<1>1. B \in SUBSET Monitor /\ Cardinality(B) <= N /\ N \in Nat
  BY SetsOfCount, FreeAllows DEF WithinFree
<1>2. SUFFICES Cardinality(A) <= N
  BY DEF WithinFree
<1>3. extra' = {m \in Monitor :
                  /\ monitors'[m].is_active
                  /\ m \in extra \/ (HasCounted /\ request[r].late /\ ~monitors[m].is_active)}
  BY DEF CommitRequest
<1>4. ASSUME A \subseteq B PROVE Cardinality(A) <= N
  <2> HIDE DEF A, B, N
  <2> QED BY <1>1, <1>4, Fewer
<1>5. CASE request[r].late
  <2>1. A \subseteq B
    BY <1>3, <1>5 DEF RunningBut
  <2> QED BY <1>4, <2>1
<1>6. CASE ~request[r].late /\ request[r].op = "create"
  <2>1. request[r] \in Asked /\ request[r].pc = "checked" /\ made \in Nat
    BY TypesOf, MonitorsAreFew DEF CommitRequest
  <2>2. request[r].n \in Nat
    BY <2>1, MonitorsAreFew DEF Asked
  <2> DEFINE fresh == made + 1..made + request[r].n
  <2>3. IsFiniteSet(fresh) /\ Cardinality(fresh) = request[r].n
    <3> DEFINE lo == made + 1
               hi == made + request[r].n
    <3>1. lo \in Int /\ hi \in Int /\ (IF lo > hi THEN 0 ELSE hi - lo + 1) = request[r].n
      BY <2>1, <2>2
    <3> HIDE DEF lo, hi
    <3>2. IsFiniteSet(lo..hi) /\ Cardinality(lo..hi) = IF lo > hi THEN 0 ELSE hi - lo + 1
      BY <3>1, FS_Interval
    <3> QED BY <3>1, <3>2 DEF lo, hi
  <2>4. A \subseteq Existing \cup fresh
    <3> SUFFICES ASSUME NEW m \in Monitor, monitors'[m].is_active PROVE monitors[m] # Absent \/ m \in fresh
      BY DEF RunningBut, Existing
    <3>1. Absent.is_active = FALSE
      BY DEF Absent
    <3> QED BY <1>6, <3>1, CommitRows
  <2>5. IsFiniteSet(Existing) /\ Cardinality(Existing) \in Nat
    BY SetsOfCount, MonitorsAreFew
  <2>6. Cardinality(Existing) + request[r].n <= N
    BY <1>6, <2>1 DEF RoomFor
  <2> HIDE DEF fresh, A, N
  <2>7. /\ IsFiniteSet(Existing \cup fresh)
        /\ Cardinality(Existing \cup fresh)
             = Cardinality(Existing) + Cardinality(fresh) - Cardinality(Existing \cap fresh)
    BY <2>3, <2>5, FS_Union
  <2>8. Cardinality(Existing \cap fresh) \in Nat
    BY <2>3, FS_Intersection, FS_CardinalityType
  <2>9. Cardinality(A) <= Cardinality(Existing \cup fresh) /\ Cardinality(A) \in Nat
    BY <2>4, <2>7, FS_Subset, FS_CardinalityType
  <2> QED BY <1>1, <2>2, <2>3, <2>5, <2>6, <2>7, <2>8, <2>9
<1>7. CASE ~request[r].late /\ request[r].op = "resume" /\ ~request[r].row.is_active
  <2>1. RunningCount(monitors) + 1 <= N
    BY <1>7 DEF RoomFor, CommitRequest
  <2> DEFINE run == RunningOf(monitors)
             z == request[r].m
  <2>2. A \subseteq run \cup {z}
    BY <1>7, CommitRows DEF RunningBut, RunningOf
  <2>3. run \in SUBSET Monitor /\ RunningCount(monitors) = Cardinality(run)
    BY SetsOfCount
  <2> HIDE DEF run, A, N
  <2>4. IsFiniteSet(run) /\ Cardinality(run) \in Nat
    BY <2>3, MonitorsAreFew
  <2>5. /\ IsFiniteSet(run \cup {z})
        /\ Cardinality(run \cup {z}) = IF z \in run THEN Cardinality(run) ELSE Cardinality(run) + 1
    BY <2>4, FS_AddElement
  <2>6. Cardinality(A) <= Cardinality(run \cup {z}) /\ Cardinality(A) \in Nat
    BY <2>2, <2>5, FS_Subset, FS_CardinalityType
  <2> QED BY <1>1, <2>1, <2>3, <2>4, <2>5, <2>6
<1>8. CASE /\ ~request[r].late /\ request[r].op # "create"
           /\ request[r].op = "resume" => request[r].row.is_active
  <2>1. RunningOf(monitors') \subseteq RunningOf(monitors)
    BY <1>8, OnlyFewerRun
  <2>2. A \subseteq B
    BY <1>3, <2>1 DEF RunningBut, RunningOf
  <2> QED BY <1>4, <2>2
<1> QED BY <1>5, <1>6, <1>7, <1>8

\* A request in time that has just looked at the limits has the room they leave.
LEMMA CheckFindsRoom ==
  ASSUME Types, LimitsKnown, user.plan = "FREE", user.ends = "past", NEW r \in Request, Check(r)
  PROVE  RoomFor(r)'
<1>1. /\ request[r].pc = "begun" /\ request'[r].pc = "checked" /\ request'[r].op = request[r].op
      /\ request'[r].row = request[r].row /\ request'[r].late = request[r].late
      /\ request[r].op = "create" =>
           request'[r].n \in Monitor /\ check_monitor_limit(get_limits(request[r]), request'[r].n)
  BY CheckMarks
<1>2. monitors' = monitors
  BY DEF Check
<1>3. ASSUME Adds(request[r]), ~request[r].late PROVE get_limits(request[r]) = Limits["FREE"]
  BY <1>1, <1>3 DEF LimitsKnown, get_limits, trial_active
<1>4. ASSUME request[r].op = "create", ~request[r].late
      PROVE  Cardinality(Existing') + request'[r].n <= Limits["FREE"].monitors
  BY <1>1, <1>2, <1>3, <1>4 DEF Adds, check_monitor_limit, Existing
<1>5. ASSUME request[r].op = "resume", ~request[r].row.is_active, ~request[r].late
      PROVE  RunningCount(monitors') + 1 <= Limits["FREE"].monitors
  <2>1. check_resume_allowed(request[r].m, Limits["FREE"])
    BY <1>3, <1>5 DEF Adds, Check
  <2>2. RunningCount(monitors) < Limits["FREE"].monitors /\ RunningCount(monitors) \in Nat
    BY <2>1, SetsOfCount, MonitorsAreFew DEF check_resume_allowed
  <2> QED BY <1>2, <2>2, FreeAllows
<1> QED BY <1>1, <1>4, <1>5 DEF RoomFor

\* The rows the task loads: it is about to leave as many running as the limit says.
LEMMA LoadedCount ==
  ASSUME Types, StillDue, user.ends = "past", LoadMonitors
  PROVE  WithinFree(monitors', ToPause', extra')
<1>1. hk \in HkTask /\ monitors \in Rows
  BY TypesOf
<1>2. hk.limits = Limits["FREE"] /\ hk'.limits = hk.limits /\ hk'.rows = monitors /\ monitors' = monitors
  BY <1>1 DEF LoadMonitors, HkTask, StillDue
<1> DEFINE run == Fit(monitors, Limits["FREE"]).run
           A == RunningBut(monitors', ToPause', extra')
<1>3. A \subseteq run
  BY <1>2 DEF RunningBut, ToPause
<1>4. run \in SUBSET Monitor /\ Cardinality(run) <= Limits["FREE"].monitors
  BY <1>1, LimitsAreLimits, FitKeepsLimit
<1> HIDE DEF run, A
<1>5. Cardinality(A) <= Cardinality(run) /\ Cardinality(A) \in Nat /\ Cardinality(run) \in Nat
  BY <1>3, <1>4, Fewer
<1>6. Cardinality(A) <= Limits["FREE"].monitors
  BY <1>4, <1>5, FreeAllows
<1> QED BY <1>6 DEF WithinFree, A

\* And then it pauses those; it makes none run.
LEMMA ExpiryPauses ==
  ASSUME Types, StillDue, NothingFitted, user.ends = "past", CommitExpiry
  PROVE  /\ \A m \in Monitor : monitors'[m].is_active => monitors[m].is_active /\ m \notin ToPause
         /\ RunningOf(monitors') \subseteq RunningOf(monitors) /\ Existing' \subseteq Existing
<1>1. hk \in HkTask /\ monitors \in Rows /\ hk.rows \in Rows /\ hk.limits \in LimitsOf
  BY TypesOf DEF HkTask
<1> DEFINE new == Fitted(hk.rows, hk.limits, "trial_ended")
<1>2. hk.pc # "idle" /\ Save(hk.rows, new)
  BY DEF CommitExpiry
<1>3. Unfitted
  BY <1>2 DEF StillDue, Unfitted
<1>4. \A m \in Monitor : ByUser(hk.rows[m])
  BY <1>3 DEF NothingFitted
<1>5. \A m \in Monitor : monitors'[m] = Written(monitors[m], hk.rows[m], new[m])
  BY <1>1, <1>2, SavedRows, RowsAreRows DEF PLAN_PAUSE_REASONS
<1>6. ASSUME NEW m \in Monitor, monitors'[m].is_active PROVE monitors[m].is_active /\ m \notin ToPause
  <2>1. monitors'[m] = Written(monitors[m], hk.rows[m], new[m])
    BY <1>5
  <2>2. new[m] = IF m \in ToPause THEN [is_active |-> FALSE, paused_reason |-> "trial_ended"] ELSE hk.rows[m]
    BY <1>1, <1>4, FitOnlyPauses DEF ToPause
  <2>3. m \in ToPause => hk.rows[m].is_active
    BY DEF ToPause
  <2>4. hk.rows[m].is_active \in BOOLEAN
    BY <1>1 DEF Rows, Row
  <2> HIDE DEF new
  <2>5. monitors'[m].is_active
          = IF new[m].is_active # hk.rows[m].is_active THEN new[m].is_active ELSE monitors[m].is_active
    BY <2>1 DEF Written
  <2>6. CASE m \in ToPause
    <3>1. new[m].is_active = FALSE /\ hk.rows[m].is_active = TRUE
      BY <2>2, <2>3, <2>4, <2>6
    <3> QED BY <1>6, <2>5, <3>1
  <2>7. CASE m \notin ToPause
    <3>1. new[m].is_active = hk.rows[m].is_active
      BY <2>2, <2>7
    <3> QED BY <1>6, <2>5, <2>7, <3>1
  <2> QED BY <2>6, <2>7
<1>7. ASSUME NEW m \in Monitor, monitors[m] = Absent PROVE monitors'[m] = Absent
  <2>1. new[m] = hk.rows[m]
    BY <1>2, <1>7 DEF Save
  <2>2. monitors'[m] = [is_active |-> monitors[m].is_active, paused_reason |-> monitors[m].paused_reason]
    BY <1>5, <2>1 DEF Written
  <2> QED BY <1>7, <2>2 DEF Absent
<1> HIDE DEF new
<1> QED BY <1>6, <1>7 DEF RunningOf, Existing

LEMMA ExpiryCount ==
  ASSUME Types, StillDue, NothingFitted, user.ends = "past", CommitExpiry, WithinFree(monitors, ToPause, extra)
  PROVE  WithinFree(monitors', {}, extra')
<1> DEFINE A == RunningBut(monitors', {}, extra')
           B == RunningBut(monitors, ToPause, extra)
<1>1. \A m \in Monitor : monitors'[m].is_active => monitors[m].is_active /\ m \notin ToPause
  BY ExpiryPauses
<1>2. extra' = extra
  BY DEF CommitExpiry
<1>3. A \subseteq B
  BY <1>1, <1>2 DEF RunningBut
<1>4. B \in SUBSET Monitor /\ Cardinality(B) <= Limits["FREE"].monitors
  BY SetsOfCount DEF WithinFree
<1> HIDE DEF A, B
<1>5. Cardinality(A) <= Limits["FREE"].monitors
  BY <1>3, <1>4, Fewer, FreeAllows
<1> QED BY <1>5 DEF WithinFree, A

LEMMA CountStep ==
  Types /\ WebhookKnows /\ OneTrial /\ StillDue /\ NothingFitted /\ LimitsKnown /\ CountKept /\ [Next]_vars
  => CountKept'
<1> SUFFICES ASSUME Types, WebhookKnows, OneTrial, StillDue, NothingFitted, LimitsKnown, CountKept, [Next]_vars,
                    user'.plan = "FREE", user'.ends = "past"
             PROVE  /\ \A s \in Request : RoomFor(s)'
                    /\ user'.expired => WithinFree(monitors', {}, extra')
                    /\ hk'.pc = "loaded" => WithinFree(monitors', ToPause', extra')
  BY DEF CountKept
<1> DEFINE Room == \A s \in Request : RoomFor(s)'
           Goal == /\ Room
                   /\ user'.expired => WithinFree(monitors', {}, extra')
                   /\ hk'.pc = "loaded" => WithinFree(monitors', ToPause', extra')
<1>1. user \in User /\ webhook \in Delivery /\ hk \in HkTask /\ request \in [Request -> Asked]
  BY TypesOf
<1>2. ASSUME user.plan = "FREE", user.ends = "past"
      PROVE  /\ \A s \in Request : RoomFor(s)
             /\ user.expired => WithinFree(monitors, {}, extra)
             /\ hk.pc = "loaded" => WithinFree(monitors, ToPause, extra)
  BY <1>2 DEF CountKept
<1>3. ASSUME monitors' = monitors, request' = request, \A s \in Request : RoomFor(s) PROVE Room
  BY <1>3 DEF RoomFor, Existing
<1>4. ASSUME user' = user, monitors' = monitors, request' = request, extra' = extra,
             hk' = hk \/ hk'.pc # "loaded"
      PROVE  Goal
  <2>1. hk' = hk => ToPause' = ToPause
    BY DEF ToPause
  <2> QED BY <1>2, <1>3, <1>4, <2>1
<1>5. CASE StartTrial
  BY <1>1, <1>5 DEF StartTrial, User
<1>6. CASE TrialEnds
  <2>1. user.ends = "ahead" /\ user'.expired = user.expired /\ hk' = hk
    BY <1>1, <1>6 DEF TrialEnds, User
  <2>2. ~user'.expired /\ hk'.pc = "idle"
    BY <2>1 DEF OneTrial, StillDue
  <2>3. ASSUME NEW s \in Request PROVE RoomFor(s)'
    <3>1. request'[s] = [request[s] EXCEPT !.ends = IF @ = "ahead" THEN "past" ELSE @,
                                           !.late = @ \/ (request[s].pc = "checked" /\ Adds(request[s]))]
      BY <1>6 DEF TrialEnds, Outlived
    <3>2. /\ request'[s].pc = request[s].pc /\ request'[s].op = request[s].op
          /\ request'[s].late = (request[s].late \/ (request[s].pc = "checked" /\ Adds(request[s])))
      BY <1>1, <3>1 DEF Asked
    <3> QED BY <3>2 DEF RoomFor, Adds
  <2> QED BY <2>2, <2>3
<1>7. ASSUME NEW r \in Request,
             \/ \E op \in {"create", "pause", "resume", "delete"}, m \in Monitor \cup {0} : Begin(r, op, m)
             \/ Check(r) \/ Refuse(r)
      PROVE  Goal
  <2>1. user' = user /\ hk' = hk /\ monitors' = monitors /\ extra' = extra
    BY <1>7 DEF Begin, Check, Refuse
  <2>2. ToPause' = ToPause
    BY <2>1 DEF ToPause
  <2>3. \A s \in Request \ {r} : request'[s] = request[s]
    BY <1>7, BeginCopies, CheckMarks, RefuseForgets
  <2>4. \A s \in Request \ {r} : RoomFor(s)'
    BY <1>2, <2>1, <2>3 DEF RoomFor, Existing
  <2>5. RoomFor(r)'
    <3>1. CASE Check(r)
      BY <2>1, <3>1, CheckFindsRoom
    <3>2. CASE ~Check(r)
      <4>1. request'[r].pc # "checked"
        BY <1>7, <3>2, BeginCopies, RefuseForgets, NoRequestAsks
      <4> QED BY <4>1 DEF RoomFor
    <3> QED BY <3>1, <3>2
  <2>6. Room
    BY <2>4, <2>5
  <2> QED BY <1>2, <2>1, <2>2, <2>6
<1>8. ASSUME NEW r \in Request, CommitRequest(r) PROVE Goal
  <2>1. user' = user /\ hk' = hk
    BY <1>8 DEF CommitRequest
  <2>2. ToPause' = ToPause
    BY <2>1 DEF ToPause
  <2>3. Room
    BY <1>2, <1>8, <2>1, CommitKeepsRoom
  <2>4. ASSUME user.expired PROVE WithinFree(monitors', {}, extra')
    BY <1>2, <1>8, <2>1, <2>4, CommitKeepsCount DEF HasCounted
  <2>5. ASSUME hk.pc = "loaded" PROVE WithinFree(monitors', ToPause, extra')
    BY <1>2, <1>8, <2>1, <2>5, CommitKeepsCount DEF HasCounted
  <2> QED BY <2>1, <2>2, <2>3, <2>4, <2>5
<1>9. CASE SelectDue \/ CommitOther \/ ReadLimits \/ AbortTask
  <2>1. user' = user /\ monitors' = monitors /\ request' = request /\ extra' = extra
    BY <1>9 DEF SelectDue, CommitOther, ReadLimits, AbortTask
  <2>2. hk' = hk \/ hk'.pc # "loaded"
    <3>1. CASE SelectDue \/ ReadLimits
      BY <1>1, <3>1 DEF SelectDue, ReadLimits, HkTask
    <3>2. CASE CommitOther \/ AbortTask
      BY <3>2 DEF CommitOther, AbortTask, NoTask
    <3> QED BY <1>9, <3>1, <3>2
  <2> QED BY <1>4, <2>1, <2>2
<1>10. CASE LoadMonitors
  <2>1. user' = user /\ monitors' = monitors /\ request' = request /\ hk.pc # "idle"
    BY <1>10 DEF LoadMonitors
  <2>2. ~user.expired
    BY <2>1 DEF StillDue
  <2>3. WithinFree(monitors', ToPause', extra')
    BY <1>10, <2>1, LoadedCount
  <2> QED BY <1>2, <1>3, <2>1, <2>2, <2>3
<1>11. CASE CommitExpiry
  <2>1. /\ user'.plan = user.plan /\ user'.ends = user.ends /\ hk.pc = "loaded" /\ hk'.pc = "idle"
        /\ request' = request
    BY <1>1, <1>11 DEF CommitExpiry, User, NoTask
  <2>2. WithinFree(monitors, ToPause, extra)
    BY <1>2, <2>1
  <2>3. WithinFree(monitors', {}, extra')
    BY <1>11, <2>1, <2>2, ExpiryCount
  <2>4. RunningOf(monitors') \subseteq RunningOf(monitors) /\ Existing' \subseteq Existing
    BY <1>11, <2>1, ExpiryPauses
  <2>5. Room
    BY <1>2, <2>1, <2>4, RoomKept
  <2> QED BY <2>1, <2>3, <2>5
<1>12. CASE CommitEvent
  <2>1. /\ user.ends = "past" /\ user'.expired = user.expired /\ monitors' = monitors /\ NewPlan = "FREE"
    BY <1>12, PastStaysFree
  <2>2. hk' = hk /\ extra' = extra
    BY <1>12 DEF CommitEvent
  <2>3. ToPause' = ToPause
    BY <2>2 DEF ToPause
  <2>4. user.expired \/ hk.pc = "loaded" => user.plan = "FREE"
    BY <2>1 DEF OneTrial, StillDue
  <2>5. ASSUME NEW s \in Request PROVE RoomFor(s)'
    <3>1. request'[s] = [request[s] EXCEPT !.late = @ \/ (PlanChanges /\ Adds(request[s]))]
      BY <1>12 DEF CommitEvent
    <3>2. /\ request'[s].pc = request[s].pc /\ request'[s].op = request[s].op
          /\ request'[s].n = request[s].n /\ request'[s].row = request[s].row
          /\ request'[s].late = (request[s].late \/ (PlanChanges /\ Adds(request[s])))
      BY <1>1, <3>1 DEF Asked
    <3>3. CASE PlanChanges
      BY <3>2, <3>3 DEF RoomFor, Adds
    <3>4. CASE ~PlanChanges
      <4>1. user.plan = "FREE"
        BY <1>12, <2>1, <3>4 DEF PlanChanges, WebhookKnows, CommitEvent
      <4>2. RoomFor(s) /\ Existing' = Existing
        BY <1>2, <2>1, <4>1 DEF Existing
      <4> QED BY <2>1, <3>2, <4>2, RoomKept
    <3> QED BY <3>3, <3>4
  <2> QED BY <1>2, <2>1, <2>2, <2>3, <2>4, <2>5
<1>13. CASE AbortEvent \/ ClearTrial \/ Flush \/ LoadForPlan \/ UNCHANGED vars
  <2>1. user' = user /\ hk' = hk /\ monitors' = monitors /\ request' = request /\ extra' = extra
    BY <1>13 DEF AbortEvent, ClearTrial, Flush, LoadForPlan, vars
  <2> QED BY <1>4, <2>1
<1>14. ASSUME NEW event \in Plan \cup {"same"}, Receive(event) PROVE Goal
  <2>1. user' = user /\ hk' = hk /\ monitors' = monitors /\ request' = request /\ extra' = extra
    BY <1>14 DEF Receive
  <2> QED BY <1>4, <2>1
<1> QED BY <1>5, <1>6, <1>7, <1>8, <1>9, <1>10, <1>11, <1>12, <1>13, <1>14, EveryStep

LEMMA FreeInit == Init => FreeInv
<1> SUFFICES ASSUME Init PROVE FreeInv
  OBVIOUS
<1>1. Types
  BY TypesInit
<1>2. webhook = NoEvent /\ hk = NoTask /\ monitors = NoRows
      /\ user = [plan |-> "FREE", ends |-> "none", used |-> FALSE, expired |-> FALSE]
      /\ \A r \in Request : request[r] = NoRequest
  BY DEF Init
<1>3. WebhookKnows
  BY <1>2 DEF NoEvent, WebhookKnows
<1>4. OneTrial /\ StillDue
  BY <1>2 DEF NoEvent, NoTask, OneTrial, StillDue
<1>5. NothingFitted
  BY <1>2 DEF NothingFitted, ByUser, NoEvent, NoTask, NoRows, NoRequest, Absent, PLAN_PAUSE_REASONS
<1>6. CountKept
  BY <1>2 DEF CountKept
<1>7. LimitsKnown
  BY <1>2 DEF LimitsKnown, NoRequest
<1> QED BY <1>1, <1>3, <1>4, <1>5, <1>6, <1>7 DEF FreeInv

LEMMA FreeInvariance == Spec => []FreeInv
<1>1. FreeInv /\ [Next]_vars => FreeInv'
  BY TypesStep, KnowsStep, OneTrialStep, StillDueStep, NothingFittedStep, LimitsKnownStep, CountStep DEF FreeInv
<1> QED BY <1>1, FreeInit, PTL DEF Spec

\* However the user, bulk adds of any size, the hourly task and the webhook interleave, a
\* Free account whose trial was wound up runs no more than the Free plan allows, but for
\* what a request adds after the task has counted and on an answer that had gone stale.
THEOREM FreeIsFree == Spec => []FreeAfterTrial
<1>1. FreeInv => FreeAfterTrial
  <2> SUFFICES ASSUME FreeInv, user.plan = "FREE", user.ends = "past", user.expired
               PROVE  Cardinality({m \in Monitor \ extra : monitors[m].is_active}) <= Limits["FREE"].monitors
    BY DEF FreeAfterTrial
  <2>1. RunningBut(monitors, {}, extra) = {m \in Monitor \ extra : monitors[m].is_active}
    BY DEF RunningBut
  <2>2. WithinFree(monitors, {}, extra)
    BY DEF FreeInv, CountKept
  <2> QED BY <2>1, <2>2 DEF WithinFree
<1> QED BY <1>1, FreeInvariance, PTL

-----------------------------------------------------------------------------
(* The upgrade.                                                            *)

LEMMA WrittenFields ==
  ASSUME NEW row, NEW loaded, NEW new
  PROVE  /\ Written(row, loaded, new).is_active
              = IF new.is_active # loaded.is_active THEN new.is_active ELSE row.is_active
         /\ Written(row, loaded, new).paused_reason
              = IF new.paused_reason # loaded.paused_reason THEN new.paused_reason ELSE row.paused_reason
BY DEF Written

\* What runs after a fit has no plan's reason for a pause, or ran before with the one
\* it has.
LEMMA FitIsWhole ==
  ASSUME monitors \in Rows, NEW loaded \in Rows, NEW limits \in LimitsOf,
         NEW reason \in PLAN_PAUSE_REASONS, Save(loaded, Fitted(loaded, limits, reason)),
         NEW m \in Monitor
  PROVE  monitors'[m].is_active
         => \/ ByUser(monitors'[m])
            \/ monitors[m].is_active /\ monitors'[m].paused_reason = monitors[m].paused_reason
<1> DEFINE new == Fitted(loaded, limits, reason)
<1>1. monitors'[m] = Written(monitors[m], loaded[m], new[m])
  BY SavedRows, RowsAreRows
<1>2. monitors[m] \in Row /\ loaded[m] \in Row
  BY DEF Rows
<1>3. \/ new[m] = loaded[m]
      \/ ByPlan(loaded[m]) /\ new[m] = Running
      \/ loaded[m].is_active /\ new[m] = [is_active |-> FALSE, paused_reason |-> reason]
  BY FitChanges
<1> HIDE DEF new
<1>4. /\ monitors'[m].is_active = IF new[m].is_active # loaded[m].is_active THEN new[m].is_active ELSE monitors[m].is_active
      /\ monitors'[m].paused_reason = IF new[m].paused_reason # loaded[m].paused_reason
                                      THEN new[m].paused_reason ELSE monitors[m].paused_reason
  BY <1>1, WrittenFields
<1>5. CASE new[m] = loaded[m]
  BY <1>4, <1>5
<1>6. CASE ByPlan(loaded[m]) /\ new[m] = Running
  <2>1. monitors'[m].paused_reason = "none"
    BY <1>4, <1>6 DEF ByPlan, Running, PLAN_PAUSE_REASONS
  <2> QED BY <2>1 DEF ByUser, PLAN_PAUSE_REASONS
<1>7. CASE loaded[m].is_active /\ new[m] = [is_active |-> FALSE, paused_reason |-> reason]
  <2>1. loaded[m].is_active = TRUE /\ new[m].is_active = FALSE
    BY <1>2, <1>7 DEF Row
  <2> QED BY <1>4, <2>1
<1> QED BY <1>3, <1>5, <1>6, <1>7

\* With room for all of them nothing stays paused by a plan that the webhook saw.
LEMMA UpgradeResumes ==
  ASSUME monitors \in Rows, NEW loaded \in Rows, NEW plan \in Plan, RoomForAll(plan),
         Save(loaded, Fitted(loaded, Limits[plan], "plan_limit")),
         \A m \in Monitor : ByPlan(monitors[m]) => ByPlan(loaded[m])
  PROVE  \A m \in Monitor : ~ByPlan(monitors'[m])
<1> SUFFICES ASSUME NEW m \in Monitor PROVE ~ByPlan(monitors'[m])
  OBVIOUS
<1> DEFINE new == Fitted(loaded, Limits[plan], "plan_limit")
<1>1. monitors'[m] = Written(monitors[m], loaded[m], new[m])
  BY SavedRows, RowsAreRows, LimitsAreLimits DEF PLAN_PAUSE_REASONS
<1>2. new[m] = IF ByPlan(loaded[m]) THEN Running ELSE loaded[m]
  BY FitOnlyResumes
<1>3. monitors[m] \in Row /\ loaded[m] \in Row
  BY DEF Rows
<1> HIDE DEF new
<1>4. CASE ByPlan(loaded[m])
  <2>1. loaded[m].is_active = FALSE /\ new[m].is_active = TRUE
    BY <1>2, <1>3, <1>4 DEF ByPlan, Row, Running
  <2>2. monitors'[m].is_active = TRUE
    BY <1>1, <2>1 DEF Written
  <2> QED BY <2>2 DEF ByPlan
<1>5. CASE ~ByPlan(loaded[m])
  <2>1. /\ monitors'[m].is_active = monitors[m].is_active
        /\ monitors'[m].paused_reason = monitors[m].paused_reason
    BY <1>1, <1>2, <1>5 DEF Written
  <2> QED BY <1>5, <2>1 DEF ByPlan
<1> QED BY <1>4, <1>5

\* A request that commits pauses nothing by plan.
LEMMA RequestIsUsers ==
  ASSUME Types, PauseIsWhole, NEW r \in Request, CommitRequest(r)
  PROVE  \A m \in Monitor : ByPlan(monitors'[m]) => ByPlan(monitors[m])
<1> SUFFICES ASSUME NEW m \in Monitor, ByPlan(monitors'[m]), monitors'[m] # monitors[m]
             PROVE  ByPlan(monitors[m])
  OBVIOUS
<1> DEFINE row == request[r].row
<1>1. \/ request[r].op = "create" /\ monitors'[m] = Running
      \/ /\ m = request[r].m
         /\ \/ request[r].op = "pause" /\ monitors'[m] = Written(monitors[m], row, UserPaused)
            \/ request[r].op = "resume" /\ monitors'[m] = Written(monitors[m], row, Running)
            \/ request[r].op = "delete" /\ monitors'[m] = Absent
  BY CommitRows
<1>2. request[r].pc = "checked" /\ row \in Row /\ monitors[m] \in Row
  BY CommitForgets, TypesOf DEF Asked, Rows
<1>3. ByPlan(monitors'[m])
  OBVIOUS
<1>4. \A new : /\ Written(monitors[m], row, new).is_active
                    = IF new.is_active # row.is_active THEN new.is_active ELSE monitors[m].is_active
               /\ Written(monitors[m], row, new).paused_reason
                    = IF new.paused_reason # row.paused_reason THEN new.paused_reason ELSE monitors[m].paused_reason
  BY WrittenFields
<1>5. CASE monitors'[m] = Running \/ monitors'[m] = Absent
  BY <1>3, <1>5 DEF ByPlan, Running, Absent, PLAN_PAUSE_REASONS
<1>6. CASE request[r].op = "pause" /\ m = request[r].m /\ monitors'[m] = Written(monitors[m], row, UserPaused)
  <2>1. row.paused_reason = "none" /\ monitors[m].paused_reason \in PLAN_PAUSE_REASONS
    BY <1>3, <1>4, <1>6 DEF ByPlan, UserPaused, PLAN_PAUSE_REASONS
  <2>2. ByUser(row) /\ ~ByUser(monitors[m])
    BY <2>1 DEF ByUser, PLAN_PAUSE_REASONS
  <2>3. row.is_active => ~monitors[m].is_active
    BY <1>2, <1>6, <2>2 DEF PauseIsWhole
  <2>4. ~row.is_active => ~monitors[m].is_active
    <3>1. row.is_active \in BOOLEAN /\ UserPaused.is_active = FALSE
      BY <1>2 DEF Row, UserPaused
    <3>2. ASSUME ~row.is_active PROVE monitors'[m].is_active = monitors[m].is_active
      <4>1. Written(monitors[m], row, UserPaused).is_active
              = IF UserPaused.is_active # row.is_active THEN UserPaused.is_active ELSE monitors[m].is_active
        BY <1>4, Zenon
      <4>2. UserPaused.is_active = row.is_active
        BY <3>1, <3>2
      <4> QED BY <1>6, <4>1, <4>2
    <3> QED BY <1>3, <3>2 DEF ByPlan
  <2> QED BY <2>1, <2>3, <2>4 DEF ByPlan
<1>7. CASE request[r].op = "resume" /\ monitors'[m] = Written(monitors[m], row, Running)
  <2>1. monitors[m].paused_reason \in PLAN_PAUSE_REASONS
    BY <1>3, <1>4, <1>7 DEF ByPlan, Running, PLAN_PAUSE_REASONS
  <2>2. row.is_active \in BOOLEAN /\ Running.is_active = TRUE
    BY <1>2 DEF Row, Running
  <2>3. ~monitors[m].is_active
    BY <1>3, <1>4, <1>7, <2>2 DEF ByPlan
  <2> QED BY <2>1, <2>3 DEF ByPlan
<1> QED BY <1>1, <1>5, <1>6, <1>7

\* No resume overlaps a pause of the same monitor.  The two write the columns they
\* changed, from different copies, and can leave the user's pause with the reason of the
\* plan; all other requests may overlap, with each other and with these.
NoCrossing ==
  \A r, s \in Request :
    /\ request[r].pc # "idle" /\ request[r].op = "pause"
    /\ request[s].pc # "idle" /\ request[s].op = "resume"
    => request[r].m # request[s].m

\* Another request than a resume that commits at a monitor about to be paused leaves no
\* plan's reason on it while it runs.
LEMMA CommitIsWhole ==
  ASSUME NoCrossing, Types, PauseIsWhole, NEW s \in Request, CommitRequest(s),
         NEW r \in Request, r # s,
         request[r].pc # "idle", request[r].op = "pause",
         request[r].row.is_active, ByUser(request[r].row),
         monitors'[request[r].m].is_active
  PROVE  ByUser(monitors'[request[r].m])
<1> DEFINE row == request[s].row
           m  == request[r].m
<1>1. m \in Monitor /\ request[s].pc = "checked" /\ row \in Row /\ monitors[m] \in Row
  <2>1. m \in Monitor
    BY TypesOf
  <2> QED BY <2>1, CommitForgets, TypesOf DEF Asked, Rows
<1>2. \/ monitors'[m] = monitors[m]
      \/ monitors'[m] = Running \/ monitors'[m] = Absent
      \/ monitors'[m] = Written(monitors[m], row, UserPaused)
      \/ request[s].op = "resume" /\ m = request[s].m
  BY <1>1, CommitRows
<1> HIDE DEF m
<1>3. CASE monitors'[m] = monitors[m]
  <2>1. ByUser(monitors[m])
    BY <1>3 DEF PauseIsWhole, m
  <2> QED BY <1>3, <2>1 DEF m
<1>4. CASE monitors'[m] = Running \/ monitors'[m] = Absent
  BY <1>4 DEF ByUser, Running, Absent, PLAN_PAUSE_REASONS, m
<1>5. CASE request[s].op = "resume" /\ m = request[s].m
  BY <1>1, <1>5 DEF NoCrossing, m
<1>6. CASE monitors'[m] = Written(monitors[m], row, UserPaused)
  <2>1. /\ monitors'[m].is_active = IF UserPaused.is_active # row.is_active THEN UserPaused.is_active
                                    ELSE monitors[m].is_active
        /\ monitors'[m].paused_reason = IF UserPaused.paused_reason # row.paused_reason THEN UserPaused.paused_reason
                                        ELSE monitors[m].paused_reason
    BY <1>6, WrittenFields
  <2>2. UserPaused.is_active = FALSE /\ UserPaused.paused_reason = "none"
    BY DEF UserPaused
  <2>3. monitors[m].is_active
    BY <1>6, <2>1, <2>2 DEF m
  <2>4. ByUser(monitors[m])
    BY <1>6, <2>3 DEF PauseIsWhole, m
  <2>5. monitors'[m].paused_reason = "none" \/ monitors'[m].paused_reason = monitors[m].paused_reason
    BY <2>1, <2>2
  <2> QED BY <1>6, <2>4, <2>5 DEF ByUser, PLAN_PAUSE_REASONS, m
<1> QED BY <1>2, <1>3, <1>4, <1>5, <1>6

LEMMA PauseStep == NoCrossing /\ Types /\ PauseIsWhole /\ [Next]_vars => PauseIsWhole'
<1> SUFFICES ASSUME NoCrossing, Types, PauseIsWhole, [Next]_vars, NEW r \in Request,
                    request'[r].pc # "idle", request'[r].op = "pause",
                    request'[r].row.is_active, ByUser(request'[r].row),
                    monitors'[request'[r].m].is_active
             PROVE  ByUser(monitors'[request'[r].m])
  BY DEF PauseIsWhole, ByUser
<1>1. ASSUME request'[r] = request[r], monitors' = monitors
      PROVE  ByUser(monitors'[request'[r].m])
  BY <1>1 DEF PauseIsWhole
<1>2. \A s \in Request : request[s].pc # "idle" /\ request[s].op # "create" => request[s].m \in Monitor
  BY TypesOf
<1>3. ASSUME NEW s \in Request, NEW op \in {"create", "pause", "resume", "delete"},
             NEW m \in Monitor \cup {0}, Begin(s, op, m)
      PROVE  ByUser(monitors'[request'[r].m])
  <2>1. monitors' = monitors
    BY <1>3 DEF Begin
  <2>2. CASE s = r
    <3>1. op = "pause" /\ request'[r].m = m /\ request'[r].row = monitors[m]
      BY <1>3, <2>2, BeginCopies
    <3> QED BY <2>1, <3>1
  <2>3. CASE s # r
    <3>1. request'[r] = request[r]
      BY <1>3, <2>3, BeginCopies
    <3> QED BY <1>1, <2>1, <3>1
  <2> QED BY <2>2, <2>3
<1>4. ASSUME NEW s \in Request, Check(s)
      PROVE  ByUser(monitors'[request'[r].m])
  <2>1. monitors' = monitors
    BY <1>4 DEF Check
  <2>2. CASE s = r
    <3>1. /\ request[r].pc = "begun" /\ request'[r].op = request[r].op /\ request'[r].m = request[r].m
          /\ request'[r].row = request[r].row
      BY <1>4, <2>2, CheckMarks
    <3> QED BY <2>1, <3>1 DEF PauseIsWhole
  <2>3. CASE s # r
    <3>1. request'[r] = request[r]
      BY <1>4, <2>3, CheckMarks
    <3> QED BY <1>1, <2>1, <3>1
  <2> QED BY <2>2, <2>3
<1>5. ASSUME NEW s \in Request, CommitRequest(s) \/ Refuse(s)
      PROVE  ByUser(monitors'[request'[r].m])
  <2>1. request'[s] = NoRequest
    BY <1>5, CommitForgets, RefuseForgets
  <2>2. s # r
    BY <2>1 DEF NoRequest
  <2>3. CASE Refuse(s)
    <3>1. monitors' = monitors /\ request'[r] = request[r]
      BY <2>2, <2>3, RefuseForgets DEF Refuse
    <3> QED BY <1>1, <3>1
  <2>4. CASE CommitRequest(s)
    <3>1. /\ request'[r].pc = request[r].pc /\ request'[r].op = request[r].op
          /\ request'[r].m = request[r].m /\ request'[r].row = request[r].row
      BY <2>2, <2>4, CommitForgets
    <3> QED BY <2>2, <2>4, <3>1, CommitIsWhole
  <2> QED BY <1>5, <2>3, <2>4
<1> DEFINE Asks == /\ request'[r].pc = request[r].pc /\ request'[r].op = request[r].op
                   /\ request'[r].m = request[r].m /\ request'[r].row = request[r].row
<1>6. ASSUME Asks, monitors' = monitors
      PROVE  ByUser(monitors'[request'[r].m])
  BY <1>6 DEF PauseIsWhole
<1>7. ASSUME Asks,
             NEW loaded \in Rows, NEW limits \in LimitsOf,
             NEW reason \in PLAN_PAUSE_REASONS, Save(loaded, Fitted(loaded, limits, reason))
      PROVE  ByUser(monitors'[request'[r].m])
  <2> DEFINE m == request[r].m
  <2>1. m \in Monitor /\ monitors \in Rows /\ request'[r].m = m
    BY <1>2, <1>7, TypesOf
  <2>2. \/ ByUser(monitors'[m])
        \/ monitors[m].is_active /\ monitors'[m].paused_reason = monitors[m].paused_reason
    BY <1>7, <2>1, FitIsWhole
  <2>3. monitors[m].is_active => ByUser(monitors[m])
    BY <1>7 DEF PauseIsWhole
  <2> QED BY <2>1, <2>2, <2>3 DEF ByUser
<1>8. CASE CommitExpiry
  <2>1. hk.rows \in Rows /\ hk.limits \in LimitsOf /\ "trial_ended" \in PLAN_PAUSE_REASONS
    BY TypesOf DEF HkTask, PLAN_PAUSE_REASONS
  <2>2. request' = request /\ Save(hk.rows, Fitted(hk.rows, hk.limits, "trial_ended"))
    BY <1>8 DEF CommitExpiry
  <2> QED BY <1>7, <2>1, <2>2
<1>9. CASE CommitEvent
  <2>1. webhook.rows \in Rows /\ NewPlan \in Plan /\ "plan_limit" \in PLAN_PAUSE_REASONS
    BY TypesOf DEF Delivery, NewPlan, PLAN_PAUSE_REASONS
  <2>2. Limits[NewPlan] \in LimitsOf
    BY <2>1, LimitsAreLimits
  <2>3. Save(webhook.rows, Fitted(webhook.rows, Limits[NewPlan], "plan_limit")) \/ monitors' = monitors
    BY <1>9 DEF CommitEvent
  <2>4. Asks
    BY <1>9, RequestsAge
  <2> QED BY <1>6, <1>7, <2>1, <2>2, <2>3, <2>4
<1>10. CASE TrialEnds
  <2>1. Asks /\ monitors' = monitors
    BY <1>10, RequestsAge DEF TrialEnds
  <2> QED BY <1>6, <2>1
<1>11. CASE \/ StartTrial
            \/ SelectDue \/ CommitOther \/ ReadLimits \/ LoadMonitors \/ AbortTask
            \/ (\E event \in Plan \cup {"same"} : Receive(event))
            \/ Flush \/ ClearTrial \/ LoadForPlan \/ AbortEvent \/ UNCHANGED vars
  <2>1. request' = request /\ monitors' = monitors
    BY <1>11 DEF StartTrial, SelectDue, CommitOther, ReadLimits, LoadMonitors, AbortTask,
                 Receive, Flush, ClearTrial, LoadForPlan, AbortEvent, vars
  <2> QED BY <1>6, <2>1
<1> QED BY <1>3, <1>4, <1>5, <1>8, <1>9, <1>11, <1>10, EveryStep

\* As long as no lock was given up early, the task keeps off what the webhook changes.
LEMMA LocksStep ==
  Types /\ WebhookKnows /\ ~split' /\ LocksExclude /\ [Next]_vars => LocksExclude'
<1> SUFFICES ASSUME Types, WebhookKnows, ~split', LocksExclude, [Next]_vars
             PROVE  /\ hk'.pc # "idle" => lock' = "hk" /\ user'.plan = "FREE"
                    /\ webhook'.pc \in {"flushed", "fitting", "done", "fitted"} /\ PlanChanges' => lock' = "webhook"
  BY DEF LocksExclude
<1> DEFINE A == hk'.pc # "idle" => lock' = "hk" /\ user'.plan = "FREE"
           B == webhook'.pc \in {"flushed", "fitting", "done", "fitted"} /\ PlanChanges' => lock' = "webhook"
<1>1. user \in User /\ webhook \in Delivery /\ hk \in HkTask
  BY TypesOf
<1>2. ASSUME webhook' = webhook, lock' = lock \/ lock # "webhook" PROVE B
  BY <1>2 DEF LocksExclude, PlanChanges, NewPlan
<1>3. ASSUME hk' = hk, user'.plan = user.plan, lock' = lock \/ lock # "hk" PROVE A
  BY <1>3 DEF LocksExclude
<1>4. CASE StartTrial \/ TrialEnds
  <2>1. user'.plan = user.plan /\ hk' = hk /\ webhook' = webhook /\ lock' = lock
    BY <1>1, <1>4 DEF StartTrial, TrialEnds, User
  <2> QED BY <1>2, <1>3, <2>1
<1>5. ASSUME UNCHANGED <<user, lock, hk, webhook>> PROVE A /\ B
  BY <1>2, <1>3, <1>5
<1>6. CASE SelectDue
  <2>1. user.plan = "FREE" /\ user' = user /\ lock = "none" /\ lock' = "hk" /\ webhook' = webhook
    BY <1>6 DEF SelectDue, Due
  <2> QED BY <1>2, <2>1
<1>7. CASE CommitOther
  BY <1>7 DEF CommitOther
<1>8. CASE ReadLimits \/ LoadMonitors
  <2>1. hk.pc # "idle" /\ UNCHANGED <<user, lock, webhook>>
    BY <1>8 DEF ReadLimits, LoadMonitors
  <2> QED BY <1>2, <2>1 DEF LocksExclude
<1>9. CASE CommitExpiry \/ AbortTask
  <2>1. hk'.pc = "idle" /\ webhook' = webhook /\ (lock' = lock \/ lock # "webhook")
    BY <1>9 DEF CommitExpiry, AbortTask, NoTask, Unlock
  <2> QED BY <1>2, <2>1
<1>10. ASSUME NEW event \in Plan \cup {"same"}, Receive(event) PROVE A /\ B
  <2>1. webhook'.pc = "received" /\ UNCHANGED <<user, lock, hk>>
    BY <1>10 DEF Receive, NoEvent
  <2> QED BY <1>3, <2>1
<1>11. CASE Flush
  <2>1. /\ webhook'.plan = webhook.plan /\ webhook'.event = webhook.event /\ user' = user /\ hk' = hk
        /\ (lock = "none" /\ lock' = "webhook") \/ (~PlanChanges /\ lock' = lock)
    BY <1>1, <1>11 DEF Flush, Delivery
  <2>2. PlanChanges' <=> PlanChanges
    BY <2>1 DEF PlanChanges, NewPlan
  <2>3. A
    BY <1>3, <2>1 DEF LocksExclude
  <2> QED BY <2>1, <2>2, <2>3
<1>12. CASE ClearTrial \/ LoadForPlan
  <2>1. /\ webhook'.plan = webhook.plan /\ webhook'.event = webhook.event /\ UNCHANGED <<user, lock, hk>>
        /\ webhook.pc \in {"flushed", "fitting"}
    BY <1>1, <1>12 DEF ClearTrial, LoadForPlan, Delivery
  <2>2. PlanChanges' <=> PlanChanges
    BY <2>1 DEF PlanChanges, NewPlan
  <2>3. A
    BY <1>3, <2>1
  <2> QED BY <2>1, <2>2, <2>3 DEF LocksExclude
<1>13. CASE CommitEvent
  <2>1. webhook'.pc = "idle" /\ hk' = hk /\ lock' = (IF lock = "webhook" THEN "none" ELSE lock)
    BY <1>13 DEF CommitEvent, NoEvent, Unlock
  <2>2. CASE PlanChanges
    <3>1. lock = "webhook"
      BY <1>13, <2>2 DEF CommitEvent, LocksExclude
    <3>2. hk.pc = "idle"
      BY <3>1 DEF LocksExclude
    <3> QED BY <2>1, <3>2
  <2>3. CASE ~PlanChanges
    <3>1. user'.plan = user.plan
      BY <1>1, <1>13, <2>3 DEF CommitEvent, User
    <3> QED BY <2>1, <3>1 DEF LocksExclude
  <2> QED BY <2>2, <2>3
<1>14. CASE AbortEvent
  <2>1. webhook'.pc = "idle" /\ hk' = hk /\ user' = user /\ (lock' = lock \/ lock # "hk")
    BY <1>14 DEF AbortEvent, NoEvent, Unlock
  <2> QED BY <1>3, <2>1
<1>15. CASE \/ \E r \in Request, op \in {"create", "pause", "resume", "delete"}, m \in Monitor \cup {0} : Begin(r, op, m)
            \/ \E r \in Request : Check(r)
            \/ \E r \in Request : CommitRequest(r)
            \/ \E r \in Request : Refuse(r)
            \/ UNCHANGED vars
  <2>1. UNCHANGED <<user, lock, hk, webhook>>
    BY <1>15 DEF Begin, Check, CommitRequest, Refuse, vars
  <2> QED BY <1>5, <2>1
<1> QED BY <1>4, <1>6, <1>7, <1>8, <1>9, <1>10, <1>11, <1>12, <1>13, <1>14, <1>15, EveryStep

\* While the webhook is about to commit a paid plan the task does not commit.
LEMMA TaskKeepsOff ==
  ASSUME WebhookKnows, LocksExclude, CommitExpiry,
         webhook.pc \in {"done", "fitted"}, NewPlan # "FREE"
  PROVE  FALSE
<1>1. lock = "hk" /\ user.plan = "FREE"
  BY DEF CommitExpiry, LocksExclude
<1>2. PlanChanges
  BY <1>1 DEF WebhookKnows, PlanChanges
<1> QED BY <1>1, <1>2 DEF LocksExclude

\* Only a fit, of the task or of the webhook, has a plan pause a monitor.
LEMMA PlansPause ==
  ASSUME Types, PauseIsWhole, [Next]_vars, ~CommitExpiry, ~CommitEvent
  PROVE  \A m \in Monitor : ByPlan(monitors'[m]) => ByPlan(monitors[m])
<1>1. ASSUME NEW r \in Request, CommitRequest(r)
      PROVE  \A m \in Monitor : ByPlan(monitors'[m]) => ByPlan(monitors[m])
  BY <1>1, RequestIsUsers
<1>2. ASSUME monitors' = monitors PROVE \A m \in Monitor : ByPlan(monitors'[m]) => ByPlan(monitors[m])
  BY <1>2
<1>3. monitors' = monitors \/ \E r \in Request : CommitRequest(r)
  BY EveryStep DEF StartTrial, TrialEnds, SelectDue, CommitOther, ReadLimits, LoadMonitors, AbortTask,
                   Begin, Check, Refuse, Receive, Flush, ClearTrial, LoadForPlan, AbortEvent, vars
<1> QED BY <1>1, <1>2, <1>3

LEMMA NonePaused == PausedByPlan = {} <=> \A m \in Monitor : ~ByPlan(monitors[m])
BY DEF PausedByPlan, ByPlan

LEMMA SeesStep ==
  Types /\ WebhookKnows /\ PauseIsWhole /\ LocksExclude /\ UpgradeSees /\ [Next]_vars => UpgradeSees'
<1> SUFFICES ASSUME Types, WebhookKnows, PauseIsWhole, LocksExclude, UpgradeSees, [Next]_vars
             PROVE  /\ webhook'.pc = "done" /\ NewPlan' # "FREE" => \A m \in Monitor : ~ByPlan(monitors'[m])
                    /\ webhook'.pc = "fitted" => \A m \in Monitor : ByPlan(monitors'[m]) => ByPlan(webhook'.rows[m])
  BY DEF UpgradeSees, ByPlan, PausedByPlan
<1> DEFINE A == webhook'.pc = "done" /\ NewPlan' # "FREE" => \A m \in Monitor : ~ByPlan(monitors'[m])
           B == webhook'.pc = "fitted" => \A m \in Monitor : ByPlan(monitors'[m]) => ByPlan(webhook'.rows[m])
<1>1. user \in User /\ webhook \in Delivery
  BY TypesOf
<1>2. /\ webhook.pc = "done" /\ NewPlan # "FREE" => \A m \in Monitor : ~ByPlan(monitors[m])
      /\ webhook.pc = "fitted" => NewPlan # "FREE" /\ \A m \in Monitor : ByPlan(monitors[m]) => ByPlan(webhook.rows[m])
  BY NonePaused DEF UpgradeSees, WebhookKnows
<1>3. CASE webhook' = webhook
  <2>1. NewPlan' = NewPlan
    BY <1>3 DEF NewPlan
  <2>2. CASE CommitExpiry
    <3>1. ~(webhook.pc \in {"done", "fitted"} /\ NewPlan # "FREE")
      BY <2>2, TaskKeepsOff
    <3> QED BY <1>2, <1>3, <2>1, <3>1
  <2>3. CASE ~CommitExpiry /\ ~CommitEvent
    <3>1. \A m \in Monitor : ByPlan(monitors'[m]) => ByPlan(monitors[m])
      BY <2>3, PlansPause
    <3> QED BY <1>2, <1>3, <2>1, <3>1
  <2>4. ~CommitEvent
    BY <1>3 DEF CommitEvent, NoEvent
  <2> QED BY <2>2, <2>3, <2>4
<1>4. CASE webhook'.pc \notin {"done", "fitted"}
  BY <1>4
<1>5. CASE ClearTrial
  <2>1. /\ webhook'.plan = webhook.plan /\ webhook'.event = webhook.event /\ monitors' = monitors
        /\ webhook'.pc = IF NeedsFit THEN "fitting" ELSE "done"
    BY <1>1, <1>5 DEF ClearTrial, Delivery
  <2>2. NewPlan' = NewPlan
    BY <2>1 DEF NewPlan
  <2>3. ~NeedsFit /\ NewPlan # "FREE" => \A m \in Monitor : ~ByPlan(monitors[m])
    BY NonePaused DEF NeedsFit
  <2> QED BY <2>1, <2>2, <2>3
<1>6. CASE LoadForPlan
  <2>1. webhook'.pc = "fitted" /\ webhook'.rows = monitors /\ monitors' = monitors
    BY <1>1, <1>6 DEF LoadForPlan, Delivery
  <2> QED BY <2>1
<1>7. CASE Flush
  <2>1. webhook'.pc = "flushed"
    BY <1>1, <1>7 DEF Flush, Delivery
  <2> QED BY <1>4, <2>1
<1>8. CASE CommitEvent \/ AbortEvent
  <2>1. webhook'.pc = "idle"
    BY <1>8 DEF CommitEvent, AbortEvent, NoEvent
  <2> QED BY <1>4, <2>1
<1>10. ASSUME NEW event \in Plan \cup {"same"}, Receive(event) PROVE A /\ B
  <2>1. webhook'.pc = "received"
    BY <1>10 DEF Receive, NoEvent
  <2> QED BY <2>1
<1>9. \/ webhook' = webhook
      \/ ClearTrial \/ LoadForPlan \/ Flush
      \/ CommitEvent \/ AbortEvent \/ \E event \in Plan \cup {"same"} : Receive(event)
  BY EveryStep DEF StartTrial, TrialEnds, SelectDue, CommitOther, ReadLimits, LoadMonitors, CommitExpiry, AbortTask,
                   Begin, Check, Refuse, CommitRequest, vars
<1> QED BY <1>3, <1>5, <1>6, <1>7, <1>8, <1>9, <1>10

LEMMA NoneLeftStep ==
  Types /\ WebhookKnows /\ PauseIsWhole /\ LocksExclude /\ UpgradeSees /\ NoneLeftPaused /\ [Next]_vars
  => NoneLeftPaused'
<1> SUFFICES ASSUME Types, WebhookKnows, PauseIsWhole, LocksExclude, UpgradeSees, NoneLeftPaused, [Next]_vars,
                    user'.plan # "FREE", RoomForAll(user'.plan)
             PROVE  \A m \in Monitor : ~ByPlan(monitors'[m])
  BY DEF NoneLeftPaused, PausedByPlan, ByPlan, RoomForAll
<1>1. user \in User /\ webhook \in Delivery /\ monitors \in Rows
  BY TypesOf
<1>2. user.plan # "FREE" /\ RoomForAll(user.plan) => \A m \in Monitor : ~ByPlan(monitors[m])
  BY NonePaused DEF NoneLeftPaused
<1>3. CASE CommitExpiry
  <2>1. user'.plan = user.plan /\ hk.pc # "idle"
    BY <1>1, <1>3 DEF CommitExpiry, User
  <2> QED BY <2>1 DEF LocksExclude
<1>4. CASE CommitEvent
  <2>1. user'.plan = NewPlan /\ NewPlan \in Plan /\ webhook.rows \in Rows
    <3>1. user'.plan = IF PlanChanges THEN NewPlan ELSE user.plan
      BY <1>1, <1>4 DEF CommitEvent, User
    <3>2. webhook.plan = user.plan
      BY <1>4 DEF CommitEvent, WebhookKnows
    <3> QED BY <1>1, <3>1, <3>2 DEF PlanChanges, NewPlan, Delivery
  <2>2. CASE webhook.pc = "done"
    <3>1. monitors' = monitors
      BY <1>4, <2>2 DEF CommitEvent
    <3>2. \A m \in Monitor : ~ByPlan(monitors[m])
      BY <2>1, <2>2, NonePaused DEF UpgradeSees
    <3> QED BY <3>1, <3>2
  <2>3. CASE webhook.pc = "fitted"
    <3>1. Save(webhook.rows, Fitted(webhook.rows, Limits[NewPlan], "plan_limit"))
      BY <1>4, <2>3 DEF CommitEvent
    <3>2. RoomForAll(NewPlan)
      BY <2>1
    <3>3. \A m \in Monitor : ByPlan(monitors[m]) => ByPlan(webhook.rows[m])
      BY <2>3 DEF UpgradeSees
    <3> QED BY <1>1, <2>1, <3>1, <3>2, <3>3, UpgradeResumes
  <2> QED BY <1>4, <2>2, <2>3 DEF CommitEvent
<1>5. CASE ~CommitExpiry /\ ~CommitEvent
  <2>1. user'.plan = user.plan
    BY <1>1, <1>5, EveryStep
       DEF User, StartTrial, TrialEnds, SelectDue, CommitOther, ReadLimits, LoadMonitors, AbortTask,
           Begin, Check, CommitRequest, Refuse, Receive, Flush, ClearTrial, LoadForPlan, AbortEvent, vars
  <2>2. \A m \in Monitor : ByPlan(monitors'[m]) => ByPlan(monitors[m])
    BY <1>5, PlansPause
  <2> QED BY <1>2, <2>1, <2>2
<1> QED BY <1>3, <1>4, <1>5

LEMMA SplitStays == [Next]_vars /\ Types => (split => split')
BY EveryStep, TypesOf
   DEF StartTrial, TrialEnds, SelectDue, CommitOther, ReadLimits, LoadMonitors, CommitExpiry, AbortTask,
       Begin, Check, CommitRequest, Refuse, Receive, Flush, ClearTrial, LoadForPlan, CommitEvent, AbortEvent, vars

LEMMA PaidInit == Init => PaidInv
<1> SUFFICES ASSUME Init PROVE PaidInv
  OBVIOUS
<1>1. FreeInv
  BY FreeInit
<1>2. /\ webhook.pc = "idle" /\ hk.pc = "idle" /\ user.plan = "FREE"
      /\ \A r \in Request : request[r].pc = "idle"
  BY DEF Init, NoEvent, NoTask, NoRequest
<1>3. PauseIsWhole
  BY <1>2 DEF PauseIsWhole
<1>4. LocksExclude /\ UpgradeSees /\ NoneLeftPaused
  BY <1>2 DEF LocksExclude, UpgradeSees, NoneLeftPaused
<1> QED BY <1>1, <1>3, <1>4 DEF PaidInv, FreeInv

LEMMA PaidStep == NoCrossing /\ PaidInv /\ [Next]_vars => PaidInv'
<1> SUFFICES ASSUME NoCrossing, PaidInv, [Next]_vars PROVE PaidInv'
  OBVIOUS
<1>1. Types /\ WebhookKnows /\ PauseIsWhole /\ (split \/ (LocksExclude /\ UpgradeSees /\ NoneLeftPaused))
  BY DEF PaidInv
<1>2. Types' /\ WebhookKnows' /\ PauseIsWhole'
  BY <1>1, TypesStep, KnowsStep, PauseStep
<1>3. CASE split'
  BY <1>2, <1>3 DEF PaidInv
<1>4. CASE ~split'
  <2>1. LocksExclude /\ UpgradeSees /\ NoneLeftPaused
    BY <1>1, <1>4, SplitStays
  <2>2. LocksExclude' /\ UpgradeSees' /\ NoneLeftPaused'
    BY <1>1, <1>4, <2>1, LocksStep, SeesStep, NoneLeftStep
  <2> QED BY <1>2, <2>2 DEF PaidInv
<1> QED BY <1>3, <1>4

\* An upgrade resumes what a plan has paused.  When no resume of a monitor overlaps a
\* pause of it, and the task has not given up the account's lock with an earlier
\* account's commit, an account on a paid plan with room for all it has keeps no monitor
\* that a plan has paused, however many requests overlap (clear_for_paid_plan).
THEOREM UpgradeRunsAll == Spec /\ []NoCrossing => []LockedPaidRunsAll
<1>1. PaidInv => LockedPaidRunsAll
  BY DEF PaidInv, NoneLeftPaused, LockedPaidRunsAll, PaidRunsAll
<1> QED BY <1>1, PaidStep, PaidInit, PTL DEF Spec

\* One request at a time, as in the run `trial', has none that cross.
THEOREM OneRequestRunsAll ==
  ASSUME \A r, s \in Request : r = s
  PROVE  Spec => []LockedPaidRunsAll
<1>1. NoCrossing
  BY DEF NoCrossing
<1> QED BY <1>1, UpgradeRunsAll, PTL
=============================================================================

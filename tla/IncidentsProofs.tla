-------------------------- MODULE IncidentsProofs --------------------------
(***************************************************************************)
(* Proofs about Incidents, for every set of regions, channels, incident    *)
(* ids and executors, every choice of voting regions and every MaxQueued.  *)
(*                                                                         *)
(* OneOpenIncident is not inductive: nothing in it says that the status an *)
(* executor compares its verdict with is still the monitor's.  Serialized  *)
(* says it, and why: only the holder of the advisory lock is between its   *)
(* read of the monitor and its commit.  BasisDecides ties the status to    *)
(* the votes it came from, which is what ReversalNeedsChangedVote needs.   *)
(***************************************************************************)
EXTENDS Incidents, FiniteSetTheorems, TLAPS

-----------------------------------------------------------------------------
(* The verdict rule, for every finite set of voting regions.               *)

\* regions.py quorum(): two majorities of the same voting regions share one.
LEMMA QuorumsIntersect ==
  ASSUME NEW V, IsFiniteSet(V), NEW A \in SUBSET V, NEW B \in SUBSET V,
         Cardinality(A) >= quorum(Cardinality(V)),
         Cardinality(B) >= quorum(Cardinality(V))
  PROVE  A \cap B # {}
<1>1. IsFiniteSet(A) /\ IsFiniteSet(B)
  BY FS_Subset
<1>2. Cardinality(V) \in Nat /\ Cardinality(A) \in Nat /\ Cardinality(B) \in Nat
  BY <1>1, FS_CardinalityType
<1>3. Cardinality(A) + Cardinality(B) > Cardinality(V)
  BY <1>2 DEF quorum
<1>4. QED
  BY <1>3, FS_MajoritiesIntersect

\* The up votes are the votes that are not down: the count the code derives
\* by subtraction is the number of regions that said up.
LEMMA UpVotes ==
  ASSUME NEW V, IsFiniteSet(V), NEW votes
  PROVE  Cardinality({c \in V : votes[c] \in CheckStatus})
           - Cardinality(Voters(votes, V, "down"))
             = Cardinality(Voters(votes, V, "up"))
<1> DEFINE D == Voters(votes, V, "down")
           U == Voters(votes, V, "up")
           R == {c \in V : votes[c] \in CheckStatus}
<1>1. D \in SUBSET V /\ U \in SUBSET V
  BY DEF Voters
<1>2. IsFiniteSet(D) /\ IsFiniteSet(U)
  BY <1>1, FS_Subset
<1>3. R = D \cup U /\ D \cap U = {}
  BY DEF Voters, CheckStatus
<1>4. Cardinality(D \cap U) = 0
  BY <1>3, FS_EmptySet
<1>5. Cardinality(R) = Cardinality(D) + Cardinality(U) - Cardinality(D \cap U)
  BY <1>2, <1>3, FS_Union
<1>6. Cardinality(D) \in Nat /\ Cardinality(U) \in Nat
  BY <1>2, FS_CardinalityType
<1>7. QED
  BY <1>4, <1>5, <1>6

\* regions.py consensus(): "down" is exactly a majority of voting regions
\* whose latest fresh result is down, and likewise for "up".
LEMMA VerdictIsMajority ==
  ASSUME NEW V, IsFiniteSet(V), NEW votes
  PROVE  /\ consensus(votes, V) = "down"
              <=> Cardinality(Voters(votes, V, "down")) >= quorum(Cardinality(V))
         /\ consensus(votes, V) = "up"
              => Cardinality(Voters(votes, V, "up")) >= quorum(Cardinality(V))
<1>1. CASE Cardinality(Voters(votes, V, "down")) >= quorum(Cardinality(V))
  BY <1>1 DEF consensus
<1>2. CASE ~(Cardinality(Voters(votes, V, "down")) >= quorum(Cardinality(V)))
  BY <1>2, UpVotes DEF consensus
<1>3. QED
  BY <1>1, <1>2

\* A monitor cannot be declared down and, from later votes of the same voting
\* regions, up, or the other way round, unless some region that voted for the
\* first verdict voted for the second: votes that merely expire, or regions
\* that fall silent, never reverse a verdict.
THEOREM ReversalNeedsAChangedVote ==
  ASSUME NEW V, IsFiniteSet(V), NEW before, NEW after,
         NEW old \in CheckStatus, NEW new \in CheckStatus, old # new,
         consensus(before, V) = old, consensus(after, V) = new
  PROVE  \E c \in V : before[c] = old /\ after[c] = new
<1> DEFINE O == Voters(before, V, old)
           N == Voters(after, V, new)
<1>1. O \in SUBSET V /\ N \in SUBSET V
  BY DEF Voters
<1>2. Cardinality(O) >= quorum(Cardinality(V)) /\ Cardinality(N) >= quorum(Cardinality(V))
  BY VerdictIsMajority DEF CheckStatus
<1>3. O \cap N # {}
  BY <1>1, <1>2, QuorumsIntersect
<1>4. QED
  BY <1>3 DEF Voters

\* The verdict is what more than half of the voting regions say: consensus() counts
\* "down" first and takes "up" as the rest of the votes, and neither matters.  Regions
\* with no fresh result count against both verdicts, and no voter at all gives neither.
THEOREM VerdictIsStrictMajority ==
  ASSUME NEW V, IsFiniteSet(V), NEW votes, NEW s \in CheckStatus
  PROVE  consensus(votes, V) = s
           <=> 2 * Cardinality(Voters(votes, V, s)) > Cardinality(V)
<1> DEFINE D == Voters(votes, V, "down")
           U == Voters(votes, V, "up")
           n == Cardinality(V)
           d == Cardinality(D)
           u == Cardinality(U)
<1>1. IsFiniteSet(D) /\ IsFiniteSet(U) /\ D \in SUBSET V /\ U \in SUBSET V /\ D \cap U = {}
  BY FS_Subset DEF Voters
<1>2. n \in Nat /\ d \in Nat /\ u \in Nat
  BY <1>1, FS_CardinalityType
<1>3. ~(d + u > n)
  BY <1>1, FS_MajoritiesIntersect
<1>4. consensus(votes, V) = IF d >= quorum(n) THEN "down" ELSE IF u >= quorum(n) THEN "up" ELSE "incomplete"
  BY UpVotes DEF consensus
<1> HIDE DEF D, U, n, d, u
<1>5. \A c \in Nat : c >= quorum(n) <=> 2 * c > n
  BY <1>2 DEF quorum
<1>6. CASE s = "down"
  <2>1. consensus(votes, V) = "down" <=> 2 * d > n
    BY <1>2, <1>4, <1>5
  <2> QED BY <1>6, <2>1 DEF D, n, d
<1>7. CASE s = "up"
  <2>1. 2 * u > n => ~(2 * d > n)
    BY <1>2, <1>3
  <2>2. consensus(votes, V) = "up" <=> 2 * u > n
    BY <1>2, <1>4, <1>5, <2>1
  <2> QED BY <1>7, <2>2 DEF U, n, u
<1> QED BY <1>6, <1>7 DEF CheckStatus

\* Votes that only get worse never heal: when no region that said "down" stops saying it
\* and none that did not say "up" begins to, a monitor that is down stays down, and one
\* that is not up does not come up.
THEOREM WorseVotesNeverHeal ==
  ASSUME NEW V, IsFiniteSet(V), NEW before, NEW after,
         \A c \in V : before[c] = "down" => after[c] = "down",
         \A c \in V : after[c] = "up" => before[c] = "up"
  PROVE  /\ consensus(before, V) = "down" => consensus(after, V) = "down"
         /\ consensus(after, V) = "up" => consensus(before, V) = "up"
<1>1. ASSUME NEW A \in SUBSET V, NEW B \in SUBSET V, A \subseteq B, 2 * Cardinality(A) > Cardinality(V)
      PROVE  2 * Cardinality(B) > Cardinality(V)
  <2>1. IsFiniteSet(A) /\ IsFiniteSet(B) /\ Cardinality(A) <= Cardinality(B)
    BY <1>1, FS_Subset
  <2>2. Cardinality(A) \in Nat /\ Cardinality(B) \in Nat /\ Cardinality(V) \in Nat
    BY <2>1, FS_CardinalityType
  <2> QED BY <1>1, <2>1, <2>2
<1>2. /\ Voters(before, V, "down") \subseteq Voters(after, V, "down")
      /\ Voters(after, V, "up") \subseteq Voters(before, V, "up")
      /\ Voters(after, V, "down") \in SUBSET V /\ Voters(before, V, "down") \in SUBSET V
      /\ Voters(after, V, "up") \in SUBSET V /\ Voters(before, V, "up") \in SUBSET V
  BY DEF Voters
<1>3. "down" \in CheckStatus /\ "up" \in CheckStatus
  BY DEF CheckStatus
<1>4. consensus(before, V) = "down" => consensus(after, V) = "down"
  BY <1>1, <1>2, <1>3, VerdictIsStrictMajority
<1>5. consensus(after, V) = "up" => consensus(before, V) = "up"
  BY <1>1, <1>2, <1>3, VerdictIsStrictMajority
<1> QED BY <1>4, <1>5

-----------------------------------------------------------------------------
(* The invariant.                                                          *)

\* Only the lock's holder is between its read of the monitor and its commit, so
\* the status it read is the monitor's.
Serialized ==
  \A e \in Executor : fin[e].pc = "reading" => /\ lock = e
                                               /\ exists => fin[e].old = status

\* The votes that led to a status still lead to it.
BasisDecides == status # "unknown" => consensus(basis.votes, basis.view) = status

IndInv ==
  TypeOK /\ Serialized /\ OneOpenIncident /\ AlertsMatchIncidents /\ BasisDecides

-----------------------------------------------------------------------------
(* The runs of the executors.                                              *)

LEMMA IdleType ==
  /\ Idle \in Finalize
  /\ Idle.pc = "idle"
  /\ NoVotes \in [Region -> Vote]
BY DEF Idle, Finalize, MonitorStatus, NoVotes, Vote

\* A run that begins.
LEMMA ReadingType ==
  ASSUME NEW old \in MonitorStatus, NEW V \in SUBSET Region,
         NEW run, run = [Idle EXCEPT !.pc = "reading", !.old = old, !.view = V, !.left = V]
  PROVE  run \in Finalize /\ run.pc = "reading" /\ run.old = old
<1>1. run = [pc |-> "reading", old |-> old, view |-> V, seen |-> NoVotes,
             left |-> V, todo |-> {}]
  BY DEF Idle
<1> QED
  BY <1>1, IdleType DEF Finalize

LEMMA DispatchingType ==
  ASSUME NEW todo \in SUBSET Delivery,
         NEW run, run = [Idle EXCEPT !.pc = "dispatching", !.todo = todo]
  PROVE  run \in Finalize /\ run.pc = "dispatching"
<1>1. run = [pc |-> "dispatching", old |-> "unknown", view |-> {}, seen |-> NoVotes,
             left |-> {}, todo |-> todo]
  BY DEF Idle
<1> QED
  BY <1>1, IdleType DEF Finalize, MonitorStatus

\* A run whose transaction is over.
LEMMA FinishFacts ==
  ASSUME TypeOK, NEW e \in Executor, NEW todo \in SUBSET Delivery, Finish(e, todo)
  PROVE  /\ lock' = NoExecutor
         /\ fin' \in [Executor -> Finalize]
         /\ fin'[e].pc # "reading"
         /\ \A f \in Executor \ {e} : fin'[f] = fin[f]
<1> DEFINE run == IF todo = {} THEN Idle
                  ELSE [Idle EXCEPT !.pc = "dispatching", !.todo = todo]
<1>1. lock' = NoExecutor /\ fin' = [fin EXCEPT ![e] = run]
  BY DEF Finish
<1>2. run \in Finalize /\ run.pc # "reading"
  BY DispatchingType, IdleType
<1> HIDE DEF run
<1> QED
  BY <1>1, <1>2 DEF TypeOK

LEMMA NewDeliveriesType ==
  ASSUME TypeOK, NEW i \in IncidentId, NEW kind \in {"down", "resolved"}
  PROVE  /\ NewDeliveries(i, kind) \subseteq Delivery
         /\ \A d \in NewDeliveries(i, kind) : d.incident = i /\ d.kind = kind
BY DEF NewDeliveries, Delivery, TypeOK

LEMMA SetStatusType ==
  ASSUME TypeOK, NEW e \in Executor, NEW new \in CheckStatus, SetStatus(e, new)
  PROVE  /\ status' = new /\ status' \in MonitorStatus
         /\ basis' \in [view : SUBSET Region, votes : [Region -> Vote]]
BY DEF SetStatus, TypeOK, Finalize, CheckStatus, MonitorStatus

LEMMA EnqueueType ==
  ASSUME TypeOK, Enqueue
  PROVE  queued' \in 0..MaxQueued
BY ConstantsAssumption DEF Enqueue, TypeOK

-----------------------------------------------------------------------------
(* The types.                                                              *)

LEMMA EnvironmentType ==
  ASSUME TypeOK, Environment
  PROVE  TypeOK'
<1> USE DEF TypeOK
<1>1. ASSUME NEW r \in Region, CheckExpires(r) PROVE TypeOK'
  BY <1>1 DEF CheckExpires, alertVars
<1>2. ASSUME NEW r \in Region, NEW s \in CheckStatus, SaveCheck(r, s) PROVE TypeOK'
  <2>1. queued' \in 0..MaxQueued
    BY <1>2, EnqueueType DEF SaveCheck
  <2>2. latest' \in [Region -> Vote] /\ fresh' \subseteq Region
    BY <1>2 DEF SaveCheck, Vote
  <2> QED
    BY <1>2, <2>1, <2>2 DEF SaveCheck, alertVars
<1>3. ASSUME ChangeInterval PROVE TypeOK'
  BY <1>3 DEF ChangeInterval, alertVars
<1>4. ASSUME NEW V \in VotingChoices, SetVoting(V) PROVE TypeOK'
  BY <1>4 DEF SetVoting, alertVars
<1>5. ASSUME RefreshCache PROVE TypeOK'
  BY <1>5 DEF RefreshCache, alertVars
<1>6. ASSUME NEW c \in Channel, ToggleChannel(c) PROVE TypeOK'
  BY <1>6 DEF ToggleChannel, checkVars
<1>7. ASSUME NEW c \in Channel, DeleteChannel(c) PROVE TypeOK'
  BY <1>7 DEF DeleteChannel, checkVars
<1>8. ASSUME DeleteMonitor PROVE TypeOK'
  BY <1>8, IdleType DEF DeleteMonitor
<1>9. ASSUME NEW i \in IncidentId, Forget(i) PROVE TypeOK'
  BY <1>9 DEF Forget, checkVars
<1> QED
  BY <1>1, <1>2, <1>3, <1>4, <1>5, <1>6, <1>7, <1>8, <1>9 DEF Environment

LEMMA BeginType ==
  ASSUME TypeOK, NEW e \in Executor, Begin(e)
  PROVE  /\ TypeOK'
         /\ \/ UNCHANGED <<lock, fin>>
            \/ /\ exists /\ lock' = e /\ lock = NoExecutor
               /\ fin'[e].old = status
               /\ \A f \in Executor \ {e} : fin'[f] = fin[f]
<1>1. queued' \in 0..MaxQueued
  BY ConstantsAssumption DEF Begin, TypeOK
<1>2. UNCHANGED <<exists, status, latest, fresh, voting, cached, incidents, open,
                  active, deliveries, dispatched, basis>>
  BY DEF Begin, checkVars, alertVars
<1>3. CASE exists
  <2>1. PICK V \in {voting, cached} :
          fin' = [fin EXCEPT ![e] = [Idle EXCEPT !.pc = "reading", !.old = status,
                                                 !.view = V, !.left = V]]
    BY <1>3 DEF Begin
  <2>2. PICK run : run = [Idle EXCEPT !.pc = "reading", !.old = status,
                                      !.view = V, !.left = V]
    OBVIOUS
  <2>3. V \in SUBSET Region /\ status \in MonitorStatus
    BY ConstantsAssumption DEF TypeOK
  <2>4. run \in Finalize /\ run.old = status
    BY <2>2, <2>3, ReadingType
  <2>5. fin' = [fin EXCEPT ![e] = run]
    BY <2>1, <2>2
  <2>6. fin' \in [Executor -> Finalize] /\ fin'[e].old = status
        /\ \A f \in Executor \ {e} : fin'[f] = fin[f]
    BY <2>4, <2>5 DEF TypeOK
  <2>7. lock' = e /\ lock = NoExecutor
    BY <1>3 DEF Begin, CanLock
  <2> QED
    BY <1>1, <1>2, <1>3, <2>6, <2>7 DEF TypeOK
<1>4. CASE ~exists
  <2>1. UNCHANGED <<lock, fin>>
    BY <1>4 DEF Begin
  <2> QED
    BY <1>1, <1>2, <2>1 DEF TypeOK
<1> QED
  BY <1>3, <1>4

LEMMA ReadVoteType ==
  ASSUME TypeOK, NEW e \in Executor, NEW r \in Region, ReadVote(e, r)
  PROVE  /\ TypeOK'
         /\ \A f \in Executor : fin'[f].pc = fin[f].pc /\ fin'[f].old = fin[f].old
<1>1. UNCHANGED <<exists, status, latest, fresh, voting, cached, queued, lock,
                  incidents, open, active, deliveries, dispatched, basis>>
  BY DEF ReadVote, checkVars, alertVars
<1> DEFINE vote == IF r \in fresh THEN latest[r] ELSE "none"
           run  == [fin[e] EXCEPT !.seen = [@ EXCEPT ![r] = vote], !.left = @ \ {r}]
<1>2. fin' = [fin EXCEPT ![e] = run]
  BY DEF ReadVote, TypeOK
<1>3. vote \in Vote
  BY DEF TypeOK, Vote
<1> HIDE DEF vote
<1>4. fin[e] \in Finalize
  BY DEF TypeOK
<1>5. /\ run \in Finalize
      /\ run.pc = fin[e].pc /\ run.old = fin[e].old
  BY <1>3, <1>4 DEF Finalize
<1> HIDE DEF run
<1>6. /\ fin' \in [Executor -> Finalize]
      /\ \A f \in Executor : fin'[f].pc = fin[f].pc /\ fin'[f].old = fin[f].old
  BY <1>2, <1>5 DEF TypeOK
<1> QED
  BY <1>1, <1>6 DEF TypeOK

\* A transaction that commits: it was reading, releases the lock and leaves the
\* other runs alone.
Committed(e) ==
  /\ fin[e].pc = "reading"
  /\ lock' = NoExecutor
  /\ fin'[e].pc # "reading"
  /\ \A f \in Executor \ {e} : fin'[f] = fin[f]

LEMMA QuietCommitType ==
  ASSUME TypeOK, NEW e \in Executor,
         NoQuorum(e) \/ \E verdict \in CheckStatus : Confirm(e, verdict)
  PROVE  TypeOK' /\ Committed(e)
<1>1. {} \in SUBSET Delivery
  OBVIOUS
<1>2. CASE NoQuorum(e)
  <2>1. /\ lock' = NoExecutor /\ fin' \in [Executor -> Finalize]
        /\ fin'[e].pc # "reading" /\ \A f \in Executor \ {e} : fin'[f] = fin[f]
    BY <1>1, <1>2, FinishFacts DEF NoQuorum
  <2> QED
    BY <1>2, <2>1 DEF NoQuorum, Decides, Committed, TypeOK, checkVars, alertVars
<1>3. ASSUME NEW verdict \in CheckStatus, Confirm(e, verdict)
      PROVE  TypeOK' /\ Committed(e)
  <2>1. /\ lock' = NoExecutor /\ fin' \in [Executor -> Finalize]
        /\ fin'[e].pc # "reading" /\ \A f \in Executor \ {e} : fin'[f] = fin[f]
    BY <1>1, <1>3, FinishFacts DEF Confirm
  <2>2. /\ status' \in MonitorStatus
        /\ basis' \in [view : SUBSET Region, votes : [Region -> Vote]]
    BY <1>3, SetStatusType DEF Confirm
  <2> QED
    BY <1>3, <2>1, <2>2 DEF Confirm, Decides, Committed, TypeOK, checkVars, alertVars
<1> QED
  BY <1>2, <1>3

LEMMA OpenIncidentType ==
  ASSUME TypeOK, NEW e \in Executor, OpenIncident(e)
  PROVE  /\ TypeOK' /\ Committed(e)
         /\ \E i \in IncidentId \ incidents :
              /\ incidents' = incidents \cup {i} /\ open' = open \cup {i}
              /\ deliveries' = deliveries \cup NewDeliveries(i, "down")
<1>1. PICK i \in IncidentId \ incidents :
        /\ incidents' = incidents \cup {i} /\ open' = open \cup {i}
        /\ deliveries' = deliveries \cup NewDeliveries(i, "down")
        /\ Finish(e, NewDeliveries(i, "down"))
  BY DEF OpenIncident
<1>2. NewDeliveries(i, "down") \subseteq Delivery
  BY NewDeliveriesType
<1>3. /\ lock' = NoExecutor /\ fin' \in [Executor -> Finalize]
      /\ fin'[e].pc # "reading" /\ \A f \in Executor \ {e} : fin'[f] = fin[f]
  BY <1>1, <1>2, FinishFacts
<1>4. SetStatus(e, "down")
  BY DEF OpenIncident
<1>5. /\ status' \in MonitorStatus
      /\ basis' \in [view : SUBSET Region, votes : [Region -> Vote]]
  BY <1>4, SetStatusType DEF CheckStatus
<1>6. /\ fin[e].pc = "reading"
      /\ UNCHANGED <<exists, latest, fresh, voting, cached, queued, active, dispatched>>
  BY DEF OpenIncident, Decides, checkVars
<1>7. TypeOK' /\ Committed(e)
  BY <1>1, <1>2, <1>3, <1>5, <1>6 DEF TypeOK, Committed
<1> QED
  BY <1>1, <1>7

LEMMA ResolveIncidentType ==
  ASSUME TypeOK, NEW e \in Executor, ResolveIncident(e)
  PROVE  /\ TypeOK' /\ Committed(e)
         /\ \/ open = {} /\ UNCHANGED <<incidents, open, deliveries>>
            \/ \E i \in open :
                 /\ incidents' = incidents /\ open' = open \ {i}
                 /\ deliveries' = deliveries \cup NewDeliveries(i, "resolved")
<1>1. SetStatus(e, "up")
  BY DEF ResolveIncident
<1>2. /\ status' \in MonitorStatus
      /\ basis' \in [view : SUBSET Region, votes : [Region -> Vote]]
  BY <1>1, SetStatusType DEF CheckStatus
<1>3. /\ fin[e].pc = "reading"
      /\ UNCHANGED <<exists, latest, fresh, voting, cached, queued, incidents, active,
                     dispatched>>
  BY DEF ResolveIncident, Decides, checkVars
<1>4. CASE open = {}
  <2>1. Finish(e, {}) /\ UNCHANGED <<open, deliveries>>
    BY <1>4 DEF ResolveIncident
  <2>2. /\ lock' = NoExecutor /\ fin' \in [Executor -> Finalize]
        /\ fin'[e].pc # "reading" /\ \A f \in Executor \ {e} : fin'[f] = fin[f]
    BY <2>1, FinishFacts
  <2> QED
    BY <1>2, <1>3, <1>4, <2>1, <2>2 DEF TypeOK, Committed
<1>5. CASE open # {}
  <2>1. PICK i \in open :
          /\ open' = open \ {i}
          /\ deliveries' = deliveries \cup NewDeliveries(i, "resolved")
          /\ Finish(e, NewDeliveries(i, "resolved"))
    BY <1>5 DEF ResolveIncident
  <2>2. NewDeliveries(i, "resolved") \subseteq Delivery
    BY NewDeliveriesType DEF TypeOK
  <2>3. /\ lock' = NoExecutor /\ fin' \in [Executor -> Finalize]
        /\ fin'[e].pc # "reading" /\ \A f \in Executor \ {e} : fin'[f] = fin[f]
    BY <2>1, <2>2, FinishFacts
  <2>4. TypeOK' /\ Committed(e)
    BY <1>2, <1>3, <2>1, <2>2, <2>3 DEF TypeOK, Committed
  <2> QED
    BY <1>3, <2>1, <2>4
<1> QED
  BY <1>4, <1>5

\* A run that dispatches or aborts.
LEMMA LeaveType ==
  ASSUME TypeOK, NEW e \in Executor, Dispatch(e) \/ Abort(e)
  PROVE  /\ TypeOK'
         /\ fin'[e].pc # "reading"
         /\ \A f \in Executor \ {e} : fin'[f] = fin[f]
         /\ lock' = lock \/ lock = e
         /\ UNCHANGED <<exists, status, incidents, open, deliveries, basis>>
<1>1. CASE Dispatch(e)
  <2>1. PICK d \in fin[e].todo :
          /\ dispatched' = dispatched \cup ({d} \cap deliveries)
          /\ fin' = [fin EXCEPT ![e] = After(fin[e], d)]
    BY <1>1 DEF Dispatch
  <2>2. fin[e] \in Finalize /\ fin[e].pc = "dispatching"
    BY <1>1 DEF Dispatch, TypeOK
  <2>3. After(fin[e], d) \in Finalize /\ After(fin[e], d).pc # "reading"
    <3>1. CASE fin[e].todo = {d}
      BY <3>1, IdleType DEF After
    <3>2. CASE fin[e].todo # {d}
      <4>1. After(fin[e], d) = [fin[e] EXCEPT !.todo = @ \ {d}]
        BY <3>2 DEF After
      <4> QED
        BY <2>2, <4>1 DEF Finalize
    <3> QED
      BY <3>1, <3>2
  <2>4. /\ fin' \in [Executor -> Finalize] /\ fin'[e].pc # "reading"
        /\ \A f \in Executor \ {e} : fin'[f] = fin[f]
    BY <2>1, <2>3 DEF TypeOK
  <2>5. UNCHANGED <<exists, status, latest, fresh, voting, cached, queued, lock,
                    incidents, open, active, deliveries, basis>>
    BY <1>1 DEF Dispatch, checkVars
  <2> QED
    BY <2>1, <2>4, <2>5 DEF TypeOK
<1>2. CASE Abort(e)
  <2>1. queued' \in 0..MaxQueued
    BY <1>2, EnqueueType DEF Abort
  <2>2. /\ fin' \in [Executor -> Finalize] /\ fin'[e].pc # "reading"
        /\ \A f \in Executor \ {e} : fin'[f] = fin[f]
    BY <1>2, IdleType DEF Abort, TypeOK
  <2> QED
    BY <1>2, <2>1, <2>2 DEF Abort, TypeOK, checkVars, alertVars
<1> QED
  BY <1>1, <1>2

-----------------------------------------------------------------------------
(* The invariant.                                                          *)

LEMMA InitIndInv == Init => IndInv
<1> SUFFICES ASSUME Init PROVE IndInv
  OBVIOUS
<1> USE DEF Init
<1>1. TypeOK
  BY IdleType, ConstantsAssumption DEF TypeOK, MonitorStatus
<1>2. Serialized
  BY IdleType DEF Serialized
<1>3. OneOpenIncident /\ AlertsMatchIncidents /\ BasisDecides
  BY DEF OneOpenIncident, AlertsMatchIncidents, BasisDecides
<1> QED
  BY <1>1, <1>2, <1>3 DEF IndInv

LEMMA EnvironmentIndInv ==
  ASSUME IndInv, Environment
  PROVE  IndInv'
<1> USE DEF IndInv
<1>1. TypeOK'
  BY EnvironmentType
<1>2. UNCHANGED <<status, lock, fin, basis>> /\ (exists' => exists)
  BY DEF Environment, CheckExpires, SaveCheck, ChangeInterval, SetVoting, RefreshCache,
         ToggleChannel, DeleteChannel, DeleteMonitor, Forget
<1>3. Serialized' /\ BasisDecides'
  BY <1>2 DEF Serialized, BasisDecides
<1>4. \/ UNCHANGED <<exists, open>>
      \/ ~exists' /\ open' = {}
  BY DEF Environment, CheckExpires, SaveCheck, ChangeInterval, SetVoting, RefreshCache,
         ToggleChannel, DeleteChannel, DeleteMonitor, Forget, alertVars
<1>5. OneOpenIncident'
  BY <1>2, <1>4 DEF OneOpenIncident
<1>6. \/ UNCHANGED <<incidents, open>> /\ deliveries' \subseteq deliveries
      \/ deliveries' = {}
      \/ \E i \in IncidentId : /\ incidents' = incidents \ {i} /\ open' = open
                               /\ deliveries' = {d \in deliveries : d.incident # i}
  BY DEF Environment, CheckExpires, SaveCheck, ChangeInterval, SetVoting, RefreshCache,
         ToggleChannel, DeleteChannel, DeleteMonitor, Forget, alertVars
<1>7. AlertsMatchIncidents'
  BY <1>6 DEF AlertsMatchIncidents
<1> QED
  BY <1>1, <1>3, <1>5, <1>7

\* What a commit does to the status and its basis.
LEMMA CommittedStatus ==
  ASSUME TypeOK, NEW e \in Executor, NEW new \in CheckStatus,
         Decides(e, new), SetStatus(e, new), BasisDecides
  PROVE  BasisDecides' /\ status' = new
<1>1. CASE new = status
  BY <1>1 DEF SetStatus, BasisDecides
<1>2. CASE new # status
  <2>1. basis' = [view |-> fin[e].view, votes |-> fin[e].seen] /\ status' = new
    BY <1>2 DEF SetStatus
  <2>2. consensus(basis'.votes, basis'.view) = new
    BY <2>1 DEF Decides
  <2> QED
    BY <2>1, <2>2 DEF BasisDecides, consensus, Voters
<1> QED
  BY <1>1, <1>2

LEMMA CommittedSerialized ==
  ASSUME Serialized, NEW e \in Executor, Committed(e)
  PROVE  Serialized'
BY DEF Serialized, Committed

LEMMA FinalizeStepIndInv ==
  ASSUME IndInv, FinalizeStep
  PROVE  IndInv'
<1> USE DEF IndInv
<1>0. PICK e \in Executor :
        \/ Begin(e)
        \/ \E r \in Region : ReadVote(e, r)
        \/ NoQuorum(e)
        \/ \E verdict \in CheckStatus : Confirm(e, verdict)
        \/ OpenIncident(e) \/ ResolveIncident(e)
        \/ Dispatch(e) \/ Abort(e)
  BY DEF FinalizeStep
<1>a. ASSUME UNCHANGED <<exists, status, incidents, open, deliveries, basis>>
      PROVE  OneOpenIncident' /\ AlertsMatchIncidents' /\ BasisDecides'
  BY <1>a DEF OneOpenIncident, AlertsMatchIncidents, BasisDecides
<1>1. CASE Begin(e)
  <2>1. TypeOK'
    BY <1>1, BeginType
  <2>2. UNCHANGED <<exists, status, incidents, open, deliveries, basis>>
    BY <1>1 DEF Begin, alertVars
  <2>3. CASE UNCHANGED <<lock, fin>>
    BY <1>a, <2>1, <2>2, <2>3 DEF Serialized
  <2>4. CASE /\ exists /\ lock' = e /\ lock = NoExecutor
             /\ fin'[e].old = status
             /\ \A f \in Executor \ {e} : fin'[f] = fin[f]
    <3>1. \A f \in Executor \ {e} : fin'[f].pc # "reading"
      BY <2>4, ConstantsAssumption DEF Serialized
    <3>2. Serialized'
      BY <2>2, <2>4, <3>1 DEF Serialized
    <3> QED
      BY <1>a, <2>1, <2>2, <3>2
  <2> QED
    BY <1>1, <2>3, <2>4, BeginType
<1>2. ASSUME NEW r \in Region, ReadVote(e, r) PROVE IndInv'
  <2>1. /\ TypeOK'
        /\ \A f \in Executor : fin'[f].pc = fin[f].pc /\ fin'[f].old = fin[f].old
    BY <1>2, ReadVoteType
  <2>2. UNCHANGED <<exists, status, lock, incidents, open, deliveries, basis>>
    BY <1>2 DEF ReadVote, alertVars
  <2>3. Serialized'
    BY <2>1, <2>2 DEF Serialized
  <2> QED
    BY <1>a, <2>1, <2>2, <2>3
<1>3. CASE NoQuorum(e)
  <2>1. TypeOK' /\ Serialized'
    BY <1>3, QuietCommitType, CommittedSerialized
  <2>2. UNCHANGED <<exists, status, incidents, open, deliveries, basis>>
    BY <1>3 DEF NoQuorum, alertVars
  <2> QED
    BY <1>a, <2>1, <2>2
<1>4. ASSUME NEW verdict \in CheckStatus, Confirm(e, verdict) PROVE IndInv'
  <2>1. TypeOK' /\ Serialized'
    BY <1>4, QuietCommitType, CommittedSerialized
  <2>2. BasisDecides' /\ status' = verdict
    BY <1>4, CommittedStatus DEF Confirm
  <2>3. UNCHANGED <<exists, incidents, open, deliveries>>
    BY <1>4 DEF Confirm, alertVars
  <2>4. exists => fin[e].old = status
    BY <1>4 DEF Confirm, Decides, Serialized
  <2>5. exists => (status = "down" <=> status' = "down")
    BY <1>4, <2>2, <2>4 DEF Confirm
  <2>6. OneOpenIncident' /\ AlertsMatchIncidents'
    BY <2>3, <2>5 DEF OneOpenIncident, AlertsMatchIncidents
  <2> QED
    BY <2>1, <2>2, <2>6
<1>5. CASE OpenIncident(e)
  <2>1. TypeOK' /\ Serialized'
    BY <1>5, OpenIncidentType, CommittedSerialized
  <2>2. BasisDecides' /\ status' = "down" /\ exists' = exists /\ exists
    BY <1>5, CommittedStatus DEF OpenIncident, CheckStatus
  <2>3. PICK i \in IncidentId \ incidents :
          /\ incidents' = incidents \cup {i} /\ open' = open \cup {i}
          /\ deliveries' = deliveries \cup NewDeliveries(i, "down")
    BY <1>5, OpenIncidentType
  <2>4. open = {}
    BY <1>5 DEF OpenIncident, Decides, Serialized, OneOpenIncident
  <2>5. OneOpenIncident'
    BY <2>2, <2>3, <2>4 DEF OneOpenIncident
  <2>6. \A d \in NewDeliveries(i, "down") : d.incident = i /\ d.kind = "down"
    BY NewDeliveriesType
  <2>7. AlertsMatchIncidents'
    BY <2>3, <2>6 DEF AlertsMatchIncidents
  <2> QED
    BY <2>1, <2>2, <2>5, <2>7
<1>6. CASE ResolveIncident(e)
  <2>1. TypeOK' /\ Serialized'
    BY <1>6, ResolveIncidentType, CommittedSerialized
  <2>2. BasisDecides' /\ status' = "up" /\ exists' = exists
    BY <1>6, CommittedStatus DEF ResolveIncident, CheckStatus
  <2>3. CASE open = {} /\ UNCHANGED <<incidents, open, deliveries>>
    BY <2>1, <2>2, <2>3 DEF OneOpenIncident, AlertsMatchIncidents
  <2>4. ASSUME NEW i \in open,
               incidents' = incidents /\ open' = open \ {i},
               deliveries' = deliveries \cup NewDeliveries(i, "resolved")
        PROVE  IndInv'
    <3>1. open' = {}
      BY <2>4 DEF OneOpenIncident
    <3>2. \A d \in NewDeliveries(i, "resolved") : d.incident = i
      BY NewDeliveriesType DEF TypeOK
    <3>3. i \in incidents
      BY DEF TypeOK
    <3>4. OneOpenIncident' /\ AlertsMatchIncidents'
      BY <2>2, <2>4, <3>1, <3>2, <3>3 DEF OneOpenIncident, AlertsMatchIncidents
    <3> QED
      BY <2>1, <2>2, <3>4
  <2> QED
    BY <1>6, <2>3, <2>4, ResolveIncidentType
<1>7. CASE Dispatch(e) \/ Abort(e)
  <2>1. /\ TypeOK'
        /\ fin'[e].pc # "reading"
        /\ \A f \in Executor \ {e} : fin'[f] = fin[f]
        /\ lock' = lock \/ lock = e
        /\ UNCHANGED <<exists, status, incidents, open, deliveries, basis>>
    BY <1>7, LeaveType
  <2>2. Serialized'
    BY <2>1 DEF Serialized
  <2> QED
    BY <1>a, <2>1, <2>2
<1> QED
  BY <1>0, <1>1, <1>2, <1>3, <1>4, <1>5, <1>6, <1>7

LEMMA StutterIndInv == IndInv /\ UNCHANGED vars => IndInv'
<1> SUFFICES ASSUME IndInv, UNCHANGED vars PROVE IndInv'
  OBVIOUS
<1> USE DEF vars
<1>1. TypeOK' /\ Serialized'
  BY DEF IndInv, TypeOK, Serialized
<1>2. OneOpenIncident' /\ AlertsMatchIncidents' /\ BasisDecides'
  BY DEF IndInv, OneOpenIncident, AlertsMatchIncidents, BasisDecides
<1> QED
  BY <1>1, <1>2 DEF IndInv

-----------------------------------------------------------------------------
(* The theorems.                                                           *)

\* The invariant holds in every state of every behaviour.
THEOREM Invariant == Spec => []IndInv
<1>1. IndInv /\ [Next]_vars => IndInv'
  BY EnvironmentIndInv, FinalizeStepIndInv, StutterIndInv DEF Next
<1> QED
  BY <1>1, InitIndInv, PTL DEF Spec

\* Every variable keeps its type.
THEOREM TypeCorrect == Spec => []TypeOK
BY Invariant, PTL DEF IndInv

\* Whatever number of executors finalize the results of whatever number of
\* regions, a monitor has at most one open incident, exactly when it is down.
THEOREM IncidentsExclusive == Spec => []OneOpenIncident
BY Invariant, PTL DEF IndInv

\* No delivery outlives its incident, none says "resolved" of an open one.
THEOREM AlertsAgree == Spec => []AlertsMatchIncidents
BY Invariant, PTL DEF IndInv

\* Silence reverses no verdict: between two commits that change the status
\* under the same voting regions, some region changed its vote accordingly.
THEOREM SilenceReversesNothing == Spec => ReversalNeedsChangedVote
<1>1. IndInv /\ IndInv' /\ [Next]_vars =>
        [status' # status /\ status # "unknown" /\ basis'.view = basis.view
           => \E c \in basis.view : /\ basis.votes[c] = status
                                    /\ basis'.votes[c] = status']_vars
  <2> SUFFICES ASSUME IndInv, IndInv', Next, status' # status, status # "unknown",
                      basis'.view = basis.view
               PROVE  \E c \in basis.view : /\ basis.votes[c] = status
                                            /\ basis'.votes[c] = status'
    OBVIOUS
  <2>1. basis.view \subseteq Region /\ IsFiniteSet(basis.view)
    <3>1. basis.view \subseteq Region
      BY DEF IndInv, TypeOK
    <3> QED
      BY <3>1, ConstantsAssumption, FS_Subset
  <2>2. status \in CheckStatus /\ status' \in CheckStatus
    <3>1. status' # "unknown"
      BY DEF Next, Environment, CheckExpires, SaveCheck, ChangeInterval, SetVoting,
             RefreshCache, ToggleChannel, DeleteChannel, DeleteMonitor, Forget,
             FinalizeStep, Begin, ReadVote, NoQuorum, Confirm, OpenIncident,
             ResolveIncident, Dispatch, Abort, SetStatus, CheckStatus
    <3> QED
      BY <3>1 DEF IndInv, TypeOK, MonitorStatus, CheckStatus
  <2>3. consensus(basis.votes, basis.view) = status
    BY DEF IndInv, BasisDecides
  <2>4. consensus(basis'.votes, basis.view) = status'
    <3>1. consensus(basis'.votes, basis'.view) = status'
      BY <2>2 DEF IndInv, BasisDecides, consensus, Voters, CheckStatus
    <3> QED
      BY <3>1
  <2> QED
    BY <2>1, <2>2, <2>3, <2>4, ReversalNeedsAChangedVote
<1> QED
  BY <1>1, Invariant, PTL DEF Spec, ReversalNeedsChangedVote

\* The number of open incidents, when there is at most one.
LEMMA CountOpen ==
  ASSUME NEW S, \A i, j \in S : i = j
  PROVE  Cardinality(S) = IF S = {} THEN 0 ELSE 1
<1>1. CASE S = {}
  BY <1>1, FS_EmptySet
<1>2. CASE S # {}
  <2>1. PICK i \in S : S = {i}
    BY <1>2
  <2> QED
    BY <1>2, <2>1, FS_Singleton
<1> QED
  BY <1>1, <1>2

\* How the monitor's row, its status and its open incidents may change together.
LEMMA LedgerView ==
  ASSUME Next
  PROVE  /\ exists' => exists
         /\ status' = status \/ status' \in CheckStatus
         /\ ~exists' => IF exists THEN open' = {} ELSE open' = open
<1>1. ASSUME UNCHANGED <<exists, status, open>>
      PROVE  /\ exists' => exists
             /\ status' = status \/ status' \in CheckStatus
             /\ ~exists' => IF exists THEN open' = {} ELSE open' = open
  BY <1>1
<1>2. CASE Environment
  <2>1. \/ UNCHANGED <<exists, status, open>>
        \/ exists /\ ~exists' /\ status' = status /\ open' = {}
    BY <1>2 DEF Environment, CheckExpires, SaveCheck, ChangeInterval, SetVoting,
                RefreshCache, ToggleChannel, DeleteChannel, DeleteMonitor, Forget,
                alertVars
  <2> QED
    BY <1>1, <2>1
<1>3. CASE FinalizeStep
  <2>1. PICK e \in Executor :
          \/ Begin(e)
          \/ \E r \in Region : ReadVote(e, r)
          \/ NoQuorum(e)
          \/ \E verdict \in CheckStatus : Confirm(e, verdict)
          \/ OpenIncident(e) \/ ResolveIncident(e)
          \/ Dispatch(e) \/ Abort(e)
    BY <1>3 DEF FinalizeStep
  <2>2. \/ UNCHANGED <<exists, status, open>>
        \/ UNCHANGED <<exists, open>> /\ status' \in CheckStatus
        \/ UNCHANGED exists /\ exists /\ status' \in CheckStatus
    BY <2>1 DEF Begin, ReadVote, NoQuorum, Confirm, OpenIncident, ResolveIncident,
                Dispatch, Abort, SetStatus, alertVars, CheckStatus
  <2> QED
    BY <1>1, <2>2
<1> QED
  BY <1>2, <1>3 DEF Next

\* Concurrent runs of finalize_check_result, seen through the status of the
\* monitor and the number of its open incidents, are the log IncidentLedger
\* specifies.
THEOREM FinalizeKeepsLedger == Spec => LedgerKept
<1>1. Init => Ledger!Init
  BY FS_EmptySet DEF Init, Ledger!Init
<1>2. IndInv /\ IndInv' /\ [Next]_vars => [Ledger!Next]_Ledger!ledgerVars
  <2> SUFFICES ASSUME IndInv, IndInv', Next
               PROVE  [Ledger!Next]_Ledger!ledgerVars
    <3>1. UNCHANGED vars => UNCHANGED Ledger!ledgerVars
      BY DEF vars, Ledger!ledgerVars
    <3> QED
      BY <3>1
  <2> USE DEF Ledger!Next, Ledger!GoDown, Ledger!GoUp, Ledger!Delete, Ledger!ledgerVars
  <2>1. /\ Cardinality(open) = IF open = {} THEN 0 ELSE 1
        /\ Cardinality(open') = IF open' = {} THEN 0 ELSE 1
    BY CountOpen DEF IndInv, OneOpenIncident
  <2>2. status \in {"unknown", "up", "down"}
    BY DEF IndInv, TypeOK, MonitorStatus
  <2>3. CASE exists /\ exists'
    <3>1. (status = "down" <=> open # {}) /\ (status' = "down" <=> open' # {})
      BY <2>3 DEF IndInv, OneOpenIncident
    <3>2. CASE status' = status
      BY <2>1, <2>3, <3>1, <3>2
    <3>3. CASE status' # status
      <4>1. status' \in {"up", "down"}
        BY <3>3, LedgerView DEF CheckStatus
      <4> QED
        BY <2>1, <2>2, <2>3, <3>1, <3>3, <4>1
    <3> QED
      BY <3>2, <3>3
  <2>4. CASE exists /\ ~exists'
    BY <2>1, <2>2, <2>4, LedgerView
  <2>5. CASE ~exists /\ ~exists'
    BY <2>5, LedgerView
  <2> QED
    BY <2>3, <2>4, <2>5, LedgerView
<1> QED
  BY <1>1, <1>2, Invariant, PTL DEF Spec, LedgerKept, Ledger!Spec
=============================================================================

------------------------ MODULE PendingChecksProofs ------------------------
(***************************************************************************)
(* Proofs about PendingChecks, for every set of monitors, regions, workers *)
(* and row ids and every MaxAttempts and Limit.                            *)
(*                                                                         *)
(* Three lemmas say what the building blocks of the actions do to the      *)
(* table: Insert, Remove, and the actions that only change columns.  The   *)
(* invariant IndInv is then preserved action by action; its third part,    *)
(* that a job in somebody's hands was leased, is what the properties about *)
(* late results need.                                                      *)
(***************************************************************************)
EXTENDS PendingChecks, TLAPS

\* A job that is claimed, executed or posted was leased: its row, if the table
\* still has it, counts at least one attempt.
InHandLeased == \A i \in InHand : row[i].attempts > 0

IndInv == TypeOK /\ OneLivePerSlot /\ InHandLeased

-----------------------------------------------------------------------------
(* The building blocks.                                                    *)

LEMMA InHandDef ==
  \A i : i \in InHand <=> \E w \in Worker : i \in claimed[w] \cup batch[w] \cup posting[w]
BY DEF InHand

\* An INSERT adds fresh, unleased, live rows, at most one for each slot that had
\* no live row, and leaves the columns of every other id alone.
LEMMA InsertFacts ==
  ASSUME TypeOK,
         NEW slots, slots \subseteq Monitor \X Region,
         Insert(slots)
  PROVE  /\ rows \subseteq rows'
         /\ rows' \ rows \subseteq Fresh
         /\ row' \in [RowId -> Row \cup {NoRow}]
         /\ saved' \in [RowId -> Nat]
         /\ \A i \in RowId : i \notin rows' \ rows => row'[i] = row[i]
         /\ \A i \in rows' \ rows :
              /\ row'[i] \in Row
              /\ row'[i].lease = "none" /\ ~row'[i].dead /\ row'[i].attempts = 0
              /\ row'[i].worker = NoWorker
              /\ <<row'[i].monitor, row'[i].region>> \in Missing(slots)
         /\ \A i, j \in rows' \ rows :
              /\ row'[i].monitor = row'[j].monitor
              /\ row'[i].region = row'[j].region
              => i = j
<1> DEFINE missing == Missing(slots)
<1>1. missing \subseteq Monitor \X Region
  BY DEF Missing
<1>2. PICK f \in [missing -> Fresh] :
        /\ \A s, t \in missing : f[s] = f[t] => s = t
        /\ rows' = rows \cup {f[s] : s \in missing}
        /\ row' = [i \in RowId |->
                     IF \E s \in missing : f[s] = i
                     THEN LET s == CHOOSE s \in missing : f[s] = i
                          IN  [monitor |-> s[1], region |-> s[2], dead |-> FALSE,
                               attempts |-> 0, lease |-> "none", worker |-> NoWorker,
                               stale |-> FALSE]
                     ELSE row[i]]
        /\ saved' = [i \in RowId |->
                       IF \E s \in missing : f[s] = i THEN 0 ELSE saved[i]]
  BY DEF Insert
<1> HIDE DEF missing
<1>3. rows \subseteq RowId
  BY DEF TypeOK
<1>4. Fresh \subseteq RowId /\ Fresh \cap rows = {}
  BY DEF Fresh
<1>5. \A i : i \in rows' \ rows <=> \E s \in missing : f[s] = i
  BY <1>2, <1>4
<1>6. rows \subseteq rows' /\ rows' \ rows \subseteq Fresh
  BY <1>2, <1>5
<1>7. \A i \in RowId : i \notin rows' \ rows => row'[i] = row[i]
  BY <1>2, <1>5
<1>8. \A s \in missing :
        row'[f[s]] = [monitor |-> s[1], region |-> s[2], dead |-> FALSE,
                      attempts |-> 0, lease |-> "none", worker |-> NoWorker,
                      stale |-> FALSE]
  <2> SUFFICES ASSUME NEW s \in missing
               PROVE  row'[f[s]] = [monitor |-> s[1], region |-> s[2], dead |-> FALSE,
                                    attempts |-> 0, lease |-> "none",
                                    worker |-> NoWorker, stale |-> FALSE]
    OBVIOUS
  <2>1. f[s] \in RowId
    BY <1>2, <1>4
  <2>2. (CHOOSE t \in missing : f[t] = f[s]) = s
    BY <1>2
  <2> QED
    BY <1>2, <2>1, <2>2
<1>9. \A s \in missing :
        /\ row'[f[s]] \in Row
        /\ row'[f[s]].monitor = s[1] /\ row'[f[s]].region = s[2]
        /\ row'[f[s]].lease = "none" /\ ~row'[f[s]].dead /\ row'[f[s]].attempts = 0
        /\ row'[f[s]].worker = NoWorker
  <2> SUFFICES ASSUME NEW s \in missing
               PROVE  /\ row'[f[s]] \in Row
                      /\ row'[f[s]].monitor = s[1] /\ row'[f[s]].region = s[2]
                      /\ row'[f[s]].lease = "none" /\ ~row'[f[s]].dead
                      /\ row'[f[s]].attempts = 0 /\ row'[f[s]].worker = NoWorker
    OBVIOUS
  <2>1. s[1] \in Monitor /\ s[2] \in Region
    BY <1>1
  <2>2. 0 \in 0..MaxAttempts
    BY ConstantsAssumption
  <2>3. row'[f[s]] = [monitor |-> s[1], region |-> s[2], dead |-> FALSE,
                      attempts |-> 0, lease |-> "none", worker |-> NoWorker,
                      stale |-> FALSE]
    BY <1>8
  <2> QED
    BY <2>1, <2>2, <2>3 DEF Row
<1>10. \A s \in missing : s = <<s[1], s[2]>>
  BY <1>1
<1>11. \A i \in rows' \ rows :
         /\ row'[i] \in Row
         /\ row'[i].lease = "none" /\ ~row'[i].dead /\ row'[i].attempts = 0
         /\ row'[i].worker = NoWorker
         /\ <<row'[i].monitor, row'[i].region>> \in missing
  <2> SUFFICES ASSUME NEW i \in rows' \ rows
               PROVE  /\ row'[i] \in Row
                      /\ row'[i].lease = "none" /\ ~row'[i].dead /\ row'[i].attempts = 0
                      /\ row'[i].worker = NoWorker
                      /\ <<row'[i].monitor, row'[i].region>> \in missing
    OBVIOUS
  <2>1. PICK s \in missing : f[s] = i
    BY <1>5
  <2> QED
    BY <1>9, <1>10, <2>1
<1>12. \A i, j \in rows' \ rows :
         row'[i].monitor = row'[j].monitor /\ row'[i].region = row'[j].region => i = j
  <2> SUFFICES ASSUME NEW i \in rows' \ rows, NEW j \in rows' \ rows,
                      row'[i].monitor = row'[j].monitor,
                      row'[i].region = row'[j].region
               PROVE  i = j
    OBVIOUS
  <2>1. PICK s \in missing : f[s] = i
    BY <1>5
  <2>2. PICK t \in missing : f[t] = j
    BY <1>5
  <2>3. s[1] = t[1] /\ s[2] = t[2]
    BY <1>9, <2>1, <2>2
  <2> QED
    BY <1>10, <2>1, <2>2, <2>3
<1>13. row' \in [RowId -> Row \cup {NoRow}]
  <2>1. \A i \in RowId : row'[i] \in Row \cup {NoRow}
    BY <1>7, <1>11 DEF TypeOK
  <2>2. row' = [i \in RowId |-> row'[i]]
    BY <1>2
  <2> QED
    BY <2>1, <2>2
<1>14. saved' \in [RowId -> Nat]
  BY <1>2 DEF TypeOK
<1> QED
  BY <1>6, <1>7, <1>11, <1>12, <1>13, <1>14 DEF missing

\* A DELETE keeps the columns of the rows and jobs that stay.
LEMMA RemoveFacts ==
  ASSUME TypeOK,
         NEW gone, NEW reported, Remove(gone, reported),
         InHand' \subseteq InHand
  PROVE  /\ rows' = rows \ gone
         /\ row' \in [RowId -> Row \cup {NoRow}]
         /\ saved' \in [RowId -> Nat]
         /\ \A i \in rows' \cup InHand' :
              row'[i] \in Row /\ row'[i] = row[i]
<1>1. rows' = rows \ gone
  BY DEF Remove
<1>2. InHand \subseteq RowId /\ rows \subseteq RowId
  BY InHandDef DEF TypeOK
<1>3. \A i \in rows' \cup InHand' : i \in RowId /\ i \in rows \cup InHand /\ row[i] \in Row
  BY <1>1, <1>2 DEF TypeOK
<1>4. \A i \in RowId :
        row'[i] = IF i \in rows' \cup InHand' THEN row[i] ELSE NoRow
  BY DEF Remove
<1>5. \A i \in rows' \cup InHand' : row'[i] \in Row /\ row'[i] = row[i]
  BY <1>3, <1>4
<1>6. row' \in [RowId -> Row \cup {NoRow}]
  <2>1. \A i \in RowId : row'[i] \in Row \cup {NoRow}
    BY <1>4, <1>5
  <2>2. row' = [i \in RowId |-> row'[i]]
    BY DEF Remove
  <2> QED
    BY <2>1, <2>2
<1>7. saved' \in [RowId -> Nat]
  BY DEF Remove, TypeOK
<1> QED
  BY <1>1, <1>5, <1>6, <1>7

-----------------------------------------------------------------------------
(* The invariant.                                                          *)

\* Rows that only leave, die or change columns other than their slot keep the
\* slots exclusive.
LEMMA SlotsShrink ==
  ASSUME OneLivePerSlot,
         rows' \subseteq rows,
         \A i \in rows' : /\ row'[i].monitor = row[i].monitor
                          /\ row'[i].region = row[i].region
                          /\ row[i].dead => row'[i].dead
                          /\ row[i].monitor \in monitors'
  PROVE  OneLivePerSlot'
BY DEF OneLivePerSlot, OnSlot, Live

\* A step that inserts rows for slots of existing monitors.
LEMMA InsertStep ==
  ASSUME IndInv,
         NEW slots, slots \subseteq monitors \X Region,
         Insert(slots),
         active' \subseteq monitors, due' \subseteq monitors,
         UNCHANGED <<monitors, scheduled, phase, claimed, batch, posting>>
  PROVE  IndInv'
<1> USE DEF IndInv
<1>1. slots \subseteq Monitor \X Region
  BY DEF TypeOK
<1>2. InHand' = InHand
  BY DEF InHand
<1>3. /\ rows \subseteq rows'
      /\ rows' \ rows \subseteq Fresh
      /\ row' \in [RowId -> Row \cup {NoRow}]
      /\ saved' \in [RowId -> Nat]
      /\ \A i \in RowId : i \notin rows' \ rows => row'[i] = row[i]
      /\ \A i \in rows' \ rows :
           /\ row'[i] \in Row
           /\ row'[i].lease = "none" /\ ~row'[i].dead /\ row'[i].attempts = 0
           /\ row'[i].worker = NoWorker
           /\ <<row'[i].monitor, row'[i].region>> \in Missing(slots)
      /\ \A i, j \in rows' \ rows :
           row'[i].monitor = row'[j].monitor /\ row'[i].region = row'[j].region => i = j
  BY <1>1, InsertFacts
<1>4. /\ Fresh \subseteq RowId /\ Fresh \cap (rows \cup InHand) = {}
      /\ rows \subseteq RowId /\ InHand \subseteq RowId
  BY InHandDef DEF Fresh, TypeOK
<1>5. \A i \in rows \cup InHand : row'[i] = row[i]
  BY <1>3, <1>4
<1>6. TypeOK'
  <2>1. \A i \in rows' \cup InHand' : row'[i] \in Row
    BY <1>2, <1>3, <1>5 DEF TypeOK
  <2> QED
    BY <1>3, <1>4, <2>1 DEF TypeOK
<1>7. OneLivePerSlot'
  <2>1. \A i \in rows' : row'[i].monitor \in monitors'
    <3> SUFFICES ASSUME NEW i \in rows' PROVE row'[i].monitor \in monitors'
      OBVIOUS
    <3>1. CASE i \in rows
      BY <1>5, <3>1 DEF OneLivePerSlot
    <3>2. CASE i \notin rows
      <4>1. <<row'[i].monitor, row'[i].region>> \in monitors \X Region
        BY <1>3, <3>2 DEF Missing
      <4> QED
        BY <4>1
    <3> QED
      BY <3>1, <3>2
  <2>2. ASSUME NEW i \in rows', NEW j \in rows', i \in rows, j \notin rows,
               ~row'[i].dead,
               row'[i].monitor = row'[j].monitor, row'[i].region = row'[j].region
        PROVE  FALSE
    <3>1. <<row'[j].monitor, row'[j].region>> \in Missing(slots)
      BY <1>3, <2>2
    <3>2. row'[i] = row[i]
      BY <1>5, <2>2
    <3>3. Live(i) /\ OnSlot(i, row'[j].monitor, row'[j].region)
      BY <2>2, <3>2 DEF Live, OnSlot
    <3> QED
      BY <2>2, <3>1, <3>3 DEF Missing
  <2>3. ASSUME NEW i \in rows', NEW j \in rows', ~row'[i].dead, ~row'[j].dead,
               row'[i].monitor = row'[j].monitor, row'[i].region = row'[j].region
        PROVE  i = j
    <3>1. CASE i \in rows /\ j \in rows
      BY <1>5, <2>3, <3>1 DEF OneLivePerSlot, Live, OnSlot
    <3>2. CASE i \in rows /\ j \notin rows
      BY <2>2, <2>3, <3>2
    <3>3. CASE i \notin rows /\ j \in rows
      BY <2>2, <2>3, <3>3
    <3>4. CASE i \notin rows /\ j \notin rows
      BY <1>3, <2>3, <3>4
    <3> QED
      BY <3>1, <3>2, <3>3, <3>4
  <2> QED
    BY <2>1, <2>3 DEF OneLivePerSlot, Live, OnSlot
<1>8. InHandLeased'
  BY <1>2, <1>5 DEF InHandLeased
<1> QED
  BY <1>6, <1>7, <1>8

\* A step that deletes rows and passes no new job to anybody.
LEMMA RemoveStep ==
  ASSUME IndInv,
         NEW gone, NEW reported, Remove(gone, reported),
         InHand' \subseteq InHand,
         monitors' \subseteq Monitor, active' \subseteq monitors', due' \subseteq monitors',
         \A i \in rows' : row[i].monitor \in monitors',
         scheduled' = scheduled,
         phase' \in [Worker -> Phase],
         claimed' \in [Worker -> SUBSET RowId],
         batch' \in [Worker -> SUBSET RowId],
         posting' \in [Worker -> SUBSET RowId]
  PROVE  IndInv'
<1> USE DEF IndInv
<1>1. /\ rows' = rows \ gone
      /\ row' \in [RowId -> Row \cup {NoRow}]
      /\ saved' \in [RowId -> Nat]
      /\ \A i \in rows' \cup InHand' : row'[i] \in Row /\ row'[i] = row[i]
  BY RemoveFacts
<1>2. TypeOK'
  BY <1>1 DEF TypeOK
<1>3. OneLivePerSlot'
  BY <1>1, SlotsShrink
<1>4. InHandLeased'
  BY <1>1 DEF InHandLeased
<1> QED
  BY <1>2, <1>3, <1>4

\* A step that changes columns of rows, none of them their slot or a death, and
\* leaves everything else that matters alone.
LEMMA ColumnStep ==
  ASSUME IndInv,
         UNCHANGED <<monitors, active, scheduled, rows, claimed, batch, posting, saved>>,
         due' \subseteq monitors,
         phase' \in [Worker -> Phase],
         row' \in [RowId -> Row \cup {NoRow}],
         \A i \in rows \cup InHand :
           /\ row'[i] \in Row
           /\ row'[i].monitor = row[i].monitor /\ row'[i].region = row[i].region
           /\ row[i].dead => row'[i].dead
           /\ row'[i].attempts = row[i].attempts
  PROVE  IndInv'
<1> USE DEF IndInv
<1>1. InHand' = InHand
  BY DEF InHand
<1>2. TypeOK'
  BY <1>1 DEF TypeOK
<1>3. \A i \in rows' : row[i].monitor \in monitors'
  BY DEF OneLivePerSlot
<1>4. OneLivePerSlot'
  BY <1>3, SlotsShrink
<1>5. InHandLeased'
  BY <1>1 DEF InHandLeased
<1> QED
  BY <1>2, <1>4, <1>5

-----------------------------------------------------------------------------
(* The actions.                                                            *)

LEMMA InitIndInv == Init => IndInv
<1> SUFFICES ASSUME Init PROVE IndInv
  OBVIOUS
<1> USE DEF Init, NoWork
<1>1. InHand = {}
  BY DEF InHand
<1>2. TypeOK
  BY <1>1 DEF TypeOK, Phase
<1>3. OneLivePerSlot
  BY DEF OneLivePerSlot
<1>4. InHandLeased
  BY <1>1 DEF InHandLeased
<1> QED
  BY <1>2, <1>3, <1>4 DEF IndInv

LEMMA UserStepIndInv == IndInv /\ UserStep => IndInv'
<1> SUFFICES ASSUME IndInv, UserStep PROVE IndInv'
  OBVIOUS
<1> USE DEF IndInv, TypeOK
<1>1. ASSUME NEW m \in Monitor, CreateMonitor(m) PROVE IndInv'
  <2>1. InHand' = InHand
    BY <1>1 DEF CreateMonitor, InHand
  <2>2. TypeOK'
    BY <1>1, <2>1 DEF CreateMonitor
  <2>3. OneLivePerSlot'
    BY <1>1 DEF CreateMonitor, OneLivePerSlot, Live, OnSlot
  <2>4. InHandLeased'
    BY <1>1, <2>1 DEF CreateMonitor, InHandLeased
  <2> QED
    BY <2>2, <2>3, <2>4
<1>2. ASSUME NEW m \in Monitor, DeleteMonitor(m) PROVE IndInv'
  <2>1. InHand' \subseteq InHand
    BY <1>2 DEF DeleteMonitor, InHand
  <2>2. Remove({i \in rows : row[i].monitor = m}, {})
    BY <1>2 DEF DeleteMonitor
  <2>3. \A i \in rows' : row[i].monitor \in monitors'
    BY <1>2 DEF DeleteMonitor, Remove, OneLivePerSlot
  <2> QED
    BY <1>2, <2>1, <2>2, <2>3, RemoveStep DEF DeleteMonitor
<1>3. ASSUME NEW m \in Monitor, PauseMonitor(m) PROVE IndInv'
  <2>1. InHand' = InHand
    BY <1>3 DEF PauseMonitor, InHand
  <2> QED
    BY <1>3, <2>1 DEF PauseMonitor, OneLivePerSlot, Live, OnSlot, InHandLeased
<1>4. ASSUME NEW m \in Monitor, ResumeMonitor(m) PROVE IndInv'
  <2>1. InHand' = InHand
    BY <1>4 DEF ResumeMonitor, InHand
  <2> QED
    BY <1>4, <2>1 DEF ResumeMonitor, OneLivePerSlot, Live, OnSlot, InHandLeased
<1>5. ASSUME NEW m \in Monitor, CheckNow(m) PROVE IndInv'
  <2>1. {m} \X scheduled \subseteq monitors \X Region
    BY <1>5 DEF CheckNow
  <2> QED
    BY <1>5, <2>1, InsertStep DEF CheckNow
<1>6. ASSUME NEW r \in Region, FlipRegion(r) PROVE IndInv'
  <2>1. InHand' = InHand
    BY <1>6 DEF FlipRegion, InHand
  <2> QED
    BY <1>6, <2>1 DEF FlipRegion, OneLivePerSlot, Live, OnSlot, InHandLeased
<1> QED
  BY <1>1, <1>2, <1>3, <1>4, <1>5, <1>6 DEF UserStep

LEMMA TaskStepIndInv == IndInv /\ TaskStep => IndInv'
<1> SUFFICES ASSUME IndInv, TaskStep PROVE IndInv'
  OBVIOUS
<1> USE DEF IndInv, TypeOK
<1>1. CASE SchedulePendingChecks
  <2>1. (due \cap active) \X scheduled \subseteq monitors \X Region
    <3>1. due \cap active \subseteq monitors /\ scheduled \subseteq Region
      OBVIOUS
    <3> HIDE DEF IndInv, TypeOK
    <3> QED
      BY <3>1
  <2> QED
    BY <1>1, <2>1, InsertStep DEF SchedulePendingChecks
<1>2. CASE ReapDeadPendingChecks
  <2>1. \A i \in RowId :
          row'[i] = IF i \in Reapable
                    THEN [row[i] EXCEPT !.dead = TRUE, !.stale = FALSE]
                    ELSE row[i]
    BY <1>2 DEF ReapDeadPendingChecks
  <2>2. Reapable \subseteq rows /\ InHand \subseteq RowId
    BY InHandDef DEF Reapable
  <2>3. ASSUME NEW i \in rows \cup InHand
        PROVE  /\ row'[i] \in Row
               /\ row'[i].monitor = row[i].monitor /\ row'[i].region = row[i].region
               /\ row[i].dead => row'[i].dead
               /\ row'[i].attempts = row[i].attempts
    <3>1. row[i] \in Row /\ i \in RowId
      BY <2>2
    <3> HIDE DEF IndInv, TypeOK
    <3>2. CASE i \in Reapable
      <4>1. row'[i] = [row[i] EXCEPT !.dead = TRUE, !.stale = FALSE]
        BY <2>1, <3>1, <3>2
      <4> QED
        BY <3>1, <4>1 DEF Row
    <3>3. CASE i \notin Reapable
      BY <2>1, <3>1, <3>3
    <3> QED
      BY <3>2, <3>3
  <2>4. row' \in [RowId -> Row \cup {NoRow}]
    <3>1. \A i \in RowId : row'[i] \in Row \cup {NoRow}
      BY <2>1, <2>2, <2>3
    <3>2. row' = [i \in RowId |-> row'[i]]
      BY <1>2 DEF ReapDeadPendingChecks
    <3> QED
      BY <3>1, <3>2
  <2> QED
    BY <1>2, <2>3, <2>4, ColumnStep, Zenon DEF ReapDeadPendingChecks
<1>3. CASE CleanupOldChecks
  <2> DEFINE D == {i \in rows : row[i].dead /\ row[i].stale}
  <2>1. Remove(D, {})
    BY <1>3 DEF CleanupOldChecks
  <2>2. InHand' \subseteq InHand
    BY <1>3 DEF CleanupOldChecks, InHand
  <2>3. \A i \in rows' : row[i].monitor \in monitors'
    BY <1>3, <2>1 DEF CleanupOldChecks, Remove, OneLivePerSlot
  <2> HIDE DEF D
  <2> QED
    BY <1>3, <2>1, <2>2, <2>3, RemoveStep DEF CleanupOldChecks
<1> QED
  BY <1>1, <1>2, <1>3 DEF TaskStep

LEMMA TimeStepIndInv == IndInv /\ TimeStep => IndInv'
<1> SUFFICES ASSUME IndInv, TimeStep PROVE IndInv'
  OBVIOUS
<1> USE DEF IndInv, TypeOK
<1>0. InHand \subseteq RowId
  BY InHandDef
<1>1. ASSUME NEW i \in RowId, LeaseExpires(i) PROVE IndInv'
  <2>1. row[i] \in Row /\ row' = [row EXCEPT ![i] = [row[i] EXCEPT !.lease = "expired"]]
    BY <1>1 DEF LeaseExpires
  <2>2. [row[i] EXCEPT !.lease = "expired"] \in Row
    BY <2>1 DEF Row
  <2>3. \A j \in rows \cup InHand :
          /\ row'[j] \in Row
          /\ row'[j].monitor = row[j].monitor /\ row'[j].region = row[j].region
          /\ row[j].dead => row'[j].dead
          /\ row'[j].attempts = row[j].attempts
    BY <1>0, <2>1, <2>2 DEF Row
  <2>4. row' \in [RowId -> Row \cup {NoRow}]
    BY <2>1, <2>2
  <2> QED
    BY <1>1, <2>3, <2>4, ColumnStep DEF LeaseExpires
<1>2. ASSUME NEW i \in RowId, RowAges(i) PROVE IndInv'
  <2>1. row[i] \in Row /\ row' = [row EXCEPT ![i] = [row[i] EXCEPT !.stale = TRUE]]
    BY <1>2 DEF RowAges
  <2>2. [row[i] EXCEPT !.stale = TRUE] \in Row
    BY <2>1 DEF Row
  <2>3. \A j \in rows \cup InHand :
          /\ row'[j] \in Row
          /\ row'[j].monitor = row[j].monitor /\ row'[j].region = row[j].region
          /\ row[j].dead => row'[j].dead
          /\ row'[j].attempts = row[j].attempts
    BY <1>0, <2>1, <2>2 DEF Row
  <2>4. row' \in [RowId -> Row \cup {NoRow}]
    BY <2>1, <2>2
  <2> QED
    BY <1>2, <2>3, <2>4, ColumnStep DEF RowAges
<1>3. ASSUME NEW m \in Monitor, IntervalElapses(m) PROVE IndInv'
  <2>1. InHand' = InHand
    BY <1>3 DEF IntervalElapses, InHand
  <2> QED
    BY <1>3, <2>1 DEF IntervalElapses, OneLivePerSlot, Live, OnSlot, InHandLeased
<1> QED
  BY <1>1, <1>2, <1>3 DEF TimeStep

\* A claim leases rows under the cap: one more attempt each, and they are in
\* their holder's hands.
LEMMA ClaimJobsIndInv ==
  ASSUME IndInv, NEW w \in Worker, ClaimJobs(w)
  PROVE  IndInv'
<1> USE DEF IndInv
<1>1. PICK S \in SUBSET Eligible(RegionOf[w]) :
        /\ row' = [i \in RowId |-> IF i \in S THEN Leased(i, w) ELSE row[i]]
        /\ claimed' = [claimed EXCEPT ![w] = S]
  BY DEF ClaimJobs
<1>2. UNCHANGED <<monitors, active, due, scheduled, rows, batch, posting, saved>>
  BY DEF ClaimJobs
<1>3. rows \subseteq RowId /\ InHand \subseteq RowId
  BY InHandDef DEF TypeOK
<1>4. S \subseteq rows /\ \A i \in S : row[i] \in Row /\ row[i].attempts < MaxAttempts
  BY DEF Eligible, TypeOK
<1>5. claimed' \in [Worker -> SUBSET RowId]
  BY <1>1, <1>3, <1>4 DEF TypeOK
<1>6. InHand' \subseteq InHand \cup S
  BY <1>1, <1>2 DEF InHand, TypeOK
<1>7. ASSUME NEW i \in S
      PROVE  /\ row'[i] \in Row
             /\ row'[i].monitor = row[i].monitor /\ row'[i].region = row[i].region
             /\ row'[i].dead = row[i].dead
             /\ row'[i].attempts > 0
  <2>1. row'[i] = [row[i] EXCEPT !.lease = "held", !.worker = w, !.attempts = @ + 1,
                                 !.stale = FALSE]
    BY <1>1, <1>3, <1>4 DEF Leased
  <2>2. row[i] \in Row /\ row[i].attempts \in 0..MaxAttempts /\ row[i].attempts < MaxAttempts
    BY <1>4 DEF Row
  <2>3. row[i].attempts + 1 \in 0..MaxAttempts /\ row[i].attempts + 1 > 0
    BY <2>2, ConstantsAssumption
  <2> QED
    BY <2>1, <2>2, <2>3, ZenonT(40) DEF Row
<1>8. \A i \in RowId \ S : row'[i] = row[i]
  BY <1>1
<1>9. row' \in [RowId -> Row \cup {NoRow}]
  <2>1. \A i \in RowId : row'[i] \in Row \cup {NoRow}
    BY <1>7, <1>8 DEF TypeOK
  <2>2. row' = [i \in RowId |-> row'[i]]
    BY <1>1
  <2> QED
    BY <2>1, <2>2
<1>10. \A i \in rows' \cup InHand' : row'[i] \in Row
  BY <1>2, <1>3, <1>6, <1>7, <1>8 DEF TypeOK
<1>11. phase' \in [Worker -> Phase]
  BY DEF ClaimJobs, TypeOK, Phase
<1>12. TypeOK'
  BY <1>2, <1>5, <1>9, <1>10, <1>11 DEF TypeOK
<1>13. \A i \in rows' : /\ row'[i].monitor = row[i].monitor
                        /\ row'[i].region = row[i].region
                        /\ row[i].dead => row'[i].dead
                        /\ row[i].monitor \in monitors'
  BY <1>2, <1>3, <1>7, <1>8 DEF OneLivePerSlot
<1>14. OneLivePerSlot'
  BY <1>2, <1>13, SlotsShrink
<1>15. InHandLeased'
  <2> SUFFICES ASSUME NEW i \in InHand' PROVE row'[i].attempts > 0
    BY DEF InHandLeased
  <2>1. CASE i \in S
    BY <1>7, <2>1
  <2>2. CASE i \notin S
    BY <1>3, <1>6, <1>8, <2>2 DEF InHandLeased
  <2> QED
    BY <2>1, <2>2
<1> QED
  BY <1>12, <1>14, <1>15

LEMMA WorkerStepIndInv == IndInv /\ WorkerStep => IndInv'
<1> SUFFICES ASSUME IndInv, NEW w \in Worker,
                    \/ ClaimJobs(w) \/ Answer(w) \/ LoseJobs(w)
                    \/ SubmitResults(w) \/ SaveResults(w) \/ LoseResults(w)
                    \/ Abandon(w)
             PROVE  IndInv'
  BY DEF WorkerStep
<1> USE DEF IndInv, TypeOK
<1>0. \A gone, reported : Remove(gone, reported) /\ monitors' = monitors
        => \A i \in rows' : row[i].monitor \in monitors'
  BY DEF Remove, OneLivePerSlot
<1>1. CASE ClaimJobs(w)
  BY <1>1, ClaimJobsIndInv
<1>2. CASE Answer(w)
  <2>1. PICK blocked \in SUBSET Monitor : AnswerJobs(w, blocked)
    BY <1>2 DEF Answer
  <2> DEFINE B == {i \in claimed[w] : row[i].monitor \in blocked}
  <2>2. /\ Remove(B, B)
        /\ claimed' = [claimed EXCEPT ![w] = {}]
        /\ \/ /\ batch' = [batch EXCEPT ![w] = claimed[w] \ B]
              /\ \/ phase' = [phase EXCEPT ![w] = "idle"]
                 \/ phase' = [phase EXCEPT ![w] = "working"]
           \/ batch' = batch /\ phase' = phase
        /\ UNCHANGED <<monitors, active, due, scheduled, posting>>
    BY <2>1 DEF AnswerJobs
  <2>3. B \subseteq claimed[w]
    OBVIOUS
  <2> HIDE DEF B
  <2>4. InHand' \subseteq InHand
    BY <2>2, <2>3 DEF InHand
  <2>5. phase' \in [Worker -> Phase] /\ batch' \in [Worker -> SUBSET RowId]
    BY <2>2, <2>3 DEF Phase
  <2> QED
    BY <1>0, <2>2, <2>4, <2>5, RemoveStep
<1>3. CASE LoseJobs(w)
  <2>1. InHand' \subseteq InHand
    BY <1>3 DEF LoseJobs, InHand
  <2>2. phase' \in [Worker -> Phase]
    BY <1>3 DEF LoseJobs, Phase
  <2> QED
    BY <1>0, <1>3, <2>1, <2>2, RemoveStep DEF LoseJobs
<1>4. CASE SubmitResults(w)
  <2>1. InHand' = InHand
    BY <1>4 DEF SubmitResults, InHand
  <2>2. phase' \in [Worker -> Phase]
    BY <1>4 DEF SubmitResults, Phase
  <2>3. TypeOK'
    BY <1>4, <2>1, <2>2 DEF SubmitResults
  <2> QED
    BY <1>4, <2>1, <2>3 DEF SubmitResults, OneLivePerSlot, Live, OnSlot, InHandLeased
<1>5. CASE SaveResults(w)
  <2> DEFINE alive == {i \in posting[w] : row[i].monitor \in monitors}
  <2>1. /\ Remove(Completed(w, alive), alive)
        /\ posting' = [posting EXCEPT ![w] = {}]
        /\ UNCHANGED <<monitors, active, due, scheduled, claimed, batch>>
    BY <1>5 DEF SaveResults
  <2>2. InHand' \subseteq InHand
    BY <2>1 DEF InHand
  <2>3. phase' \in [Worker -> Phase]
    BY <1>5 DEF SaveResults, Phase
  <2> HIDE DEF alive
  <2> QED
    BY <1>0, <2>1, <2>2, <2>3, RemoveStep
<1>6. CASE LoseResults(w)
  <2>1. InHand' \subseteq InHand
    BY <1>6 DEF LoseResults, InHand
  <2>2. phase' \in [Worker -> Phase]
    BY <1>6 DEF LoseResults, Phase
  <2> QED
    BY <1>0, <1>6, <2>1, <2>2, RemoveStep DEF LoseResults
<1>7. CASE Abandon(w)
  <2>1. InHand' \subseteq InHand
    BY <1>7 DEF Abandon, InHand
  <2>2. phase' \in [Worker -> Phase]
    BY <1>7 DEF Abandon, Phase
  <2> QED
    BY <1>0, <1>7, <2>1, <2>2, RemoveStep DEF Abandon
<1> QED
  BY <1>1, <1>2, <1>3, <1>4, <1>5, <1>6, <1>7

LEMMA StutterIndInv == IndInv /\ UNCHANGED vars => IndInv'
<1> SUFFICES ASSUME IndInv, UNCHANGED vars PROVE IndInv'
  OBVIOUS
<1> USE DEF vars
<1>1. InHand' = InHand
  BY DEF InHand
<1> QED
  BY <1>1 DEF IndInv, TypeOK, OneLivePerSlot, Live, OnSlot, InHandLeased

-----------------------------------------------------------------------------
(* The theorems.                                                           *)

\* The invariant holds in every state of every behaviour.
THEOREM Invariant == Spec => []IndInv
<1>1. Init => IndInv
  BY InitIndInv
<1>2. IndInv /\ [Next]_vars => IndInv'
  BY UserStepIndInv, TaskStepIndInv, WorkerStepIndInv, TimeStepIndInv, StutterIndInv
     DEF Next
<1> QED
  BY <1>1, <1>2, PTL DEF Spec

\* Every variable keeps its type; no row counts more than MaxAttempts leases.
THEOREM TypeCorrect == Spec => []TypeOK
BY Invariant, PTL DEF IndInv

\* However scheduler, check-now, reaper and workers overlap, a (monitor, region)
\* slot holds at most one row that is not dead, of a monitor that exists.
THEOREM SlotsExclusive == Spec => []OneLivePerSlot
BY Invariant, PTL DEF IndInv

\* Who removes a row: the deletion of its monitor, the cleanup of dead rows, the
\* dispatch-time guard, or the results of the worker that leased it last.
LEMMA WhoRemoves ==
  ASSUME IndInv, Next, NEW i \in rows \ rows'
  PROVE  \/ row[i].monitor \notin monitors'
         \/ ~Live(i)
         \/ \E w \in Worker : i \in claimed[w] \ claimed'[w]
         \/ \E w \in Worker : row[i].worker = w /\ i \in posting[w] \ posting'[w]
<1> USE DEF IndInv, TypeOK
<1>1. ASSUME NEW slots, Insert(slots) PROVE FALSE
  BY <1>1 DEF Insert
<1>2. CASE UserStep
  <2>1. PICK m \in Monitor : DeleteMonitor(m)
    BY <1>1, <1>2 DEF UserStep, CreateMonitor, PauseMonitor, ResumeMonitor, CheckNow,
                      FlipRegion
  <2> QED
    BY <2>1 DEF DeleteMonitor, Remove
<1>3. CASE TaskStep
  <2>1. CleanupOldChecks
    BY <1>1, <1>3 DEF TaskStep, SchedulePendingChecks, ReapDeadPendingChecks
  <2> QED
    BY <2>1 DEF CleanupOldChecks, Remove, Live
<1>4. ASSUME NEW w \in Worker,
             \/ ClaimJobs(w) \/ Answer(w) \/ LoseJobs(w)
             \/ SubmitResults(w) \/ SaveResults(w) \/ LoseResults(w)
             \/ Abandon(w)
      PROVE  \/ i \in claimed[w] \ claimed'[w]
             \/ row[i].worker = w /\ i \in posting[w] \ posting'[w]
  <2>1. Answer(w) \/ SaveResults(w)
    BY <1>4 DEF ClaimJobs, LoseJobs, SubmitResults, LoseResults, Abandon, Remove
  <2>2. CASE Answer(w)
    <3>1. PICK blocked \in SUBSET Monitor : AnswerJobs(w, blocked)
      BY <2>2 DEF Answer
    <3>2. i \in claimed[w] /\ claimed' = [claimed EXCEPT ![w] = {}]
      BY <3>1 DEF AnswerJobs, Remove
    <3> QED
      BY <3>2
  <2>3. CASE SaveResults(w)
    BY <2>3 DEF SaveResults, Completed, Remove
  <2> QED
    BY <2>1, <2>2, <2>3
<1>5. CASE TimeStep
  BY <1>5 DEF TimeStep, LeaseExpires, RowAges, IntervalElapses
<1> QED
  BY <1>2, <1>3, <1>4, <1>5 DEF Next, WorkerStep

\* Another worker's stale submission never wipes a row under an unexpired lease.
THEOREM HolderKeepsItsLease == Spec => HolderKeepsLease
<1>1. IndInv /\ [Next]_vars =>
        [\A i \in rows \ rows' :
           Live(i) /\ row[i].lease = "held"
             => \/ row[i].monitor \notin monitors'
                \/ i \in posting[row[i].worker] \ posting'[row[i].worker]
                \/ \E w \in Worker : i \in claimed[w] \ claimed'[w]]_vars
  BY WhoRemoves
<1> QED
  BY <1>1, Invariant, PTL DEF Spec, HolderKeepsLease

\* Late results never remove the fresh row that replaced a reaped one: a live
\* row leaves with results only if it was leased.
THEOREM LateResultsSpareFreshRows == Spec => OnlyLeasedRowsComplete
<1>1. IndInv /\ [Next]_vars =>
        [\A i \in rows \ rows' :
           Live(i) /\ row[i].monitor \in monitors' => row[i].attempts > 0]_vars
  <2> SUFFICES ASSUME IndInv, Next, NEW i \in rows \ rows', Live(i),
                      row[i].monitor \in monitors'
               PROVE  row[i].attempts > 0
    OBVIOUS
  <2>1. i \in InHand
    BY WhoRemoves, InHandDef
  <2> QED
    BY <2>1 DEF IndInv, InHandLeased
<1> QED
  BY <1>1, Invariant, PTL DEF Spec, OnlyLeasedRowsComplete

\* What a step does to the columns of a row that stays in the table: none, or
\* its death, or a new lease under the cap, or time passing over it.
LEMMA WhatChanges ==
  ASSUME IndInv, Next, NEW i \in rows \cap rows'
  PROVE  /\ row'[i].monitor = row[i].monitor /\ row'[i].region = row[i].region
         /\ \/ /\ row'[i].dead = row[i].dead
               /\ row'[i].attempts = row[i].attempts
               /\ row'[i].worker = row[i].worker
               /\ row'[i].lease = row[i].lease
            \/ /\ ~row[i].dead /\ row'[i].dead
            \/ /\ ~row[i].dead /\ ~row'[i].dead
               /\ row[i].attempts < MaxAttempts
               /\ row[i].lease # "held" /\ row'[i].lease = "held"
               /\ row'[i].attempts = row[i].attempts + 1
               /\ row'[i].worker \in Worker
            \/ /\ row'[i].dead = row[i].dead
               /\ row'[i].attempts = row[i].attempts
               /\ row'[i].worker = row[i].worker
               /\ row[i].lease = "held" /\ row'[i].lease = "expired"
<1> DEFINE Same == /\ row'[i].monitor = row[i].monitor /\ row'[i].region = row[i].region
                   /\ row'[i].dead = row[i].dead
                   /\ row'[i].attempts = row[i].attempts
                   /\ row'[i].worker = row[i].worker
                   /\ row'[i].lease = row[i].lease
<1>0. TypeOK /\ i \in RowId /\ row[i] \in Row
  BY DEF IndInv, TypeOK
<1>1. ASSUME NEW slots, slots \subseteq monitors \X scheduled, Insert(slots) PROVE Same
  <2>1. slots \subseteq Monitor \X Region
    BY <1>0, <1>1 DEF TypeOK
  <2> QED
    BY <1>0, <1>1, <2>1, InsertFacts
<1>2. ASSUME NEW gone, NEW reported, Remove(gone, reported) PROVE Same
  BY <1>0, <1>2 DEF Remove, Row
<1>3. ASSUME row' = row PROVE Same
  BY <1>3
<1>4. CASE UserStep
  <2>1. ASSUME NEW m \in Monitor, CheckNow(m) PROVE Same
    BY <1>1, <2>1 DEF CheckNow
  <2>2. ASSUME NEW m \in Monitor, DeleteMonitor(m) PROVE Same
    BY <1>2, <2>2 DEF DeleteMonitor
  <2>3. Same
    BY <1>3, <1>4, <2>1, <2>2 DEF UserStep, CreateMonitor, PauseMonitor, ResumeMonitor,
                                 FlipRegion
  <2> QED
    BY <2>3
<1>5. CASE SchedulePendingChecks
  <2>1. (due \cap active) \X scheduled \subseteq monitors \X scheduled
    BY <1>0 DEF TypeOK
  <2> QED
    BY <1>1, <1>5, <2>1 DEF SchedulePendingChecks
<1>6. CASE ReapDeadPendingChecks
  <2>1. row'[i] = IF i \in Reapable
                  THEN [row[i] EXCEPT !.dead = TRUE, !.stale = FALSE]
                  ELSE row[i]
    BY <1>0, <1>6 DEF ReapDeadPendingChecks
  <2>2. i \in Reapable => ~row[i].dead
    BY DEF Reapable, Exhausted, Orphaned, Live
  <2>3. CASE i \in Reapable
    <3>1. row'[i] = [row[i] EXCEPT !.dead = TRUE, !.stale = FALSE]
      BY <2>1, <2>3
    <3> QED
      BY <1>0, <2>2, <2>3, <3>1 DEF Row
  <2>4. CASE i \notin Reapable
    BY <2>1, <2>4
  <2> QED
    BY <2>3, <2>4
<1>7. CASE CleanupOldChecks
  BY <1>2, <1>7 DEF CleanupOldChecks
<1>8. ASSUME NEW w \in Worker, ClaimJobs(w)
      PROVE  \/ Same
             \/ /\ row'[i].monitor = row[i].monitor /\ row'[i].region = row[i].region
                /\ ~row[i].dead /\ ~row'[i].dead
                /\ row[i].attempts < MaxAttempts
                /\ row[i].lease # "held" /\ row'[i].lease = "held"
                /\ row'[i].attempts = row[i].attempts + 1
                /\ row'[i].worker \in Worker
  <2>1. PICK S \in SUBSET Eligible(RegionOf[w]) :
          row' = [j \in RowId |-> IF j \in S THEN Leased(j, w) ELSE row[j]]
    BY <1>8 DEF ClaimJobs
  <2>2. CASE i \in S
    <3>1. ~row[i].dead /\ row[i].attempts < MaxAttempts /\ row[i].lease # "held"
      BY <2>2 DEF Eligible, Live
    <3>2. row'[i] = [row[i] EXCEPT !.lease = "held", !.worker = w, !.attempts = @ + 1,
                                   !.stale = FALSE]
      BY <1>0, <2>1, <2>2 DEF Leased
    <3> QED
      BY <1>0, <3>1, <3>2 DEF Row
  <2>3. CASE i \notin S
    BY <1>0, <2>1, <2>3
  <2> QED
    BY <2>2, <2>3
<1>9. ASSUME NEW w \in Worker, \/ Answer(w) \/ LoseJobs(w) \/ SubmitResults(w)
                               \/ SaveResults(w) \/ LoseResults(w) \/ Abandon(w)
      PROVE  Same
  BY <1>2, <1>3, <1>9 DEF Answer, AnswerJobs, LoseJobs, SubmitResults, SaveResults,
                          LoseResults, Abandon
<1>10. CASE TimeStep
  <2>1. ASSUME NEW j \in RowId, LeaseExpires(j)
        PROVE  \/ Same
               \/ /\ row'[i].monitor = row[i].monitor /\ row'[i].region = row[i].region
                  /\ row'[i].dead = row[i].dead
                  /\ row'[i].attempts = row[i].attempts
                  /\ row'[i].worker = row[i].worker
                  /\ row[i].lease = "held" /\ row'[i].lease = "expired"
    <3>1. CASE j = i
      <4>1. row'[i] = [row[i] EXCEPT !.lease = "expired"] /\ row[i].lease = "held"
        BY <1>0, <2>1, <3>1 DEF LeaseExpires, TypeOK
      <4> QED
        BY <1>0, <4>1 DEF Row
    <3>2. CASE j # i
      BY <1>0, <2>1, <3>2 DEF LeaseExpires, TypeOK
    <3> QED
      BY <3>1, <3>2
  <2>2. ASSUME NEW j \in RowId, RowAges(j) PROVE Same
    <3>1. CASE j = i
      <4>1. row'[i] = [row[i] EXCEPT !.stale = TRUE]
        BY <1>0, <2>2, <3>1 DEF RowAges, TypeOK
      <4> QED
        BY <1>0, <4>1 DEF Row
    <3>2. CASE j # i
      BY <1>0, <2>2, <3>2 DEF RowAges, TypeOK
    <3> QED
      BY <3>1, <3>2
  <2>3. ASSUME NEW m \in Monitor, IntervalElapses(m) PROVE Same
    BY <1>3, <2>3 DEF IntervalElapses
  <2> QED
    BY <1>10, <2>1, <2>2, <2>3 DEF TimeStep
<1> QED
  BY <1>4, <1>5, <1>6, <1>7, <1>8, <1>9, <1>10 DEF Next, TaskStep, WorkerStep

\* The reaper's verdict is final: a dead row is never leased or revived.
THEOREM DeadRowsStayDead == Spec => DeadStaysDead
<1>1. IndInv /\ [Next]_vars =>
        [\A i \in rows \cap rows' :
           row[i].dead => /\ row'[i].dead
                          /\ row'[i].attempts = row[i].attempts
                          /\ row'[i].worker = row[i].worker]_vars
  BY WhatChanges
<1> QED
  BY <1>1, Invariant, PTL DEF Spec, DeadStaysDead

-----------------------------------------------------------------------------
(* No row is stuck.                                                        *)

\* A row counts its leases from the first, and one that was leased has a holder.
LeasesCounted ==
  \A i \in rows : Live(i) =>
    /\ row[i].lease = "none" <=> row[i].attempts = 0
    /\ row[i].lease = "none" \/ row[i].worker \in Worker

QueueInv == IndInv /\ LeasesCounted

\* Only an INSERT brings a row into the table.
LEMMA TableGrows ==
  ASSUME IndInv, Next, ~(rows' \subseteq rows)
  PROVE  \E slots \in SUBSET (Monitor \X Region) : Insert(slots)
<1>0. /\ monitors \subseteq Monitor /\ active \subseteq monitors /\ due \subseteq monitors
      /\ scheduled \subseteq Region
  BY DEF IndInv, TypeOK
<1>1. ASSUME NEW gone, NEW reported, Remove(gone, reported) PROVE rows' \subseteq rows
  BY <1>1 DEF Remove
<1>2. CASE UserStep
  <2>1. PICK m \in Monitor : CheckNow(m)
    BY <1>1, <1>2 DEF UserStep, CreateMonitor, DeleteMonitor, PauseMonitor, ResumeMonitor,
                      FlipRegion
  <2>2. {m} \X scheduled \in SUBSET (Monitor \X Region)
    BY <1>0
  <2> QED
    BY <2>1, <2>2 DEF CheckNow
<1>3. CASE TaskStep
  <2>1. SchedulePendingChecks
    BY <1>1, <1>3 DEF TaskStep, ReapDeadPendingChecks, CleanupOldChecks
  <2>2. (due \cap active) \X scheduled \in SUBSET (Monitor \X Region)
    BY <1>0
  <2> QED
    BY <2>1, <2>2 DEF SchedulePendingChecks
<1>4. ASSUME NEW w \in Worker, \/ ClaimJobs(w) \/ Answer(w) \/ LoseJobs(w) \/ SubmitResults(w)
                               \/ SaveResults(w) \/ LoseResults(w) \/ Abandon(w)
      PROVE  FALSE
  BY <1>1, <1>4 DEF ClaimJobs, Answer, AnswerJobs, LoseJobs, SubmitResults, SaveResults,
                    LoseResults, Abandon
<1>5. CASE TimeStep
  BY <1>5 DEF TimeStep, LeaseExpires, RowAges, IntervalElapses
<1> QED
  BY <1>2, <1>3, <1>4, <1>5 DEF Next, WorkerStep

\* A row that comes into the table is live and unleased.
LEMMA Newcomers ==
  ASSUME IndInv, Next, NEW i \in rows' \ rows
  PROVE  ~row'[i].dead /\ row'[i].lease = "none" /\ row'[i].attempts = 0
<1>1. PICK slots \in SUBSET (Monitor \X Region) : Insert(slots)
  BY TableGrows
<1> QED
  BY <1>1, InsertFacts DEF IndInv

LEMMA QueueStep == QueueInv /\ Next => QueueInv'
<1> SUFFICES ASSUME QueueInv, Next PROVE QueueInv'
  OBVIOUS
<1> USE DEF QueueInv
<1>1. IndInv'
  BY UserStepIndInv, TaskStepIndInv, WorkerStepIndInv, TimeStepIndInv DEF Next
<1>2. \A i \in rows \cap rows' : /\ row'[i].region = row[i].region
                                 /\ row[i].dead => row'[i].dead
  BY WhatChanges
<1>3. LeasesCounted'
  <2> SUFFICES ASSUME NEW i \in rows', ~row'[i].dead
               PROVE  /\ row'[i].lease = "none" <=> row'[i].attempts = 0
                      /\ row'[i].lease = "none" \/ row'[i].worker \in Worker
    BY DEF LeasesCounted, Live
  <2>1. CASE i \notin rows
    BY <2>1, Newcomers
  <2>2. CASE i \in rows
    <3>1. Live(i) /\ row[i].attempts \in Nat
      BY <1>2, <2>2, ConstantsAssumption DEF Live, IndInv, TypeOK, Row
    <3>2. /\ row[i].lease = "none" <=> row[i].attempts = 0
          /\ row[i].lease = "none" \/ row[i].worker \in Worker
      BY <2>2, <3>1 DEF LeasesCounted
    <3> QED
      BY <2>2, <3>1, <3>2, WhatChanges
  <2> QED
    BY <2>1, <2>2
<1> QED
  BY <1>1, <1>3

LEMMA QueueInvariant == Spec => []QueueInv
<1>1. Init => QueueInv
  BY InitIndInv DEF Init, NoWork, QueueInv, LeasesCounted
<1>2. QueueInv /\ UNCHANGED vars => QueueInv'
  BY StutterIndInv DEF vars, QueueInv, LeasesCounted, Live
<1>3. QueueInv /\ [Next]_vars => QueueInv'
  BY <1>2, QueueStep
<1> QED
  BY <1>1, <1>3, PTL DEF Spec

\* No live row is stuck: the next poll may lease it, its lease will run out, or the
\* reaper retires it.  A row no poll takes and no reaper sees would hold its slot, and
\* so its monitor's checks from that region, for ever.
NoRowIsWedged ==
  \A i \in rows : Live(i) =>
    i \in Eligible(row[i].region) \/ row[i].lease = "held" \/ Exhausted(i)

THEOREM QueueNeverWedged == Spec => []NoRowIsWedged
<1>1. QueueInv => NoRowIsWedged
  <2> SUFFICES ASSUME QueueInv, NEW i \in rows, Live(i)
               PROVE  i \in Eligible(row[i].region) \/ row[i].lease = "held" \/ Exhausted(i)
    BY DEF NoRowIsWedged
  <2>1. row[i].lease \in {"none", "held", "expired"} /\ row[i].attempts \in 0..MaxAttempts
    BY DEF QueueInv, IndInv, TypeOK, Row
  <2>2. row[i].lease = "none" => row[i].attempts = 0
    BY DEF QueueInv, LeasesCounted
  <2> QED
    BY <2>1, <2>2, ConstantsAssumption DEF Eligible, Exhausted
<1> QED
  BY <1>1, QueueInvariant, PTL
=============================================================================

------------------------ MODULE PendingChecksBounds ------------------------
(***************************************************************************)
(* LeasesPayForChecks for every set of workers: one lease yields at most   *)
(* one saved check; and the slots as leases, at the end.                   *)
(*                                                                         *)
(* An attempt is paid when a row is leased.  From then on it is a copy of  *)
(* the job, which moves from `claimed' to `batch' to `posting' and either  *)
(* is lost or becomes a saved check, once.  The proof counts the workers   *)
(* that hold a copy: the first lemmas say how that count changes when one  *)
(* worker gains or gives up its copy.                                      *)
(***************************************************************************)
EXTENDS MCPendingChecks, PendingChecksProofs, FiniteSetTheorems

Holders(stage, i) == {w \in Worker : i \in stage[w]}

LEMMA HoldersFinite ==
  ASSUME NEW stage, NEW i
  PROVE  IsFiniteSet(Holders(stage, i)) /\ Copies(stage, i) \in Nat
<1>1. Holders(stage, i) \subseteq Worker
  BY DEF Holders
<1>2. IsFiniteSet(Holders(stage, i))
  BY <1>1, ConstantsAssumption, FS_Subset
<1> QED
  BY <1>2, FS_CardinalityType DEF Copies, Holders

LEMMA CopiesZero ==
  ASSUME NEW stage, NEW i, \A w \in Worker : i \notin stage[w]
  PROVE  Copies(stage, i) = 0
<1>1. Holders(stage, i) = {}
  BY DEF Holders
<1> QED
  BY <1>1, FS_EmptySet DEF Copies, Holders

LEMMA CopiesLess ==
  ASSUME NEW old, NEW new, NEW i,
         \A w \in Worker : i \in new[w] => i \in old[w]
  PROVE  Copies(new, i) <= Copies(old, i)
<1>1. Holders(new, i) \subseteq Holders(old, i)
  BY DEF Holders
<1>2. Cardinality(Holders(new, i)) <= Cardinality(Holders(old, i))
  BY <1>1, HoldersFinite, FS_Subset
<1> QED
  BY <1>2 DEF Copies, Holders

\* A worker that gives up its copy.
LEMMA CopiesDrop ==
  ASSUME NEW old, NEW new, NEW i, NEW w0 \in Worker,
         i \in old[w0], i \notin new[w0],
         \A w \in Worker : i \in new[w] => i \in old[w]
  PROVE  Copies(new, i) + 1 <= Copies(old, i)
<1> DEFINE rest == Holders(old, i) \ {w0}
<1>1. w0 \in Holders(old, i) /\ Holders(new, i) \subseteq rest
  BY DEF Holders
<1>2. IsFiniteSet(Holders(old, i)) /\ IsFiniteSet(Holders(new, i))
  BY HoldersFinite
<1>3. IsFiniteSet(rest) /\ Cardinality(rest) = Cardinality(Holders(old, i)) - 1
  BY <1>1, <1>2, FS_RemoveElement
<1> HIDE DEF rest
<1>4. Cardinality(Holders(new, i)) <= Cardinality(rest)
  BY <1>1, <1>3, FS_Subset
<1>5. Copies(new, i) = Cardinality(Holders(new, i)) /\ Copies(old, i) = Cardinality(Holders(old, i))
  BY DEF Copies, Holders
<1>6. Copies(new, i) \in Nat /\ Copies(old, i) \in Nat
  BY HoldersFinite
<1> QED
  BY <1>3, <1>4, <1>5, <1>6

\* A worker that may gain one.
LEMMA CopiesGain ==
  ASSUME NEW old, NEW new, NEW i, NEW w0 \in Worker,
         \A w \in Worker \ {w0} : i \in new[w] => i \in old[w]
  PROVE  Copies(new, i) <= Copies(old, i) + 1
<1> DEFINE more == Holders(old, i) \cup {w0}
<1>1. Holders(new, i) \subseteq more
  BY DEF Holders
<1>2. IsFiniteSet(Holders(old, i))
  BY HoldersFinite
<1>3. /\ IsFiniteSet(more)
      /\ \/ Cardinality(more) = Cardinality(Holders(old, i))
         \/ Cardinality(more) = Cardinality(Holders(old, i)) + 1
  BY <1>2, FS_AddElement
<1> HIDE DEF more
<1>4. Cardinality(Holders(new, i)) <= Cardinality(more)
  BY <1>1, <1>3, FS_Subset
<1>5. Copies(new, i) = Cardinality(Holders(new, i)) /\ Copies(old, i) = Cardinality(Holders(old, i))
  BY DEF Copies, Holders
<1>6. Copies(new, i) \in Nat /\ Copies(old, i) \in Nat
  BY HoldersFinite
<1> QED
  BY <1>3, <1>4, <1>5, <1>6

-----------------------------------------------------------------------------

\* The copies of job i between its lease and its saved check.
OnTheWay(c, b, p, i) == Copies(c, i) + Copies(b, i) + Copies(p, i)

LEMMA OnTheWayNat ==
  \A c, b, p, i : OnTheWay(c, b, p, i) \in Nat
BY HoldersFinite DEF OnTheWay

LEMMA OnTheWayZero ==
  ASSUME NEW i, i \notin InHand
  PROVE  OnTheWay(claimed, batch, posting, i) = 0
<1>1. \A w \in Worker : i \notin claimed[w] /\ i \notin batch[w] /\ i \notin posting[w]
  BY InHandDef
<1> QED
  BY <1>1, CopiesZero DEF OnTheWay

LEMMA PaidSum ==
  ASSUME NEW n \in Nat, NEW c, NEW b, NEW p, NEW i
  PROVE  n + Copies(c, i) + Copies(b, i) + Copies(p, i) = n + OnTheWay(c, b, p, i)
BY HoldersFinite DEF OnTheWay

\* LeasesPayForChecks for one job, with the sum folded.
LEMMA Paid ==
  ASSUME IndInv, LeasesPayForChecks, NEW i \in rows \cup InHand
  PROVE  /\ saved[i] \in Nat /\ row[i].attempts \in Nat
         /\ saved[i] + OnTheWay(claimed, batch, posting, i) <= row[i].attempts
<1>1. i \in RowId /\ row[i] \in Row
  BY InHandDef DEF IndInv, TypeOK
<1>2. saved[i] \in Nat /\ row[i].attempts \in Nat
  BY <1>1, ConstantsAssumption DEF IndInv, TypeOK, Row
<1> QED
  BY <1>2, PaidSum DEF LeasesPayForChecks

\* The same for the next state.
LEMMA PaidNext ==
  ASSUME IndInv', NEW i \in rows' \cup InHand',
         saved'[i] + OnTheWay(claimed', batch', posting', i) <= row'[i].attempts
  PROVE  saved'[i] + Copies(claimed', i) + Copies(batch', i) + Copies(posting', i)
           <= row'[i].attempts
<1>1. i \in RowId
  BY InHandDef DEF IndInv, TypeOK, InHand
<1>2. saved'[i] \in Nat
  BY <1>1 DEF IndInv, TypeOK
<1> QED
  BY <1>2, PaidSum

-----------------------------------------------------------------------------
(* The steps.                                                              *)

\* A step that deletes rows: copies only leave, and each check that is saved
\* takes a copy with it.
LEMMA RemovePays ==
  ASSUME IndInv, IndInv', LeasesPayForChecks,
         NEW gone, NEW reported, Remove(gone, reported),
         InHand' \subseteq InHand,
         \A i : OnTheWay(claimed', batch', posting', i) <= OnTheWay(claimed, batch, posting, i),
         \A i \in reported : OnTheWay(claimed', batch', posting', i) + 1
                               <= OnTheWay(claimed, batch, posting, i)
  PROVE  LeasesPayForChecks'
<1> SUFFICES ASSUME NEW i \in rows' \cup InHand'
             PROVE  saved'[i] + OnTheWay(claimed', batch', posting', i) <= row'[i].attempts
  BY PaidNext DEF LeasesPayForChecks, Copies
<1>1. rows' = rows \ gone /\ row'[i].attempts = row[i].attempts
  BY RemoveFacts DEF IndInv
<1>2. /\ saved[i] \in Nat /\ row[i].attempts \in Nat
      /\ saved[i] + OnTheWay(claimed, batch, posting, i) <= row[i].attempts
  BY <1>1, Paid
<1>3. i \in RowId
  BY <1>1, InHandDef DEF IndInv, TypeOK
<1>4. saved'[i] = IF i \in reported THEN saved[i] + 1 ELSE saved[i]
  BY <1>3 DEF Remove
<1>5. /\ OnTheWay(claimed, batch, posting, i) \in Nat
      /\ OnTheWay(claimed', batch', posting', i) \in Nat
  BY OnTheWayNat
<1>6. CASE i \in reported
  BY <1>1, <1>2, <1>4, <1>5, <1>6
<1>7. CASE i \notin reported
  BY <1>1, <1>2, <1>4, <1>5, <1>7
<1> QED
  BY <1>6, <1>7

\* A step that leaves the copies, the saved checks and the attempts alone, or
\* inserts rows with new ids.
LEMMA OthersPay ==
  ASSUME IndInv, IndInv', LeasesPayForChecks,
         UNCHANGED <<claimed, batch, posting>>,
         \A i \in rows \cup InHand :
           saved'[i] = saved[i] /\ row'[i].attempts = row[i].attempts,
         \A i \in rows' \ rows :
           i \notin InHand /\ saved'[i] = 0 /\ row'[i].attempts \in Nat
  PROVE  LeasesPayForChecks'
<1> SUFFICES ASSUME NEW i \in rows' \cup InHand'
             PROVE  saved'[i] + OnTheWay(claimed', batch', posting', i) <= row'[i].attempts
  BY PaidNext DEF LeasesPayForChecks, Copies
<1>1. InHand' = InHand
  BY DEF InHand
<1>2. OnTheWay(claimed', batch', posting', i) = OnTheWay(claimed, batch, posting, i)
  OBVIOUS
<1>3. CASE i \in rows \cup InHand
  BY <1>2, <1>3, Paid
<1>4. CASE i \in rows' \ rows
  <2>1. OnTheWay(claimed, batch, posting, i) = 0
    BY <1>4, OnTheWayZero
  <2> QED
    BY <1>2, <1>4, <2>1
<1> QED
  BY <1>1, <1>3, <1>4

\* A step that inserts rows.
LEMMA InsertPays ==
  ASSUME IndInv, IndInv', LeasesPayForChecks,
         NEW slots, slots \subseteq Monitor \X Region, Insert(slots),
         UNCHANGED <<claimed, batch, posting>>
  PROVE  LeasesPayForChecks'
<1> DEFINE missing == Missing(slots)
<1>1. PICK f \in [missing -> Fresh] :
        /\ rows' = rows \cup {f[s] : s \in missing}
        /\ saved' = [i \in RowId |->
                       IF \E s \in missing : f[s] = i THEN 0 ELSE saved[i]]
  BY DEF Insert
<1> HIDE DEF missing
<1>2. /\ \A i \in RowId : i \notin rows' \ rows => row'[i] = row[i]
      /\ \A i \in rows' \ rows : row'[i].attempts = 0
  BY InsertFacts DEF IndInv
<1>3. /\ Fresh \subseteq RowId /\ Fresh \cap (rows \cup InHand) = {}
      /\ rows \cup InHand \subseteq RowId
  BY InHandDef DEF Fresh, IndInv, TypeOK
<1>4. \A i \in rows \cup InHand : saved'[i] = saved[i] /\ row'[i].attempts = row[i].attempts
  BY <1>1, <1>2, <1>3
<1>5. \A i \in rows' \ rows : i \notin InHand /\ saved'[i] = 0
  BY <1>1, <1>3
<1> QED
  BY <1>2, <1>4, <1>5, OthersPay

\* A claim pays for the copy it hands out.
LEMMA ClaimPays ==
  ASSUME IndInv, IndInv', LeasesPayForChecks, NEW w \in Worker, ClaimJobs(w)
  PROVE  LeasesPayForChecks'
<1>1. PICK S \in SUBSET Eligible(RegionOf[w]) :
        /\ row' = [i \in RowId |-> IF i \in S THEN Leased(i, w) ELSE row[i]]
        /\ claimed' = [claimed EXCEPT ![w] = S]
  BY DEF ClaimJobs
<1>2. claimed[w] = {} /\ UNCHANGED <<rows, batch, posting, saved>>
  BY DEF ClaimJobs
<1>3. S \subseteq rows /\ claimed \in [Worker -> SUBSET RowId]
  BY DEF Eligible, IndInv, TypeOK
<1> SUFFICES ASSUME NEW i \in rows' \cup InHand'
             PROVE  saved'[i] + OnTheWay(claimed', batch', posting', i) <= row'[i].attempts
  BY PaidNext DEF LeasesPayForChecks, Copies
<1>4. i \in rows \cup InHand
  BY <1>1, <1>2, <1>3 DEF InHand
<1>5. /\ saved[i] \in Nat /\ row[i].attempts \in Nat
      /\ saved[i] + OnTheWay(claimed, batch, posting, i) <= row[i].attempts
  BY <1>4, Paid
<1>6. i \in RowId /\ row[i] \in Row
  BY <1>4, InHandDef DEF IndInv, TypeOK
<1>7. /\ Copies(claimed, i) \in Nat /\ Copies(claimed', i) \in Nat
      /\ Copies(batch, i) \in Nat /\ Copies(posting, i) \in Nat
  BY HoldersFinite
<1>8. CASE i \in S
  <2>1. row'[i].attempts = row[i].attempts + 1
    BY <1>1, <1>6, <1>8 DEF Leased, Row
  <2>2. Copies(claimed', i) <= Copies(claimed, i) + 1
    BY <1>1, <1>3, CopiesGain
  <2> QED
    BY <1>2, <1>5, <1>7, <2>1, <2>2 DEF OnTheWay
<1>9. CASE i \notin S
  <2>1. row'[i] = row[i]
    BY <1>1, <1>6, <1>9
  <2>2. Copies(claimed', i) <= Copies(claimed, i)
    BY <1>1, <1>3, <1>9, CopiesLess
  <2> QED
    BY <1>2, <1>5, <1>7, <2>1, <2>2 DEF OnTheWay
<1> QED
  BY <1>8, <1>9

\* The answer of /jobs turns claimed copies into jobs of the batch, or into the
\* saved checks of blocked targets.
LEMMA AnswerPays ==
  ASSUME IndInv, IndInv', LeasesPayForChecks,
         NEW w \in Worker, NEW blocked, AnswerJobs(w, blocked)
  PROVE  LeasesPayForChecks'
<1> DEFINE B == {i \in claimed[w] : row[i].monitor \in blocked}
<1>1. /\ Remove(B, B)
      /\ claimed' = [claimed EXCEPT ![w] = {}]
      /\ batch' = [batch EXCEPT ![w] = claimed[w] \ B] \/ batch' = batch
      /\ posting' = posting
  BY DEF AnswerJobs
<1>2. B \subseteq claimed[w]
  OBVIOUS
<1> HIDE DEF B
<1>3. claimed \in [Worker -> SUBSET RowId] /\ batch \in [Worker -> SUBSET RowId]
  BY DEF IndInv, TypeOK
<1>4. InHand' \subseteq InHand
  BY <1>1, <1>2, <1>3 DEF InHand
<1>5. ASSUME NEW i
      PROVE  /\ OnTheWay(claimed', batch', posting', i)
                  <= OnTheWay(claimed, batch, posting, i)
             /\ i \in B => OnTheWay(claimed', batch', posting', i) + 1
                             <= OnTheWay(claimed, batch, posting, i)
  <2>1. /\ Copies(claimed, i) \in Nat /\ Copies(claimed', i) \in Nat
        /\ Copies(batch, i) \in Nat /\ Copies(batch', i) \in Nat
        /\ Copies(posting, i) \in Nat /\ Copies(posting', i) = Copies(posting, i)
    BY <1>1, HoldersFinite
  <2>2. CASE i \in claimed[w]
    <3>1. Copies(claimed', i) + 1 <= Copies(claimed, i)
      BY <1>1, <1>3, <2>2, CopiesDrop
    <3>2. Copies(batch', i) <= Copies(batch, i) + 1
      BY <1>1, <1>3, CopiesGain
    <3>3. i \in B => Copies(batch', i) <= Copies(batch, i)
      BY <1>1, <1>3, CopiesLess
    <3> QED
      BY <2>1, <3>1, <3>2, <3>3 DEF OnTheWay
  <2>3. CASE i \notin claimed[w]
    <3>1. Copies(claimed', i) <= Copies(claimed, i)
      BY <1>1, <1>3, CopiesLess
    <3>2. Copies(batch', i) <= Copies(batch, i)
      BY <1>1, <1>3, <2>3, CopiesLess
    <3> QED
      BY <1>2, <2>1, <2>3, <3>1, <3>2 DEF OnTheWay
  <2> QED
    BY <2>2, <2>3
<1> QED
  BY <1>1, <1>4, <1>5, RemovePays

\* A POST puts the batch on the wire.
LEMMA SubmitPays ==
  ASSUME IndInv, IndInv', LeasesPayForChecks, NEW w \in Worker, SubmitResults(w)
  PROVE  LeasesPayForChecks'
<1>1. /\ posting[w] = {} /\ posting' = [posting EXCEPT ![w] = batch[w]]
      /\ batch' = [batch EXCEPT ![w] = {}]
      /\ UNCHANGED <<rows, row, claimed, saved>>
  BY DEF SubmitResults
<1>2. batch \in [Worker -> SUBSET RowId] /\ posting \in [Worker -> SUBSET RowId]
  BY DEF IndInv, TypeOK
<1> SUFFICES ASSUME NEW i \in rows' \cup InHand'
             PROVE  saved'[i] + OnTheWay(claimed', batch', posting', i) <= row'[i].attempts
  BY PaidNext DEF LeasesPayForChecks, Copies
<1>3. i \in rows \cup InHand
  BY <1>1, <1>2 DEF InHand
<1>4. /\ saved[i] \in Nat /\ row[i].attempts \in Nat
      /\ saved[i] + OnTheWay(claimed, batch, posting, i) <= row[i].attempts
  BY <1>3, Paid
<1>5. /\ Copies(claimed, i) \in Nat /\ Copies(claimed', i) = Copies(claimed, i)
      /\ Copies(batch, i) \in Nat /\ Copies(batch', i) \in Nat
      /\ Copies(posting, i) \in Nat /\ Copies(posting', i) \in Nat
  BY <1>1, HoldersFinite
<1>6. CASE i \in batch[w]
  <2>1. Copies(batch', i) + 1 <= Copies(batch, i)
    BY <1>1, <1>2, <1>6, CopiesDrop
  <2>2. Copies(posting', i) <= Copies(posting, i) + 1
    BY <1>1, <1>2, CopiesGain
  <2> QED
    BY <1>1, <1>4, <1>5, <2>1, <2>2 DEF OnTheWay
<1>7. CASE i \notin batch[w]
  <2>1. Copies(batch', i) <= Copies(batch, i)
    BY <1>1, <1>2, CopiesLess
  <2>2. Copies(posting', i) <= Copies(posting, i)
    BY <1>1, <1>2, <1>7, CopiesLess
  <2> QED
    BY <1>1, <1>4, <1>5, <2>1, <2>2 DEF OnTheWay
<1> QED
  BY <1>6, <1>7

\* A POST that is handled saves a check for each of its copies and ends them.
LEMMA SavePays ==
  ASSUME IndInv, IndInv', LeasesPayForChecks, NEW w \in Worker, SaveResults(w)
  PROVE  LeasesPayForChecks'
<1> DEFINE alive == {i \in posting[w] : row[i].monitor \in monitors}
<1>1. /\ Remove(Completed(w, alive), alive)
      /\ posting' = [posting EXCEPT ![w] = {}]
      /\ UNCHANGED <<claimed, batch>>
  BY DEF SaveResults
<1>2. posting \in [Worker -> SUBSET RowId] /\ alive \subseteq posting[w]
  BY DEF IndInv, TypeOK
<1> HIDE DEF alive
<1>3. InHand' \subseteq InHand
  BY <1>1, <1>2 DEF InHand
<1>4. ASSUME NEW i
      PROVE  /\ OnTheWay(claimed', batch', posting', i)
                  <= OnTheWay(claimed, batch, posting, i)
             /\ i \in alive => OnTheWay(claimed', batch', posting', i) + 1
                                 <= OnTheWay(claimed, batch, posting, i)
  <2>1. /\ Copies(claimed, i) \in Nat /\ Copies(claimed', i) = Copies(claimed, i)
        /\ Copies(batch, i) \in Nat /\ Copies(batch', i) = Copies(batch, i)
        /\ Copies(posting, i) \in Nat /\ Copies(posting', i) \in Nat
    BY <1>1, HoldersFinite
  <2>2. Copies(posting', i) <= Copies(posting, i)
    BY <1>1, <1>2, CopiesLess
  <2>3. i \in alive => Copies(posting', i) + 1 <= Copies(posting, i)
    BY <1>1, <1>2, CopiesDrop
  <2> QED
    BY <2>1, <2>2, <2>3 DEF OnTheWay
<1> QED
  BY <1>1, <1>3, <1>4, RemovePays

\* Copies that are dropped, and rows that are deleted, save nothing.
LEMMA DropPays ==
  ASSUME IndInv, IndInv', LeasesPayForChecks,
         NEW gone, Remove(gone, {}),
         \A w \in Worker : /\ claimed'[w] \subseteq claimed[w]
                           /\ batch'[w] \subseteq batch[w]
                           /\ posting'[w] \subseteq posting[w]
  PROVE  LeasesPayForChecks'
<1>1. InHand' \subseteq InHand
  BY DEF InHand
<1>2. ASSUME NEW i
      PROVE  OnTheWay(claimed', batch', posting', i) <= OnTheWay(claimed, batch, posting, i)
  <2>1. /\ Copies(claimed, i) \in Nat /\ Copies(claimed', i) \in Nat
        /\ Copies(batch, i) \in Nat /\ Copies(batch', i) \in Nat
        /\ Copies(posting, i) \in Nat /\ Copies(posting', i) \in Nat
    BY HoldersFinite
  <2>2. /\ Copies(claimed', i) <= Copies(claimed, i)
        /\ Copies(batch', i) <= Copies(batch, i)
        /\ Copies(posting', i) <= Copies(posting, i)
    BY CopiesLess
  <2> QED
    BY <2>1, <2>2 DEF OnTheWay
<1> QED
  BY <1>1, <1>2, RemovePays

LEMMA WorkerStepPays ==
  ASSUME IndInv, IndInv', LeasesPayForChecks, WorkerStep
  PROVE  LeasesPayForChecks'
<1>1. PICK w \in Worker : \/ ClaimJobs(w) \/ Answer(w) \/ LoseJobs(w)
                          \/ SubmitResults(w) \/ SaveResults(w) \/ LoseResults(w)
                          \/ Abandon(w)
  BY DEF WorkerStep
<1>0. /\ claimed \in [Worker -> SUBSET RowId] /\ batch \in [Worker -> SUBSET RowId]
      /\ posting \in [Worker -> SUBSET RowId]
  BY DEF IndInv, TypeOK
<1>2. CASE ClaimJobs(w)
  BY <1>2, ClaimPays
<1>3. CASE Answer(w)
  BY <1>3, AnswerPays DEF Answer
<1>4. CASE LoseJobs(w)
  BY <1>0, <1>4, DropPays DEF LoseJobs
<1>5. CASE SubmitResults(w)
  BY <1>5, SubmitPays
<1>6. CASE SaveResults(w)
  BY <1>6, SavePays
<1>7. CASE LoseResults(w)
  BY <1>0, <1>7, DropPays DEF LoseResults
<1>8. CASE Abandon(w)
  BY <1>0, <1>8, DropPays DEF Abandon
<1> QED
  BY <1>1, <1>2, <1>3, <1>4, <1>5, <1>6, <1>7, <1>8

\* The steps that only touch the table or the schedule.
LEMMA OtherStepPays ==
  ASSUME IndInv, IndInv', LeasesPayForChecks, UserStep \/ TaskStep \/ TimeStep
  PROVE  LeasesPayForChecks'
<1>0. /\ \A i \in rows \cup InHand : i \in RowId /\ row[i] \in Row
      /\ scheduled \subseteq Region /\ monitors \subseteq Monitor
      /\ active \subseteq monitors /\ due \subseteq monitors
      /\ row \in [RowId -> Row \cup {NoRow}]
  BY InHandDef DEF IndInv, TypeOK
<1>1. ASSUME NEW m \in Monitor, CreateMonitor(m) PROVE LeasesPayForChecks'
  BY <1>1, OthersPay DEF CreateMonitor
<1>2. ASSUME NEW m \in Monitor, DeleteMonitor(m) PROVE LeasesPayForChecks'
  BY <1>2, DropPays DEF DeleteMonitor
<1>3. ASSUME NEW m \in Monitor, PauseMonitor(m) PROVE LeasesPayForChecks'
  BY <1>3, OthersPay DEF PauseMonitor
<1>4. ASSUME NEW m \in Monitor, ResumeMonitor(m) PROVE LeasesPayForChecks'
  BY <1>4, OthersPay DEF ResumeMonitor
<1>5. ASSUME NEW m \in Monitor, CheckNow(m) PROVE LeasesPayForChecks'
  <2>1. {m} \X scheduled \subseteq Monitor \X Region
    BY <1>0
  <2> QED
    BY <1>5, <2>1, InsertPays DEF CheckNow
<1>6. ASSUME NEW r \in Region, FlipRegion(r) PROVE LeasesPayForChecks'
  BY <1>6, OthersPay DEF FlipRegion
<1>7. CASE SchedulePendingChecks
  <2>1. (due \cap active) \X scheduled \subseteq Monitor \X Region
    <3>1. due \cap active \subseteq Monitor /\ scheduled \subseteq Region
      BY <1>0, SMTT(30)
    <3> QED
      BY <3>1
  <2> QED
    BY <1>7, <2>1, InsertPays DEF SchedulePendingChecks
<1>8. CASE ReapDeadPendingChecks
  <2>1. \A i \in rows \cup InHand : row'[i].attempts = row[i].attempts
    <3> SUFFICES ASSUME NEW i \in rows \cup InHand
                 PROVE  row'[i].attempts = row[i].attempts
      OBVIOUS
    <3>1. i \in RowId /\ row[i] \in Row
      BY <1>0
    <3>2. \/ row'[i] = [row[i] EXCEPT !.dead = TRUE, !.stale = FALSE]
          \/ row'[i] = row[i]
      BY <1>8, <3>1 DEF ReapDeadPendingChecks
    <3> QED
      BY <3>1, <3>2 DEF Row
  <2> QED
    BY <1>8, <2>1, OthersPay DEF ReapDeadPendingChecks
<1>9. CASE CleanupOldChecks
  BY <1>9, DropPays DEF CleanupOldChecks
<1>10. ASSUME NEW i \in RowId, LeaseExpires(i) PROVE LeasesPayForChecks'
  <2>1. \A j \in rows \cup InHand : row'[j].attempts = row[j].attempts
    BY <1>0, <1>10 DEF LeaseExpires, Row
  <2> QED
    BY <1>10, <2>1, OthersPay DEF LeaseExpires
<1>11. ASSUME NEW i \in RowId, RowAges(i) PROVE LeasesPayForChecks'
  <2>1. \A j \in rows \cup InHand : row'[j].attempts = row[j].attempts
    BY <1>0, <1>11 DEF RowAges, Row
  <2> QED
    BY <1>11, <2>1, OthersPay DEF RowAges
<1>12. ASSUME NEW m \in Monitor, IntervalElapses(m) PROVE LeasesPayForChecks'
  BY <1>12, OthersPay DEF IntervalElapses
<1> QED
  BY <1>1, <1>2, <1>3, <1>4, <1>5, <1>6, <1>7, <1>8, <1>9, <1>10, <1>11, <1>12
  DEF UserStep, TaskStep, TimeStep

\* A row never yields more checks than leases were counted on it, stale workers
\* and late submissions included: saved checks plus copies on the way stay
\* within the attempts (internal.py get_jobs and submit_results).
THEOREM LeasesArePaid == Spec => []LeasesPayForChecks
<1>1. Init => LeasesPayForChecks
  <2> SUFFICES ASSUME Init PROVE LeasesPayForChecks
    OBVIOUS
  <2>1. rows = {} /\ InHand = {}
    BY DEF Init, NoWork, InHand
  <2> QED
    BY <2>1 DEF LeasesPayForChecks
<1>2. IndInv /\ IndInv' /\ LeasesPayForChecks /\ [Next]_vars => LeasesPayForChecks'
  <2> SUFFICES ASSUME IndInv, IndInv', LeasesPayForChecks, [Next]_vars
               PROVE  LeasesPayForChecks'
    OBVIOUS
  <2>1. CASE UNCHANGED vars
    BY <2>1, OthersPay DEF vars
  <2>2. CASE Next
    BY <2>2, WorkerStepPays, OtherStepPays DEF Next
  <2> QED
    BY <2>1, <2>2
<1> QED
  BY <1>1, <1>2, Invariant, PTL DEF Spec

-----------------------------------------------------------------------------
(* Every (monitor, region) slot of the lease queue implements SlotLease:   *)
(* it is leased only while nobody holds it, at most MaxAttempts times      *)
(* before it is freed, and changes hands only after the lease ended.       *)
(*                                                                         *)
(* The proof looks at the live rows of the slot before and after a step:   *)
(* there is at most one on either side (OneLivePerSlot), WhatChanges says  *)
(* what became of a row that stayed, WhoAppears where a new one came from. *)

Slot(m, r) == INSTANCE SlotLease WITH
                state  <- SlotState(m, r),
                tries  <- SlotTries(m, r),
                holder <- SlotHolder(m, r),
                Holder <- Worker,
                Nobody <- NoWorker

\* A row appears unleased and live, in a step that touches no other row.
LEMMA WhoAppears ==
  ASSUME IndInv, Next, NEW i \in rows' \ rows
  PROVE  /\ row'[i].lease = "none" /\ row'[i].attempts = 0
         /\ row'[i].worker = NoWorker
         /\ \A j \in rows : j \in rows' /\ row'[j] = row[j]
<1>0. TypeOK
  BY DEF IndInv
<1>1. PICK slots \in SUBSET (Monitor \X Region) : Insert(slots)
  <2>1. CASE UserStep
    <3>1. PICK m \in Monitor : CheckNow(m)
      BY <2>1 DEF UserStep, CreateMonitor, DeleteMonitor, PauseMonitor, ResumeMonitor,
                  FlipRegion, Remove
    <3>2. {m} \X scheduled \subseteq Monitor \X Region
      BY <1>0 DEF TypeOK
    <3> QED
      BY <3>1, <3>2 DEF CheckNow
  <2>2. CASE TaskStep
    <3>1. SchedulePendingChecks
      BY <2>2 DEF TaskStep, ReapDeadPendingChecks, CleanupOldChecks, Remove
    <3>2. (due \cap active) \X scheduled \subseteq Monitor \X Region
      BY <1>0 DEF TypeOK
    <3> QED
      BY <3>1, <3>2 DEF SchedulePendingChecks
  <2>3. ~WorkerStep
    BY DEF WorkerStep, ClaimJobs, Answer, AnswerJobs, LoseJobs, SubmitResults, SaveResults,
           LoseResults, Abandon, Remove
  <2>4. ~TimeStep
    BY DEF TimeStep, LeaseExpires, RowAges, IntervalElapses
  <2> QED
    BY <2>1, <2>2, <2>3, <2>4 DEF Next
<1>2. \A j \in rows : j \in RowId /\ j \notin rows' \ rows
  BY <1>0 DEF TypeOK
<1> QED
  BY <1>0, <1>1, <1>2, InsertFacts

\* A slot with a live row is seen through the columns of that row.
LEMMA SlotView ==
  ASSUME OneLivePerSlot, NEW m, NEW r, NEW i \in LiveRows(m, r)
  PROVE  /\ LiveRows(m, r) = {i}
         /\ SlotState(m, r) = IF row[i].lease = "held" THEN "leased" ELSE "waiting"
         /\ SlotTries(m, r) = row[i].attempts
         /\ SlotHolder(m, r) = row[i].worker
<1>1. \A j \in LiveRows(m, r) : j = i
  BY DEF OneLivePerSlot, LiveRows, OnSlot
<1>2. LiveRows(m, r) = {i}
  BY <1>1
<1>3. SlotRow(m, r) = row[i]
  BY <1>2 DEF SlotRow
<1> QED
  BY <1>2, <1>3 DEF SlotState, SlotTries, SlotHolder

\* The same one step later.
LEMMA SlotViewNext ==
  ASSUME OneLivePerSlot', NEW CONSTANT m, NEW CONSTANT r, NEW i \in LiveRows(m, r)'
  PROVE  /\ LiveRows(m, r)' = {i}
         /\ SlotState(m, r)' = IF row'[i].lease = "held" THEN "leased" ELSE "waiting"
         /\ SlotTries(m, r)' = row'[i].attempts
         /\ SlotHolder(m, r)' = row'[i].worker
<1>1. \A j \in LiveRows(m, r)' : j = i
  BY DEF OneLivePerSlot, LiveRows, OnSlot
<1>2. LiveRows(m, r)' = {i}
  BY <1>1
<1>3. SlotRow(m, r)' = row'[i]
  BY <1>2 DEF SlotRow
<1> QED
  BY <1>2, <1>3 DEF SlotState, SlotTries, SlotHolder

\* Every step of the queue is a step of the slot or leaves it alone.
LEMMA SlotStep ==
  ASSUME IndInv, IndInv', Next, NEW CONSTANT m, NEW CONSTANT r
  PROVE  [Slot(m, r)!Next]_(Slot(m, r)!slotVars)
<1> USE DEF Slot!slotVars
<1>0. OneLivePerSlot /\ OneLivePerSlot'
  BY DEF IndInv
<1>1. CASE LiveRows(m, r) = {} /\ LiveRows(m, r)' = {}
  BY <1>1 DEF SlotState, SlotTries, SlotHolder
<1>2. ASSUME LiveRows(m, r) = {}, NEW i \in LiveRows(m, r)'
      PROVE  Slot(m, r)!Open
  <2>1. i \in rows' \ rows
    <3> SUFFICES ASSUME i \in rows PROVE FALSE
      BY <1>2 DEF LiveRows
    <3>1. i \in rows \cap rows' /\ ~row'[i].dead /\ row'[i].monitor = m /\ row'[i].region = r
      BY <1>2 DEF LiveRows, Live, OnSlot
    <3>2. row[i].monitor = m /\ row[i].region = r /\ row[i].dead
      BY <1>2, <3>1, WhatChanges DEF LiveRows, Live, OnSlot
    <3>3. row'[i].dead = row[i].dead
      BY <3>1, <3>2, WhatChanges
    <3> QED
      BY <3>1, <3>2, <3>3
  <2>2. row'[i].lease = "none" /\ row'[i].attempts = 0 /\ row'[i].worker = NoWorker
    BY <2>1, WhoAppears
  <2>3. SlotState(m, r)' = "waiting" /\ SlotTries(m, r)' = 0 /\ SlotHolder(m, r)' = NoWorker
    BY <1>0, <1>2, <2>2, SlotViewNext
  <2>4. SlotState(m, r) = "empty"
    BY <1>2 DEF SlotState
  <2> QED
    BY <2>3, <2>4 DEF Slot!Open
<1>3. ASSUME NEW i \in LiveRows(m, r), LiveRows(m, r)' = {}
      PROVE  Slot(m, r)!Free
  <2>1. SlotState(m, r) # "empty"
    BY <1>0, <1>3, SlotView
  <2>2. SlotState(m, r)' = "empty" /\ SlotTries(m, r)' = 0 /\ SlotHolder(m, r)' = NoWorker
    BY <1>3 DEF SlotState, SlotTries, SlotHolder
  <2> QED
    BY <2>1, <2>2 DEF Slot!Free
<1>4. ASSUME NEW i \in LiveRows(m, r), NEW j \in LiveRows(m, r)'
      PROVE  \/ UNCHANGED Slot(m, r)!slotVars
             \/ Slot(m, r)!Lease
             \/ Slot(m, r)!Expire
  <2>1. i \in rows /\ ~row[i].dead /\ OnSlot(i, m, r)
    BY <1>4 DEF LiveRows, Live
  <2>2. j \in rows' /\ ~row'[j].dead /\ row'[j].monitor = m /\ row'[j].region = r
    BY <1>4 DEF LiveRows, Live, OnSlot
  <2>3. j = i
    <3>1. CASE j \in rows
      <4>1. row[j].monitor = m /\ row[j].region = r /\ ~row[j].dead
        BY <2>2, <3>1, WhatChanges
      <4> QED
        BY <1>0, <1>4, <2>2, <3>1, <4>1, SlotView DEF LiveRows, Live, OnSlot
    <3>2. CASE j \notin rows
      <4>1. i \in rows' /\ row'[i] = row[i]
        BY <2>1, <2>2, <3>2, WhoAppears
      <4>2. i \in LiveRows(m, r)'
        BY <2>1, <4>1 DEF LiveRows, Live, OnSlot
      <4> QED
        BY <1>0, <1>4, <4>2, SlotViewNext
    <3> QED
      BY <3>1, <3>2
  <2>4. /\ SlotState(m, r) = IF row[i].lease = "held" THEN "leased" ELSE "waiting"
        /\ SlotTries(m, r) = row[i].attempts /\ SlotHolder(m, r) = row[i].worker
    BY <1>0, <1>4, SlotView
  <2>5. /\ SlotState(m, r)' = IF row'[i].lease = "held" THEN "leased" ELSE "waiting"
        /\ SlotTries(m, r)' = row'[i].attempts /\ SlotHolder(m, r)' = row'[i].worker
    BY <1>0, <1>4, <2>3, SlotViewNext
  <2>6. \/ /\ row'[i].attempts = row[i].attempts /\ row'[i].worker = row[i].worker
           /\ row'[i].lease = row[i].lease
        \/ /\ row[i].attempts < MaxAttempts
           /\ row[i].lease # "held" /\ row'[i].lease = "held"
           /\ row'[i].attempts = row[i].attempts + 1 /\ row'[i].worker \in Worker
        \/ /\ row'[i].attempts = row[i].attempts /\ row'[i].worker = row[i].worker
           /\ row[i].lease = "held" /\ row'[i].lease = "expired"
    BY <2>1, <2>2, <2>3, WhatChanges
  <2> QED
    BY <2>4, <2>5, <2>6 DEF Slot!Lease, Slot!Expire
<1> QED
  BY <1>1, <1>2, <1>3, <1>4 DEF Slot!Next

\* What a worker process, the scheduler and the reaper do to one slot is a
\* behaviour of SlotLease, for every slot and every number of workers.
THEOREM SlotsImplementLease ==
  ASSUME NEW CONSTANT m, NEW CONSTANT r
  PROVE  Spec => Slot(m, r)!Spec
<1>1. Init => Slot(m, r)!Init
  BY DEF Init, NoWork, Slot!Init, SlotState, SlotTries, SlotHolder, LiveRows
<1>2. IndInv /\ IndInv' /\ [Next]_vars => [Slot(m, r)!Next]_(Slot(m, r)!slotVars)
  <2>1. IndInv /\ IndInv' /\ Next => [Slot(m, r)!Next]_(Slot(m, r)!slotVars)
    BY SlotStep
  <2>2. UNCHANGED vars => UNCHANGED Slot(m, r)!slotVars
    BY DEF vars, Slot!slotVars, SlotState, SlotTries, SlotHolder, SlotRow, LiveRows, Live,
           OnSlot
  <2> QED
    BY <2>1, <2>2
<1> QED
  BY <1>1, <1>2, Invariant, PTL DEF Spec, Slot!Spec

\* In particular the slot TLC follows: it is never leased twice without an
\* expiry nor more than MaxAttempts times.
THEOREM SlotKeepsLease == Spec => SlotIsLeased
<1>1. Spec => Slot(m1, r1)!Spec
  BY SlotsImplementLease
<1> QED
  BY <1>1 DEF SlotIsLeased, Slot11!Spec, Slot11!Init, Slot11!Next, Slot11!slotVars,
              Slot11!Open, Slot11!Lease, Slot11!Expire, Slot11!Free,
              Slot!Spec, Slot!Init, Slot!Next, Slot!slotVars,
              Slot!Open, Slot!Lease, Slot!Expire, Slot!Free
=============================================================================

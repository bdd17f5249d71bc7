--------------------------- MODULE PlanFitProofs ---------------------------
(***************************************************************************)
(* What plan_fit gives for every account: a list of the candidates of the  *)
(* allowed projects, the oldest projects' oldest first, of which it takes  *)
(* as many from the front as the limit allows.                             *)
(***************************************************************************)
EXTENDS PlanFit, FiniteSetTheorems, WellFoundedInduction, TLAPS

\* The numbers up to a bound, zero or not.
LEMMA FromZero ==
  ASSUME NEW b \in Nat
  PROVE  \A n \in 0..b : n = 0 \/ n \in 1..b
OBVIOUS

\* Induction, for a set of numbers.
LEMMA CountingUp ==
  ASSUME NEW S, 0 \in S, \A n \in Nat : n \in S => n + 1 \in S
  PROVE  \A n \in Nat : n \in S
<1> DEFINE Less == {ss \in Nat \X Nat : ss[1] < ss[2]}
           Rest == {n \in Nat : n \notin S}
<1>1. IsWellFoundedOn(Less, Nat)
  BY NatLessThanWellFounded DEF OpToRel
<1>2. ASSUME NEW k \in Nat, k \notin S PROVE FALSE
  <2>1. k \in Rest /\ Rest \subseteq Nat
    BY <1>2
  <2>2. PICK m \in Rest : \A n \in Rest : ~(<<n, m>> \in Less)
    <3> HIDE DEF Rest, Less
    <3> QED BY <1>1, <2>1, WFMin
  <2>3. m \in Nat /\ m \notin S /\ m # 0
    BY <2>2
  <2>4. m - 1 \in Nat /\ (m - 1) + 1 = m
    BY <2>3
  <2>5. m - 1 \in Rest => <<m - 1, m>> \in Less
    BY <2>3, <2>4
  <2>6. m - 1 \notin Rest
    BY <2>2, <2>5
  <2> QED BY <2>3, <2>4, <2>6
<1> QED BY <1>2

\* f is given step by step: step[<<n, x>>] follows x at n.
Follows(f, T, v, k, step) ==
  /\ f \in [0..k -> T]
  /\ f[0] = v
  /\ \A n \in 1..k : f[n] = step[<<n, f[n - 1]>>]

\* There is such a function.
LEMMA Steps ==
  ASSUME NEW T, NEW v \in T, NEW k \in Nat, NEW step \in [(1..k) \X T -> T]
  PROVE  \E f : Follows(f, T, v, k, step)
<1> DEFINE Upto(j, f) == \A n \in 0..j : f[n] = IF n = 0 THEN v ELSE step[<<n, f[n - 1]>>]
           S == {j \in Nat : j <= k => \E f \in [0..j -> T] : Upto(j, f)}
<1>1. 0 \in S
  <2>1. [n \in 0..0 |-> v] \in [0..0 -> T] /\ Upto(0, [n \in 0..0 |-> v])
    OBVIOUS
  <2> QED BY <2>1
<1>2. ASSUME NEW j \in Nat, j \in S PROVE j + 1 \in S
  <2> SUFFICES ASSUME j + 1 <= k PROVE \E f \in [0..(j + 1) -> T] : Upto(j + 1, f)
    OBVIOUS
  <2>1. PICK f \in [0..j -> T] : Upto(j, f)
    BY <1>2
  <2> DEFINE g == [n \in 0..(j + 1) |-> IF n <= j THEN f[n] ELSE step[<<n, f[n - 1]>>]]
  <2>2. g \in [0..(j + 1) -> T]
    <3> SUFFICES ASSUME NEW n \in 0..(j + 1) PROVE g[n] \in T
      OBVIOUS
    <3>1. CASE n <= j
      BY <3>1
    <3>2. CASE n = j + 1
      BY <3>2
    <3> QED BY <3>1, <3>2
  <2>3. Upto(j + 1, g)
    <3> SUFFICES ASSUME NEW n \in 0..(j + 1) PROVE g[n] = IF n = 0 THEN v ELSE step[<<n, g[n - 1]>>]
      OBVIOUS
    <3>1. CASE n <= j
      <4>1. n # 0 => n - 1 \in 0..j
        BY <3>1
      <4>2. g[n] = f[n] /\ (n # 0 => g[n - 1] = f[n - 1])
        BY <3>1, <4>1
      <4>3. f[n] = IF n = 0 THEN v ELSE step[<<n, f[n - 1]>>]
        BY <2>1, <3>1
      <4> QED BY <4>2, <4>3
    <3>2. CASE n = j + 1
      BY <3>2
    <3> QED BY <3>1, <3>2
  <2> HIDE DEF g
  <2> QED BY <2>2, <2>3
<1>3. \A j \in Nat : j \in S
  <2>1. \A n \in Nat : n \in S => n + 1 \in S
    BY <1>2
  <2> HIDE DEF S
  <2> QED BY <1>1, <2>1, CountingUp
<1>4. PICK f \in [0..k -> T] : Upto(k, f)
  BY <1>3
<1>5. 0 \in 0..k /\ \A n \in 1..k : n \in 0..k /\ n # 0
  OBVIOUS
<1> QED BY <1>4, <1>5 DEF Follows

\* The lists Filter goes through: f[n] is what it keeps of the first n elements.
FilterUpTo(f, T, s, kept) ==
  /\ f \in [0..Len(s) -> Seq(T)]
  /\ f[0] = <<>>
  /\ \A n \in 1..Len(s) : f[n] = IF n \in kept THEN Append(f[n - 1], s[n]) ELSE f[n - 1]
  /\ Filter(s, kept) = f[Len(s)]

LEMMA FilterSteps ==
  ASSUME NEW T, NEW s \in Seq(T), NEW kept
  PROVE  \E f : FilterUpTo(f, T, s, kept)
<1> DEFINE F(f) == [n \in 0..Len(s) |->
                      IF n = 0 THEN <<>>
                      ELSE IF n \in kept THEN Append(f[n - 1], s[n]) ELSE f[n - 1]]
           step == [p \in (1..Len(s)) \X Seq(T) |-> IF p[1] \in kept THEN Append(p[2], s[p[1]]) ELSE p[2]]
           g == CHOOSE f : f = F(f)
<1>0. Len(s) \in Nat /\ <<>> \in Seq(T) /\ \A n \in 1..Len(s) : s[n] \in T
  OBVIOUS
<1>1. step \in [(1..Len(s)) \X Seq(T) -> Seq(T)]
  <2> SUFFICES ASSUME NEW p \in (1..Len(s)) \X Seq(T) PROVE step[p] \in Seq(T)
    OBVIOUS
  <2>1. p[1] \in 1..Len(s) /\ p[2] \in Seq(T) /\ s[p[1]] \in T
    BY <1>0
  <2> QED BY <2>1
<1>2. PICK f : Follows(f, Seq(T), <<>>, Len(s), step)
  <2> HIDE DEF step
  <2> QED BY <1>0, <1>1, Steps
<1> f \in [0..Len(s) -> Seq(T)]
  BY <1>2 DEF Follows
<1>3. /\ f[0] = <<>>
      /\ \A n \in 1..Len(s) : f[n] = IF n \in kept THEN Append(f[n - 1], s[n]) ELSE f[n - 1]
  <2>1. ASSUME NEW n \in 1..Len(s)
        PROVE  step[<<n, f[n - 1]>>] = IF n \in kept THEN Append(f[n - 1], s[n]) ELSE f[n - 1]
    <3>1. n - 1 \in 0..Len(s)
      BY <1>0
    <3>2. <<n, f[n - 1]>> \in (1..Len(s)) \X Seq(T)
      BY <3>1
    <3> QED BY <3>2
  <2> HIDE DEF step
  <2> QED BY <1>2, <2>1 DEF Follows
<1>4. f = F(f)
  <2>1. DOMAIN f = 0..Len(s)
    OBVIOUS
  <2>2. \A n \in 0..Len(s) : n = 0 \/ n \in 1..Len(s)
    BY <1>0, FromZero, Zenon
  <2> QED BY <1>2, <1>3, <2>2
<1>5. g = F(g)
  BY <1>4, Zenon
<1>6. Filter(s, kept) = g[Len(s)]
  BY DEF Filter
<1> HIDE DEF g
<1>7. /\ g[0] = <<>>
      /\ \A n \in 1..Len(s) : g[n] = IF n \in kept THEN Append(g[n - 1], s[n]) ELSE g[n - 1]
  <2>1. \A n \in 0..Len(s) : g[n] = IF n = 0 THEN <<>>
                                  ELSE IF n \in kept THEN Append(g[n - 1], s[n]) ELSE g[n - 1]
    BY <1>5
  <2>2. 0 \in 0..Len(s) /\ \A n \in 1..Len(s) : n \in 0..Len(s) /\ n # 0
    BY <1>0
  <2> QED BY <2>1, <2>2
<1>8. \A n \in Nat : n <= Len(s) => g[n] = f[n]
  <2> DEFINE S == {n \in Nat : n <= Len(s) => g[n] = f[n]}
  <2>1. 0 \in S
    BY <1>3, <1>7
  <2>2. ASSUME NEW n \in Nat, n \in S PROVE n + 1 \in S
    <3>1. CASE n + 1 <= Len(s)
      <4>1. n + 1 \in 1..Len(s) /\ (n + 1) - 1 = n /\ g[n] = f[n]
        BY <1>0, <2>2, <3>1
      <4> QED BY <1>3, <1>7, <4>1
    <3>2. CASE ~(n + 1 <= Len(s))
      BY <3>2
    <3> QED BY <3>1, <3>2
  <2>3. \A n \in Nat : n \in S => n + 1 \in S
    BY <2>2
  <2>4. \A n \in Nat : n \in S
    <3> HIDE DEF S
    <3> QED BY <2>1, <2>3, CountingUp
  <2> QED BY <2>4
<1>9. Filter(s, kept) = f[Len(s)]
  BY <1>0, <1>6, <1>8
<1> QED BY <1>3, <1>9, SMTT(30) DEF FilterUpTo

\* t holds the elements of s at the indices in kept up to n, which ix lists in
\* ascending order.
Chosen(t, s, kept, n, ix) ==
  /\ ix \in [1..Len(t) -> kept \cap (1..n)]
  /\ \A i \in kept \cap (1..n) : \E k \in 1..Len(t) : ix[k] = i
  /\ \A k, l \in 1..Len(t) : k < l => ix[k] < ix[l]
  /\ \A k \in 1..Len(t) : t[k] = s[ix[k]]

LEMMA ChosenStep ==
  ASSUME NEW T, NEW s \in Seq(T), NEW kept, NEW t \in Seq(T), NEW n \in Nat, n + 1 \in 1..Len(s),
         NEW ix, Chosen(t, s, kept, n, ix)
  PROVE  \E jx : Chosen(IF n + 1 \in kept THEN Append(t, s[n + 1]) ELSE t, s, kept, n + 1, jx)
<1>0. Len(t) \in Nat /\ s[n + 1] \in T
  OBVIOUS
<1>1. CASE n + 1 \notin kept
  <2>1. kept \cap (1..(n + 1)) = kept \cap (1..n)
    BY <1>1
  <2>2. Chosen(t, s, kept, n + 1, ix)
    BY <2>1 DEF Chosen
  <2> QED BY <1>1, <2>2
<1>2. CASE n + 1 \in kept
  <2> DEFINE u == Append(t, s[n + 1])
             jx == [k \in 1..(Len(t) + 1) |-> IF k = Len(t) + 1 THEN n + 1 ELSE ix[k]]
  <2>1. /\ Len(u) = Len(t) + 1 /\ u[Len(t) + 1] = s[n + 1]
        /\ \A k \in 1..Len(t) : u[k] = t[k]
    BY <1>0
  <2>2. \A k \in 1..(Len(t) + 1) : k = Len(t) + 1 \/ (k \in 1..Len(t) /\ k # Len(t) + 1)
    BY <1>0
  <2>3. /\ jx[Len(t) + 1] = n + 1
        /\ \A k \in 1..Len(t) : jx[k] = ix[k] /\ ix[k] \in kept /\ ix[k] \in 1..n
    BY <1>0 DEF Chosen
  <2> HIDE DEF u
  <2>4. jx \in [1..Len(u) -> kept \cap (1..(n + 1))]
    <3> SUFFICES ASSUME NEW k \in 1..(Len(t) + 1) PROVE jx[k] \in kept \cap (1..(n + 1))
      BY <2>1
    <3> HIDE DEF jx
    <3>1. CASE k = Len(t) + 1
      BY <1>2, <2>3, <3>1
    <3>2. CASE k \in 1..Len(t)
      BY <2>3, <3>2
    <3> QED BY <2>2, <3>1, <3>2
  <2> HIDE DEF jx
  <2>5. \A i \in kept \cap (1..(n + 1)) : \E k \in 1..Len(u) : jx[k] = i
    <3> SUFFICES ASSUME NEW i \in kept \cap (1..(n + 1)) PROVE \E k \in 1..(Len(t) + 1) : jx[k] = i
      BY <2>1
    <3>1. CASE i = n + 1
      BY <1>0, <2>3, <3>1
    <3>2. CASE i \in kept \cap (1..n)
      <4>1. PICK k \in 1..Len(t) : ix[k] = i
        BY <3>2 DEF Chosen
      <4> QED BY <1>0, <2>3, <4>1
    <3>3. i = n + 1 \/ i \in 1..n
      OBVIOUS
    <3> QED BY <3>1, <3>2, <3>3
  <2>6. \A k, l \in 1..Len(u) : k < l => jx[k] < jx[l]
    <3> SUFFICES ASSUME NEW k \in 1..(Len(t) + 1), NEW l \in 1..(Len(t) + 1), k < l PROVE jx[k] < jx[l]
      BY <2>1
    <3>1. k \in 1..Len(t)
      BY <1>0
    <3>2. CASE l = Len(t) + 1
      BY <2>3, <3>1, <3>2
    <3>3. CASE l \in 1..Len(t)
      <4>1. ix[k] < ix[l]
        BY <3>1, <3>3 DEF Chosen
      <4> QED BY <2>3, <3>1, <3>3, <4>1
    <3> QED BY <2>2, <3>2, <3>3
  <2>7. \A k \in 1..Len(u) : u[k] = s[jx[k]]
    <3> SUFFICES ASSUME NEW k \in 1..(Len(t) + 1) PROVE u[k] = s[jx[k]]
      BY <2>1
    <3>1. CASE k = Len(t) + 1
      BY <2>1, <2>3, <3>1
    <3>2. CASE k \in 1..Len(t)
      <4>1. t[k] = s[ix[k]]
        BY <3>2 DEF Chosen
      <4> QED BY <2>1, <2>3, <3>2, <4>1
    <3> QED BY <2>2, <3>1, <3>2
  <2>8. Chosen(u, s, kept, n + 1, jx)
    BY <2>4, <2>5, <2>6, <2>7 DEF Chosen
  <2> QED BY <1>2, <2>8 DEF u
<1> QED BY <1>1, <1>2

\* What a list comprehension keeps: the elements at the indices asked for, in order.
LEMMA FilterKeeps ==
  ASSUME NEW T, NEW s \in Seq(T), NEW kept
  PROVE  Filter(s, kept) \in Seq(T) /\ \E ix : Chosen(Filter(s, kept), s, kept, Len(s), ix)
<1>0. Len(s) \in Nat
  OBVIOUS
<1> PICK f : FilterUpTo(f, T, s, kept)
  BY FilterSteps
<1>1. /\ f \in [0..Len(s) -> Seq(T)]
      /\ f[0] = <<>>
      /\ \A n \in 1..Len(s) : f[n] = IF n \in kept THEN Append(f[n - 1], s[n]) ELSE f[n - 1]
      /\ Filter(s, kept) = f[Len(s)]
  BY DEF FilterUpTo
<1> DEFINE S == {n \in Nat : n <= Len(s) => \E ix : Chosen(f[n], s, kept, n, ix)}
<1>2. 0 \in S
  <2>1. Chosen(<<>>, s, kept, 0, [k \in 1..0 |-> 0])
    BY DEF Chosen
  <2> QED BY <1>1, <2>1
<1>3. ASSUME NEW n \in Nat, n \in S PROVE n + 1 \in S
  <2> SUFFICES ASSUME n + 1 <= Len(s) PROVE \E ix : Chosen(f[n + 1], s, kept, n + 1, ix)
    OBVIOUS
  <2>1. n + 1 \in 1..Len(s) /\ n \in 0..Len(s) /\ (n + 1) - 1 = n
    BY <1>0
  <2>2. PICK ix : Chosen(f[n], s, kept, n, ix)
    BY <1>3, <2>1
  <2>3. f[n] \in Seq(T)
    BY <1>1, <2>1
  <2>4. f[n + 1] = IF n + 1 \in kept THEN Append(f[n], s[n + 1]) ELSE f[n]
    BY <1>1, <2>1
  <2>5. \E jx : Chosen(IF n + 1 \in kept THEN Append(f[n], s[n + 1]) ELSE f[n], s, kept, n + 1, jx)
    BY <2>1, <2>2, <2>3, ChosenStep
  <2> QED BY <2>4, <2>5
<1>4. \A n \in Nat : n \in S
  <2>1. \A n \in Nat : n \in S => n + 1 \in S
    BY <1>3
  <2> HIDE DEF S
  <2> QED BY <1>2, <2>1, CountingUp
<1> QED BY <1>0, <1>1, <1>4

-----------------------------------------------------------------------------
(* The order of the candidates: project by project, each project's as they *)
(* come.                                                                   *)

\* i is ahead of j among the monitors of the first n projects.
Ahead(i, j, monitors, projects, n) ==
  \E p, q \in 1..n : /\ monitors[i].project = projects[p] /\ monitors[j].project = projects[q]
                     /\ p < q \/ (p = q /\ i < j)

\* t holds the monitors of the first n projects, which ix lists in that order.
Arranged(t, monitors, projects, n, ix) ==
  /\ ix \in [1..Len(t) -> 1..Len(monitors)]
  /\ \A k \in 1..Len(t) : \E p \in 1..n : monitors[ix[k]].project = projects[p]
  /\ \A i \in 1..Len(monitors) : \A p \in 1..n :
       monitors[i].project = projects[p] => \E k \in 1..Len(t) : ix[k] = i
  /\ \A k, l \in 1..Len(t) : k < l => Ahead(ix[k], ix[l], monitors, projects, n)
  /\ \A k \in 1..Len(t) : t[k] = monitors[ix[k]]

\* The monitors of one project.
OfProject(monitors, p) == Filter(monitors, {i \in DOMAIN monitors : monitors[i].project = p})

LEMMA ArrangedStep ==
  ASSUME NEW T, NEW monitors \in Seq(T), NEW projects, NEW t \in Seq(T), NEW n \in Nat,
         NEW ix, Arranged(t, monitors, projects, n, ix)
  PROVE  \E jx : Arranged(t \o OfProject(monitors, projects[n + 1]), monitors, projects, n + 1, jx)
<1> DEFINE kept == {i \in DOMAIN monitors : monitors[i].project = projects[n + 1]}
           u == OfProject(monitors, projects[n + 1])
           w == t \o u
<1>1. u \in Seq(T) /\ \E hx : Chosen(u, monitors, kept, Len(monitors), hx)
  BY FilterKeeps DEF OfProject
<1>2. PICK hx : Chosen(u, monitors, kept, Len(monitors), hx)
  BY <1>1
<1> HIDE DEF u
<1>3. /\ Len(t) \in Nat /\ Len(u) \in Nat /\ Len(w) = Len(t) + Len(u) /\ Len(monitors) \in Nat
      /\ \A k \in 1..Len(t) : w[k] = t[k]
      /\ \A k \in (Len(t) + 1)..Len(w) : k - Len(t) \in 1..Len(u) /\ w[k] = u[k - Len(t)]
  BY <1>1
<1> HIDE DEF w
<1> DEFINE jx == [k \in 1..Len(w) |-> IF k <= Len(t) THEN ix[k] ELSE hx[k - Len(t)]]
<1>4. /\ \A k \in 1..Len(w) : k \in 1..Len(t) \/ k \in (Len(t) + 1)..Len(w)
      /\ \A k \in 1..Len(t) : jx[k] = ix[k] /\ k \in 1..Len(w)
      /\ \A k \in (Len(t) + 1)..Len(w) : jx[k] = hx[k - Len(t)] /\ k - Len(t) \in 1..Len(u)
      /\ DOMAIN jx = 1..Len(w)
  BY <1>3
<1>5. /\ \A k \in 1..Len(t) : ix[k] \in 1..Len(monitors)
      /\ \A k \in 1..Len(u) : /\ hx[k] \in 1..Len(monitors)
                              /\ monitors[hx[k]].project = projects[n + 1]
  <2>1. \A k \in 1..Len(t) : ix[k] \in 1..Len(monitors)
    BY DEF Arranged
  <2>2. hx \in [1..Len(u) -> kept \cap (1..Len(monitors))]
    BY <1>2 DEF Chosen
  <2>3. \A k \in 1..Len(u) : hx[k] \in kept /\ hx[k] \in 1..Len(monitors)
    BY <2>2
  <2> QED BY <2>1, <2>3
<1>6. jx \in [1..Len(w) -> 1..Len(monitors)]
  BY <1>4, <1>5
<1> HIDE DEF jx, kept
<1>7. n + 1 \in 1..(n + 1) /\ \A p \in 1..n : p \in 1..(n + 1) /\ p < n + 1
  OBVIOUS
<1>0. \A k \in (Len(t) + 1)..Len(w) : monitors[jx[k]].project = projects[n + 1]
  <2> TAKE k \in (Len(t) + 1)..Len(w)
  <2>1. k - Len(t) \in 1..Len(u) /\ jx[k] = hx[k - Len(t)]
    BY <1>4
  <2>2. monitors[hx[k - Len(t)]].project = projects[n + 1]
    BY <1>5, <2>1
  <2> QED BY <2>1, <2>2
<1>8. \A k \in 1..Len(w) : \E p \in 1..(n + 1) : monitors[jx[k]].project = projects[p]
  <2> TAKE k \in 1..Len(w)
  <2>1. CASE k \in 1..Len(t)
    <3>1. PICK p \in 1..n : monitors[ix[k]].project = projects[p]
      BY <2>1 DEF Arranged
    <3> QED BY <1>4, <1>7, <2>1, <3>1
  <2>2. CASE k \in (Len(t) + 1)..Len(w)
    BY <1>0, <1>7, <2>2
  <2> QED BY <1>4, <2>1, <2>2
<1>9. \A i \in 1..Len(monitors) : \A p \in 1..(n + 1) :
        monitors[i].project = projects[p] => \E k \in 1..Len(w) : jx[k] = i
  <2> SUFFICES ASSUME NEW i \in 1..Len(monitors), NEW p \in 1..(n + 1), monitors[i].project = projects[p]
               PROVE  \E k \in 1..Len(w) : jx[k] = i
    OBVIOUS
  <2>1. CASE p \in 1..n
    <3>1. PICK k \in 1..Len(t) : ix[k] = i
      BY <2>1 DEF Arranged
    <3> QED BY <1>4, <3>1
  <2>2. CASE p = n + 1
    <3>1. i \in kept \cap (1..Len(monitors))
      BY <2>2 DEF kept
    <3>2. PICK k \in 1..Len(u) : hx[k] = i
      BY <1>2, <3>1 DEF Chosen
    <3>3. Len(t) + k \in (Len(t) + 1)..Len(w) /\ (Len(t) + k) - Len(t) = k /\ Len(t) + k \in 1..Len(w)
      BY <1>3
    <3> QED BY <1>4, <3>2, <3>3
  <2> QED BY <2>1, <2>2
<1>10. \A k, l \in 1..Len(w) : k < l => Ahead(jx[k], jx[l], monitors, projects, n + 1)
  <2> SUFFICES ASSUME NEW k \in 1..Len(w), NEW l \in 1..Len(w), k < l
               PROVE  Ahead(jx[k], jx[l], monitors, projects, n + 1)
    OBVIOUS
  <2>1. CASE l \in 1..Len(t)
    <3>1. k \in 1..Len(t)
      BY <1>3, <2>1
    <3>2. Ahead(ix[k], ix[l], monitors, projects, n)
      BY <2>1, <3>1 DEF Arranged
    <3> QED BY <1>4, <1>7, <2>1, <3>1, <3>2 DEF Ahead
  <2>2. CASE l \in (Len(t) + 1)..Len(w) /\ k \in 1..Len(t)
    <3>1. PICK p \in 1..n : monitors[ix[k]].project = projects[p]
      BY <2>2 DEF Arranged
    <3>2. monitors[jx[l]].project = projects[n + 1] /\ monitors[jx[k]].project = projects[p]
      BY <1>0, <1>4, <2>2, <3>1
    <3> QED BY <1>7, <3>2 DEF Ahead
  <2>3. CASE l \in (Len(t) + 1)..Len(w) /\ k \in (Len(t) + 1)..Len(w)
    <3>1. k - Len(t) < l - Len(t)
      BY <1>3
    <3>2. hx[k - Len(t)] < hx[l - Len(t)]
      BY <1>2, <1>4, <2>3, <3>1 DEF Chosen
    <3>3. /\ monitors[jx[k]].project = projects[n + 1] /\ monitors[jx[l]].project = projects[n + 1]
          /\ jx[k] < jx[l]
      BY <1>0, <1>4, <2>3, <3>2
    <3> QED BY <1>7, <3>3 DEF Ahead
  <2> QED BY <1>4, <2>1, <2>2, <2>3
<1>11. \A k \in 1..Len(w) : w[k] = monitors[jx[k]]
  <2> TAKE k \in 1..Len(w)
  <2>1. CASE k \in 1..Len(t)
    <3>1. t[k] = monitors[ix[k]]
      BY <2>1 DEF Arranged
    <3> QED BY <1>3, <1>4, <2>1, <3>1
  <2>2. CASE k \in (Len(t) + 1)..Len(w)
    <3>1. u[k - Len(t)] = monitors[hx[k - Len(t)]]
      BY <1>2, <1>4, <2>2 DEF Chosen
    <3> QED BY <1>3, <1>4, <2>2, <3>1
  <2> QED BY <1>4, <2>1, <2>2
<1>12. Arranged(w, monitors, projects, n + 1, jx)
  BY <1>6, <1>8, <1>9, <1>10, <1>11 DEF Arranged
<1> QED BY <1>12 DEF w, u

\* The lists Sorted goes through: f[n] is the first n projects' monitors.
SortedUpTo(f, T, projects, monitors) ==
  /\ f \in [0..Len(projects) -> Seq(T)]
  /\ f[0] = <<>>
  /\ \A n \in 1..Len(projects) : f[n] = f[n - 1] \o OfProject(monitors, projects[n])
  /\ Sorted(projects, monitors) = f[Len(projects)]

LEMMA SortedSteps ==
  ASSUME NEW T, NEW monitors \in Seq(T), NEW P, NEW projects \in Seq(P)
  PROVE  \E f : SortedUpTo(f, T, projects, monitors)
<1> DEFINE F(f) == [n \in 0..Len(projects) |->
                      IF n = 0 THEN <<>>
                      ELSE f[n - 1] \o
                           Filter(monitors, {i \in DOMAIN monitors : monitors[i].project = projects[n]})]
           step == [p \in (1..Len(projects)) \X Seq(T) |-> p[2] \o OfProject(monitors, projects[p[1]])]
           g == CHOOSE f : f = F(f)
<1>0. Len(projects) \in Nat /\ <<>> \in Seq(T) /\ \A p : OfProject(monitors, p) \in Seq(T)
  BY FilterKeeps DEF OfProject
<1>1. step \in [(1..Len(projects)) \X Seq(T) -> Seq(T)]
  <2> SUFFICES ASSUME NEW p \in (1..Len(projects)) \X Seq(T) PROVE step[p] \in Seq(T)
    OBVIOUS
  <2>1. p[2] \in Seq(T) /\ OfProject(monitors, projects[p[1]]) \in Seq(T)
    BY <1>0
  <2> QED BY <2>1
<1>2. PICK f : Follows(f, Seq(T), <<>>, Len(projects), step)
  <2> HIDE DEF step
  <2> QED BY <1>0, <1>1, Steps
<1> f \in [0..Len(projects) -> Seq(T)]
  BY <1>2 DEF Follows
<1>3. f[0] = <<>> /\ \A n \in 1..Len(projects) : f[n] = f[n - 1] \o OfProject(monitors, projects[n])
  <2>1. ASSUME NEW n \in 1..Len(projects)
        PROVE  step[<<n, f[n - 1]>>] = f[n - 1] \o OfProject(monitors, projects[n])
    <3>1. n - 1 \in 0..Len(projects)
      BY <1>0
    <3>2. <<n, f[n - 1]>> \in (1..Len(projects)) \X Seq(T)
      BY <3>1
    <3> QED BY <3>2
  <2> HIDE DEF step
  <2> QED BY <1>2, <2>1 DEF Follows
<1>4. f = F(f)
  <2>1. DOMAIN f = 0..Len(projects)
    OBVIOUS
  <2>2. \A n \in 0..Len(projects) : n = 0 \/ n \in 1..Len(projects)
    BY <1>0, FromZero, Zenon
  <2> QED BY <1>3, <2>1, <2>2, Zenon DEF OfProject
<1>5. g = F(g)
  BY <1>4, Zenon
<1>6. Sorted(projects, monitors) = g[Len(projects)]
  BY DEF Sorted
<1> HIDE DEF g
<1>7. g[0] = <<>> /\ \A n \in 1..Len(projects) : g[n] = g[n - 1] \o OfProject(monitors, projects[n])
  <2>1. \A n \in 0..Len(projects) :
          g[n] = IF n = 0 THEN <<>>
                 ELSE g[n - 1] \o
                      Filter(monitors, {i \in DOMAIN monitors : monitors[i].project = projects[n]})
    BY <1>5
  <2>2. 0 \in 0..Len(projects) /\ \A n \in 1..Len(projects) : n \in 0..Len(projects) /\ n # 0
    BY <1>0
  <2> QED BY <2>1, <2>2 DEF OfProject
<1>8. \A n \in Nat : n <= Len(projects) => g[n] = f[n]
  <2> DEFINE S == {n \in Nat : n <= Len(projects) => g[n] = f[n]}
  <2>1. 0 \in S
    BY <1>3, <1>7
  <2>2. ASSUME NEW n \in Nat, n \in S PROVE n + 1 \in S
    <3>1. CASE n + 1 <= Len(projects)
      <4>1. n + 1 \in 1..Len(projects) /\ (n + 1) - 1 = n /\ g[n] = f[n]
        BY <1>0, <2>2, <3>1
      <4>2. f[n + 1] = f[n] \o OfProject(monitors, projects[n + 1])
        BY <1>3, <4>1
      <4>3. g[n + 1] = g[n] \o OfProject(monitors, projects[n + 1])
        BY <1>7, <4>1
      <4>4. g[n + 1] = f[n + 1]
        BY <4>1, <4>2, <4>3
      <4> QED BY <4>4
    <3>2. CASE ~(n + 1 <= Len(projects))
      BY <3>2
    <3> QED BY <3>1, <3>2
  <2>3. \A n \in Nat : n \in S => n + 1 \in S
    BY <2>2
  <2>4. \A n \in Nat : n \in S
    <3> HIDE DEF S
    <3> QED BY <2>1, <2>3, CountingUp
  <2> QED BY <2>4
<1>9. SortedUpTo(f, T, projects, monitors)
  BY <1>0, <1>3, <1>6, <1>8 DEF SortedUpTo
<1> QED BY <1>9

\* What the sort gives: the monitors of the given projects, oldest projects first.
LEMMA SortedArranges ==
  ASSUME NEW T, NEW monitors \in Seq(T), NEW P, NEW projects \in Seq(P)
  PROVE  /\ Sorted(projects, monitors) \in Seq(T)
         /\ \E ix : Arranged(Sorted(projects, monitors), monitors, projects, Len(projects), ix)
<1>0. Len(projects) \in Nat
  OBVIOUS
<1> PICK f : SortedUpTo(f, T, projects, monitors)
  BY SortedSteps
<1>1. /\ f \in [0..Len(projects) -> Seq(T)]
      /\ f[0] = <<>>
      /\ \A n \in 1..Len(projects) : f[n] = f[n - 1] \o OfProject(monitors, projects[n])
      /\ Sorted(projects, monitors) = f[Len(projects)]
  BY DEF SortedUpTo
<1> DEFINE S == {n \in Nat : n <= Len(projects) => \E ix : Arranged(f[n], monitors, projects, n, ix)}
<1>2. 0 \in S
  <2>1. Arranged(<<>>, monitors, projects, 0, [k \in 1..0 |-> 0])
    BY DEF Arranged
  <2> QED BY <1>1, <2>1
<1>3. ASSUME NEW n \in Nat, n \in S PROVE n + 1 \in S
  <2> SUFFICES ASSUME n + 1 <= Len(projects) PROVE \E ix : Arranged(f[n + 1], monitors, projects, n + 1, ix)
    OBVIOUS
  <2>1. n + 1 \in 1..Len(projects) /\ n \in 0..Len(projects) /\ (n + 1) - 1 = n
    BY <1>0
  <2>2. PICK ix : Arranged(f[n], monitors, projects, n, ix)
    BY <1>3, <2>1
  <2>3. f[n] \in Seq(T)
    BY <1>1, <2>1
  <2>4. f[n + 1] = f[n] \o OfProject(monitors, projects[n + 1])
    BY <1>1, <2>1
  <2>5. \E jx : Arranged(f[n] \o OfProject(monitors, projects[n + 1]), monitors, projects, n + 1, jx)
    BY <2>2, <2>3, ArrangedStep
  <2> QED BY <2>4, <2>5
<1>4. \A n \in Nat : n \in S
  <2>1. \A n \in Nat : n \in S => n + 1 \in S
    BY <1>3
  <2> HIDE DEF S
  <2> QED BY <1>2, <2>1, CountingUp
<1> QED BY <1>0, <1>1, <1>4

-----------------------------------------------------------------------------
(* plan_fit.                                                               *)

LEMMA FirstHolds ==
  ASSUME NEW T, NEW s \in Seq(T), NEW n \in Nat
  PROVE  /\ First(s, n) \in Seq(T)
         /\ Len(First(s, n)) = IF n < Len(s) THEN n ELSE Len(s)
         /\ \A k \in 1..Len(First(s, n)) : First(s, n)[k] = s[k]
         /\ ToSet(First(s, n)) = {s[k] : k \in {k \in 1..Len(s) : k <= n}}
<1> DEFINE m == IF n < Len(s) THEN n ELSE Len(s)
<1>1. m \in Nat /\ m <= Len(s) /\ Len(s) \in Nat /\ {k \in 1..Len(s) : k <= n} = 1..m
  OBVIOUS
<1>2. First(s, n) = SubSeq(s, 1, m)
  BY DEF First
<1> HIDE DEF m
<1>3. /\ SubSeq(s, 1, m) \in Seq(T) /\ Len(SubSeq(s, 1, m)) = m
      /\ \A k \in 1..m : SubSeq(s, 1, m)[k] = s[k]
  BY <1>1
<1>4. ToSet(First(s, n)) = {s[k] : k \in 1..m}
  <2>1. DOMAIN First(s, n) = 1..m
    BY <1>2, <1>3
  <2> QED BY <1>2, <1>3, <2>1 DEF ToSet
<1> QED BY <1>1, <1>2, <1>3, <1>4 DEF m

\* How many projects the limits allow.
Allowed(projects, limits) ==
  IF limits.projects = Unlimited \/ Len(projects) <= limits.projects THEN Len(projects)
  ELSE limits.projects

\* ix lists the candidates of the first n projects, oldest projects first.
Ranked(ix, N, monitors, projects, n) ==
  /\ N \in Nat
  /\ ix \in [1..N -> {i \in 1..Len(monitors) : Candidate(monitors[i])}]
  /\ \A k \in 1..N : \E p \in 1..n : monitors[ix[k]].project = projects[p]
  /\ \A i \in 1..Len(monitors) : \A p \in 1..n :
       Candidate(monitors[i]) /\ monitors[i].project = projects[p] => \E k \in 1..N : ix[k] = i
  /\ \A k, l \in 1..N : k < l => Ahead(ix[k], ix[l], monitors, projects, n)

\* What plan_fit decides with that list.
Decided(fit, ix, N, monitors, projects, limits) ==
  /\ Ranked(ix, N, monitors, projects, Allowed(projects, limits))
  /\ fit.run = {monitors[ix[k]].id : k \in {k \in 1..N : k <= limits.monitors}}
  /\ fit.pause = {monitors[i].id : i \in {i \in 1..Len(monitors) : Candidate(monitors[i])}} \ fit.run

\* Whatever the account: plan_fit takes as many from the front of the list of the
\* allowed projects' candidates, oldest projects first, as there may be, and
\* pauses the other candidates.
THEOREM PlanFitTakesOldest ==
  ASSUME NEW T, NEW monitors \in Seq(T), NEW P, NEW projects \in Seq(P), NEW limits,
         limits.projects \in Nat \cup {Unlimited}, limits.monitors \in Nat
  PROVE  \E ix, N : Decided(plan_fit(projects, monitors, limits), ix, N, monitors, projects, limits)
<1> DEFINE n == Allowed(projects, limits)
           allowed == IF limits.projects = Unlimited THEN projects ELSE First(projects, limits.projects)
           kept == {i \in DOMAIN monitors : Candidate(monitors[i])}
           c == Candidates(monitors)
           L == Sorted(allowed, c)
           run == {m.id : m \in ToSet(First(L, limits.monitors))}
<1>0. Len(monitors) \in Nat /\ DOMAIN monitors = 1..Len(monitors) /\ Len(projects) \in Nat
  OBVIOUS
<1>1. allowed \in Seq(P) /\ Len(allowed) = n /\ \A p \in 1..n : allowed[p] = projects[p]
  <2>1. CASE limits.projects = Unlimited
    BY <2>1 DEF Allowed
  <2>2. CASE limits.projects # Unlimited
    BY <2>2, <1>0, FirstHolds DEF Allowed
  <2> QED BY <2>1, <2>2
<1>2. c \in Seq(T) /\ \E cx : Chosen(c, monitors, kept, Len(monitors), cx)
  BY FilterKeeps DEF Candidates
<1>3. PICK cx : Chosen(c, monitors, kept, Len(monitors), cx)
  BY <1>2
<1> HIDE DEF n, allowed, c
<1>4. L \in Seq(T) /\ \E lx : Arranged(L, c, allowed, Len(allowed), lx)
  BY <1>1, <1>2, SortedArranges
<1>5. PICK lx : Arranged(L, c, allowed, n, lx)
  BY <1>1, <1>4
<1> HIDE DEF L
<1> DEFINE ix == [k \in 1..Len(L) |-> cx[lx[k]]]
<1>6. /\ Len(L) \in Nat /\ Len(c) \in Nat
      /\ \A k \in 1..Len(L) : lx[k] \in 1..Len(c) /\ L[k] = c[lx[k]] /\ ix[k] = cx[lx[k]]
      /\ \A k \in 1..Len(c) : cx[k] \in 1..Len(monitors) /\ Candidate(monitors[cx[k]]) /\ c[k] = monitors[cx[k]]
  <2>1. Len(L) \in Nat /\ Len(c) \in Nat
    BY <1>2, <1>4
  <2>2. \A k \in 1..Len(L) : lx[k] \in 1..Len(c) /\ L[k] = c[lx[k]] /\ ix[k] = cx[lx[k]]
    BY <1>5 DEF Arranged
  <2>3. \A k \in 1..Len(c) : cx[k] \in kept /\ cx[k] \in 1..Len(monitors) /\ c[k] = monitors[cx[k]]
    BY <1>3 DEF Chosen
  <2> QED BY <2>1, <2>2, <2>3
<1>7. \A k \in 1..Len(L) : /\ ix[k] \in 1..Len(monitors) /\ Candidate(monitors[ix[k]])
                           /\ L[k] = monitors[ix[k]]
  BY <1>6
<1>8. ix \in [1..Len(L) -> {i \in 1..Len(monitors) : Candidate(monitors[i])}]
  BY <1>7
<1>9. DOMAIN ix = 1..Len(L)
  OBVIOUS
<1> HIDE DEF ix
<1>10. \A k \in 1..Len(L) : \E p \in 1..n : monitors[ix[k]].project = projects[p]
  <2> TAKE k \in 1..Len(L)
  <2>1. PICK p \in 1..n : c[lx[k]].project = allowed[p]
    BY <1>5 DEF Arranged
  <2> QED BY <1>1, <1>6, <1>7, <2>1
<1>11. \A i \in 1..Len(monitors) : \A p \in 1..n :
         Candidate(monitors[i]) /\ monitors[i].project = projects[p] => \E k \in 1..Len(L) : ix[k] = i
  <2> SUFFICES ASSUME NEW i \in 1..Len(monitors), NEW p \in 1..n,
                      Candidate(monitors[i]), monitors[i].project = projects[p]
               PROVE  \E k \in 1..Len(L) : ix[k] = i
    OBVIOUS
  <2>1. i \in kept \cap (1..Len(monitors))
    BY <1>0
  <2>2. PICK j \in 1..Len(c) : cx[j] = i
    BY <1>3, <2>1 DEF Chosen
  <2>3. c[j].project = allowed[p]
    BY <1>1, <1>6, <2>2
  <2>4. PICK k \in 1..Len(L) : lx[k] = j
    BY <1>5, <2>3 DEF Arranged
  <2> QED BY <1>6, <2>2, <2>4
<1>12. \A k, l \in 1..Len(L) : k < l => Ahead(ix[k], ix[l], monitors, projects, n)
  <2> SUFFICES ASSUME NEW k \in 1..Len(L), NEW l \in 1..Len(L), k < l
               PROVE  Ahead(ix[k], ix[l], monitors, projects, n)
    OBVIOUS
  <2>1. Ahead(lx[k], lx[l], c, allowed, n)
    BY <1>5 DEF Arranged
  <2>2. PICK p \in 1..n, q \in 1..n : /\ c[lx[k]].project = allowed[p] /\ c[lx[l]].project = allowed[q]
                                      /\ p < q \/ (p = q /\ lx[k] < lx[l])
    BY <2>1 DEF Ahead
  <2>3. monitors[ix[k]].project = projects[p] /\ monitors[ix[l]].project = projects[q]
    BY <1>1, <1>6, <1>7, <2>2
  <2>4. lx[k] < lx[l] => ix[k] < ix[l]
    <3>1. lx[k] \in 1..Len(c) /\ lx[l] \in 1..Len(c) /\ ix[k] = cx[lx[k]] /\ ix[l] = cx[lx[l]]
      BY <1>6
    <3>2. \A a, b \in 1..Len(c) : a < b => cx[a] < cx[b]
      BY <1>3 DEF Chosen
    <3> QED BY <3>1, <3>2
  <2> QED BY <2>2, <2>3, <2>4 DEF Ahead
<1>13. Ranked(ix, Len(L), monitors, projects, n)
  BY <1>6, <1>8, <1>10, <1>11, <1>12 DEF Ranked
<1>14. ToSet(First(L, limits.monitors)) = {L[k] : k \in {k \in 1..Len(L) : k <= limits.monitors}}
  BY <1>4, FirstHolds
<1>15. run = {monitors[ix[k]].id : k \in {k \in 1..Len(L) : k <= limits.monitors}}
  <2>1. \A x : x \in run <=> \E k \in {k \in 1..Len(L) : k <= limits.monitors} : x = L[k].id
    BY <1>14
  <2>2. \A k \in {k \in 1..Len(L) : k <= limits.monitors} : L[k] = monitors[ix[k]]
    BY <1>7
  <2> HIDE DEF run
  <2> QED BY <2>1, <2>2
<1>16. {m.id : m \in ToSet(c)} = {monitors[i].id : i \in {i \in 1..Len(monitors) : Candidate(monitors[i])}}
  <2>1. DOMAIN c = 1..Len(c)
    BY <1>2
  <2>2. \A i \in kept \cap (1..Len(monitors)) : \E k \in 1..Len(c) : cx[k] = i
    BY <1>3 DEF Chosen
  <2>3. ASSUME NEW i \in 1..Len(monitors), Candidate(monitors[i])
        PROVE  \E k \in 1..Len(c) : c[k] = monitors[i]
    <3>1. PICK k \in 1..Len(c) : cx[k] = i
      BY <1>0, <2>2, <2>3
    <3> QED BY <1>6, <3>1
  <2>4. \A x : x \in {m.id : m \in ToSet(c)} <=> \E k \in 1..Len(c) : x = c[k].id
    BY <2>1 DEF ToSet
  <2>5. ASSUME NEW k \in 1..Len(c)
        PROVE  \E i \in {i \in 1..Len(monitors) : Candidate(monitors[i])} : c[k] = monitors[i]
    BY <1>6
  <2>6. ASSUME NEW x, \E k \in 1..Len(c) : x = c[k].id
        PROVE  x \in {monitors[i].id : i \in {i \in 1..Len(monitors) : Candidate(monitors[i])}}
    BY <2>5, <2>6
  <2>7. ASSUME NEW x \in {monitors[i].id : i \in {i \in 1..Len(monitors) : Candidate(monitors[i])}}
        PROVE  \E k \in 1..Len(c) : x = c[k].id
    BY <2>3
  <2> QED BY <2>4, <2>6, <2>7
<1>17. plan_fit(projects, monitors, limits) = [run |-> run, pause |-> {m.id : m \in ToSet(c)} \ run]
  BY DEF plan_fit, allowed, c, L
<1> HIDE DEF run
<1> DEFINE fit == plan_fit(projects, monitors, limits)
<1>18. fit.run = run /\ fit.pause = {m.id : m \in ToSet(c)} \ run
  BY <1>17
<1> HIDE DEF fit
<1>19. Decided(fit, ix, Len(L), monitors, projects, limits)
  BY <1>13, <1>15, <1>16, <1>18 DEF Decided, n
<1> QED BY <1>19 DEF fit

\* Being ahead is an order of the monitors of projects that are told apart.
Distinct(projects) == \A p, q \in 1..Len(projects) : projects[p] = projects[q] => p = q

LEMMA AheadIsStrict ==
  ASSUME NEW monitors, NEW projects, Distinct(projects), NEW n \in Nat, n <= Len(projects),
         Len(projects) \in Nat, NEW i \in Nat, NEW j \in Nat, Ahead(i, j, monitors, projects, n)
  PROVE  i # j /\ ~Ahead(j, i, monitors, projects, n)
<1>1. PICK p \in 1..n, q \in 1..n : /\ monitors[i].project = projects[p] /\ monitors[j].project = projects[q]
                                    /\ p < q \/ (p = q /\ i < j)
  BY DEF Ahead
<1>2. \A r \in 1..n : r \in 1..Len(projects) /\ r \in Nat
  OBVIOUS
<1>3. i # j
  BY <1>1, <1>2 DEF Distinct
<1>4. ASSUME NEW r \in 1..n, NEW t \in 1..n, monitors[j].project = projects[r],
             monitors[i].project = projects[t], r < t \/ (r = t /\ j < i)
      PROVE  FALSE
  <2>1. r = q /\ t = p
    BY <1>1, <1>2, <1>4 DEF Distinct
  <2> QED BY <1>1, <1>2, <1>4, <2>1
<1> QED BY <1>3, <1>4 DEF Ahead

LEMMA AllowedIsFew ==
  ASSUME NEW P, NEW projects \in Seq(P), NEW limits, limits.projects \in Nat \cup {Unlimited}
  PROVE  Allowed(projects, limits) \in Nat /\ Allowed(projects, limits) <= Len(projects)
BY DEF Allowed

LEMMA CountOfInterval ==
  ASSUME NEW n \in Nat
  PROVE  IsFiniteSet(1..n) /\ Cardinality(1..n) = n
<1>1. 1 \in Int /\ n \in Int /\ (IF 1 > n THEN 0 ELSE n - 1 + 1) = n
  OBVIOUS
<1>2. IsFiniteSet(1..n) /\ Cardinality(1..n) = IF 1 > n THEN 0 ELSE n - 1 + 1
  BY <1>1, FS_Interval
<1> QED BY <1>1, <1>2

\* Nobody is listed twice.
LEMMA ListedOnce ==
  ASSUME NEW monitors, Len(monitors) \in Nat, NEW P, NEW projects \in Seq(P), Distinct(projects),
         NEW n \in Nat, n <= Len(projects), NEW ix, NEW N, Ranked(ix, N, monitors, projects, n)
  PROVE  /\ N \in Nat /\ N <= Len(monitors)
         /\ \A k, l \in 1..N : ix[k] = ix[l] => k = l
         /\ \A k, l \in 1..N : Ahead(ix[k], ix[l], monitors, projects, n) <=> k < l
<1>1. N \in Nat /\ ix \in [1..N -> 1..Len(monitors)] /\ Len(projects) \in Nat
  BY DEF Ranked
<1>2. ASSUME NEW k \in 1..N, NEW l \in 1..N, k < l
      PROVE  /\ ix[k] # ix[l] /\ Ahead(ix[k], ix[l], monitors, projects, n)
             /\ ~Ahead(ix[l], ix[k], monitors, projects, n)
  <2>1. Ahead(ix[k], ix[l], monitors, projects, n)
    BY <1>2 DEF Ranked
  <2>2. ix[k] \in Nat /\ ix[l] \in Nat
    BY <1>1
  <2> QED BY <1>1, <2>1, <2>2, AheadIsStrict
<1>3. ASSUME NEW k \in 1..N PROVE ~Ahead(ix[k], ix[k], monitors, projects, n)
  <2>1. ix[k] \in Nat
    BY <1>1
  <2> QED BY <1>1, <2>1, AheadIsStrict
<1>4. \A k, l \in 1..N : k < l \/ k = l \/ l < k
  BY <1>1
<1>5. \A k, l \in 1..N : ix[k] = ix[l] => k = l
  BY <1>2, <1>4
<1>6. \A k, l \in 1..N : Ahead(ix[k], ix[l], monitors, projects, n) <=> k < l
  BY <1>1, <1>2, <1>3, <1>4
<1>7. N <= Len(monitors)
  <2>1. ix \in Injection(1..N, 1..Len(monitors))
    BY <1>1, <1>5 DEF Injection, IsInjective
  <2>2. /\ IsFiniteSet(1..Len(monitors)) /\ Cardinality(1..Len(monitors)) = Len(monitors)
        /\ IsFiniteSet(1..N) /\ Cardinality(1..N) = N
    BY <1>1, CountOfInterval
  <2>3. Cardinality(1..N) <= Cardinality(1..Len(monitors))
    BY <2>1, <2>2, FS_Injection
  <2> QED BY <2>2, <2>3
<1> QED BY <1>1, <1>5, <1>6, <1>7

\* What the first m numbers list.
Listed(ix, m) == {ix[k] : k \in 1..m}

LEMMA Counted ==
  ASSUME NEW N \in Nat, NEW ix, \A k, l \in 1..N : ix[k] = ix[l] => k = l,
         NEW m \in Nat, m <= N
  PROVE  /\ IsFiniteSet(Listed(ix, m))
         /\ Cardinality(Listed(ix, m)) = m
<1> DEFINE f == [k \in 1..m |-> ix[k]]
<1>1. f \in Bijection(1..m, Listed(ix, m))
  BY DEF Bijection, Injection, IsInjective, Surjection, Listed
<1>2. IsFiniteSet(1..m) /\ Cardinality(1..m) = m
  BY CountOfInterval
<1>3. ExistsBijection(1..m, Listed(ix, m))
  BY <1>1 DEF ExistsBijection
<1> QED BY <1>2, <1>3, FS_Bijection

\* At most max_monitors run.
THEOREM PlanFitKeepsLimit ==
  ASSUME NEW T, NEW monitors \in Seq(T), NEW P, NEW projects \in Seq(P), Distinct(projects), NEW limits,
         limits.projects \in Nat \cup {Unlimited}, limits.monitors \in Nat,
         \A i \in 1..Len(monitors) : monitors[i].id = i
  PROVE  LET fit == plan_fit(projects, monitors, limits)
         IN  /\ fit.run \subseteq {i \in 1..Len(monitors) : Candidate(monitors[i])}
             /\ IsFiniteSet(fit.run) /\ Cardinality(fit.run) <= limits.monitors
             /\ fit.pause = {i \in 1..Len(monitors) : Candidate(monitors[i])} \ fit.run
<1> DEFINE fit == plan_fit(projects, monitors, limits)
           n == Allowed(projects, limits)
<1>1. PICK ix, N : Decided(fit, ix, N, monitors, projects, limits)
  BY PlanFitTakesOldest
<1>2. n \in Nat /\ n <= Len(projects) /\ Len(monitors) \in Nat
  BY AllowedIsFew
<1> HIDE DEF fit, n
<1>3. Ranked(ix, N, monitors, projects, n)
  BY <1>1 DEF Decided, n
<1>4. /\ N \in Nat /\ N <= Len(monitors)
      /\ \A k, l \in 1..N : ix[k] = ix[l] => k = l
  BY <1>2, <1>3, ListedOnce
<1>5. \A k \in 1..N : ix[k] \in 1..Len(monitors) /\ Candidate(monitors[ix[k]]) /\ monitors[ix[k]].id = ix[k]
  BY <1>3 DEF Ranked
<1> DEFINE m == IF N <= limits.monitors THEN N ELSE limits.monitors
<1>6. m \in Nat /\ m <= N /\ m <= limits.monitors /\ {k \in 1..N : k <= limits.monitors} = 1..m
  BY <1>4
<1>7. fit.run = {monitors[ix[k]].id : k \in {k \in 1..N : k <= limits.monitors}}
  BY <1>1 DEF Decided
<1> HIDE DEF m
<1>8. fit.run = Listed(ix, m)
  <2>1. \A k \in 1..m : k \in 1..N
    BY <1>4, <1>6
  <2>2. fit.run = {monitors[ix[k]].id : k \in 1..m}
    BY <1>6, <1>7
  <2> QED BY <1>5, <2>1, <2>2 DEF Listed
<1>9. IsFiniteSet(fit.run) /\ Cardinality(fit.run) = m
  <2>1. m \in Nat /\ m <= N
    BY <1>6
  <2>2. IsFiniteSet(Listed(ix, m)) /\ Cardinality(Listed(ix, m)) = m
    BY <1>4, <2>1, Counted
  <2> QED BY <1>8, <2>2
<1>10. fit.run \subseteq {i \in 1..Len(monitors) : Candidate(monitors[i])}
  <2>1. \A k \in 1..m : k \in 1..N
    BY <1>4, <1>6
  <2> QED BY <1>5, <1>8, <2>1 DEF Listed
<1>11. fit.pause = {i \in 1..Len(monitors) : Candidate(monitors[i])} \ fit.run
  <2>1. {monitors[i].id : i \in {i \in 1..Len(monitors) : Candidate(monitors[i])}}
          = {i \in 1..Len(monitors) : Candidate(monitors[i])}
    OBVIOUS
  <2> QED BY <1>1, <2>1 DEF Decided
<1> QED BY <1>6, <1>9, <1>10, <1>11 DEF fit

\* With room for all of them all candidates run.
THEOREM PlanFitWithRoom ==
  ASSUME NEW T, NEW monitors \in Seq(T), NEW P, NEW projects \in Seq(P), Distinct(projects), NEW limits,
         limits.projects \in Nat \cup {Unlimited}, limits.monitors \in Nat,
         \A i \in 1..Len(monitors) : /\ monitors[i].id = i
                                     /\ \E p \in 1..Len(projects) : monitors[i].project = projects[p],
         limits.projects = Unlimited \/ Len(projects) <= limits.projects,
         Len(monitors) <= limits.monitors
  PROVE  LET fit == plan_fit(projects, monitors, limits)
         IN  /\ fit.run = {i \in 1..Len(monitors) : Candidate(monitors[i])}
             /\ fit.pause = {}
<1> DEFINE fit == plan_fit(projects, monitors, limits)
<1>1. PICK ix, N : Decided(fit, ix, N, monitors, projects, limits)
  BY PlanFitTakesOldest
<1>2. Allowed(projects, limits) = Len(projects) /\ Len(projects) \in Nat /\ Len(monitors) \in Nat
  BY DEF Allowed
<1> HIDE DEF fit
<1>3. Ranked(ix, N, monitors, projects, Len(projects))
  BY <1>1, <1>2 DEF Decided
<1>4. N \in Nat /\ N <= Len(monitors)
  BY <1>2, <1>3, ListedOnce
<1>5. {k \in 1..N : k <= limits.monitors} = 1..N
  BY <1>2, <1>4
<1>6. \A k \in 1..N : ix[k] \in 1..Len(monitors) /\ Candidate(monitors[ix[k]]) /\ monitors[ix[k]].id = ix[k]
  BY <1>3 DEF Ranked
<1>7. fit.run = {ix[k] : k \in 1..N}
  <2>1. fit.run = {monitors[ix[k]].id : k \in 1..N}
    BY <1>1, <1>5 DEF Decided
  <2> QED BY <1>6, <2>1, SMTT(30)
<1>8. \A i \in 1..Len(monitors) : Candidate(monitors[i]) => \E k \in 1..N : ix[k] = i
  BY <1>3 DEF Ranked
<1>9. fit.run = {i \in 1..Len(monitors) : Candidate(monitors[i])}
  <2> DEFINE all == {i \in 1..Len(monitors) : Candidate(monitors[i])}
  <2>1. \A k \in 1..N : ix[k] \in all
    BY <1>6
  <2>2. \A i \in all : \E k \in 1..N : ix[k] = i
    BY <1>8
  <2> HIDE DEF all
  <2>3. {ix[k] : k \in 1..N} = all
    BY <2>1, <2>2
  <2> QED BY <1>7, <2>3 DEF all
<1>10. fit.pause = {}
  <2>1. {monitors[i].id : i \in {i \in 1..Len(monitors) : Candidate(monitors[i])}}
          = {i \in 1..Len(monitors) : Candidate(monitors[i])}
    OBVIOUS
  <2> QED BY <1>1, <1>9, <2>1 DEF Decided
<1> QED BY <1>9, <1>10 DEF fit

\* Who is admitted at all, and who of them runs: a monitor runs when fewer than
\* max_monitors of the admitted are ahead of it.
Admitted(monitors, projects, limits) ==
  {i \in 1..Len(monitors) : /\ Candidate(monitors[i])
                            /\ \E p \in 1..Allowed(projects, limits) : monitors[i].project = projects[p]}

InFront(j, monitors, projects, limits) ==
  {i \in Admitted(monitors, projects, limits) :
     Ahead(i, j, monitors, projects, Allowed(projects, limits))}

RunsByRank(monitors, projects, limits) ==
  {j \in Admitted(monitors, projects, limits) :
     Cardinality(InFront(j, monitors, projects, limits)) < limits.monitors}

THEOREM PlanFitByRank ==
  ASSUME NEW T, NEW monitors \in Seq(T), NEW P, NEW projects \in Seq(P), Distinct(projects), NEW limits,
         limits.projects \in Nat \cup {Unlimited}, limits.monitors \in Nat,
         \A i \in 1..Len(monitors) : monitors[i].id = i
  PROVE  plan_fit(projects, monitors, limits).run = RunsByRank(monitors, projects, limits)
<1> DEFINE fit == plan_fit(projects, monitors, limits)
           n == Allowed(projects, limits)
           in == Admitted(monitors, projects, limits)
           ahead(j) == {i \in in : Ahead(i, j, monitors, projects, n)}
<1>1. PICK ix, N : Decided(fit, ix, N, monitors, projects, limits)
  BY PlanFitTakesOldest
<1>2. n \in Nat /\ n <= Len(projects) /\ Len(monitors) \in Nat
  BY AllowedIsFew
<1>3. Ranked(ix, N, monitors, projects, n)
  BY <1>1 DEF Decided
<1>4. /\ N \in Nat /\ N <= Len(monitors)
      /\ \A k, l \in 1..N : ix[k] = ix[l] => k = l
      /\ \A k, l \in 1..N : Ahead(ix[k], ix[l], monitors, projects, n) <=> k < l
  <2> HIDE DEF n
  <2> QED BY <1>2, <1>3, ListedOnce
<1>5. \A k \in 1..N : ix[k] \in 1..Len(monitors) /\ monitors[ix[k]].id = ix[k]
  BY <1>3 DEF Ranked
<1>6. in = {ix[k] : k \in 1..N}
  <2>1. ASSUME NEW k \in 1..N PROVE ix[k] \in in
    BY <1>3 DEF Ranked, Admitted
  <2>2. ASSUME NEW i \in in PROVE \E k \in 1..N : ix[k] = i
    BY <1>3 DEF Ranked, Admitted
  <2> HIDE DEF in
  <2> QED BY <2>1, <2>2
<1> HIDE DEF fit, n, in
<1>7. ASSUME NEW l \in 1..N PROVE Cardinality(ahead(ix[l])) = l - 1
  <2>1. \A k \in 1..(l - 1) : k \in 1..N /\ k < l
    BY <1>4
  <2>2. \A k \in 1..N : k < l => k \in 1..(l - 1)
    BY <1>4
  <2>3. ahead(ix[l]) = Listed(ix, l - 1)
    <3>1. ahead(ix[l]) = {ix[k] : k \in {k \in 1..N : Ahead(ix[k], ix[l], monitors, projects, n)}}
      BY <1>6
    <3>2. {k \in 1..N : Ahead(ix[k], ix[l], monitors, projects, n)} = 1..(l - 1)
      BY <1>4, <2>1, <2>2
    <3> QED BY <3>1, <3>2 DEF Listed
  <2>4. l - 1 \in Nat /\ l - 1 <= N
    BY <1>4
  <2>5. Cardinality(Listed(ix, l - 1)) = l - 1
    BY <1>4, <2>4, Counted
  <2> HIDE DEF ahead
  <2> QED BY <2>3, <2>5
<1>8. fit.run = {ix[k] : k \in {k \in 1..N : k <= limits.monitors}}
  <2>1. fit.run = {monitors[ix[k]].id : k \in {k \in 1..N : k <= limits.monitors}}
    BY <1>1 DEF Decided
  <2> QED BY <1>5, <2>1, SMTT(30)
<1>9. \A l \in 1..N : l <= limits.monitors <=> Cardinality(ahead(ix[l])) < limits.monitors
  <2> TAKE l \in 1..N
  <2>1. l <= limits.monitors <=> l - 1 < limits.monitors
    BY <1>4
  <2> HIDE DEF ahead
  <2> QED BY <1>7, <2>1
<1> HIDE DEF ahead
<1>10. fit.run = {j \in in : Cardinality(ahead(j)) < limits.monitors}
  BY <1>6, <1>8, <1>9
<1> QED BY <1>10 DEF fit, n, in, ahead, RunsByRank, InFront

\* A project allowed by fewer is allowed by more, and in front of an admitted
\* monitor stand the same ones.
LEMMA AheadStaysAhead ==
  ASSUME NEW monitors, NEW P, NEW projects \in Seq(P), Distinct(projects),
         NEW n \in Nat, NEW o \in Nat, n <= o, o <= Len(projects),
         NEW i \in Nat, NEW j \in Nat, \E q \in 1..n : monitors[j].project = projects[q]
  PROVE  /\ Ahead(i, j, monitors, projects, n) <=> Ahead(i, j, monitors, projects, o)
         /\ Ahead(i, j, monitors, projects, o) => \E p \in 1..n : monitors[i].project = projects[p]
<1>1. Len(projects) \in Nat /\ \A p \in 1..n : p \in 1..o
  OBVIOUS
<1>2. \A p \in 1..o : p \in 1..Len(projects)
  BY <1>1
<1>3. ASSUME Ahead(i, j, monitors, projects, n) PROVE Ahead(i, j, monitors, projects, o)
  BY <1>1, <1>3 DEF Ahead
<1>4. ASSUME Ahead(i, j, monitors, projects, o)
      PROVE  /\ Ahead(i, j, monitors, projects, n)
             /\ \E p \in 1..n : monitors[i].project = projects[p]
  <2>1. PICK r \in 1..n : monitors[j].project = projects[r]
    OBVIOUS
  <2>2. PICK p \in 1..o, q \in 1..o : /\ monitors[i].project = projects[p] /\ monitors[j].project = projects[q]
                                      /\ p < q \/ (p = q /\ i < j)
    BY <1>4 DEF Ahead
  <2>3. q = r
    BY <1>1, <1>2, <2>1, <2>2 DEF Distinct
  <2>4. p \in 1..n /\ q \in 1..n
    BY <2>1, <2>2, <2>3
  <2>5. Ahead(i, j, monitors, projects, n)
    BY <2>2, <2>4 DEF Ahead
  <2> QED BY <2>2, <2>4, <2>5
<1> QED BY <1>3, <1>4

\* Limits that allow at least as much.
AtLeast(more, limits) ==
  /\ limits.monitors <= more.monitors
  /\ more.projects = Unlimited \/ (limits.projects # Unlimited /\ limits.projects <= more.projects)

\* A larger plan pauses nothing that runs under a smaller one: whatever plan_fit keeps
\* under some limits it keeps under limits that allow at least as much, though the
\* larger one also admits projects, whose monitors compete for the same places.
THEOREM PlanFitMonotone ==
  ASSUME NEW T, NEW monitors \in Seq(T), NEW P, NEW projects \in Seq(P), Distinct(projects),
         NEW limits, limits.projects \in Nat \cup {Unlimited}, limits.monitors \in Nat,
         NEW more, more.projects \in Nat \cup {Unlimited}, more.monitors \in Nat,
         AtLeast(more, limits),
         \A i \in 1..Len(monitors) : monitors[i].id = i
  PROVE  plan_fit(projects, monitors, limits).run \subseteq plan_fit(projects, monitors, more).run
<1> DEFINE n == Allowed(projects, limits)
           o == Allowed(projects, more)
           in == Admitted(monitors, projects, limits)
           inMore == Admitted(monitors, projects, more)
           ahead(j) == InFront(j, monitors, projects, limits)
           aheadMore(j) == InFront(j, monitors, projects, more)
<1>1. /\ plan_fit(projects, monitors, limits).run = RunsByRank(monitors, projects, limits)
      /\ plan_fit(projects, monitors, more).run = RunsByRank(monitors, projects, more)
  BY PlanFitByRank
<1>2. n \in Nat /\ n <= Len(projects) /\ o \in Nat /\ o <= Len(projects)
  BY AllowedIsFew
<1>3. n <= o
  BY DEF Allowed, AtLeast
<1>4. in \subseteq inMore /\ in \subseteq Nat /\ inMore \subseteq Nat
  <2>1. \A p \in 1..n : p \in 1..o
    BY <1>2, <1>3
  <2> QED BY <2>1 DEF Admitted
<1>5. ASSUME NEW j \in in PROVE ahead(j) = aheadMore(j)
  <2>1. j \in Nat
    BY <1>4
  <2>0. PICK q \in 1..n : monitors[j].project = projects[q]
    BY DEF Admitted
  <2>2. ASSUME NEW i \in inMore
        PROVE  /\ Ahead(i, j, monitors, projects, n) <=> Ahead(i, j, monitors, projects, o)
               /\ Ahead(i, j, monitors, projects, o) => i \in in
    <3>1. i \in Nat
      BY <1>4
    <3>2. /\ Ahead(i, j, monitors, projects, n) <=> Ahead(i, j, monitors, projects, o)
          /\ Ahead(i, j, monitors, projects, o) => \E p \in 1..n : monitors[i].project = projects[p]
      <4> HIDE DEF n, o, in, inMore
      <4> QED BY <1>2, <1>3, <2>0, <2>1, <3>1, AheadStaysAhead
    <3> QED BY <3>2 DEF Admitted
  <2>3. /\ ahead(j) = {i \in in : Ahead(i, j, monitors, projects, n)}
        /\ aheadMore(j) = {i \in inMore : Ahead(i, j, monitors, projects, o)}
    BY DEF InFront
  <2> HIDE DEF n, o, in, inMore, ahead, aheadMore
  <2> QED BY <1>4, <2>2, <2>3
<1>6. ASSUME NEW j \in in, Cardinality(ahead(j)) < limits.monitors
      PROVE  j \in inMore /\ Cardinality(aheadMore(j)) < more.monitors
  <2>1. IsFiniteSet(ahead(j))
    <3>1. ahead(j) \subseteq 1..Len(monitors) /\ Len(monitors) \in Nat
      BY DEF Admitted, InFront
    <3> HIDE DEF ahead
    <3> QED BY <3>1, CountOfInterval, FS_Subset
  <2> HIDE DEF ahead, aheadMore, in, inMore
  <2>2. Cardinality(ahead(j)) \in Nat
    BY <2>1, FS_CardinalityType
  <2> QED BY <1>4, <1>5, <1>6, <2>2 DEF AtLeast
<1>7. RunsByRank(monitors, projects, limits) \subseteq RunsByRank(monitors, projects, more)
  BY <1>6 DEF RunsByRank
<1> QED BY <1>1, <1>7

\* plan_fit remembers nothing: accounts whose monitors are the same candidates of the
\* same projects get the same decision, whichever of them run and whichever reason of
\* a plan the others carry.  So the way down to Free and back up undoes itself.
THEOREM PlanFitForgets ==
  ASSUME NEW T, NEW monitors \in Seq(T), NEW others \in Seq(T), NEW P, NEW projects \in Seq(P),
         Distinct(projects), NEW limits,
         limits.projects \in Nat \cup {Unlimited}, limits.monitors \in Nat,
         Len(monitors) = Len(others),
         \A i \in 1..Len(monitors) : /\ monitors[i].id = i /\ others[i].id = i
                                     /\ monitors[i].project = others[i].project
                                     /\ Candidate(monitors[i]) <=> Candidate(others[i])
  PROVE  /\ plan_fit(projects, monitors, limits).run = plan_fit(projects, others, limits).run
         /\ plan_fit(projects, monitors, limits).pause = plan_fit(projects, others, limits).pause
<1> DEFINE n == Allowed(projects, limits)
           in(list) == Admitted(list, projects, limits)
           ahead(list, j) == InFront(j, list, projects, limits)
           running(list) == RunsByRank(list, projects, limits)
           candidates(list) == {i \in 1..Len(list) : Candidate(list[i])}
<1>1. /\ plan_fit(projects, monitors, limits).run = running(monitors)
      /\ plan_fit(projects, others, limits).run = running(others)
  <2>0. \A i \in 1..Len(others) : others[i].id = i
    OBVIOUS
  <2>1. plan_fit(projects, monitors, limits).run = running(monitors)
    BY PlanFitByRank
  <2>2. plan_fit(projects, others, limits).run = running(others)
    BY <2>0, PlanFitByRank
  <2> QED BY <2>1, <2>2
<1>2. /\ plan_fit(projects, monitors, limits).pause
           = candidates(monitors) \ plan_fit(projects, monitors, limits).run
      /\ plan_fit(projects, others, limits).pause
           = candidates(others) \ plan_fit(projects, others, limits).run
  <2>1. plan_fit(projects, monitors, limits).pause
          = candidates(monitors) \ plan_fit(projects, monitors, limits).run
    BY PlanFitKeepsLimit
  <2>0. \A i \in 1..Len(others) : others[i].id = i
    OBVIOUS
  <2>2. plan_fit(projects, others, limits).pause
          = candidates(others) \ plan_fit(projects, others, limits).run
    BY <2>0, PlanFitKeepsLimit
  <2> QED BY <2>1, <2>2
<1>3. candidates(monitors) = candidates(others)
  OBVIOUS
<1>4. in(monitors) = in(others) /\ in(monitors) \subseteq 1..Len(monitors)
  BY DEF Admitted
<1>5. ASSUME NEW i \in 1..Len(monitors), NEW j \in 1..Len(monitors)
      PROVE  Ahead(i, j, monitors, projects, n) <=> Ahead(i, j, others, projects, n)
  <2>1. monitors[i].project = others[i].project /\ monitors[j].project = others[j].project
    OBVIOUS
  <2> QED BY <2>1 DEF Ahead
<1>6. \A j \in in(monitors) : ahead(monitors, j) = ahead(others, j)
  <2> TAKE j \in in(monitors)
  <2>1. \A i \in in(monitors) : Ahead(i, j, monitors, projects, n) <=> Ahead(i, j, others, projects, n)
    BY <1>4, <1>5
  <2>2. /\ ahead(monitors, j) = {i \in in(monitors) : Ahead(i, j, monitors, projects, n)}
        /\ ahead(others, j) = {i \in in(others) : Ahead(i, j, others, projects, n)}
    BY DEF InFront
  <2> HIDE DEF in, n, ahead
  <2> QED BY <1>4, <2>1, <2>2
<1>7. running(monitors) = running(others)
  BY <1>4, <1>6 DEF RunsByRank
<1> HIDE DEF running, candidates
<1> QED BY <1>1, <1>2, <1>3, <1>7
=============================================================================

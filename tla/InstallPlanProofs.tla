-------------------------- MODULE InstallPlanProofs --------------------------
(***************************************************************************)
(* What the plans of InstallPlan hold, and in which order, for every list  *)
(* of resources and every choice of depends_on.                            *)
(***************************************************************************)
EXTENDS InstallPlanCheck, FiniteSetTheorems, TLAPS

----------------------------------------------------------------------------
(* Induction over the natural numbers, in terms of a set, and the existence *)
(* of the functions that the loops of the plans are written as.             *)

LEMMA SetInduction ==
    ASSUME NEW S, 0 \in S, \A n \in Nat : n \in S => n + 1 \in S
    PROVE  Nat \subseteq S
<1> DEFINE Less == OpToRel(<, Nat)
           Missing == Nat \ S
<1>1. SUFFICES ASSUME Missing # {} PROVE FALSE
  OBVIOUS
<1>2. \E m \in Missing : \A n \in Missing : ~(<<n, m>> \in Less)
  <2>1. IsWellFoundedOn(Less, Nat) /\ Missing \subseteq Nat
    BY NatLessThanWellFounded
  <2> HIDE DEF Less, Missing
  <2> QED
    BY <1>1, <2>1, WFMin
<1>3. PICK m \in Missing : \A n \in Missing : ~(<<n, m>> \in Less)
  BY <1>2
<1>4. m \in Nat /\ m # 0 /\ m - 1 \in Nat
  OBVIOUS
<1>5. <<m - 1, m>> \in Less
  BY <1>4 DEF OpToRel
<1>6. m - 1 \in S
  BY <1>3, <1>4, <1>5
<1>7. (m - 1) + 1 \in S /\ (m - 1) + 1 = m
  BY <1>4, <1>6
<1> QED
  BY <1>7

\* The rounds of a loop: what each step makes of the value before it.
Steps(step, n, X) == step \in [1 .. n -> [X -> X]]

Rounds(f, base, n, step, X) ==
    f \in [0 .. n -> X] /\ f[0] = base /\ \A i \in 1 .. n : f[i] = step[i][f[i - 1]]

LEMMA Iterates ==
    ASSUME NEW X, NEW base \in X, NEW n \in Nat, NEW step, Steps(step, n, X)
    PROVE  \E f : Rounds(f, base, n, step, X)
<1> USE DEF Steps, Rounds
<1> DEFINE Iterate(f, k) == f[0] = base /\ \A i \in 1 .. k : f[i] = step[i][f[i - 1]]
           S == {k \in Nat : k <= n => \E f \in [0 .. k -> X] : Iterate(f, k)}
<1>1. 0 \in S
  <2>1. [i \in 0 .. 0 |-> base] \in [0 .. 0 -> X] /\ Iterate([i \in 0 .. 0 |-> base], 0)
    OBVIOUS
  <2> QED
    BY <2>1
<1>2. ASSUME NEW k \in Nat, k \in S PROVE k + 1 \in S
  <2> SUFFICES ASSUME k + 1 <= n PROVE \E f \in [0 .. k + 1 -> X] : Iterate(f, k + 1)
    OBVIOUS
  <2>1. PICK f \in [0 .. k -> X] : Iterate(f, k)
    BY <1>2
  <2> DEFINE g == [i \in 0 .. k + 1 |-> IF i = k + 1 THEN step[k + 1][f[k]] ELSE f[i]]
  <2>2. step[k + 1] \in [X -> X] /\ f[k] \in X
    OBVIOUS
  <2>3. g \in [0 .. k + 1 -> X]
    BY <2>2
  <2>4. \A i \in 1 .. k + 1 : g[i] = step[i][g[i - 1]]
    <3>1. g[k + 1] = step[k + 1][g[k]]
      OBVIOUS
    <3>2. \A i \in 1 .. k : g[i] = f[i] /\ g[i - 1] = f[i - 1]
      OBVIOUS
    <3> HIDE DEF g
    <3> QED
      BY <2>1, <3>1, <3>2
  <2>5. g[0] = base
    BY <2>1
  <2> HIDE DEF g
  <2> QED
    BY <2>3, <2>4, <2>5
<1>3. n \in S
  <2> HIDE DEF S
  <2> QED
    BY <1>1, <1>2, SetInduction
<1> QED
  BY <1>3

----------------------------------------------------------------------------
(* Appending what is new.                                                  *)

\* The list s is the beginning of the list t.
Begins(s, t) == Len(s) <= Len(t) /\ \A i \in 1 .. Len(s) : t[i] = s[i]

\* The loop of AppendAllNew, round by round.
LEMMA AppendAllNewLoop ==
    ASSUME NEW R, NEW s \in Seq(R), NEW t \in Seq(R)
    PROVE  \E f \in [0 .. Len(t) -> Seq(R)] :
               /\ f[0] = s
               /\ \A i \in 1 .. Len(t) : f[i] = AppendNew(f[i - 1], t[i])
               /\ AppendAllNew(s, t) = f[Len(t)]
<1> DEFINE n == Len(t)
           step == [i \in 1 .. n |-> [x \in Seq(R) |-> AppendNew(x, t[i])]]
           Loop(g) == g = [i \in 0 .. n |-> IF i = 0 THEN s ELSE AppendNew(g[i - 1], t[i])]
           longer == CHOOSE g : Loop(g)
<1>1. n \in Nat /\ \A i \in 1 .. n : t[i] \in R
  OBVIOUS
<1>2. \A x \in Seq(R), r \in R : AppendNew(x, r) \in Seq(R)
  BY DEF AppendNew
<1>3. step \in [1 .. n -> [Seq(R) -> Seq(R)]]
  BY <1>1, <1>2
<1>4. PICK f \in [0 .. n -> Seq(R)] : f[0] = s /\ \A i \in 1 .. n : f[i] = step[i][f[i - 1]]
  <2>1. Steps(step, n, Seq(R))
    BY <1>3 DEF Steps
  <2>2. \E f : Rounds(f, s, n, step, Seq(R))
    <3> HIDE DEF step, n
    <3> QED
      BY <1>1, <2>1, Iterates
  <2> QED
    BY <2>2 DEF Rounds
<1>5. \A i \in 1 .. n : f[i] = AppendNew(f[i - 1], t[i])
  <2> SUFFICES ASSUME NEW i \in 1 .. n PROVE f[i] = AppendNew(f[i - 1], t[i])
    OBVIOUS
  <2>1. i - 1 \in 0 .. n
    BY <1>1
  <2>2. f[i - 1] \in Seq(R)
    BY <2>1
  <2>3. step[i] = [x \in Seq(R) |-> AppendNew(x, t[i])]
    OBVIOUS
  <2>4. f[i] = step[i][f[i - 1]]
    BY <1>4
  <2> HIDE DEF step
  <2> QED
    BY <2>2, <2>3, <2>4
<1>6. Loop(f)
  <2>1. f = [i \in 0 .. n |-> f[i]]
    OBVIOUS
  <2>2. \A i \in 0 .. n : f[i] = IF i = 0 THEN s ELSE AppendNew(f[i - 1], t[i])
    BY <1>4, <1>5
  <2> QED
    BY <2>1, <2>2
<1>7. Loop(longer)
  BY <1>6
<1>8. AppendAllNew(s, t) = longer[n]
  BY DEF AppendAllNew
<1> HIDE DEF longer
<1>9. longer[0] = s /\ \A i \in 1 .. n : longer[i] = AppendNew(longer[i - 1], t[i])
  BY <1>1, <1>7
<1> HIDE DEF step, Loop
<1>10. \A i \in 0 .. n : longer[i] = f[i]
  <2> DEFINE S == {i \in Nat : i <= n => longer[i] = f[i]}
  <2>1. 0 \in S
    BY <1>4, <1>9
  <2>2. ASSUME NEW i \in Nat, i \in S PROVE i + 1 \in S
    <3> SUFFICES ASSUME i + 1 <= n PROVE longer[i + 1] = f[i + 1]
      OBVIOUS
    <3>1. longer[i + 1] = AppendNew(longer[i], t[i + 1])
      BY <1>1, <1>9
    <3>2. f[i + 1] = AppendNew(f[i], t[i + 1])
      BY <1>1, <1>5
    <3>3. longer[i] = f[i]
      BY <2>2, <1>1
    <3> QED
      BY <3>1, <3>2, <3>3
  <2>3. Nat \subseteq S
    <3> HIDE DEF S
    <3> QED
      BY <2>1, <2>2, SetInduction
  <2> QED
    BY <2>3, <1>1
<1> QED
  BY <1>1, <1>4, <1>5, <1>8, <1>10

LEMMA AppendAllNewInSeq ==
    ASSUME NEW R, NEW s \in Seq(R), NEW t \in Seq(R)
    PROVE  AppendAllNew(s, t) \in Seq(R)
<1>1. PICK f \in [0 .. Len(t) -> Seq(R)] : AppendAllNew(s, t) = f[Len(t)]
  BY AppendAllNewLoop
<1> QED
  BY <1>1

\* What appending makes of a list without repetitions.
Extends(s, t, added) ==
    /\ IsInjective(t)
    /\ Begins(s, t)
    /\ ToSet(t) = ToSet(s) \cup added

LEMMA AppendNewExtends ==
    ASSUME NEW R, NEW s \in Seq(R), IsInjective(s), NEW r \in R
    PROVE  AppendNew(s, r) \in Seq(R) /\ Extends(s, AppendNew(s, r), {r})
<1> DEFINE x == AppendNew(s, r)
<1>1. Len(s) \in Nat /\ DOMAIN s = 1 .. Len(s) /\ \A i \in 1 .. Len(s) : s[i] \in R
  OBVIOUS
<1>2. CASE IsIn(r, s)
  <2>1. x = s
    BY <1>2 DEF AppendNew
  <2>2. r \in ToSet(s)
    BY <1>2 DEF IsIn, ToSet
  <2> QED
    BY <1>1, <2>1, <2>2 DEF Extends, Begins
<1>3. CASE ~IsIn(r, s)
  <2>1. x = Append(s, r)
    BY <1>3 DEF AppendNew
  <2>2. /\ x \in Seq(R) /\ Len(x) = Len(s) + 1 /\ DOMAIN x = 1 .. Len(s) + 1
        /\ x[Len(s) + 1] = r /\ \A i \in 1 .. Len(s) : x[i] = s[i]
    BY <2>1
  <2>3. \A i \in 1 .. Len(s) : s[i] # r
    BY <1>1, <1>3 DEF IsIn
  <2> HIDE DEF x
  <2>4. IsInjective(x)
    BY <1>1, <2>2, <2>3 DEF IsInjective
  <2>5. ToSet(x) = ToSet(s) \cup {r}
    BY <1>1, <2>2 DEF ToSet
  <2>6. Begins(s, x)
    BY <1>1, <2>2 DEF Begins
  <2>7. x \in Seq(R)
    BY <2>2
  <2> QED
    BY <2>4, <2>5, <2>6, <2>7 DEF Extends, x
<1> QED
  BY <1>2, <1>3

LEMMA AppendAllNewExtends ==
    ASSUME NEW R, NEW s \in Seq(R), IsInjective(s), NEW t \in Seq(R)
    PROVE  AppendAllNew(s, t) \in Seq(R) /\ Extends(s, AppendAllNew(s, t), ToSet(t))
<1>1. PICK f \in [0 .. Len(t) -> Seq(R)] :
          /\ f[0] = s
          /\ \A i \in 1 .. Len(t) : f[i] = AppendNew(f[i - 1], t[i])
          /\ AppendAllNew(s, t) = f[Len(t)]
  BY AppendAllNewLoop
<1> DEFINE Added(i) == {t[j] : j \in 1 .. i}
           S == {i \in Nat : i <= Len(t) => Extends(s, f[i], Added(i))}
<1>2. Len(t) \in Nat /\ (\A i \in 1 .. Len(t) : t[i] \in R) /\ DOMAIN t = 1 .. Len(t)
  OBVIOUS
<1>3. 0 \in S
  <2>1. Added(0) = {}
    OBVIOUS
  <2>2. f[0] = s
    BY <1>1
  <2> HIDE DEF Added
  <2>3. Extends(s, s, {})
    BY DEF Extends, Begins
  <2> QED
    BY <2>1, <2>2, <2>3
<1>4. ASSUME NEW i \in Nat, i \in S PROVE i + 1 \in S
  <2> SUFFICES ASSUME i + 1 <= Len(t) PROVE Extends(s, f[i + 1], Added(i + 1))
    OBVIOUS
  <2>1. i \in 0 .. Len(t) /\ i + 1 \in 0 .. Len(t) /\ i + 1 \in 1 .. Len(t)
    BY <1>2
  <2>1a. f[i] \in Seq(R) /\ f[i + 1] \in Seq(R) /\ t[i + 1] \in R
    BY <1>2, <2>1
  <2>2. Extends(s, f[i], Added(i))
    BY <1>2, <1>4
  <2>3. f[i + 1] = AppendNew(f[i], t[i + 1])
    BY <1>1, <1>2
  <2>4. Extends(f[i], f[i + 1], {t[i + 1]})
    <3>1. f[i] \in Seq(R) /\ t[i + 1] \in R /\ IsInjective(f[i])
      BY <2>1a, <2>2 DEF Extends
    <3> QED
      BY <2>3, <3>1, AppendNewExtends
  <2>5. Added(i + 1) = Added(i) \cup {t[i + 1]}
    OBVIOUS
  <2> HIDE DEF Added
  <2>6. ToSet(f[i + 1]) = ToSet(s) \cup Added(i + 1)
    BY <2>2, <2>4, <2>5 DEF Extends
  <2>7. Begins(s, f[i + 1])
    <3>1. Begins(s, f[i]) /\ Begins(f[i], f[i + 1])
      BY <2>2, <2>4 DEF Extends
    <3> QED
      BY <2>1a, <3>1 DEF Begins
  <2> QED
    BY <2>4, <2>6, <2>7 DEF Extends
<1>5. Len(t) \in S
  <2> HIDE DEF S
  <2> QED
    BY <1>2, <1>3, <1>4, SetInduction
<1>6. Added(Len(t)) = ToSet(t)
  BY <1>2 DEF ToSet
<1>7. Extends(s, f[Len(t)], Added(Len(t)))
  BY <1>2, <1>5
<1>8. f[Len(t)] \in Seq(R)
  BY <1>2
<1> HIDE DEF Added
<1> QED
  BY <1>1, <1>6, <1>7, <1>8

LEMMA DeduplicateExtends ==
    ASSUME NEW R, NEW t \in Seq(R)
    PROVE  /\ Deduplicate(t) \in Seq(R)
           /\ IsInjective(Deduplicate(t))
           /\ ToSet(Deduplicate(t)) = ToSet(t)
<1>1. << >> \in Seq(R) /\ IsInjective(<< >>) /\ ToSet(<< >>) = {}
  BY DEF IsInjective, ToSet
<1>2. /\ AppendAllNew(<< >>, t) \in Seq(R)
      /\ Extends(<< >>, AppendAllNew(<< >>, t), ToSet(t))
  BY <1>1, AppendAllNewExtends
<1> QED
  BY <1>1, <1>2 DEF Extends, Deduplicate

\* What stands at two places of the list u stands at two places of t in the
\* same order.
KeepsOrder(u, t) ==
    \A i, j \in 1 .. Len(u) :
        i < j => \E k, l \in 1 .. Len(t) : k < l /\ t[k] = u[i] /\ t[l] = u[j]

LEMMA DeduplicateKeepsOrder ==
    ASSUME NEW R, NEW t \in Seq(R)
    PROVE  KeepsOrder(Deduplicate(t), t)
<1>1. PICK f \in [0 .. Len(t) -> Seq(R)] :
          /\ f[0] = << >>
          /\ \A i \in 1 .. Len(t) : f[i] = AppendNew(f[i - 1], t[i])
          /\ AppendAllNew(<< >>, t) = f[Len(t)]
  BY AppendAllNewLoop
<1> DEFINE Holds(u, n) == \A a \in 1 .. Len(u) : \E k \in 1 .. n : t[k] = u[a]
           Keeps(u, n) ==
               \A a, b \in 1 .. Len(u) :
                   a < b => \E k, l \in 1 .. n : k < l /\ t[k] = u[a] /\ t[l] = u[b]
           S == {n \in Nat : n <= Len(t) => Holds(f[n], n) /\ Keeps(f[n], n)}
<1>2. Len(t) \in Nat /\ \A i \in 1 .. Len(t) : t[i] \in R
  OBVIOUS
<1>3. 0 \in S
  BY <1>1
<1>4. ASSUME NEW n \in Nat, n \in S PROVE n + 1 \in S
  <2> HIDE DEF Holds, Keeps
  <2> SUFFICES ASSUME n + 1 <= Len(t) PROVE Holds(f[n + 1], n + 1) /\ Keeps(f[n + 1], n + 1)
    OBVIOUS
  <2>1. n \in 0 .. Len(t) /\ n + 1 \in 1 .. Len(t)
    BY <1>2
  <2>2. f[n] \in Seq(R) /\ t[n + 1] \in R /\ f[n + 1] = AppendNew(f[n], t[n + 1])
    BY <1>1, <1>2, <2>1, SMTT(20)
  <2>3. Holds(f[n], n) /\ Keeps(f[n], n)
    BY <1>2, <1>4
  <2> USE DEF Holds, Keeps
  <2>4. CASE f[n + 1] = f[n]
    BY <2>3, <2>4
  <2>5. CASE f[n + 1] = Append(f[n], t[n + 1])
    <3> DEFINE u == f[n]
               v == f[n + 1]
    <3>1. /\ Len(u) \in Nat /\ Len(v) = Len(u) + 1 /\ v[Len(u) + 1] = t[n + 1]
          /\ \A a \in 1 .. Len(u) : v[a] = u[a]
      BY <2>2, <2>5
    <3>2. Holds(u, n) /\ Keeps(u, n)
      BY <2>3
    <3> HIDE DEF u, v
    <3>3. Holds(v, n + 1)
      <4> SUFFICES ASSUME NEW a \in 1 .. Len(v) PROVE \E k \in 1 .. n + 1 : t[k] = v[a]
        OBVIOUS
      <4>1. CASE a = Len(u) + 1
        BY <3>1, <4>1
      <4>2. CASE a \in 1 .. Len(u)
        BY <3>1, <3>2, <4>2
      <4> QED
        BY <3>1, <4>1, <4>2
    <3>4. Keeps(v, n + 1)
      <4> SUFFICES ASSUME NEW a \in 1 .. Len(v), NEW b \in 1 .. Len(v), a < b
                   PROVE  \E k, l \in 1 .. n + 1 : k < l /\ t[k] = v[a] /\ t[l] = v[b]
        OBVIOUS
      <4>1. a \in 1 .. Len(u)
        BY <3>1
      <4>2. CASE b = Len(u) + 1
        <5>1. PICK k \in 1 .. n : t[k] = u[a]
          BY <3>2, <4>1
        <5>3. v[a] = u[a]
          BY <3>1, <4>1
        <5>2. k \in 1 .. n + 1 /\ n + 1 \in 1 .. n + 1 /\ k < n + 1 /\ t[n + 1] = v[b]
          BY <3>1, <4>2
        <5> QED
          BY <5>1, <5>2, <5>3
      <4>3. CASE b \in 1 .. Len(u)
        <5>1. PICK k \in 1 .. n, l \in 1 .. n : k < l /\ t[k] = u[a] /\ t[l] = u[b]
          BY <3>2, <4>1, <4>3
        <5> QED
          BY <3>1, <4>1, <4>3, <5>1
      <4> QED
        BY <3>1, <4>2, <4>3
    <3> QED
      BY <3>3, <3>4 DEF u, v
  <2> QED
    BY <2>2, <2>4, <2>5 DEF AppendNew
<1>5. Len(t) \in S
  <2> HIDE DEF S
  <2> QED
    BY <1>2, <1>3, <1>4, SetInduction
<1>6. Keeps(f[Len(t)], Len(t)) /\ Deduplicate(t) = f[Len(t)]
  BY <1>1, <1>2, <1>5 DEF Deduplicate
<1> HIDE DEF S, Holds
<1>7. Keeps(Deduplicate(t), Len(t))
  <2> HIDE DEF Keeps
  <2> QED
    BY <1>6
<1> QED
  BY <1>7 DEF KeepsOrder

----------------------------------------------------------------------------
(* Sorting.                                                                *)

\* The loop of OfOrder, round by round.
LEMMA OfOrderLoop ==
    ASSUME NEW R, NEW t \in Seq(R), NEW order
    PROVE  \E f \in [0 .. Len(t) -> Seq(R)] :
               /\ f[0] = << >>
               /\ \A i \in 1 .. Len(t) : f[i] = AppendOfOrder(f[i - 1], t[i], order)
               /\ OfOrder(t, order) = f[Len(t)]
<1> DEFINE n == Len(t)
           step == [i \in 1 .. n |-> [x \in Seq(R) |-> AppendOfOrder(x, t[i], order)]]
           Loop(g) == g = [i \in 0 .. n |->
                              IF i = 0 THEN << >> ELSE AppendOfOrder(g[i - 1], t[i], order)]
           picked == CHOOSE g : Loop(g)
<1>1. n \in Nat /\ \A i \in 1 .. n : t[i] \in R
  OBVIOUS
<1>2. \A x \in Seq(R), r \in R : AppendOfOrder(x, r, order) \in Seq(R)
  BY DEF AppendOfOrder
<1>3. step \in [1 .. n -> [Seq(R) -> Seq(R)]]
  BY <1>1, <1>2
<1>4. PICK f \in [0 .. n -> Seq(R)] : f[0] = << >> /\ \A i \in 1 .. n : f[i] = step[i][f[i - 1]]
  <2>1. Steps(step, n, Seq(R))
    BY <1>3 DEF Steps
  <2>2. << >> \in Seq(R)
    OBVIOUS
  <2>3. \E f : Rounds(f, << >>, n, step, Seq(R))
    <3> HIDE DEF step, n
    <3> QED
      BY <1>1, <2>1, <2>2, Iterates
  <2> QED
    BY <2>3 DEF Rounds
<1>5. \A i \in 1 .. n : f[i] = AppendOfOrder(f[i - 1], t[i], order)
  <2> SUFFICES ASSUME NEW i \in 1 .. n PROVE f[i] = AppendOfOrder(f[i - 1], t[i], order)
    OBVIOUS
  <2>1. i - 1 \in 0 .. n
    BY <1>1
  <2>2. f[i - 1] \in Seq(R)
    BY <2>1
  <2>3. step[i] = [x \in Seq(R) |-> AppendOfOrder(x, t[i], order)]
    OBVIOUS
  <2>4. f[i] = step[i][f[i - 1]]
    BY <1>4
  <2> HIDE DEF step
  <2> QED
    BY <2>2, <2>3, <2>4
<1>6. Loop(f)
  <2>1. f = [i \in 0 .. n |-> f[i]]
    OBVIOUS
  <2>2. \A i \in 0 .. n : f[i] = IF i = 0 THEN << >> ELSE AppendOfOrder(f[i - 1], t[i], order)
    BY <1>4, <1>5
  <2> QED
    BY <2>1, <2>2
<1>7. Loop(picked)
  BY <1>6
<1>8. OfOrder(t, order) = picked[n]
  BY DEF OfOrder
<1> HIDE DEF picked
<1>9. picked[0] = << >> /\ \A i \in 1 .. n : picked[i] = AppendOfOrder(picked[i - 1], t[i], order)
  BY <1>1, <1>7
<1> HIDE DEF step, Loop
<1>10. \A i \in 0 .. n : picked[i] = f[i]
  <2> DEFINE S == {i \in Nat : i <= n => picked[i] = f[i]}
  <2>1. 0 \in S
    BY <1>4, <1>9
  <2>2. ASSUME NEW i \in Nat, i \in S PROVE i + 1 \in S
    <3> SUFFICES ASSUME i + 1 <= n PROVE picked[i + 1] = f[i + 1]
      OBVIOUS
    <3>1. picked[i + 1] = AppendOfOrder(picked[i], t[i + 1], order)
      BY <1>1, <1>9
    <3>2. f[i + 1] = AppendOfOrder(f[i], t[i + 1], order)
      BY <1>1, <1>5
    <3>3. picked[i] = f[i]
      BY <2>2, <1>1
    <3> QED
      BY <3>1, <3>2, <3>3
  <2>3. Nat \subseteq S
    <3> HIDE DEF S
    <3> QED
      BY <2>1, <2>2, SetInduction
  <2> QED
    BY <2>3, <1>1
<1> QED
  BY <1>1, <1>4, <1>5, <1>8, <1>10

LEMMA AppendElements ==
    ASSUME NEW R, NEW s \in Seq(R), NEW r \in R
    PROVE  ToSet(Append(s, r)) = ToSet(s) \cup {r}
<1> DEFINE x == Append(s, r)
<1>1. /\ Len(s) \in Nat /\ DOMAIN s = 1 .. Len(s) /\ DOMAIN x = 1 .. Len(s) + 1
      /\ x[Len(s) + 1] = r /\ \A i \in 1 .. Len(s) : x[i] = s[i]
  OBVIOUS
<1> HIDE DEF x
<1>2. ToSet(x) = ToSet(s) \cup {r}
  BY <1>1 DEF ToSet
<1> QED
  BY <1>2 DEF x

LEMMA OfOrderPicks ==
    ASSUME NEW R, NEW t \in Seq(R), NEW order
    PROVE  /\ OfOrder(t, order) \in Seq(R)
           /\ ToSet(OfOrder(t, order)) = {r \in ToSet(t) : OrderOf(r) = order}
<1>1. PICK f \in [0 .. Len(t) -> Seq(R)] :
          /\ f[0] = << >>
          /\ \A i \in 1 .. Len(t) : f[i] = AppendOfOrder(f[i - 1], t[i], order)
          /\ OfOrder(t, order) = f[Len(t)]
  BY OfOrderLoop
<1>2. Len(t) \in Nat /\ (\A i \in 1 .. Len(t) : t[i] \in R) /\ DOMAIN t = 1 .. Len(t)
  OBVIOUS
<1> DEFINE Among(n) == {r \in {t[j] : j \in 1 .. n} : OrderOf(r) = order}
           S == {n \in Nat : n <= Len(t) => ToSet(f[n]) = Among(n)}
<1>3. 0 \in S
  BY <1>1 DEF ToSet
<1>4. ASSUME NEW n \in Nat, n \in S PROVE n + 1 \in S
  <2> SUFFICES ASSUME n + 1 <= Len(t) PROVE ToSet(f[n + 1]) = Among(n + 1)
    OBVIOUS
  <2>1. n \in 0 .. Len(t) /\ n + 1 \in 1 .. Len(t)
    BY <1>2
  <2>2. f[n] \in Seq(R) /\ t[n + 1] \in R
    BY <1>2, <2>1
  <2>6. ToSet(f[n]) = Among(n)
    <3> HIDE DEF Among
    <3> QED
      BY <1>2, <1>4
  <2>5. f[n + 1] = AppendOfOrder(f[n], t[n + 1], order)
    <3>1. f[n + 1] = AppendOfOrder(f[(n + 1) - 1], t[n + 1], order)
      BY <1>1, <2>1
    <3> QED
      BY <3>1
  <2>3. CASE OrderOf(t[n + 1]) = order
    <3>1. f[n + 1] = Append(f[n], t[n + 1])
      BY <2>5, <2>3 DEF AppendOfOrder
    <3>2. ToSet(f[n + 1]) = ToSet(f[n]) \cup {t[n + 1]}
      BY <2>2, <3>1, AppendElements
    <3>3. Among(n + 1) = Among(n) \cup {t[n + 1]}
      BY <2>3
    <3> QED
      BY <2>6, <3>2, <3>3
  <2>4. CASE OrderOf(t[n + 1]) # order
    <3>1. f[n + 1] = f[n]
      BY <2>5, <2>4 DEF AppendOfOrder
    <3>2. Among(n + 1) = Among(n)
      BY <2>4
    <3> QED
      BY <2>6, <3>1, <3>2
  <2> QED
    BY <2>3, <2>4
<1>5. Len(t) \in S
  <2> HIDE DEF S
  <2> QED
    BY <1>2, <1>3, <1>4, SetInduction
<1>6. Among(Len(t)) = {r \in ToSet(t) : OrderOf(r) = order}
  BY <1>2 DEF ToSet
<1>7. ToSet(f[Len(t)]) = Among(Len(t))
  BY <1>2, <1>5
<1> HIDE DEF Among
<1> QED
  BY <1>1, <1>2, <1>6, <1>7

LEMMA ConcatElements ==
    ASSUME NEW R, NEW s \in Seq(R), NEW t \in Seq(R)
    PROVE  ToSet(s \o t) = ToSet(s) \cup ToSet(t)
<1> DEFINE x == s \o t
<1>1. /\ Len(s) \in Nat /\ DOMAIN s = 1 .. Len(s) /\ Len(t) \in Nat /\ DOMAIN t = 1 .. Len(t)
      /\ DOMAIN x = 1 .. Len(s) + Len(t)
      /\ \A i \in 1 .. Len(s) : x[i] = s[i]
      /\ \A i \in 1 .. Len(t) : x[Len(s) + i] = t[i]
  OBVIOUS
<1>2. \A i \in DOMAIN x : i \in 1 .. Len(s) \/ \E j \in 1 .. Len(t) : i = Len(s) + j
  <2> SUFFICES ASSUME NEW i \in 1 .. Len(s) + Len(t), i \notin 1 .. Len(s)
               PROVE  i - Len(s) \in 1 .. Len(t) /\ i = Len(s) + (i - Len(s))
    BY <1>1
  <2> QED
    BY <1>1
<1>3. \A i \in 1 .. Len(t) : Len(s) + i \in DOMAIN x
  BY <1>1
<1>4. 1 .. Len(s) \subseteq DOMAIN x
  BY <1>1
<1> HIDE DEF x
<1>5. ToSet(x) \subseteq ToSet(s) \cup ToSet(t)
  <2> SUFFICES ASSUME NEW i \in DOMAIN x PROVE x[i] \in ToSet(s) \cup ToSet(t)
    BY DEF ToSet
  <2>1. CASE i \in 1 .. Len(s)
    BY <1>1, <2>1 DEF ToSet
  <2>2. CASE \E j \in 1 .. Len(t) : i = Len(s) + j
    BY <1>1, <2>2 DEF ToSet
  <2> QED
    BY <1>2, <2>1, <2>2
<1>6. ToSet(s) \subseteq ToSet(x) /\ ToSet(t) \subseteq ToSet(x)
  BY <1>1, <1>3, <1>4 DEF ToSet
<1> QED
  BY <1>5, <1>6 DEF x

\* The keys of the list never decrease.
SortedBy(s, key) == \A i, j \in 1 .. Len(s) : i < j => key[s[i]] <= key[s[j]]

LEMMA ConcatSorted ==
    ASSUME NEW R, NEW s \in Seq(R), NEW t \in Seq(R), NEW key \in [R -> Int],
           SortedBy(s, key), SortedBy(t, key),
           \A q \in ToSet(s), r \in ToSet(t) : key[q] <= key[r]
    PROVE  s \o t \in Seq(R) /\ SortedBy(s \o t, key)
<1> DEFINE x == s \o t
<1>1. /\ Len(s) \in Nat /\ DOMAIN s = 1 .. Len(s) /\ Len(t) \in Nat /\ DOMAIN t = 1 .. Len(t)
      /\ Len(x) = Len(s) + Len(t)
      /\ \A i \in 1 .. Len(s) : x[i] = s[i]
      /\ \A i \in 1 .. Len(x) : i > Len(s) => x[i] = t[i - Len(s)]
  OBVIOUS
<1>2. s \o t \in Seq(R)
  OBVIOUS
<1> HIDE DEF x
<1>3. SortedBy(x, key)
  <2> SUFFICES ASSUME NEW i \in 1 .. Len(x), NEW j \in 1 .. Len(x), i < j
               PROVE  key[x[i]] <= key[x[j]]
    BY DEF SortedBy
  <2>1. CASE j <= Len(s)
    <3>1. i \in 1 .. Len(s) /\ j \in 1 .. Len(s)
      BY <1>1, <2>1
    <3>2. x[i] = s[i] /\ x[j] = s[j]
      BY <1>1, <3>1
    <3> QED
      BY <3>1, <3>2 DEF SortedBy
  <2>2. CASE i > Len(s)
    <3>1. i - Len(s) \in 1 .. Len(t) /\ j - Len(s) \in 1 .. Len(t) /\ i - Len(s) < j - Len(s)
      BY <1>1, <2>2
    <3>2. x[i] = t[i - Len(s)] /\ x[j] = t[j - Len(s)]
      BY <1>1, <2>2, SMTT(20)
    <3> QED
      BY <3>1, <3>2 DEF SortedBy
  <2>3. CASE i <= Len(s) /\ j > Len(s)
    <3>1. i \in DOMAIN s /\ x[i] = s[i]
      BY <1>1, <2>3
    <3>2. j - Len(s) \in DOMAIN t /\ x[j] = t[j - Len(s)]
      BY <1>1, <2>3
    <3> QED
      BY <3>1, <3>2 DEF ToSet
  <2> QED
    BY <1>1, <2>1, <2>2, <2>3
<1> QED
  BY <1>2, <1>3 DEF x

Ranked(R) == \A r \in R : OrderOf(r) \in 1 .. 4

Ascending(R) == [r \in R |-> OrderOf(r)]
Descending(R) == [r \in R |-> 5 - OrderOf(r)]

LEMMA StableSortSorts ==
    ASSUME NEW R, NEW t \in Seq(R), Ranked(R)
    PROVE  /\ StableSort(t) \in Seq(R)
           /\ ToSet(StableSort(t)) = ToSet(t)
           /\ SortedBy(StableSort(t), Ascending(R))
<1> DEFINE A == OfOrder(t, 1)
           B == OfOrder(t, 2)
           C == OfOrder(t, 3)
           D == OfOrder(t, 4)
           key == Ascending(R)
           Only(s, n) == \A r \in ToSet(s) : r \in R /\ OrderOf(r) = n
<1>1. \A n \in 1 .. 4 : /\ OfOrder(t, n) \in Seq(R)
                        /\ ToSet(OfOrder(t, n)) = {r \in ToSet(t) : OrderOf(r) = n}
  BY OfOrderPicks
<1>2. A \in Seq(R) /\ B \in Seq(R) /\ C \in Seq(R) /\ D \in Seq(R)
  BY <1>1
<1>3. ToSet(t) \subseteq R
  BY DEF ToSet
<1>4. Only(A, 1) /\ Only(B, 2) /\ Only(C, 3) /\ Only(D, 4)
  <2> HIDE DEF A, B, C, D
  <2> QED
    BY <1>1, <1>3 DEF A, B, C, D
<1>5. ToSet(A) \cup ToSet(B) \cup ToSet(C) \cup ToSet(D) = ToSet(t)
  <2>1. \A r \in ToSet(t) : OrderOf(r) \in {1, 2, 3, 4}
    BY <1>3 DEF Ranked
  <2> QED
    BY <1>1, <2>1
<1>6. key \in [R -> Int] /\ \A r \in R : key[r] = OrderOf(r)
  BY DEF Ascending, Ranked
<1> HIDE DEF A, B, C, D, key
<1>7. \A s \in Seq(R), n \in 1 .. 4 : Only(s, n) => SortedBy(s, key)
  <2> SUFFICES ASSUME NEW s \in Seq(R), NEW n \in 1 .. 4, Only(s, n),
                      NEW i \in 1 .. Len(s), NEW j \in 1 .. Len(s)
               PROVE  key[s[i]] <= key[s[j]]
    BY DEF SortedBy
  <2>1. s[i] \in ToSet(s) /\ s[j] \in ToSet(s)
    BY DEF ToSet
  <2> QED
    BY <1>6, <2>1
<1>8. A \o B \in Seq(R) /\ SortedBy(A \o B, key) /\ ToSet(A \o B) = ToSet(A) \cup ToSet(B)
  <2>1. \A q \in ToSet(A), r \in ToSet(B) : key[q] <= key[r]
    BY <1>4, <1>6
  <2>2. SortedBy(A, key) /\ SortedBy(B, key)
    BY <1>2, <1>4, <1>7
  <2> QED
    BY <1>2, <1>6, <2>1, <2>2, ConcatSorted, ConcatElements, ZenonT(60)
<1> DEFINE AB == A \o B
           ABC == AB \o C
           ABCD == ABC \o D
<1>9. AB \in Seq(R) /\ SortedBy(AB, key) /\ ToSet(AB) = ToSet(A) \cup ToSet(B)
  BY <1>8
<1>10. /\ ABC \in Seq(R) /\ SortedBy(ABC, key)
       /\ ToSet(ABC) = ToSet(A) \cup ToSet(B) \cup ToSet(C)
  <2> HIDE DEF AB
  <2>1. \A q \in ToSet(AB), r \in ToSet(C) : key[q] <= key[r]
    BY <1>4, <1>6, <1>9
  <2>2. SortedBy(C, key)
    BY <1>2, <1>4, <1>7
  <2>3. ABC \in Seq(R) /\ SortedBy(ABC, key)
    BY <1>2, <1>6, <1>9, <2>1, <2>2, ConcatSorted
  <2>4. ToSet(ABC) = ToSet(AB) \cup ToSet(C)
    BY <1>2, <1>9, ConcatElements
  <2> QED
    BY <1>9, <2>3, <2>4
<1>11. ABCD \in Seq(R) /\ SortedBy(ABCD, key) /\ ToSet(ABCD) = ToSet(t)
  <2> HIDE DEF ABC
  <2>1. \A q \in ToSet(ABC), r \in ToSet(D) : key[q] <= key[r]
    BY <1>4, <1>6, <1>10
  <2>2. SortedBy(D, key)
    BY <1>2, <1>4, <1>7
  <2>3. ABCD \in Seq(R) /\ SortedBy(ABCD, key)
    BY <1>2, <1>6, <1>10, <2>1, <2>2, ConcatSorted
  <2>4. ToSet(ABCD) = ToSet(ABC) \cup ToSet(D)
    BY <1>2, <1>10, ConcatElements
  <2> QED
    BY <1>5, <1>10, <2>3, <2>4
<1>12. StableSort(t) = ABCD
  BY DEF StableSort, A, B, C, D
<1> QED
  BY <1>11, <1>12 DEF key

LEMMA ReverseSortSorts ==
    ASSUME NEW R, NEW t \in Seq(R), Ranked(R)
    PROVE  /\ ReverseSort(t) \in Seq(R)
           /\ ToSet(ReverseSort(t)) = ToSet(t)
           /\ SortedBy(ReverseSort(t), Descending(R))
<1> DEFINE A == OfOrder(t, 4)
           B == OfOrder(t, 3)
           C == OfOrder(t, 2)
           D == OfOrder(t, 1)
           key == Descending(R)
           Only(s, n) == \A r \in ToSet(s) : r \in R /\ OrderOf(r) = n
<1>1. \A n \in 1 .. 4 : /\ OfOrder(t, n) \in Seq(R)
                        /\ ToSet(OfOrder(t, n)) = {r \in ToSet(t) : OrderOf(r) = n}
  BY OfOrderPicks
<1>2. A \in Seq(R) /\ B \in Seq(R) /\ C \in Seq(R) /\ D \in Seq(R)
  BY <1>1
<1>3. ToSet(t) \subseteq R
  BY DEF ToSet
<1>4. Only(A, 4) /\ Only(B, 3) /\ Only(C, 2) /\ Only(D, 1)
  <2> HIDE DEF A, B, C, D
  <2> QED
    BY <1>1, <1>3 DEF A, B, C, D
<1>5. ToSet(A) \cup ToSet(B) \cup ToSet(C) \cup ToSet(D) = ToSet(t)
  <2>1. \A r \in ToSet(t) : OrderOf(r) \in {1, 2, 3, 4}
    BY <1>3 DEF Ranked
  <2> QED
    BY <1>1, <2>1
<1>6. key \in [R -> Int] /\ \A r \in R : key[r] = 5 - OrderOf(r)
  BY DEF Descending, Ranked
<1> HIDE DEF A, B, C, D, key
<1>7. \A s \in Seq(R), n \in 1 .. 4 : Only(s, n) => SortedBy(s, key)
  <2> SUFFICES ASSUME NEW s \in Seq(R), NEW n \in 1 .. 4, Only(s, n),
                      NEW i \in 1 .. Len(s), NEW j \in 1 .. Len(s)
               PROVE  key[s[i]] <= key[s[j]]
    BY DEF SortedBy
  <2>1. s[i] \in ToSet(s) /\ s[j] \in ToSet(s)
    BY DEF ToSet
  <2> QED
    BY <1>6, <2>1
<1>8. A \o B \in Seq(R) /\ SortedBy(A \o B, key) /\ ToSet(A \o B) = ToSet(A) \cup ToSet(B)
  <2>1. \A q \in ToSet(A), r \in ToSet(B) : key[q] <= key[r]
    BY <1>4, <1>6
  <2>2. SortedBy(A, key) /\ SortedBy(B, key)
    BY <1>2, <1>4, <1>7
  <2> QED
    BY <1>2, <1>6, <2>1, <2>2, ConcatSorted, ConcatElements, ZenonT(60)
<1> DEFINE AB == A \o B
           ABC == AB \o C
           ABCD == ABC \o D
<1>9. AB \in Seq(R) /\ SortedBy(AB, key) /\ ToSet(AB) = ToSet(A) \cup ToSet(B)
  BY <1>8
<1>10. /\ ABC \in Seq(R) /\ SortedBy(ABC, key)
       /\ ToSet(ABC) = ToSet(A) \cup ToSet(B) \cup ToSet(C)
  <2> HIDE DEF AB
  <2>1. \A q \in ToSet(AB), r \in ToSet(C) : key[q] <= key[r]
    BY <1>4, <1>6, <1>9
  <2>2. SortedBy(C, key)
    BY <1>2, <1>4, <1>7
  <2>3. ABC \in Seq(R) /\ SortedBy(ABC, key)
    BY <1>2, <1>6, <1>9, <2>1, <2>2, ConcatSorted
  <2>4. ToSet(ABC) = ToSet(AB) \cup ToSet(C)
    BY <1>2, <1>9, ConcatElements
  <2> QED
    BY <1>9, <2>3, <2>4
<1>11. ABCD \in Seq(R) /\ SortedBy(ABCD, key) /\ ToSet(ABCD) = ToSet(t)
  <2> HIDE DEF ABC
  <2>1. \A q \in ToSet(ABC), r \in ToSet(D) : key[q] <= key[r]
    BY <1>4, <1>6, <1>10
  <2>2. SortedBy(D, key)
    BY <1>2, <1>4, <1>7
  <2>3. ABCD \in Seq(R) /\ SortedBy(ABCD, key)
    BY <1>2, <1>6, <1>10, <2>1, <2>2, ConcatSorted
  <2>4. ToSet(ABCD) = ToSet(ABC) \cup ToSet(D)
    BY <1>2, <1>10, ConcatElements
  <2> QED
    BY <1>5, <1>10, <2>3, <2>4
<1>12. ReverseSort(t) = ABCD
  BY DEF ReverseSort, A, B, C, D
<1> QED
  BY <1>11, <1>12 DEF key

LEMMA DeduplicateStaysSorted ==
    ASSUME NEW R, NEW t \in Seq(R), NEW key \in [R -> Int], SortedBy(t, key)
    PROVE  SortedBy(Deduplicate(t), key)
<1> DEFINE u == Deduplicate(t)
<1>1. KeepsOrder(u, t)
  BY DeduplicateKeepsOrder
<1> HIDE DEF u
<1>2. SortedBy(u, key)
  <2> SUFFICES ASSUME NEW i \in 1 .. Len(u), NEW j \in 1 .. Len(u), i < j
               PROVE  key[u[i]] <= key[u[j]]
    BY DEF SortedBy
  <2>1. PICK k \in 1 .. Len(t), l \in 1 .. Len(t) : k < l /\ t[k] = u[i] /\ t[l] = u[j]
    BY <1>1 DEF KeepsOrder
  <2>2. key[t[k]] <= key[t[l]]
    BY <2>1 DEF SortedBy
  <2> QED
    BY <2>1, <2>2
<1> QED
  BY <1>2 DEF u

\* What the delete loop goes through.
LEMMA DeletePlanFacts ==
    ASSUME NEW R, NEW t \in Seq(R), Ranked(R)
    PROVE  /\ DeletePlan(t) \in Seq(R)
           /\ IsInjective(DeletePlan(t))
           /\ ToSet(DeletePlan(t)) = ToSet(t)
           /\ SortedBy(DeletePlan(t), Descending(R))
<1> DEFINE u == ReverseSort(t)
<1>1. u \in Seq(R) /\ ToSet(u) = ToSet(t) /\ SortedBy(u, Descending(R))
  BY ReverseSortSorts
<1>2. Descending(R) \in [R -> Int]
  BY DEF Descending, Ranked
<1>3. DeletePlan(t) = Deduplicate(u)
  BY DEF DeletePlan
<1> HIDE DEF u
<1>4. Deduplicate(u) \in Seq(R) /\ IsInjective(Deduplicate(u)) /\ ToSet(Deduplicate(u)) = ToSet(u)
  BY <1>1, DeduplicateExtends
<1>5. SortedBy(Deduplicate(u), Descending(R))
  BY <1>1, <1>2, DeduplicateStaysSorted
<1> QED
  BY <1>1, <1>3, <1>4, <1>5

\* What the loop of CreatePlan goes through.
LEMMA SortedFacts ==
    ASSUME NEW R, NEW t \in Seq(R), Ranked(R)
    PROVE  /\ Deduplicate(StableSort(t)) \in Seq(R)
           /\ IsInjective(Deduplicate(StableSort(t)))
           /\ ToSet(Deduplicate(StableSort(t))) = ToSet(t)
           /\ SortedBy(Deduplicate(StableSort(t)), Ascending(R))
<1> DEFINE u == StableSort(t)
<1>1. u \in Seq(R) /\ ToSet(u) = ToSet(t) /\ SortedBy(u, Ascending(R))
  BY StableSortSorts
<1>2. Ascending(R) \in [R -> Int]
  BY DEF Ascending, Ranked
<1> HIDE DEF u
<1>3. Deduplicate(u) \in Seq(R) /\ IsInjective(Deduplicate(u)) /\ ToSet(Deduplicate(u)) = ToSet(u)
  BY <1>1, DeduplicateExtends
<1>4. SortedBy(Deduplicate(u), Ascending(R))
  BY <1>1, <1>2, DeduplicateStaysSorted
<1> QED
  BY <1>1, <1>3, <1>4 DEF u

----------------------------------------------------------------------------
(* Dependencies.                                                           *)

\* The loop of AddAllWithDependencies, round by round.
LEMMA AddAllLoop ==
    ASSUME NEW R, NEW d \in [R -> Seq(R)], NEW t \in Seq(R)
    PROVE  \E f \in [0 .. Len(t) -> Seq(R)] :
               /\ f[0] = << >>
               /\ \A i \in 1 .. Len(t) : f[i] = AddWithDependencies(f[i - 1], t[i], d)
               /\ AddAllWithDependencies(t, d) = f[Len(t)]
<1> DEFINE n == Len(t)
           step == [i \in 1 .. n |-> [x \in Seq(R) |-> AddWithDependencies(x, t[i], d)]]
           Loop(g) == g = [i \in 0 .. n |->
                              IF i = 0 THEN << >> ELSE AddWithDependencies(g[i - 1], t[i], d)]
           plans == CHOOSE g : Loop(g)
<1>1. n \in Nat /\ \A i \in 1 .. n : t[i] \in R
  OBVIOUS
<1>2. \A x \in Seq(R), r \in R : AddWithDependencies(x, r, d) \in Seq(R)
  <2> SUFFICES ASSUME NEW x \in Seq(R), NEW r \in R
               PROVE  AddWithDependencies(x, r, d) \in Seq(R)
    OBVIOUS
  <2>1. d[r] \in Seq(R)
    OBVIOUS
  <2>2. AppendAllNew(x, d[r]) \in Seq(R)
    BY <2>1, AppendAllNewInSeq
  <2> QED
    BY <2>2 DEF AddWithDependencies, AppendNew
<1>3. step \in [1 .. n -> [Seq(R) -> Seq(R)]]
  BY <1>1, <1>2
<1>4. PICK f \in [0 .. n -> Seq(R)] : f[0] = << >> /\ \A i \in 1 .. n : f[i] = step[i][f[i - 1]]
  <2>1. Steps(step, n, Seq(R))
    BY <1>3 DEF Steps
  <2>2. \E f : Rounds(f, << >>, n, step, Seq(R))
    <3>1. << >> \in Seq(R)
      OBVIOUS
    <3> HIDE DEF step, n
    <3> QED
      BY <1>1, <2>1, <3>1, Iterates
  <2> QED
    BY <2>2 DEF Rounds
<1>5. \A i \in 1 .. n : f[i] = AddWithDependencies(f[i - 1], t[i], d)
  <2> SUFFICES ASSUME NEW i \in 1 .. n PROVE f[i] = AddWithDependencies(f[i - 1], t[i], d)
    OBVIOUS
  <2>1. i - 1 \in 0 .. n
    BY <1>1
  <2>2. f[i - 1] \in Seq(R)
    BY <2>1
  <2>3. step[i] = [x \in Seq(R) |-> AddWithDependencies(x, t[i], d)]
    OBVIOUS
  <2>4. f[i] = step[i][f[i - 1]]
    BY <1>4
  <2> HIDE DEF step
  <2> QED
    BY <2>2, <2>3, <2>4
<1>6. Loop(f)
  <2>1. f = [i \in 0 .. n |-> f[i]]
    OBVIOUS
  <2>2. \A i \in 0 .. n : f[i] = IF i = 0 THEN << >> ELSE AddWithDependencies(f[i - 1], t[i], d)
    BY <1>4, <1>5
  <2> QED
    BY <2>1, <2>2
<1>7. Loop(plans)
  BY <1>6
<1>8. AddAllWithDependencies(t, d) = plans[n]
  BY DEF AddAllWithDependencies
<1> HIDE DEF plans
<1>9. plans[0] = << >> /\ \A i \in 1 .. n : plans[i] = AddWithDependencies(plans[i - 1], t[i], d)
  BY <1>1, <1>7
<1> HIDE DEF step, Loop
<1>10. \A i \in 0 .. n : plans[i] = f[i]
  <2> DEFINE S == {i \in Nat : i <= n => plans[i] = f[i]}
  <2>1. 0 \in S
    BY <1>4, <1>9
  <2>2. ASSUME NEW i \in Nat, i \in S PROVE i + 1 \in S
    <3> SUFFICES ASSUME i + 1 <= n PROVE plans[i + 1] = f[i + 1]
      OBVIOUS
    <3>4. i + 1 \in 1 .. n /\ (i + 1) - 1 = i
      BY <1>1
    <3>1. plans[i + 1] = AddWithDependencies(plans[i], t[i + 1], d)
      BY <1>9, <3>4
    <3>2. f[i + 1] = AddWithDependencies(f[i], t[i + 1], d)
      BY <1>5, <3>4
    <3>3. plans[i] = f[i]
      BY <2>2, <1>1
    <3> QED
      BY <3>1, <3>2, <3>3
  <2>3. Nat \subseteq S
    <3> HIDE DEF S
    <3> QED
      BY <2>1, <2>2, SetInduction
  <2> QED
    BY <2>3, <1>1
<1>11. AddAllWithDependencies(t, d) = f[n]
  BY <1>1, <1>8, <1>10
<1> QED
  BY <1>4, <1>5, <1>11

\* In the list s, q stands before r.
StandsBefore(s, q, r) == \E i, j \in 1 .. Len(s) : i < j /\ s[i] = q /\ s[j] = r

LEMMA BeginsKeepsOrder ==
    ASSUME NEW R, NEW s \in Seq(R), NEW t \in Seq(R), Begins(s, t), NEW q, NEW r,
           StandsBefore(s, q, r)
    PROVE  StandsBefore(t, q, r)
<1>1. PICK i \in 1 .. Len(s), j \in 1 .. Len(s) : i < j /\ s[i] = q /\ s[j] = r
  BY DEF StandsBefore
<1>2. i \in 1 .. Len(t) /\ j \in 1 .. Len(t) /\ t[i] = q /\ t[j] = r
  BY <1>1 DEF Begins
<1> QED
  BY <1>1, <1>2 DEF StandsBefore

\* One round: the resource comes after its dependencies, unless it was there.
LEMMA AddWithDependenciesExtends ==
    ASSUME NEW R, NEW s \in Seq(R), IsInjective(s), NEW r \in R, NEW d \in [R -> Seq(R)]
    PROVE  LET x == AddWithDependencies(s, r, d)
           IN  /\ x \in Seq(R)
               /\ Extends(s, x, ToSet(d[r]) \cup {r})
               /\ r \notin ToSet(s) \cup ToSet(d[r]) =>
                     \A q \in ToSet(d[r]) : StandsBefore(x, q, r)
<1> DEFINE m == AppendAllNew(s, d[r])
           x == AppendNew(m, r)
<1>1. d[r] \in Seq(R)
  OBVIOUS
<1>2. m \in Seq(R) /\ Extends(s, m, ToSet(d[r]))
  BY <1>1, AppendAllNewExtends
<1>3. AddWithDependencies(s, r, d) = x
  BY DEF AddWithDependencies
<1> HIDE DEF m
<1>4. x \in Seq(R) /\ Extends(m, x, {r})
  BY <1>2, AppendNewExtends DEF Extends
<1>5. Extends(s, x, ToSet(d[r]) \cup {r})
  <2>1. Begins(s, x)
    <3>1. Begins(s, m) /\ Begins(m, x)
      BY <1>2, <1>4 DEF Extends
    <3> HIDE DEF x
    <3> QED
      BY <1>2, <1>4, <3>1 DEF Begins
  <2> HIDE DEF x
  <2> QED
    BY <1>2, <1>4, <2>1 DEF Extends
<1>6. ASSUME r \notin ToSet(s) \cup ToSet(d[r]), NEW q \in ToSet(d[r])
      PROVE  StandsBefore(x, q, r)
  <2>1. r \notin ToSet(m) /\ q \in ToSet(m)
    BY <1>2, <1>6 DEF Extends
  <2>2. ~IsIn(r, m)
    BY <2>1 DEF IsIn, ToSet
  <2>3. x = Append(m, r)
    BY <2>2 DEF AppendNew
  <2>4. PICK i \in 1 .. Len(m) : m[i] = q
    BY <1>2, <2>1 DEF ToSet
  <2>5. /\ i \in 1 .. Len(x) /\ Len(m) + 1 \in 1 .. Len(x) /\ i < Len(m) + 1
        /\ x[i] = q /\ x[Len(m) + 1] = r
    BY <1>2, <2>3, <2>4
  <2> HIDE DEF x
  <2> QED
    BY <2>5 DEF StandsBefore
<1> HIDE DEF x
<1> QED
  BY <1>3, <1>4, <1>5, <1>6

\* No resource of the list t needs r.
NotNeeded(r, t, d) == \A q \in ToSet(t) : r \notin ToSet(d[q])

LEMMA AddAllFacts ==
    ASSUME NEW R, NEW d \in [R -> Seq(R)], NEW t \in Seq(R), IsInjective(t)
    PROVE  LET p == AddAllWithDependencies(t, d)
           IN  /\ p \in Seq(R)
               /\ IsInjective(p)
               /\ ToSet(p) = ToSet(t) \cup UNION {ToSet(d[r]) : r \in ToSet(t)}
               /\ \A r \in ToSet(t) :
                     NotNeeded(r, t, d) => \A q \in ToSet(d[r]) : StandsBefore(p, q, r)
<1>1. PICK f \in [0 .. Len(t) -> Seq(R)] :
          /\ f[0] = << >>
          /\ \A i \in 1 .. Len(t) : f[i] = AddWithDependencies(f[i - 1], t[i], d)
          /\ AddAllWithDependencies(t, d) = f[Len(t)]
  BY AddAllLoop
<1>2. Len(t) \in Nat /\ (\A i \in 1 .. Len(t) : t[i] \in R) /\ DOMAIN t = 1 .. Len(t)
  OBVIOUS
<1> DEFINE Some(n) == {t[j] : j \in 1 .. n}
           Needs(n) == UNION {ToSet(d[t[j]]) : j \in 1 .. n}
           Exact(n) == IsInjective(f[n]) /\ ToSet(f[n]) = Some(n) \cup Needs(n)
           Ordered(n) == \A j \in 1 .. n :
                            NotNeeded(t[j], t, d) =>
                                \A q \in ToSet(d[t[j]]) : StandsBefore(f[n], q, t[j])
           S == {n \in Nat : n <= Len(t) => Exact(n) /\ Ordered(n)}
<1>3. 0 \in S
  <2>1. IsInjective(f[0]) /\ ToSet(f[0]) = {}
    BY <1>1 DEF IsInjective, ToSet
  <2> QED
    BY <2>1
<1>4. ASSUME NEW n \in Nat, n \in S PROVE n + 1 \in S
  <2> HIDE DEF Exact, Ordered
  <2> SUFFICES ASSUME n + 1 <= Len(t) PROVE Exact(n + 1) /\ Ordered(n + 1)
    OBVIOUS
  <2> DEFINE u == f[n]
             x == f[n + 1]
             r == t[n + 1]
  <2>1. n \in 0 .. Len(t) /\ n + 1 \in 1 .. Len(t) /\ n + 1 \in 0 .. Len(t) /\ (n + 1) - 1 = n
    BY <1>2
  <2>2. Exact(n) /\ Ordered(n)
    BY <1>2, <1>4
  <2>3. u \in Seq(R) /\ x \in Seq(R) /\ r \in R
    BY <1>2, <2>1
  <2>4. x = AddWithDependencies(u, r, d)
    BY <1>1, <2>1
  <2>5. IsInjective(u) /\ ToSet(u) = Some(n) \cup Needs(n)
    BY <2>2 DEF Exact
  <2>6. /\ Extends(u, x, ToSet(d[r]) \cup {r})
        /\ r \notin ToSet(u) \cup ToSet(d[r]) => \A q \in ToSet(d[r]) : StandsBefore(x, q, r)
    <3> HIDE DEF u, x, r
    <3> QED
      BY <2>3, <2>4, <2>5, AddWithDependenciesExtends
  <2>7. Some(n + 1) = Some(n) \cup {r} /\ Needs(n + 1) = Needs(n) \cup ToSet(d[r])
    <3>1. 1 .. n + 1 = (1 .. n) \cup {n + 1}
      OBVIOUS
    <3> QED
      BY <3>1
  <2>8. Exact(n + 1)
    <3> HIDE DEF Some, Needs, r, u
    <3> QED
      BY <2>5, <2>6, <2>7 DEF Exact, Extends
  <2>9. Ordered(n + 1)
    <3> SUFFICES ASSUME NEW j \in 1 .. n + 1, NotNeeded(t[j], t, d), NEW q \in ToSet(d[t[j]])
                 PROVE  StandsBefore(x, q, t[j])
      BY DEF Ordered
    <3>1. CASE j \in 1 .. n
      <4>1. StandsBefore(u, q, t[j])
        BY <2>2, <3>1 DEF Ordered
      <4>2. Begins(u, x)
        BY <2>6 DEF Extends
      <4> HIDE DEF u, x, r
      <4> QED
        BY <2>3, <4>1, <4>2, BeginsKeepsOrder
    <3>2. CASE j = n + 1
      <4>1. r \notin Some(n)
        BY <1>2, <2>1 DEF IsInjective
      <4>2. \A i \in 1 .. n + 1 : r \notin ToSet(d[t[i]])
        <5>1. \A i \in 1 .. n + 1 : t[i] \in ToSet(t)
          <6>1. \A i \in 1 .. Len(t) : t[i] \in ToSet(t)
            BY <1>2 DEF ToSet
          <6> QED
            BY <1>2, <2>1, <6>1
        <5>2. NotNeeded(r, t, d)
          BY <3>2
        <5> HIDE DEF r
        <5> QED
          BY <5>1, <5>2 DEF NotNeeded
      <4>3. r \notin Needs(n) /\ r \notin ToSet(d[r])
        <5>1. n + 1 \in 1 .. n + 1 /\ 1 .. n \subseteq 1 .. n + 1
          OBVIOUS
        <5>2. r \notin ToSet(d[r])
          BY <4>2, <5>1
        <5>3. \A i \in 1 .. n : r \notin ToSet(d[t[i]])
          BY <4>2, <5>1
        <5> HIDE DEF r
        <5> QED
          BY <5>2, <5>3
      <4>4. r \notin ToSet(u) \cup ToSet(d[r])
        <5> HIDE DEF Some, Needs, u, r
        <5> QED
          BY <2>5, <4>1, <4>3
      <4>5. StandsBefore(x, q, r)
        BY <2>6, <3>2, <4>4
      <4> QED
        BY <3>2, <4>5
    <3> QED
      BY <3>1, <3>2
  <2> QED
    BY <2>8, <2>9
<1>5. Len(t) \in S
  <2> HIDE DEF S
  <2> QED
    BY <1>2, <1>3, <1>4, SetInduction
<1>6. Exact(Len(t)) /\ Ordered(Len(t))
  <2> HIDE DEF Exact, Ordered
  <2> QED
    BY <1>2, <1>5
<1>7. Some(Len(t)) = ToSet(t)
  BY <1>2 DEF ToSet
<1>8. Needs(Len(t)) = UNION {ToSet(d[r]) : r \in ToSet(t)}
  <2>1. \A j \in 1 .. Len(t) : t[j] \in ToSet(t)
    BY <1>2 DEF ToSet
  <2>2. \A r \in ToSet(t) : \E j \in 1 .. Len(t) : r = t[j]
    BY <1>2 DEF ToSet
  <2> QED
    BY <2>1, <2>2
<1> DEFINE p == f[Len(t)]
<1>9. p \in Seq(R)
  BY <1>2
<1>10. IsInjective(p) /\ ToSet(p) = ToSet(t) \cup UNION {ToSet(d[r]) : r \in ToSet(t)}
  <2> HIDE DEF Some, Needs, p
  <2> QED
    BY <1>6, <1>7, <1>8 DEF Exact, p
<1>11. ASSUME NEW r \in ToSet(t), NotNeeded(r, t, d), NEW q \in ToSet(d[r])
       PROVE  StandsBefore(p, q, r)
  <2>1. PICK j \in 1 .. Len(t) : r = t[j]
    BY <1>2 DEF ToSet
  <2> QED
    BY <1>6, <1>11, <2>1 DEF Ordered
<1> HIDE DEF p, Some, Needs
<1> QED
  BY <1>1, <1>9, <1>10, <1>11 DEF p

\* What the create loop goes through.
LEMMA CreatePlanFacts ==
    ASSUME NEW R, NEW d \in [R -> Seq(R)], NEW t \in Seq(R), Ranked(R)
    PROVE  LET p == CreatePlan(t, d)
           IN  /\ p \in Seq(R)
               /\ IsInjective(p)
               /\ ToSet(p) = ToSet(t) \cup UNION {ToSet(d[r]) : r \in ToSet(t)}
               /\ \A r \in ToSet(t) :
                     NotNeeded(r, t, d) => \A q \in ToSet(d[r]) : StandsBefore(p, q, r)
<1> DEFINE u == Deduplicate(StableSort(t))
<1>1. u \in Seq(R) /\ IsInjective(u) /\ ToSet(u) = ToSet(t)
  BY SortedFacts
<1>2. CreatePlan(t, d) = AddAllWithDependencies(u, d)
  BY DEF CreatePlan
<1> HIDE DEF u
<1> DEFINE p == AddAllWithDependencies(u, d)
<1>3. /\ p \in Seq(R)
      /\ IsInjective(p)
      /\ ToSet(p) = ToSet(u) \cup UNION {ToSet(d[r]) : r \in ToSet(u)}
      /\ \A r \in ToSet(u) :
            NotNeeded(r, u, d) => \A q \in ToSet(d[r]) : StandsBefore(p, q, r)
  BY <1>1, AddAllFacts
<1>4. \A r : NotNeeded(r, u, d) <=> NotNeeded(r, t, d)
  BY <1>1 DEF NotNeeded
<1> HIDE DEF p
<1> QED
  BY <1>1, <1>2, <1>3, <1>4 DEF p

----------------------------------------------------------------------------
(* Plans of resources that depend on nothing.                              *)

LEMMA NothingToAppend ==
    ASSUME NEW R, NEW s \in Seq(R)
    PROVE  AppendAllNew(s, << >>) = s
<1>1. << >> \in Seq(R) /\ Len(<< >>) = 0
  OBVIOUS
<1> DEFINE t == << >>
<1>2. PICK f \in [0 .. Len(t) -> Seq(R)] : f[0] = s /\ AppendAllNew(s, t) = f[Len(t)]
  <2> HIDE DEF t
  <2>1. t \in Seq(R)
    BY <1>1 DEF t
  <2> QED
    BY <2>1, AppendAllNewLoop
<1> QED
  BY <1>1, <1>2

LEMMA AppendNewStaysSorted ==
    ASSUME NEW R, NEW s \in Seq(R), NEW r \in R, NEW key \in [R -> Int], SortedBy(s, key),
           \A q \in ToSet(s) : key[q] <= key[r]
    PROVE  SortedBy(AppendNew(s, r), key)
<1>1. CASE IsIn(r, s)
  BY <1>1 DEF AppendNew
<1>2. CASE ~IsIn(r, s)
  <2>1. << r >> \in Seq(R) /\ Len(<< r >>) = 1 /\ ToSet(<< r >>) = {r}
    BY DEF ToSet
  <2>2. SortedBy(<< r >>, key)
    BY <2>1 DEF SortedBy
  <2>3. SortedBy(s \o << r >>, key)
    <3> DEFINE t == << r >>
    <3>1. t \in Seq(R) /\ ToSet(t) = {r} /\ SortedBy(t, key)
      BY <2>1, <2>2
    <3> HIDE DEF t
    <3>2. \A q \in ToSet(s), x \in ToSet(t) : key[q] <= key[x]
      BY <3>1
    <3>3. SortedBy(s \o t, key)
      BY <3>1, <3>2, ConcatSorted
    <3> QED
      BY <3>3 DEF t
  <2>4. Append(s, r) = s \o << r >>
    OBVIOUS
  <2> QED
    BY <1>2, <2>3, <2>4 DEF AppendNew
<1> QED
  BY <1>1, <1>2

LEMMA AddAllStaysSorted ==
    ASSUME NEW R, NEW d \in [R -> Seq(R)], \A r \in R : d[r] = << >>,
           NEW t \in Seq(R), NEW key \in [R -> Int], SortedBy(t, key)
    PROVE  SortedBy(AddAllWithDependencies(t, d), key)
<1>1. PICK f \in [0 .. Len(t) -> Seq(R)] :
          /\ f[0] = << >>
          /\ \A i \in 1 .. Len(t) : f[i] = AddWithDependencies(f[i - 1], t[i], d)
          /\ AddAllWithDependencies(t, d) = f[Len(t)]
  BY AddAllLoop
<1>2. Len(t) \in Nat /\ \A i \in 1 .. Len(t) : t[i] \in R
  OBVIOUS
<1> DEFINE Some(n) == {t[j] : j \in 1 .. n}
           Sorted(n) == SortedBy(f[n], key) /\ ToSet(f[n]) \subseteq Some(n)
           S == {n \in Nat : n <= Len(t) => Sorted(n)}
<1>3. 0 \in S
  <2>1. SortedBy(f[0], key) /\ ToSet(f[0]) = {}
    BY <1>1 DEF SortedBy, ToSet
  <2> QED
    BY <2>1
<1>4. ASSUME NEW n \in Nat, n \in S PROVE n + 1 \in S
  <2> HIDE DEF Sorted
  <2> SUFFICES ASSUME n + 1 <= Len(t) PROVE Sorted(n + 1)
    OBVIOUS
  <2> DEFINE u == f[n]
             r == t[n + 1]
  <2>1. n \in 0 .. Len(t) /\ n + 1 \in 1 .. Len(t) /\ (n + 1) - 1 = n
    BY <1>2
  <2>2. SortedBy(u, key) /\ ToSet(u) \subseteq Some(n)
    BY <1>2, <1>4 DEF Sorted
  <2>3. u \in Seq(R) /\ r \in R
    BY <1>2, <2>1
  <2>4. f[n + 1] = AppendNew(u, r)
    <3>1. f[n + 1] = AddWithDependencies(u, r, d)
      BY <1>1, <2>1
    <3>2. d[r] = << >>
      BY <2>3
    <3> HIDE DEF u, r
    <3>3. AppendAllNew(u, << >>) = u
      BY <2>3, NothingToAppend
    <3> QED
      BY <3>1, <3>2, <3>3 DEF AddWithDependencies
  <2>5. \A q \in ToSet(u) : key[q] <= key[r]
    <3> SUFFICES ASSUME NEW j \in 1 .. n PROVE key[t[j]] <= key[r]
      BY <2>2
    <3>1. j \in 1 .. Len(t) /\ j < n + 1
      BY <1>2, <2>1
    <3> QED
      BY <2>1, <3>1 DEF SortedBy
  <2>6. SortedBy(f[n + 1], key)
    <3> HIDE DEF u, r, S, Some
    <3>1. SortedBy(AppendNew(u, r), key)
      BY <2>2, <2>3, <2>5, AppendNewStaysSorted
    <3> QED
      BY <2>4, <3>1
  <2>7. ToSet(f[n + 1]) \subseteq Some(n + 1)
    <3>1. ToSet(AppendNew(u, r)) \subseteq ToSet(u) \cup {r}
      <4> HIDE DEF u, r
      <4>1. ToSet(Append(u, r)) = ToSet(u) \cup {r}
        BY <2>3, AppendElements
      <4> QED
        BY <4>1 DEF AppendNew
    <3>2. Some(n) \subseteq Some(n + 1) /\ r \in Some(n + 1)
      OBVIOUS
    <3> HIDE DEF u, r, Some
    <3> QED
      BY <2>2, <2>4, <3>1, <3>2
  <2> QED
    BY <2>6, <2>7 DEF Sorted
<1>5. Len(t) \in S
  <2> HIDE DEF S
  <2> QED
    BY <1>2, <1>3, <1>4, SetInduction
<1> HIDE DEF Some
<1> QED
  BY <1>1, <1>2, <1>5

LEMMA CreatePlanIsSorted ==
    ASSUME NEW R, NEW d \in [R -> Seq(R)], \A r \in R : d[r] = << >>,
           NEW t \in Seq(R), Ranked(R)
    PROVE  SortedBy(CreatePlan(t, d), Ascending(R))
<1> DEFINE u == Deduplicate(StableSort(t))
<1>1. u \in Seq(R) /\ SortedBy(u, Ascending(R))
  BY SortedFacts
<1>2. Ascending(R) \in [R -> Int]
  BY DEF Ascending, Ranked
<1>3. CreatePlan(t, d) = AddAllWithDependencies(u, d)
  BY DEF CreatePlan
<1> DEFINE key == Ascending(R)
<1>4. key \in [R -> Int] /\ SortedBy(u, key)
  BY <1>1, <1>2
<1> HIDE DEF u, key
<1>5. SortedBy(AddAllWithDependencies(u, d), key)
  BY <1>1, <1>4, AddAllStaysSorted
<1> QED
  BY <1>3, <1>5 DEF key

LEMMA SameElementsSameLength ==
    ASSUME NEW R, NEW s \in Seq(R), NEW t \in Seq(R), IsInjective(s), IsInjective(t),
           ToSet(s) = ToSet(t)
    PROVE  Len(s) = Len(t)
<1>1. ASSUME NEW x \in Seq(R), IsInjective(x)
      PROVE  Cardinality(ToSet(x)) = Len(x)
  <2>1. Len(x) \in Nat /\ DOMAIN x = 1 .. Len(x)
    OBVIOUS
  <2>2. x \in [1 .. Len(x) -> ToSet(x)]
    <3>1. \A i \in 1 .. Len(x) : x[i] \in ToSet(x)
      BY <2>1 DEF ToSet
    <3> QED
      BY <2>1, <3>1
  <2>3. \A q \in ToSet(x) : \E i \in 1 .. Len(x) : x[i] = q
    BY <2>1 DEF ToSet
  <2>4. x \in Bijection(1 .. Len(x), ToSet(x))
    BY <1>1, <2>2, <2>3 DEF Bijection, Injection, Surjection
  <2> QED
    BY <2>1, <2>4, FS_CountingElements DEF ExistsBijection
<1> QED
  BY <1>1

\* Without dependencies, what is created is what is deleted.
LEMMA PlansAgree ==
    ASSUME NEW R, NEW d \in [R -> Seq(R)], \A r \in R : d[r] = << >>,
           NEW t \in Seq(R), Ranked(R)
    PROVE  /\ ToSet(CreatePlan(t, d)) = ToSet(t)
           /\ Len(CreatePlan(t, d)) = Len(DeletePlan(t))
<1> DEFINE p == CreatePlan(t, d)
           q == DeletePlan(t)
<1>1. /\ p \in Seq(R) /\ IsInjective(p)
      /\ ToSet(p) = ToSet(t) \cup UNION {ToSet(d[r]) : r \in ToSet(t)}
  BY CreatePlanFacts
<1>2. q \in Seq(R) /\ IsInjective(q) /\ ToSet(q) = ToSet(t)
  BY DeletePlanFacts
<1> HIDE DEF p, q
<1>3. ToSet(p) = ToSet(t)
  <2>1. \A r \in ToSet(t) : d[r] = << >>
    BY DEF ToSet
  <2>2. ToSet(<< >>) = {}
    BY DEF ToSet
  <2>3. UNION {ToSet(d[r]) : r \in ToSet(t)} = {}
    BY <2>1, <2>2
  <2> QED
    BY <1>1, <2>3
<1>4. Len(p) = Len(q)
  BY <1>1, <1>2, <1>3, SameElementsSameLength
<1> QED
  BY <1>3, <1>4 DEF p, q

----------------------------------------------------------------------------
(* The plans of the specification.                                         *)

Listed ==
    /\ listed \in Seq(Resources)
    /\ dependsOn \in [Resources -> Seq(Resources)]
    /\ purpose = "create" => plan = CreatePlan(listed, dependsOn)
    /\ purpose = "delete" => plan = DeletePlan(listed)

LEMMA ListsAreSequences == \A n \in Nat : ListsUpTo(n) \subseteq Seq(Resources)
  BY DEF ListsUpTo

LEMMA ListedInvariant == Spec => []Listed
<1>1. Init => Listed
  <2>1. ListsUpTo(MaxListed) \subseteq Seq(Resources)
    BY BoundsAssumption, ListsAreSequences
  <2>2. ListsUpTo(MaxDependencies) \subseteq Seq(Resources)
    BY BoundsAssumption, ListsAreSequences
  <2> QED
    BY <2>1, <2>2 DEF Init, Listed
<1>2. Listed /\ [Next]_planVars => Listed'
  BY DEF Listed, Next, PlanCreate, PlanDelete, planVars
<1> QED
  BY <1>1, <1>2, PTL DEF Spec

LEMMA ResourcesAreRanked == Ranked(Resources)
<1>1. \A k \in Kinds : RailwayResourceInstallOrder[k] \in 1 .. 4
  BY DEF Kinds, RailwayResourceInstallOrder
<1> QED
  BY <1>1, ResourcesAssumption DEF Ranked, OrderOf

\* The create plan holds the listed resources and what they depend on, once
\* each, and a resource that no other one needs after all it depends on:
\* whatever is listed, in whatever order, with whatever depends_on.
THEOREM CreatePlanHoldsAll == Spec => []CreatePlanIsExact
<1>1. Listed => CreatePlanIsExact
  <2> SUFFICES ASSUME Listed, purpose = "create" PROVE CreatePlanIsExact
    BY DEF CreatePlanIsExact
  <2>1. /\ plan \in Seq(Resources)
        /\ IsInjective(plan)
        /\ ToSet(plan) = ToSet(listed) \cup UNION {ToSet(dependsOn[r]) : r \in ToSet(listed)}
        /\ \A r \in ToSet(listed) :
              NotNeeded(r, listed, dependsOn) =>
                  \A q \in ToSet(dependsOn[r]) : StandsBefore(plan, q, r)
    <3>1. /\ listed \in Seq(Resources) /\ dependsOn \in [Resources -> Seq(Resources)]
          /\ plan = CreatePlan(listed, dependsOn)
      BY DEF Listed
    <3> QED
      BY <3>1, ResourcesAreRanked, CreatePlanFacts
  <2>2. \A r \in ToSet(listed) : ~IsDependency(r) => NotNeeded(r, listed, dependsOn)
    BY DEF IsDependency, NotNeeded, Direct
  <2>3. \A q, r : StandsBefore(plan, q, r) => Precedes(q, r)
    BY DEF StandsBefore, Precedes
  <2> QED
    BY <2>1, <2>2, <2>3 DEF CreatePlanIsExact, Direct
<1> QED
  BY <1>1, ListedInvariant, PTL

\* The delete plan holds the listed resources, once each, and a resource of a
\* later install order before every one of an earlier order.
THEOREM DeletePlanIsContentsFirst == Spec => []ContentsAreDeletedFirst
<1>1. Listed => ContentsAreDeletedFirst
  <2> SUFFICES ASSUME Listed, purpose = "delete" PROVE ContentsAreDeletedFirst
    BY DEF ContentsAreDeletedFirst
  <2>1. /\ plan \in Seq(Resources)
        /\ IsInjective(plan)
        /\ ToSet(plan) = ToSet(listed)
        /\ SortedBy(plan, Descending(Resources))
    <3>1. listed \in Seq(Resources) /\ plan = DeletePlan(listed)
      BY DEF Listed
    <3> QED
      BY <3>1, ResourcesAreRanked, DeletePlanFacts
  <2>2. ASSUME NEW q \in ToSet(listed), NEW r \in ToSet(listed), OrderOf(q) > OrderOf(r)
        PROVE  Precedes(q, r)
    <3>1. PICK i \in 1 .. Len(plan), j \in 1 .. Len(plan) : plan[i] = q /\ plan[j] = r
      <4>1. DOMAIN plan = 1 .. Len(plan)
        BY <2>1
      <4>2. \A x \in ToSet(plan) : \E k \in 1 .. Len(plan) : plan[k] = x
        BY <4>1 DEF ToSet
      <4> QED
        BY <2>1, <4>2
    <3>2. q \in Resources /\ r \in Resources
      BY <2>1, <3>1
    <3>3. /\ Descending(Resources)[q] = 5 - OrderOf(q) /\ OrderOf(q) \in Int
          /\ Descending(Resources)[r] = 5 - OrderOf(r) /\ OrderOf(r) \in Int
      BY <3>2, ResourcesAreRanked DEF Descending, Ranked
    <3>4. ~(j < i)
      BY <2>1, <2>2, <3>1, <3>3 DEF SortedBy
    <3>5. i # j
      BY <2>2, <3>1, <3>3
    <3> QED
      BY <3>1, <3>4, <3>5 DEF Precedes
  <2> QED
    BY <2>1, <2>2 DEF ContentsAreDeletedFirst
<1> QED
  BY <1>1, ListedInvariant, PTL
=============================================================================

------------------------- MODULE WorkflowStepsProofs -------------------------
(***************************************************************************)
(* Theorems about the merge of parallel session states and about           *)
(* WorkflowSteps, for every tree of steps, any keys of the session state   *)
(* and whatever the executors do.                                          *)
(***************************************************************************)
EXTENDS WorkflowSteps, WellFoundedInduction, FiniteSetTheorems, TLAPS

----------------------------------------------------------------------------
(* merge_parallel_session_states.                                          *)

\* Two paths of one inner dictionary are changed by the same branches: the merge
\* takes the dictionary as a whole from one of them.
LEMMA SameTopKey ==
    ASSUME NEW original, NEW modifieds, NEW j \in Keys, NEW k \in Keys,
           TopKey[j] = TopKey[k]
    PROVE  ChangedBy(original, modifieds, j) = ChangedBy(original, modifieds, k)
  BY DEF ChangedBy, Changed

\* A set of branches has a last one: of the distances to the end one is minimal.
LEMMA HasLast ==
    ASSUME NEW n \in Nat, NEW I, I \subseteq 1 .. n, I # {}
    PROVE  \E i \in I : \A j \in I : j <= i
<1> DEFINE Distances == {n - i : i \in I}
           Less == OpToRel(<, Nat)
<1>1. Distances \subseteq Nat /\ Distances # {}
  <2> HIDE DEF Less
  <2>1. \A i \in I : i \in 1 .. n
    OBVIOUS
  <2>2. \A i \in I : n - i \in Nat
    BY <2>1
  <2> QED
    BY <2>2
<1>2. \E d \in Distances : \A e \in Distances : ~(<<e, d>> \in Less)
  <2>1. IsWellFoundedOn(Less, Nat)
    BY NatLessThanWellFounded
  <2> HIDE DEF Distances, Less
  <2> QED
    BY <1>1, <2>1, WFMin
<1>3. \A d, e \in Nat : <<e, d>> \in Less <=> e < d
  BY DEF OpToRel
<1>4. PICK i \in I : \A j \in I : ~(n - j < n - i)
  <2> HIDE DEF Less
  <2> QED
    BY <1>1, <1>2, <1>3
<1> QED
  BY <1>4

\* The last of the branches that changed a key is one of them.
LEMMA LastIsOne ==
    ASSUME NEW I, I \subseteq Nat, NEW i \in I, \A j \in I : j <= i
    PROVE  LastOf(I) = i
<1>1. \E n \in I : \A j \in I : j <= n
  OBVIOUS
<1>2. LastOf(I) \in I /\ \A j \in I : j <= LastOf(I)
  BY <1>1 DEF LastOf
<1>3. LastOf(I) \in Nat /\ i \in Nat
  BY <1>2
<1>4. LastOf(I) <= i /\ i <= LastOf(I)
  BY <1>2
<1> QED
  BY <1>3, <1>4

\* Of the branches that changed an outer key, the one merged last decides what
\* is under this key, whole inner dictionaries included.
THEOREM LastChangeWins ==
    ASSUME NEW original \in States, NEW modifieds \in Seq(States),
           NEW k \in Keys, ~IsEmpty(original),
           NEW i \in DOMAIN modifieds, Changed(original, modifieds[i], k),
           \A j \in DOMAIN modifieds :
               Changed(original, modifieds[j], k) => j <= i
    PROVE  MergeParallel(original, modifieds)[k] = modifieds[i][k]
<1> DEFINE I == ChangedBy(original, modifieds, k)
<1>1. I \subseteq Nat /\ i \in I /\ \A j \in I : j <= i
  BY DEF ChangedBy
<1>2. LastOf(I) = i
  BY <1>1, LastIsOne
<1> QED
  BY <1>1, <1>2 DEF MergeParallel

\* A value that one branch alone has written survives the merge, whatever the
\* other branches wrote elsewhere, if none of them touched its inner dictionary
\* and the state was not empty.
THEOREM LoneChangeSurvives ==
    ASSUME NEW original \in States, NEW modifieds \in Seq(States),
           NEW k \in Keys, ~IsEmpty(original),
           NEW i \in DOMAIN modifieds,
           modifieds[i][k] # original[k],
           k \in Nested \/ modifieds[i][k] # Absent,
           \A j \in (DOMAIN modifieds) \ {i}, n \in Keys :
               TopKey[n] = TopKey[k] => modifieds[j][n] = original[n]
    PROVE  MergeParallel(original, modifieds)[k] = modifieds[i][k]
<1>1. Changed(original, modifieds[i], k)
  BY DEF Changed
<1>2. \A j \in DOMAIN modifieds : Changed(original, modifieds[j], k) => j = i
  BY DEF Changed
<1>3. \A j \in DOMAIN modifieds : Changed(original, modifieds[j], k) => j <= i
  <2>1. i \in Nat
    OBVIOUS
  <2> QED
    BY <1>2, <2>1
<1> QED
  BY <1>1, <1>3, LastChangeWins

\* The merge invents nothing: what is under a key is what was there, or what one
\* of the branches put there, and a key no branch touched keeps its value.
THEOREM MergeInventsNothing ==
    ASSUME NEW original \in States, NEW modifieds \in Seq(States), NEW k \in Keys
    PROVE  \/ MergeParallel(original, modifieds)[k] = original[k]
           \/ \E i \in DOMAIN modifieds :
                  /\ Changed(original, modifieds[i], k)
                  /\ MergeParallel(original, modifieds)[k] = modifieds[i][k]
<1>1. CASE IsEmpty(original) \/ ChangedBy(original, modifieds, k) = {}
  BY <1>1 DEF MergeParallel
<1>2. CASE ~IsEmpty(original) /\ ChangedBy(original, modifieds, k) # {}
  <2> DEFINE I == ChangedBy(original, modifieds, k)
  <2>1. I \subseteq 1 .. Len(modifieds) /\ I # {} /\ Len(modifieds) \in Nat
    BY <1>2 DEF ChangedBy
  <2>2. PICK i \in I : \A j \in I : j <= i
    BY <2>1, HasLast
  <2>3. i \in DOMAIN modifieds /\ Changed(original, modifieds[i], k)
    BY DEF ChangedBy
  <2>4. LastOf(I) = i
    BY <2>1, <2>2, LastIsOne
  <2> QED
    BY <1>2, <2>3, <2>4 DEF MergeParallel
<1> QED
  BY <1>1, <1>2
----------------------------------------------------------------------------
(* The tree of steps.                                                      *)

LEMMA ChildFacts ==
    ASSUME NEW p \in Nodes, NEW n \in ChildSet(p)
    PROVE  n \in Nodes /\ n # Root /\ p \in Containers /\ Parent(n) = p
<1>1. PICK i \in DOMAIN Children[p] : n = Children[p][i]
  BY DEF ChildSet
<1>2. Children[p] \in Seq(Nodes \ {Root})
  BY TreeAssumption
<1>3. n \in Nodes \ {Root}
  BY <1>1, <1>2
<1>4. \A q \in Nodes : n \in ChildSet(q) => q = p
  BY <1>1, TreeAssumption DEF ChildSet
<1>5. Children[p] # << >>
  BY <1>1
<1> QED
  BY <1>3, <1>4, <1>5 DEF Parent, Containers, Leaves

LEMMA ParentFacts ==
    ASSUME NEW n \in Nodes \ {Root}
    PROVE  Parent(n) \in Containers /\ n \in ChildSet(Parent(n))
<1>1. \E p \in Nodes : n \in ChildSet(p)
  BY TreeAssumption
<1>2. Parent(n) \in Nodes /\ n \in ChildSet(Parent(n))
  BY <1>1 DEF Parent
<1> QED
  BY <1>2, ChildFacts

LEMMA ChildrenFacts ==
    ASSUME NEW n \in Nodes
    PROVE  /\ Len(Children[n]) \in Nat
           /\ DOMAIN Children[n] = 1 .. Len(Children[n])
           /\ \A i \in DOMAIN Children[n] : Children[n][i] \in ChildSet(n)
           /\ n \in Containers => Len(Children[n]) > 0
           /\ n \in Leaves <=> ChildSet(n) = {}
<1>1. Children[n] \in Seq(Nodes \ {Root})
  BY TreeAssumption
<1>2. Len(Children[n]) \in Nat /\ DOMAIN Children[n] = 1 .. Len(Children[n])
  BY <1>1
<1>3. \A i \in DOMAIN Children[n] : Children[n][i] \in ChildSet(n)
  BY DEF ChildSet
<1>4. CASE n \in Leaves
  <2>1. Children[n] = << >> /\ n \notin Containers
    BY <1>4 DEF Leaves, Containers
  <2>2. ChildSet(n) = {}
    BY <2>1 DEF ChildSet
  <2> QED
    BY <1>2, <1>3, <1>4, <2>1, <2>2
<1>5. CASE n \notin Leaves
  <2>1. Children[n] # << >>
    BY <1>5 DEF Leaves
  <2>2. Len(Children[n]) > 0
    BY <1>1, <2>1
  <2>3. 1 \in DOMAIN Children[n]
    BY <1>2, <2>2
  <2> QED
    BY <1>2, <1>3, <1>5, <2>2, <2>3
<1> QED
  BY <1>4, <1>5

\* A set of nodes has one that stands in none of the others.
LEMMA HasTop ==
    ASSUME NEW S \in SUBSET Nodes, S # {}
    PROVE  \E n \in S : n # Root => Parent(n) \notin S
<1>1. PICK n \in S : \A p \in S : n \notin ChildSet(p)
  BY TreeAssumption
<1> QED
  BY <1>1, ParentFacts

LEMMA UnderLeast ==
    ASSUME NEW n \in Nodes, NEW S \in SUBSET Nodes, ChildSet(n) \subseteq S,
           \A p \in S : ChildSet(p) \subseteq S
    PROVE  Under[n] \subseteq S
  BY DEF Under

LEMMA UnderFacts ==
    ASSUME NEW n \in Nodes
    PROVE  /\ Under[n] \subseteq Nodes \ {Root}
           /\ ChildSet(n) \subseteq Under[n]
           /\ \A p \in Under[n] : ChildSet(p) \subseteq Under[n]
<1>1. Under[n] \subseteq Nodes
  BY DEF Under
<1>2. ChildSet(n) \subseteq Nodes
  BY ChildFacts
<1>3. ChildSet(n) \subseteq Under[n]
  BY <1>2 DEF Under
<1>4. ASSUME NEW p \in Under[n], NEW c \in ChildSet(p) PROVE c \in Under[n]
  <2>1. p \in Nodes /\ c \in Nodes
    BY <1>1, <1>4, ChildFacts
  <2> QED
    BY <1>4, <2>1 DEF Under
<1>5. Under[n] \subseteq Nodes \ {Root}
  <2>1. ChildSet(n) \subseteq Nodes \ {Root}
    BY ChildFacts
  <2>2. \A p \in Nodes \ {Root} : ChildSet(p) \subseteq Nodes \ {Root}
    BY ChildFacts
  <2> QED
    BY <2>1, <2>2, UnderLeast
<1> QED
  BY <1>3, <1>4, <1>5

\* What is inside n is a child of it or inside of a child; it is also inside of
\* n if its parent is.
LEMMA UnderCases ==
    ASSUME NEW n \in Nodes, NEW m \in Under[n]
    PROVE  /\ \E c \in ChildSet(n) : m \in Descendants(c)
           /\ Parent(m) = n \/ Parent(m) \in Under[n]
<1>1. \E c \in ChildSet(n) : m \in Descendants(c)
  <2> DEFINE S == {x \in Nodes : \E c \in ChildSet(n) : x \in Descendants(c)}
  <2>1. ChildSet(n) \subseteq S
    BY ChildFacts DEF Descendants
  <2>2. ASSUME NEW p \in S, NEW x \in ChildSet(p) PROVE x \in S
    <3>1. PICK c \in ChildSet(n) : p \in Descendants(c)
      BY <2>2
    <3>2. c \in Nodes /\ x \in Nodes
      BY <2>2, ChildFacts
    <3>3. x \in Under[c]
      BY <2>2, <3>1, <3>2, UnderFacts DEF Descendants
    <3> QED
      BY <3>2, <3>3 DEF Descendants
  <2> HIDE DEF S
  <2>3. Under[n] \subseteq S
    <3>1. S \in SUBSET Nodes
      BY DEF S
    <3> QED
      BY <2>1, <2>2, <3>1, UnderLeast
  <2> QED
    BY <2>3 DEF S
<1>2. Parent(m) = n \/ Parent(m) \in Under[n]
  <2> DEFINE S == {x \in Under[n] : Parent(x) = n \/ Parent(x) \in Under[n]}
  <2>1. ChildSet(n) \subseteq S
    BY ChildFacts, UnderFacts
  <2>2. ASSUME NEW p \in S, NEW x \in ChildSet(p) PROVE x \in S
    <3>1. p \in Under[n] /\ p \in Nodes
      BY UnderFacts
    <3> QED
      BY <2>2, <3>1, ChildFacts, UnderFacts
  <2>3. S \in SUBSET Nodes
    BY UnderFacts
  <2> HIDE DEF S
  <2>4. Under[n] \subseteq S
    BY <2>1, <2>2, <2>3, UnderLeast
  <2> QED
    BY <2>4 DEF S
<1> QED
  BY <1>1, <1>2

LEMMA UnderTransitive ==
    ASSUME NEW n \in Nodes, NEW p \in Under[n]
    PROVE  Under[p] \subseteq Under[n]
<1>1. p \in Nodes /\ Under[n] \in SUBSET Nodes
  BY UnderFacts
<1> QED
  BY <1>1, UnderFacts, UnderLeast

LEMMA NotInItself ==
    ASSUME NEW n \in Nodes
    PROVE  n \notin Under[n]
<1> SUFFICES ASSUME n \in Under[n] PROVE FALSE
  OBVIOUS
<1> DEFINE S == {m \in Nodes : m \in Under[m]}
<1>1. PICK m \in S : m # Root => Parent(m) \notin S
  BY HasTop
<1>2. m \in Nodes /\ m # Root /\ m \in Under[m]
  BY UnderFacts
<1>3. Parent(m) \in Nodes /\ m \in ChildSet(Parent(m))
  BY <1>2, ParentFacts DEF Containers
<1>4. Parent(m) \in Under[m]
  BY <1>1, <1>2, UnderCases
<1>5. m \in Under[Parent(m)]
  BY <1>3, UnderFacts
<1>6. Parent(m) \in Under[Parent(m)]
  BY <1>3, <1>4, <1>5, UnderTransitive
<1> QED
  BY <1>1, <1>2, <1>3, <1>6

\* The nodes that contain a node stand in one another.
LEMMA UnderChain ==
    ASSUME NEW a \in Nodes, NEW b \in Nodes, NEW m \in Nodes,
           m \in Descendants(a), m \in Descendants(b)
    PROVE  a \in Descendants(b) \/ b \in Under[a]
<1> DEFINE Chained(x) == x \in Descendants(a) /\ x \in Descendants(b)
                            => a \in Descendants(b) \/ b \in Under[a]
           S == {x \in Nodes : ~Chained(x)}
<1>1. ASSUME S # {} PROVE FALSE
  <2>1. PICK x \in S : x # Root => Parent(x) \notin S
    BY <1>1, HasTop
  <2>2. x \in Descendants(a) /\ x \in Descendants(b) /\ x # a /\ x # b
    BY DEF Descendants
  <2>3. x \in Under[a] /\ x \in Under[b] /\ x # Root /\ x \in Nodes
    BY <2>2, UnderFacts DEF Descendants
  <2>4. Parent(x) \in Nodes
    BY <2>3, ParentFacts DEF Containers
  <2>5. Parent(x) \in Descendants(a) /\ Parent(x) \in Descendants(b)
    BY <2>3, UnderCases DEF Descendants
  <2> QED
    BY <2>1, <2>3, <2>4, <2>5
<1> QED
  BY <1>1

LEMMA AllUnderRoot ==
    ASSUME NEW n \in Nodes \ {Root}
    PROVE  n \in Under[Root]
<1> DEFINE S == {m \in Nodes \ {Root} : m \notin Under[Root]}
<1>1. ASSUME S # {} PROVE FALSE
  <2>1. PICK m \in S : m # Root => Parent(m) \notin S
    BY <1>1, HasTop
  <2>2. Parent(m) \in Nodes /\ m \in ChildSet(Parent(m))
    BY ParentFacts DEF Containers
  <2>3. Parent(m) = Root \/ Parent(m) \in Under[Root]
    BY <2>1, <2>2
  <2>4. Root \in Nodes
    BY TreeAssumption DEF Containers
  <2> QED
    BY <2>2, <2>3, <2>4, UnderFacts
<1> QED
  BY <1>1

----------------------------------------------------------------------------
(* Types.                                                                  *)

KindInv ==
    \A n \in Nodes : /\ kind[n] = "Step" <=> n \in Leaves
                     /\ kind[n] = "Workflow" <=> n = Root

\* A branch ends once.
DistinctInv ==
    \A n \in Nodes : \A i, j \in DOMAIN completed[n] :
        completed[n][i] = completed[n][j] => i = j

TypeInv ==
    /\ TypeOK /\ KindInv /\ DistinctInv
    /\ position \in [Nodes -> Nat]
    /\ attempt \in [Nodes -> Nat]
    /\ completed \in [Nodes -> Seq(Nat)]

LEMMA InitTypes == Init => TypeInv
<1> SUFFICES ASSUME Init PROVE TypeInv
  OBVIOUS
<1>1. Root \in Nodes
  BY TreeAssumption DEF Containers
<1>2. kind \in [Nodes -> Kinds] /\ KindInv
  BY ContainerKindsAssumption DEF Init, Kinds, KindInv
<1>3. function \in AllFunctions
  BY FunctionsAssumption DEF Init
<1>4. state \in [Nodes -> States] /\ shallow \in [Nodes -> States]
  BY StateAssumption DEF Init
<1>5. iteration \in [Nodes -> 0 .. MaxIterations - 1]
  BY BoundsAssumption DEF Init
<1>6. \A n \in Leaves : attempt[n] \in 0 .. MaxRetries[n]
  BY BoundsAssumption DEF Init, Leaves
<1>7. \A n \in Containers : position[n] \in DOMAIN Children[n]
  BY ChildrenFacts DEF Init, Containers
<1>8. /\ completed \in [Nodes -> Seq(Nat)]
      /\ \A n \in Nodes : completed[n] = << >>
  BY DEF Init
<1>9. \A n \in Nodes : /\ Len(completed[n]) <= Len(Children[n])
                       /\ \A i \in DOMAIN completed[n] :
                              completed[n][i] \in DOMAIN Children[n]
  BY <1>8, ChildrenFacts
<1>10. DistinctInv
  BY <1>8 DEF DistinctInv
<1>11. wrote \in [Nodes -> [Keys -> Values \cup {Absent, Unwritten}]]
  BY DEF Init
<1>12. /\ pc \in [Nodes -> {"idle", "running", "returned", "raised", "abandoned"}]
       /\ owner \in [Nodes -> Nodes]
       /\ output \in [Nodes -> Outputs]
       /\ abandoned \in BOOLEAN
       /\ asked \in [Nodes -> BOOLEAN]
       /\ failures \subseteq Nodes
       /\ position \in [Nodes -> Nat]
       /\ attempt \in [Nodes -> Nat]
  BY <1>1 DEF Init, NoStop, Outputs
<1> QED
  BY <1>2, <1>3, <1>4, <1>5, <1>6, <1>7, <1>8, <1>9, <1>10, <1>11, <1>12
     DEF TypeInv, TypeOK

LEMMA LeaveTypes ==
    ASSUME TypeInv, NEW n \in Nodes, NEW end \in {"returned", "raised"},
           NEW result \in Outputs, Leave(n, end, result)
    PROVE  /\ pc' \in [Nodes -> {"idle", "running", "returned", "raised", "abandoned"}]
           /\ output' \in [Nodes -> Outputs]
  BY DEF TypeInv, TypeOK, Leave, NoStop, Outputs

LEMMA EnterTypes ==
    ASSUME TypeInv, NEW C \in SUBSET Nodes, NEW base \in Nodes, NEW deep \in BOOLEAN,
           Enter(C, base, deep)
    PROVE  TypeInv'
<1>1. pc' \in [Nodes -> {"idle", "running", "returned", "raised", "abandoned"}]
  BY DEF TypeInv, TypeOK, Enter
<1>2. owner' \in [Nodes -> Nodes]
  BY DEF TypeInv, TypeOK, Enter
<1>3. state' \in [Nodes -> States] /\ shallow' \in [Nodes -> States]
  BY DEF TypeInv, TypeOK, Enter
<1>4. position' \in [Nodes -> Nat] /\ attempt' \in [Nodes -> Nat]
  BY DEF TypeInv, TypeOK, Enter
<1>5. \A n \in Containers : position'[n] \in DOMAIN Children[n]
  BY ChildrenFacts DEF TypeInv, TypeOK, Enter, Containers
<1>6. iteration' \in [Nodes -> 0 .. MaxIterations - 1]
  BY BoundsAssumption DEF TypeInv, TypeOK, Enter
<1>7. \A n \in Leaves : attempt'[n] \in 0 .. MaxRetries[n]
  BY BoundsAssumption DEF TypeInv, TypeOK, Enter, Leaves
<1>8. output' \in [Nodes -> Outputs] /\ asked' \in [Nodes -> BOOLEAN]
  BY DEF TypeInv, TypeOK, Enter, NoStop, Outputs
<1>9. UNCHANGED <<kind, function, completed, abandoned, wrote, failures>>
  BY DEF Enter
<1> QED
  BY <1>1, <1>2, <1>3, <1>4, <1>5, <1>6, <1>7, <1>8, <1>9
     DEF TypeInv, TypeOK, KindInv, DistinctInv

LEMMA MergeTypes ==
    ASSUME NEW original \in States, NEW n \in Nat, NEW modifieds \in [1 .. n -> States]
    PROVE  MergeParallel(original, modifieds) \in States
<1> SUFFICES ASSUME NEW k \in Keys
             PROVE  MergeParallel(original, modifieds)[k] \in Values \cup {Absent}
  BY DEF MergeParallel, States
<1> DEFINE I == ChangedBy(original, modifieds, k)
<1>1. I \subseteq 1 .. n
  BY DEF ChangedBy
<1>2. CASE IsEmpty(original) \/ I = {}
  BY <1>2 DEF MergeParallel, States
<1>3. CASE ~IsEmpty(original) /\ I # {}
  <2>1. PICK i \in I : \A j \in I : j <= i
    BY <1>1, <1>3, HasLast
  <2>2. LastOf(I) = i /\ i \in 1 .. n
    BY <1>1, <2>1, LastIsOne
  <2> QED
    BY <1>3, <2>2 DEF MergeParallel, States
<1> QED
  BY <1>2, <1>3

LEMMA ExecutesTypes ==
    ASSUME TypeInv, NEW n \in Leaves, NEW writes \in WriteSets[n], NEW merged \in BOOLEAN,
           Executes(n, writes, merged)
    PROVE  /\ state' \in [Nodes -> States]
           /\ wrote' \in [Nodes -> [Keys -> Values \cup {Absent, Unwritten}]]
           /\ OnCopy(n, writes) \in States
<1>1. n \in Nodes /\ owner[n] \in Nodes /\ state[owner[n]] \in States /\ shallow[n] \in States
      /\ wrote[n] \in [Keys -> Values \cup {Absent, Unwritten}]
  BY DEF TypeInv, TypeOK, Leaves
<1>2. writes \in [Keys -> Values \cup {Absent, Unwritten}]
  BY ExecutorsAssumption
<1>3. InPlace(n, writes) \in States /\ OnCopy(n, writes) \in States
  BY <1>1, <1>2 DEF InPlace, OnCopy, States
<1>4. MergeDictionaries(InPlace(n, writes), OnCopy(n, writes)) \in States
  BY <1>3 DEF MergeDictionaries, States
<1>5. Recorded(n, writes, OnCopy(n, writes), merged)
          \in [Keys -> Values \cup {Absent, Unwritten}]
  BY <1>1, <1>2, <1>3 DEF Recorded, States
<1> QED
  BY <1>1, <1>3, <1>4, <1>5 DEF Executes, TypeInv, TypeOK

\* An attempt of a step; nothing else but its end is changed by it.
LEMMA StepTypes ==
    ASSUME TypeInv, NEW n \in Leaves, StepSucceeds(n) \/ StepRetries(n) \/ StepFails(n)
    PROVE  TypeInv'
<1>1. n \in Nodes
  BY DEF Leaves
<1>2. CASE StepSucceeds(n)
  <2>1. PICK writes \in WriteSets[n], result \in Results[n] :
            /\ Executes(n, writes, TRUE)
            /\ Returns(n, result)
            /\ failures' = IF result.success THEN failures ELSE failures \cup {n}
            /\ asked' = [m \in Nodes |-> asked[m] \/ (result.stop /\ InSequence(n, m))]
    BY <1>2 DEF StepSucceeds
  <2>2. result \in Outputs
    BY ExecutorsAssumption
  <2>3. /\ pc' \in [Nodes -> {"idle", "running", "returned", "raised", "abandoned"}]
        /\ output' \in [Nodes -> Outputs]
    BY <1>1, <2>1, <2>2, LeaveTypes DEF Returns
  <2>4. /\ state' \in [Nodes -> States]
        /\ wrote' \in [Nodes -> [Keys -> Values \cup {Absent, Unwritten}]]
    BY <2>1, ExecutesTypes
  <2>5. shallow' \in [Nodes -> States]
    BY <1>2, StateAssumption DEF StepSucceeds, Forget, TypeInv, TypeOK
  <2>6. asked' \in [Nodes -> BOOLEAN] /\ failures' \subseteq Nodes
    BY <1>1, <2>1, <2>2 DEF TypeInv, TypeOK, Outputs, InSequence
  <2>7. UNCHANGED <<kind, function, owner, position, iteration, attempt, completed, abandoned>>
    BY <1>2 DEF StepSucceeds
  <2> QED
    BY <2>3, <2>4, <2>5, <2>6, <2>7 DEF TypeInv, TypeOK, KindInv, DistinctInv
<1>3. CASE StepRetries(n)
  <2>1. PICK writes \in WriteSets[n], merged \in BOOLEAN :
            /\ Executes(n, writes, merged)
            /\ shallow' = [shallow EXCEPT ![n] = OnCopy(n, writes)]
    BY <1>3 DEF StepRetries
  <2>2. /\ state' \in [Nodes -> States]
        /\ wrote' \in [Nodes -> [Keys -> Values \cup {Absent, Unwritten}]]
        /\ OnCopy(n, writes) \in States
    BY <2>1, ExecutesTypes
  <2>3. shallow' \in [Nodes -> States]
    BY <1>1, <2>1, <2>2 DEF TypeInv, TypeOK
  <2>4. attempt' \in [Nodes -> Nat] /\ \A m \in Leaves : attempt'[m] \in 0 .. MaxRetries[m]
    <3>1. attempt[n] \in Nat /\ MaxRetries[n] \in Nat /\ attempt[n] < MaxRetries[n]
      BY <1>1, <1>3, BoundsAssumption DEF StepRetries, TypeInv
    <3>2. attempt' = [attempt EXCEPT ![n] = @ + 1]
      BY <1>3 DEF StepRetries
    <3>3. \A m \in Nodes : attempt'[m] = IF m = n THEN attempt[n] + 1 ELSE attempt[m]
      BY <3>2 DEF TypeInv
    <3> QED
      BY <3>1, <3>2, <3>3, BoundsAssumption DEF TypeInv, TypeOK, Leaves
  <2>5. UNCHANGED <<kind, function, pc, owner, position, iteration, output,
                   completed, abandoned, asked, failures>>
    BY <1>3 DEF StepRetries
  <2> QED
    BY <2>2, <2>3, <2>4, <2>5 DEF TypeInv, TypeOK, KindInv, DistinctInv
<1>4. CASE StepFails(n)
  <2>1. PICK writes \in WriteSets[n], merged \in BOOLEAN : Executes(n, writes, merged)
    BY <1>4 DEF StepFails
  <2>2. /\ state' \in [Nodes -> States]
        /\ wrote' \in [Nodes -> [Keys -> Values \cup {Absent, Unwritten}]]
    BY <2>1, ExecutesTypes
  <2>3. PICK end \in {"returned", "raised"} : Leave(n, end, Failed)
    BY <1>4 DEF StepFails, Returns, Raises
  <2>4. /\ pc' \in [Nodes -> {"idle", "running", "returned", "raised", "abandoned"}]
        /\ output' \in [Nodes -> Outputs]
    <3>1. Failed \in Outputs
      BY DEF Failed, Outputs
    <3> QED
      BY <1>1, <2>3, <3>1, LeaveTypes
  <2>5. shallow' \in [Nodes -> States]
    BY <1>4, StateAssumption DEF StepFails, Forget, TypeInv, TypeOK
  <2>6. failures' \subseteq Nodes
    BY <1>1, <1>4 DEF StepFails, TypeInv, TypeOK
  <2>7. UNCHANGED <<kind, function, owner, position, iteration, attempt, completed,
                    abandoned, asked>>
    BY <1>4 DEF StepFails
  <2> QED
    BY <2>2, <2>4, <2>5, <2>6, <2>7 DEF TypeInv, TypeOK, KindInv, DistinctInv
<1> QED
  BY <1>2, <1>3, <1>4

LEMMA CurrentFacts ==
    ASSUME TypeInv, NEW n \in Containers
    PROVE  /\ n \in Nodes /\ Current(n) \in ChildSet(n)
           /\ Current(n) \in Nodes
           /\ output[n] \in Outputs /\ output[Current(n)] \in Outputs
           /\ SoFar(n) \in Outputs
<1>1. n \in Nodes /\ position[n] \in DOMAIN Children[n]
  BY DEF TypeInv, TypeOK, Containers
<1>2. Current(n) \in ChildSet(n) /\ Current(n) \in Nodes
  BY <1>1, ChildrenFacts, ChildFacts DEF Current
<1>3. output[n] \in Outputs /\ output[Current(n)] \in Outputs
  BY <1>1, <1>2 DEF TypeInv, TypeOK
<1>4. SoFar(n) \in Outputs
  BY <1>3 DEF SoFar, Outputs
<1> QED
  BY <1>1, <1>2, <1>3, <1>4

\* What a container ends with, if it is not Parallel.
LEMMA EndsWith ==
    ASSUME TypeInv, NEW n \in Containers,
           \/ NothingSelected(n) \/ SelectorRaises(n) \/ ChildRaised(n)
           \/ SequenceEnds(n) \/ IterationEnds(n)
    PROVE  \E end \in {"returned", "raised"}, result \in Outputs :
               /\ Leave(n, end, result)
               /\ end = "raised" => result = Failed
<1>1. NoStop \in Outputs /\ Failed \in Outputs
  BY DEF NoStop, Failed, Outputs
<1>2. CASE NothingSelected(n)
  BY <1>1, <1>2 DEF NothingSelected, Returns
<1>3. CASE SelectorRaises(n)
  BY <1>1, <1>3 DEF SelectorRaises, Raises
<1>4. CASE ChildRaised(n)
  BY <1>1, <1>4 DEF ChildRaised, Raises, Returns
<1>5. CASE SequenceEnds(n)
  <2>1. [stop |-> kind[n] = "Workflow" /\ SoFar(n).stop, success |-> SoFar(n).success]
            \in Outputs
    BY CurrentFacts DEF Outputs
  <2> QED
    BY <1>5, <2>1 DEF SequenceEnds, Returns
<1>6. CASE IterationEnds(n)
  <2>1. [stop |-> FALSE, success |-> SoFar(n).success] \in Outputs
    BY CurrentFacts DEF Outputs
  <2> QED
    BY <1>6, <2>1 DEF IterationEnds, Returns
<1> QED
  BY <1>2, <1>3, <1>4, <1>5, <1>6

LEMMA SequenceTypes ==
    ASSUME TypeInv, NEW n \in Containers,
           \/ NothingSelected(n) \/ SelectorRaises(n) \/ ChildRaised(n)
           \/ SequenceEnds(n) \/ IterationEnds(n)
    PROVE  TypeInv'
<1>1. n \in Nodes
  BY DEF Containers
<1>2. PICK end \in {"returned", "raised"}, result \in Outputs : Leave(n, end, result)
  BY EndsWith
<1>3. /\ pc' \in [Nodes -> {"idle", "running", "returned", "raised", "abandoned"}]
      /\ output' \in [Nodes -> Outputs]
  BY <1>1, <1>2, LeaveTypes
<1>4. failures' \subseteq Nodes
  BY <1>1 DEF NothingSelected, SelectorRaises, ChildRaised, SequenceEnds, IterationEnds,
              TypeInv, TypeOK
<1>5. UNCHANGED <<kind, function, owner, state, shallow, position, iteration,
                  attempt, completed, abandoned, wrote, asked>>
  BY DEF NothingSelected, SelectorRaises, ChildRaised, SequenceEnds, IterationEnds
<1> QED
  BY <1>3, <1>4, <1>5 DEF TypeInv, TypeOK, KindInv, DistinctInv

LEMMA NextChildTypes ==
    ASSUME TypeInv, NEW n \in Containers, NextChild(n)
    PROVE  TypeInv' /\ position'[n] \in Nat /\ position'[n] > position[n]
<1>1. n \in Nodes /\ position[n] \in Nat /\ position[n] < Len(Children[n])
  BY DEF Containers, TypeInv, NextChild, GoesOn
<1>2. DOMAIN Children[n] = 1 .. Len(Children[n]) /\ Len(Children[n]) \in Nat
  BY <1>1, ChildrenFacts
<1>3. PICK next \in IF kind[n] = "Router"
                    THEN position[n] + 1 .. Len(Children[n])
                    ELSE {position[n] + 1} :
          position' = [position EXCEPT ![n] = next]
  BY DEF NextChild
<1>4. next \in DOMAIN Children[n] /\ next \in Nat /\ next > position[n]
  BY <1>1, <1>2, <1>3 DEF TypeInv
<1>5. position' \in [Nodes -> Nat] /\ \A m \in Containers : position'[m] \in DOMAIN Children[m]
  BY <1>1, <1>3, <1>4 DEF TypeInv, TypeOK, Containers
<1>6. position'[n] = next
  BY <1>1, <1>3 DEF TypeInv
<1>7. output' \in [Nodes -> Outputs]
  <2>1. output' = [output EXCEPT ![n].success = SoFar(n).success]
    BY DEF NextChild
  <2>2. SoFar(n).success \in BOOLEAN
    BY CurrentFacts DEF Outputs
  <2> QED
    BY <1>1, <2>1, <2>2 DEF TypeInv, TypeOK, Outputs
<1>8. UNCHANGED <<kind, function, pc, owner, state, shallow, iteration, attempt,
                  completed, abandoned, wrote, asked, failures>>
  BY DEF NextChild
<1> QED
  BY <1>4, <1>5, <1>6, <1>7, <1>8 DEF TypeInv, TypeOK, KindInv, DistinctInv

LEMMA NextIterationTypes ==
    ASSUME TypeInv, NEW n \in Containers, NextIteration(n)
    PROVE  TypeInv'
<1>1. n \in Nodes /\ 1 \in DOMAIN Children[n] /\ iteration[n] \in 0 .. MaxIterations - 1
  BY ChildrenFacts DEF Containers, TypeInv, TypeOK
<1>2. iteration' \in [Nodes -> 0 .. MaxIterations - 1]
  <2>1. iteration[n] + 1 \in 0 .. MaxIterations - 1
    BY <1>1, BoundsAssumption DEF NextIteration
  <2> QED
    BY <2>1 DEF NextIteration, TypeInv, TypeOK
<1>3. position' \in [Nodes -> Nat] /\ \A m \in Containers : position'[m] \in DOMAIN Children[m]
  BY <1>1 DEF NextIteration, TypeInv, TypeOK, Containers
<1>4. pc' \in [Nodes -> {"idle", "running", "returned", "raised", "abandoned"}]
  BY DEF NextIteration, TypeInv, TypeOK
<1>5. output' \in [Nodes -> Outputs]
  <2>1. SoFar(n).success \in BOOLEAN
    BY CurrentFacts DEF Outputs
  <2> QED
    BY <2>1 DEF NextIteration, TypeInv, TypeOK, NoStop, Outputs
<1>6. asked' \in [Nodes -> BOOLEAN]
  BY DEF NextIteration, TypeInv, TypeOK
<1>7. UNCHANGED <<kind, function, owner, state, shallow, attempt, completed,
                  abandoned, wrote, failures>>
  BY DEF NextIteration
<1> QED
  BY <1>2, <1>3, <1>4, <1>5, <1>6, <1>7 DEF TypeInv, TypeOK, KindInv, DistinctInv

\* No more branches can have ended than there are.
LEMMA NoMoreThan ==
    ASSUME NEW m \in Nat, NEW s \in Seq(Nat), \A i \in DOMAIN s : s[i] \in 1 .. m,
           \A i, j \in DOMAIN s : s[i] = s[j] => i = j
    PROVE  /\ Len(s) <= m
           /\ Len(s) = m => \A j \in 1 .. m : \E i \in DOMAIN s : s[i] = j
<1>1. Len(s) \in Nat /\ DOMAIN s = 1 .. Len(s)
  OBVIOUS
<1>2. s \in Injection(1 .. Len(s), 1 .. m)
  <2>1. s \in [1 .. Len(s) -> 1 .. m]
    BY <1>1
  <2>2. IsInjective(s)
    BY DEF IsInjective
  <2> QED
    BY <2>1, <2>2, Zenon DEF Injection
<1>3. /\ IsFiniteSet(1 .. m) /\ Cardinality(1 .. m) = m
      /\ Cardinality(1 .. Len(s)) = Len(s)
  <2>1. \A n \in Nat : IsFiniteSet(1 .. n) /\ Cardinality(1 .. n) = n
    BY FS_Interval
  <2> QED
    BY <1>1, <2>1
<1>4. /\ Cardinality(1 .. Len(s)) <= Cardinality(1 .. m)
      /\ Cardinality(1 .. Len(s)) = Cardinality(1 .. m) => s \in Surjection(1 .. Len(s), 1 .. m)
  BY <1>2, <1>3, FS_Injection
<1> QED
  BY <1>1, <1>3, <1>4 DEF Surjection

LEMMA BranchTypes ==
    ASSUME TypeInv, NEW n \in Containers, NEW b \in DOMAIN Children[n], BranchCompletes(n, b)
    PROVE  TypeInv'
<1>1. /\ n \in Nodes /\ DOMAIN Children[n] = 1 .. Len(Children[n])
      /\ Len(Children[n]) \in Nat
  BY ChildrenFacts DEF Containers
<1>2. completed' = [completed EXCEPT ![n] = Append(@, b)]
  BY DEF BranchCompletes
<1> DEFINE s == completed[n]
           t == Append(s, b)
<1>3. /\ s \in Seq(Nat) /\ b \in Nat
      /\ \A i \in DOMAIN s : s[i] \in 1 .. Len(Children[n]) /\ s[i] # b
      /\ \A i, j \in DOMAIN s : s[i] = s[j] => i = j
  BY <1>1 DEF TypeInv, TypeOK, DistinctInv, BranchCompletes
<1> HIDE DEF s
<1>4. /\ t \in Seq(Nat)
      /\ \A i \in DOMAIN t : t[i] \in 1 .. Len(Children[n])
      /\ \A i, j \in DOMAIN t : t[i] = t[j] => i = j
  <2>1. /\ Len(s) \in Nat /\ DOMAIN s = 1 .. Len(s) /\ t \in Seq(Nat)
        /\ DOMAIN t = 1 .. Len(s) + 1 /\ t[Len(s) + 1] = b
        /\ \A i \in 1 .. Len(s) : t[i] = s[i]
    BY <1>3
  <2>2. \A i \in DOMAIN t : i \in DOMAIN s \/ i = Len(s) + 1
    BY <2>1
  <2>3. \A i \in DOMAIN t : t[i] \in 1 .. Len(Children[n])
    BY <1>1, <1>3, <2>1, <2>2
  <2>4. ASSUME NEW i \in DOMAIN t, NEW j \in DOMAIN t, t[i] = t[j] PROVE i = j
    <3> HIDE DEF t
    <3> QED
      BY <1>3, <2>1, <2>2, <2>4
  <2> QED
    BY <2>1, <2>3, <2>4
<1> HIDE DEF t
<1>5. Len(t) <= Len(Children[n])
  BY <1>1, <1>4, NoMoreThan
<1>6. completed' \in [Nodes -> Seq(Nat)]
      /\ \A m \in Nodes : completed'[m] = IF m = n THEN t ELSE completed[m]
  BY <1>1, <1>2, <1>4 DEF TypeInv, s, t
<1>7. \A m \in Nodes : /\ Len(completed'[m]) <= Len(Children[m])
                       /\ \A i \in DOMAIN completed'[m] : completed'[m][i] \in DOMAIN Children[m]
  BY <1>1, <1>4, <1>5, <1>6 DEF TypeInv, TypeOK
<1>8. DistinctInv'
  BY <1>4, <1>6 DEF TypeInv, DistinctInv
<1>9. UNCHANGED <<kind, function, pc, owner, state, shallow, position, iteration,
                  attempt, output, abandoned, wrote, asked, failures>>
  BY DEF BranchCompletes
<1> QED
  BY <1>6, <1>7, <1>8, <1>9 DEF TypeInv, TypeOK, KindInv

\* The states that are merged, in whatever order.
LEMMA OrderFacts ==
    ASSUME TypeInv, NEW n \in Containers, Len(completed[n]) = Len(Children[n]),
           NEW order \in MergeOrders(n)
    PROVE  /\ DOMAIN order = 1 .. Len(Children[n])
           /\ \A i \in 1 .. Len(Children[n]) : order[i] \in 1 .. Len(Children[n])
           /\ \A i, j \in 1 .. Len(Children[n]) : order[i] = order[j] => i = j
<1>1. /\ n \in Nodes /\ DOMAIN Children[n] = 1 .. Len(Children[n])
      /\ Len(Children[n]) \in Nat
  BY ChildrenFacts DEF Containers
<1>2. CASE function = "aexecute"
  BY <1>1, <1>2 DEF MergeOrders
<1>3. CASE function = "execute"
  <2>1. order \in Permutations(Len(Children[n]))
    BY <1>3 DEF MergeOrders
  <2> QED
    BY <2>1 DEF Permutations
<1>4. CASE function \notin {"execute", "aexecute"}
  <2>1. order = completed[n]
    BY <1>4 DEF MergeOrders
  <2>2. completed[n] \in Seq(Nat)
    BY <1>1 DEF TypeInv
  <2>3. DOMAIN completed[n] = 1 .. Len(completed[n])
    BY <2>2
  <2> QED
    BY <1>1, <2>1, <2>3 DEF TypeInv, TypeOK, DistinctInv
<1> QED
  BY <1>2, <1>3, <1>4

Merged(n, order) ==
    MergeParallel(state[owner[n]], [i \in DOMAIN order |-> state[Children[n][order[i]]]])

\* What the branches bring back, and what is left of them.
LEMMA JoinFacts ==
    ASSUME TypeInv, NEW n \in Containers, Join(n)
    PROVE  \E order \in MergeOrders(n) :
               /\ Merged(n, order) \in States
               /\ \A m \in Nodes :
                      state'[m] = IF m = owner[n] THEN Merged(n, order)
                                  ELSE IF m \in ChildSet(n) THEN InitialState ELSE state[m]
               /\ state' \in [Nodes -> States]
<1>1. PICK order \in MergeOrders(n) :
          state' = [m \in Nodes |->
              IF m = owner[n]
              THEN MergeParallel(state[m],
                      [i \in DOMAIN order |-> state[Children[n][order[i]]]])
              ELSE IF m \in ChildSet(n) THEN InitialState ELSE state[m]]
  BY DEF Join
<1>2. \A m \in Nodes :
          state'[m] = IF m = owner[n] THEN Merged(n, order)
                      ELSE IF m \in ChildSet(n) THEN InitialState ELSE state[m]
  BY <1>1 DEF Merged
<1>3. Merged(n, order) \in States
  <2> DEFINE modifieds == [i \in DOMAIN order |-> state[Children[n][order[i]]]]
  <2>1. /\ n \in Nodes /\ Len(Children[n]) \in Nat
        /\ DOMAIN Children[n] = 1 .. Len(Children[n])
        /\ \A i \in DOMAIN Children[n] : Children[n][i] \in Nodes
    BY ChildrenFacts, ChildFacts DEF Containers
  <2>2. /\ DOMAIN order = 1 .. Len(Children[n])
        /\ \A i \in 1 .. Len(Children[n]) : order[i] \in 1 .. Len(Children[n])
    BY OrderFacts DEF Join
  <2>3. modifieds \in [1 .. Len(Children[n]) -> States]
    BY <2>1, <2>2 DEF TypeInv, TypeOK
  <2>4. state[owner[n]] \in States
    BY <2>1 DEF TypeInv, TypeOK
  <2> QED
    BY <2>1, <2>3, <2>4, MergeTypes DEF Merged
<1>4. state' \in [Nodes -> States]
  <2>1. \A m \in Nodes : state'[m] \in States
    BY <1>2, <1>3, StateAssumption DEF TypeInv, TypeOK
  <2> QED
    BY <1>1, <2>1
<1> QED
  BY <1>2, <1>3, <1>4

LEMMA JoinTypes ==
    ASSUME TypeInv, NEW n \in Containers, Join(n)
    PROVE  TypeInv'
<1>1. n \in Nodes
  BY DEF Containers
<1>2. state' \in [Nodes -> States]
  BY JoinFacts
<1>3. /\ completed' \in [Nodes -> Seq(Nat)]
      /\ \A m \in Nodes : completed'[m] = IF m = n THEN << >> ELSE completed[m]
  BY <1>1 DEF Join, TypeInv
<1>4. \A m \in Nodes : /\ Len(completed'[m]) <= Len(Children[m])
                       /\ \A i \in DOMAIN completed'[m] : completed'[m][i] \in DOMAIN Children[m]
  BY <1>1, <1>3, ChildrenFacts DEF TypeInv, TypeOK
<1>5. DistinctInv'
  BY <1>3 DEF TypeInv, DistinctInv
<1>6. Leave(n, "returned", AggregateResults(n)) /\ AggregateResults(n) \in Outputs
  BY DEF Join, Returns, AggregateResults, Outputs
<1>7. /\ pc' \in [Nodes -> {"idle", "running", "returned", "raised", "abandoned"}]
      /\ output' \in [Nodes -> Outputs]
  BY <1>1, <1>6, LeaveTypes
<1>8. UNCHANGED <<kind, function, owner, shallow, position, iteration, attempt,
                  abandoned, wrote, asked, failures>>
  BY DEF Join
<1> QED
  BY <1>2, <1>3, <1>4, <1>5, <1>7, <1>8 DEF TypeInv, TypeOK, KindInv

LEMMA CallTypes ==
    ASSUME TypeInv, NEW n \in Containers, CallChild(n) \/ CallBranches(n)
    PROVE  TypeInv'
<1>1. n \in Nodes /\ owner[n] \in Nodes /\ {Current(n)} \in SUBSET Nodes
      /\ ChildSet(n) \in SUBSET Nodes
  BY CurrentFacts, ChildFacts DEF TypeInv, TypeOK, Containers
<1> QED
  BY <1>1, EnterTypes DEF CallChild, CallBranches

LEMMA LeavingTypes ==
    ASSUME TypeInv, Abandon \/ Unwind
    PROVE  TypeInv'
<1>1. pc' \in [Nodes -> {"idle", "running", "returned", "raised", "abandoned"}]
  BY DEF Abandon, Unwind, TypeInv, TypeOK
<1>2. abandoned' \in BOOLEAN
  BY DEF Abandon, Unwind, TypeInv, TypeOK
<1>3. UNCHANGED <<kind, function, owner, state, shallow, position, iteration,
                  attempt, output, completed, wrote, asked, failures>>
  BY DEF Abandon, Unwind
<1> QED
  BY <1>1, <1>2, <1>3 DEF TypeInv, TypeOK, KindInv, DistinctInv

LEMMA NextTypes == TypeInv /\ [Next]_vars => TypeInv'
<1> SUFFICES ASSUME TypeInv, [Next]_vars PROVE TypeInv'
  OBVIOUS
<1>1. CASE RunWorkflow
  <2>1. Root \in Nodes
    BY TreeAssumption DEF Containers
  <2> QED
    BY <1>1, <2>1, EnterTypes DEF RunWorkflow
<1>2. CASE \E n \in Leaves : StepSucceeds(n) \/ StepRetries(n) \/ StepFails(n)
  BY <1>2, StepTypes
<1>3. ASSUME NEW n \in Containers, ContainerStep(n) PROVE TypeInv'
  BY <1>3, SequenceTypes, NextChildTypes, NextIterationTypes, CallTypes, JoinTypes,
     BranchTypes DEF ContainerStep
<1>4. CASE Unwind \/ Abandon
  BY <1>4, LeavingTypes
<1>5. CASE UNCHANGED vars
  BY <1>5 DEF vars, TypeInv, TypeOK, KindInv, DistinctInv
<1> QED
  BY <1>1, <1>2, <1>3, <1>4, <1>5 DEF Next, Progress

LEMMA TypesAlways == Spec => []TypeInv
  BY InitTypes, NextTypes, PTL DEF Spec

\* Types, and with them that the attempts of a step and the iterations of a loop
\* stay below their limits, and that no branch is joined twice.
THEOREM TypesAreCorrect == Spec => []TypeOK
<1>1. TypeInv => TypeOK
  BY DEF TypeInv
<1> QED
  BY <1>1, TypesAlways, PTL

----------------------------------------------------------------------------
(* Who calls whom.                                                         *)

\* A node is called by its parent, which waits for it, and is given its session
\* state or a copy of its own.
CallInv(n) ==
    /\ pc[n] # "idle" =>
          /\ pc[Parent(n)] \in {"running", "abandoned"}
          /\ owner[n] = IF kind[Parent(n)] = "Parallel" THEN n ELSE owner[Parent(n)]
    /\ pc[n] = "running" =>
          pc[Parent(n)] = "running" \/ (function = "aexecute_stream" /\ abandoned)
    /\ pc[n] = "abandoned" => pc[Parent(n)] = "abandoned"
    /\ pc[Parent(n)] = "running" /\ kind[Parent(n)] # "Parallel" /\ n # Current(Parent(n)) =>
          pc[n] \in {"idle", "returned"}

\* The branches in the queue of a Parallel have ended.
QueueInv(n) ==
    /\ completed[n] # << >> => kind[n] = "Parallel"
    /\ \A i \in DOMAIN completed[n] : Over(Children[n][completed[n][i]])

RootInv ==
    /\ owner[Root] = Root
    /\ abandoned => pc[Root] # "idle"
    /\ abandoned /\ pc[Root] = "running" => function = "execute_stream"
    /\ ~abandoned => \A n \in Nodes : pc[n] # "abandoned"

ControlInv ==
    /\ RootInv
    /\ \A n \in Nodes \ {Root} : CallInv(n)
    /\ \A n \in Nodes : QueueInv(n)

LEMMA RootIsANode == Root \in Nodes /\ Root \in Containers
  BY TreeAssumption DEF Containers

LEMMA NotItsOwnChild ==
    ASSUME NEW n \in Nodes
    PROVE  n \notin ChildSet(n) /\ (n # Root => Parent(n) \notin ChildSet(n))
<1>1. n \notin ChildSet(n)
  BY NotInItself, UnderFacts
<1>2. ASSUME n # Root, Parent(n) \in ChildSet(n) PROVE FALSE
  <2>1. Parent(n) \in Nodes /\ n \in ChildSet(Parent(n))
    BY <1>2, ParentFacts DEF Containers
  <2>2. Parent(n) \in Under[n] /\ n \in Under[n]
    BY <1>2, <2>1, UnderFacts
  <2> QED
    BY <2>2, NotInItself
<1> QED
  BY <1>1, <1>2

\* The children of a node that is about to end have ended.
ChildrenAreOver(n) == \A c \in ChildSet(n) : pc[c] \in {"idle", "returned", "raised"}

LEMMA ChildrenOfSequence ==
    ASSUME TypeInv, ControlInv, NEW n \in Containers, Sequential(n),
           pc[Current(n)] \in {"idle", "returned", "raised"}
    PROVE  ChildrenAreOver(n)
<1> SUFFICES ASSUME NEW c \in ChildSet(n) PROVE pc[c] \in {"idle", "returned", "raised"}
  BY DEF ChildrenAreOver
<1>1. c \in Nodes \ {Root} /\ Parent(c) = n
  BY ChildFacts DEF Containers
<1> QED
  BY <1>1 DEF ControlInv, CallInv, Sequential

LEMMA BranchesAreOver ==
    ASSUME TypeInv, ControlInv, NEW n \in Containers,
           Len(completed[n]) = Len(Children[n])
    PROVE  \A c \in ChildSet(n) : Over(c)
<1>1. /\ n \in Nodes /\ DOMAIN Children[n] = 1 .. Len(Children[n])
      /\ Len(Children[n]) \in Nat
  BY ChildrenFacts DEF Containers
<1>2. /\ completed[n] \in Seq(Nat)
      /\ \A i \in DOMAIN completed[n] : completed[n][i] \in 1 .. Len(Children[n])
      /\ \A i, j \in DOMAIN completed[n] : completed[n][i] = completed[n][j] => i = j
  BY <1>1 DEF TypeInv, TypeOK, DistinctInv
<1>3. \A j \in 1 .. Len(Children[n]) : \E i \in DOMAIN completed[n] : completed[n][i] = j
  BY <1>1, <1>2, NoMoreThan
<1> QED
  BY <1>1, <1>3 DEF ControlInv, QueueInv, ChildSet

\* A node ends.
LEMMA EndControl ==
    ASSUME TypeInv, ControlInv, NEW m \in Nodes, pc[m] = "running", ChildrenAreOver(m),
           NEW end \in {"returned", "raised"}, NEW result, Leave(m, end, result),
           UNCHANGED <<kind, function, owner, position, abandoned>>,
           \A q \in Nodes : completed'[q] \in {completed[q], << >>},
           kind[m] = "Parallel" => completed'[m] = << >>
    PROVE  ControlInv'
<1>1. \A n \in Nodes : pc'[n] = IF n = m THEN end
                                ELSE IF n \in ChildSet(m) THEN "idle" ELSE pc[n]
  BY DEF Leave
<1>2. RootInv'
  <2>1. Root \notin ChildSet(m)
    BY ChildFacts
  <2>2. pc'[Root] = "running" => pc[Root] = "running"
    BY <1>1, <2>1, RootIsANode
  <2>3. pc'[Root] = "idle" => pc[Root] = "idle"
    BY <1>1, <2>1, RootIsANode
  <2> QED
    BY <1>1, <2>2, <2>3, RootIsANode DEF ControlInv, RootInv
<1>3. ASSUME NEW n \in Nodes \ {Root} PROVE CallInv(n)'
  <2>1. Parent(n) \in Nodes /\ n \in ChildSet(Parent(n)) /\ CallInv(n)
    BY ParentFacts DEF ControlInv, Containers
  <2>2. n \in ChildSet(m) <=> Parent(n) = m
    BY <2>1, ChildFacts
  <2>3. CASE Parent(n) = m
    BY <1>1, <2>1, <2>2, <2>3, NotItsOwnChild DEF CallInv, Current
  <2>4. CASE n = m
    <3>1. pc'[Parent(n)] = pc[Parent(n)]
      BY <1>1, <2>1, <2>4, NotItsOwnChild
    <3> QED
      BY <1>1, <2>1, <2>4, <3>1 DEF CallInv, Current
  <2>5. CASE Parent(n) # m /\ n # m
    <3>1. pc'[n] = pc[n]
      BY <1>1, <2>2, <2>5
    <3>2. CASE Parent(n) \in ChildSet(m)
      <4>1. pc[n] = "idle"
        BY <2>1, <3>2 DEF ChildrenAreOver, CallInv
      <4> QED
        BY <3>1, <4>1 DEF CallInv
    <3>3. CASE Parent(n) \notin ChildSet(m)
      <4>1. pc'[Parent(n)] = pc[Parent(n)]
        BY <1>1, <2>1, <2>5, <3>3
      <4> QED
        BY <2>1, <3>1, <4>1 DEF CallInv, Current
    <3> QED
      BY <3>2, <3>3
  <2> QED
    BY <2>3, <2>4, <2>5
<1>4. ASSUME NEW q \in Nodes PROVE QueueInv(q)'
  <2>1. CASE completed'[q] = << >>
    BY <2>1 DEF QueueInv
  <2>2. CASE completed'[q] # << >>
    <3>1. completed'[q] = completed[q] /\ QueueInv(q) /\ q # m
      BY <2>2 DEF ControlInv, QueueInv
    <3>2. ASSUME NEW i \in DOMAIN completed[q]
          PROVE  pc'[Children[q][completed[q][i]]] \in {"returned", "raised"}
      <4> DEFINE c == Children[q][completed[q][i]]
      <4>1. c \in ChildSet(q) /\ Over(c)
        BY <3>1, <3>2, ChildrenFacts DEF TypeInv, TypeOK, QueueInv
      <4>2. c \in Nodes /\ c # m /\ c \notin ChildSet(m)
        BY <3>1, <4>1, ChildFacts DEF Over
      <4> QED
        BY <1>1, <4>1, <4>2 DEF Over
    <3> QED
      BY <3>1, <3>2 DEF QueueInv, Over
  <2> QED
    BY <2>1, <2>2
<1> QED
  BY <1>2, <1>3, <1>4 DEF ControlInv

\* Nodes are called by the one that waits for them.
LEMMA EnterControl ==
    ASSUME TypeInv, ControlInv, NEW m \in Containers, pc[m] = "running",
           NEW C \in SUBSET ChildSet(m), \A c \in C : pc[c] = "idle",
           kind[m] # "Parallel" => C \subseteq {Current(m)},
           Enter(C, owner[m], kind[m] = "Parallel")
    PROVE  ControlInv'
<1>1. m \in Nodes /\ m \notin C /\ Root \notin C
  BY NotItsOwnChild, ChildFacts DEF Containers
<1>2. \A n \in Nodes :
          /\ pc'[n] = IF n \in C THEN "running" ELSE pc[n]
          /\ owner'[n] = IF n \notin C THEN owner[n]
                         ELSE IF kind[m] = "Parallel" THEN n ELSE owner[m]
          /\ n \notin C => position'[n] = position[n]
  BY DEF Enter, TypeInv
<1>3. UNCHANGED <<kind, function, completed, abandoned>>
  BY DEF Enter
<1>4. RootInv'
  BY <1>1, <1>2, <1>3, RootIsANode DEF ControlInv, RootInv
<1>5. ASSUME NEW n \in Nodes \ {Root} PROVE CallInv(n)'
  <2>1. Parent(n) \in Nodes /\ n \in ChildSet(Parent(n)) /\ CallInv(n)
    BY ParentFacts DEF ControlInv, Containers
  <2>2. CASE n \in C
    <3>1. Parent(n) = m
      BY <1>1, <2>2, ChildFacts
    <3> QED
      BY <1>1, <1>2, <1>3, <2>2, <3>1 DEF CallInv, Current
  <2>3. CASE n \notin C /\ Parent(n) \in C
    BY <1>2, <1>3, <2>1, <2>3 DEF CallInv
  <2>4. CASE n \notin C /\ Parent(n) \notin C
    BY <1>2, <1>3, <2>1, <2>4 DEF CallInv, Current
  <2> QED
    BY <2>2, <2>3, <2>4
<1>6. ASSUME NEW q \in Nodes PROVE QueueInv(q)'
  <2>1. QueueInv(q)
    BY DEF ControlInv
  <2>2. ASSUME NEW i \in DOMAIN completed[q]
        PROVE  pc'[Children[q][completed[q][i]]] \in {"returned", "raised"}
    <3> DEFINE c == Children[q][completed[q][i]]
    <3>1. c \in Nodes /\ Over(c)
      BY <2>1, <2>2, ChildrenFacts, ChildFacts DEF TypeInv, TypeOK, QueueInv
    <3> QED
      BY <1>2, <3>1 DEF Over
  <2> QED
    BY <1>3, <2>1, <2>2 DEF QueueInv, Over
<1> QED
  BY <1>4, <1>5, <1>6 DEF ControlInv

LEMMA ContainerEnds ==
    ASSUME TypeInv, ControlInv, NEW n \in Containers,
           \/ NothingSelected(n) \/ SelectorRaises(n) \/ ChildRaised(n)
           \/ SequenceEnds(n) \/ IterationEnds(n)
    PROVE  pc[n] = "running" /\ kind[n] # "Parallel" /\ ChildrenAreOver(n)
<1>1. Sequential(n)
  BY DEF NothingSelected, SelectorRaises, ChildRaised, SequenceEnds, IterationEnds, IsAsked
<1>2. pc[Current(n)] \in {"idle", "returned", "raised"}
  BY DEF NothingSelected, SelectorRaises, ChildRaised, SequenceEnds, IterationEnds, IsAsked
<1> QED
  BY <1>1, <1>2, ChildrenOfSequence DEF Sequential

LEMMA JoinEnds ==
    ASSUME TypeInv, ControlInv, NEW n \in Containers, Join(n)
    PROVE  pc[n] = "running" /\ kind[n] = "Parallel" /\ ChildrenAreOver(n)
  BY BranchesAreOver DEF Join, IsParallel, Over, ChildrenAreOver

LEMMA StepControl ==
    ASSUME TypeInv, ControlInv, NEW n \in Leaves,
           StepSucceeds(n) \/ StepRetries(n) \/ StepFails(n)
    PROVE  ControlInv'
<1>1. n \in Nodes /\ ChildrenAreOver(n)
  BY ChildrenFacts DEF Leaves, ChildrenAreOver
<1>2. kind[n] # "Parallel"
  BY <1>1 DEF TypeInv, KindInv
<1>3. CASE StepRetries(n)
  BY <1>3 DEF StepRetries, ControlInv, RootInv, CallInv, QueueInv, Over, Current
<1>4. CASE StepSucceeds(n) \/ StepFails(n)
  <2>1. \E end \in {"returned", "raised"} : \E result : Leave(n, end, result)
    BY <1>4 DEF StepSucceeds, StepFails, Returns, Raises
  <2>2. /\ pc[n] = "running"
        /\ UNCHANGED <<kind, function, owner, position, completed, abandoned>>
    BY <1>4 DEF StepSucceeds, StepFails
  <2> QED
    BY <1>1, <1>2, <2>1, <2>2, EndControl
<1> QED
  BY <1>3, <1>4

LEMMA SequenceControl ==
    ASSUME TypeInv, ControlInv, NEW n \in Containers,
           \/ NothingSelected(n) \/ SelectorRaises(n) \/ ChildRaised(n)
           \/ SequenceEnds(n) \/ IterationEnds(n)
    PROVE  ControlInv'
<1>1. n \in Nodes /\ pc[n] = "running" /\ kind[n] # "Parallel" /\ ChildrenAreOver(n)
  BY ContainerEnds DEF Containers
<1>2. \E end \in {"returned", "raised"}, result \in Outputs : Leave(n, end, result)
  BY EndsWith
<1>3. UNCHANGED <<kind, function, owner, position, completed, abandoned>>
  BY DEF NothingSelected, SelectorRaises, ChildRaised, SequenceEnds, IterationEnds
<1> QED
  BY <1>1, <1>2, <1>3, EndControl

LEMMA JoinControl ==
    ASSUME TypeInv, ControlInv, NEW n \in Containers, Join(n)
    PROVE  ControlInv'
<1>1. n \in Nodes /\ pc[n] = "running" /\ ChildrenAreOver(n)
  BY JoinEnds DEF Containers
<1>2. Leave(n, "returned", AggregateResults(n))
  BY DEF Join, Returns
<1>3. \A q \in Nodes : completed'[q] = IF q = n THEN << >> ELSE completed[q]
  BY DEF Join, TypeInv
<1>4. UNCHANGED <<kind, function, owner, position, abandoned>>
  BY DEF Join
<1> QED
  BY <1>1, <1>2, <1>3, <1>4, EndControl

LEMMA CallControl ==
    ASSUME TypeInv, ControlInv, NEW n \in Containers, CallChild(n) \/ CallBranches(n)
    PROVE  ControlInv'
<1>1. CASE CallChild(n)
  <2>1. /\ pc[n] = "running" /\ kind[n] # "Parallel" /\ pc[Current(n)] = "idle"
        /\ Enter({Current(n)}, owner[n], kind[n] = "Parallel")
    BY <1>1 DEF CallChild, Sequential
  <2>2. {Current(n)} \in SUBSET ChildSet(n)
    BY CurrentFacts
  <2> QED
    BY <2>1, <2>2, EnterControl
<1>2. CASE CallBranches(n)
  BY <1>2, EnterControl DEF CallBranches, IsParallel
<1> QED
  BY <1>1, <1>2

LEMMA NextChildControl ==
    ASSUME TypeInv, ControlInv, NEW n \in Containers, NextChild(n)
    PROVE  ControlInv'
<1>1. /\ n \in Nodes /\ pc[n] = "running" /\ pc[Current(n)] = "returned"
      /\ UNCHANGED <<kind, function, pc, owner, completed, abandoned>>
      /\ \A m \in Nodes : m # n => position'[m] = position[m]
  BY DEF NextChild, Sequential, Containers, TypeInv
<1>2. ASSUME NEW m \in Nodes \ {Root} PROVE CallInv(m)'
  <2>1. CallInv(m) /\ Parent(m) \in Nodes
    BY ParentFacts DEF ControlInv, Containers
  <2>2. CASE Parent(m) = n
    BY <1>1, <2>1, <2>2 DEF CallInv
  <2>3. CASE Parent(m) # n
    BY <1>1, <2>1, <2>3 DEF CallInv, Current
  <2> QED
    BY <2>2, <2>3
<1> QED
  BY <1>1, <1>2 DEF ControlInv, RootInv, QueueInv, Over

LEMMA NextIterationControl ==
    ASSUME TypeInv, ControlInv, NEW n \in Containers, NextIteration(n)
    PROVE  ControlInv'
<1>1. /\ n \in Nodes /\ pc[n] = "running" /\ kind[n] = "Loop"
      /\ \A m \in Nodes : /\ pc'[m] = IF m \in ChildSet(n) THEN "idle" ELSE pc[m]
                          /\ m # n => position'[m] = position[m]
      /\ UNCHANGED <<kind, function, owner, completed, abandoned>>
  BY DEF NextIteration, Sequential, Containers, TypeInv
<1>2. ChildrenAreOver(n)
  BY ChildrenOfSequence DEF NextIteration
<1>3. Root \notin ChildSet(n) /\ n \notin ChildSet(n)
  BY <1>1, ChildFacts, NotItsOwnChild
<1>4. ASSUME NEW m \in Nodes \ {Root} PROVE CallInv(m)'
  <2>1. CallInv(m) /\ Parent(m) \in Nodes /\ m \in ChildSet(Parent(m))
    BY ParentFacts DEF ControlInv, Containers
  <2>2. m \in ChildSet(n) <=> Parent(m) = n
    BY <1>1, <2>1, ChildFacts
  <2>3. CASE Parent(m) = n
    BY <1>1, <2>2, <2>3 DEF CallInv
  <2>4. CASE Parent(m) # n /\ Parent(m) \in ChildSet(n)
    <3>1. pc[m] = "idle"
      BY <1>2, <2>1, <2>4 DEF CallInv, ChildrenAreOver
    <3> QED
      BY <1>1, <2>1, <2>2, <2>4, <3>1 DEF CallInv
  <2>5. CASE Parent(m) # n /\ Parent(m) \notin ChildSet(n)
    BY <1>1, <2>1, <2>2, <2>5 DEF CallInv, Current
  <2> QED
    BY <2>3, <2>4, <2>5
<1>5. ASSUME NEW q \in Nodes PROVE QueueInv(q)'
  <2>1. QueueInv(q)
    BY DEF ControlInv
  <2>2. ASSUME NEW i \in DOMAIN completed[q]
        PROVE  pc'[Children[q][completed[q][i]]] \in {"returned", "raised"}
    <3> DEFINE c == Children[q][completed[q][i]]
    <3>1. c \in ChildSet(q) /\ Over(c)
      BY <2>1, <2>2, ChildrenFacts DEF TypeInv, TypeOK, QueueInv
    <3>2. c \in Nodes /\ c \notin ChildSet(n)
      <4>1. kind[q] = "Parallel"
        BY <2>1, <2>2, ChildrenFacts DEF QueueInv, TypeInv
      <4> QED
        BY <1>1, <3>1, <4>1, ChildFacts
    <3> QED
      BY <1>1, <3>1, <3>2 DEF Over
  <2> QED
    BY <1>1, <2>1, <2>2 DEF QueueInv, Over
<1>6. RootInv'
  BY <1>1, <1>3, RootIsANode DEF ControlInv, RootInv
<1> QED
  BY <1>4, <1>5, <1>6 DEF ControlInv

LEMMA BranchControl ==
    ASSUME TypeInv, ControlInv, NEW n \in Containers, NEW b \in DOMAIN Children[n],
           BranchCompletes(n, b)
    PROVE  ControlInv'
<1>1. /\ n \in Nodes /\ kind[n] = "Parallel" /\ Over(Children[n][b])
      /\ completed[n] \in Seq(Nat) /\ b \in Nat
      /\ \A q \in Nodes : completed'[q] = IF q = n THEN Append(completed[n], b)
                                          ELSE completed[q]
      /\ UNCHANGED <<kind, function, pc, owner, position, abandoned>>
  BY ChildrenFacts DEF BranchCompletes, IsParallel, Containers, TypeInv
<1>2. ASSUME NEW q \in Nodes PROVE QueueInv(q)'
  <2>1. QueueInv(q)
    BY DEF ControlInv
  <2>2. CASE q = n
    <3>1. ASSUME NEW i \in DOMAIN completed'[n]
          PROVE  Over(Children[n][completed'[n][i]])
      <4>1. completed'[n] = Append(completed[n], b)
        BY <1>1
      <4>2. \/ i \in DOMAIN completed[n] /\ completed'[n][i] = completed[n][i]
            \/ completed'[n][i] = b
        BY <1>1, <3>1, <4>1
      <4> QED
        BY <1>1, <2>1, <2>2, <4>2 DEF QueueInv
    <3> QED
      BY <1>1, <2>2, <3>1 DEF QueueInv, Over
  <2>3. CASE q # n
    BY <1>1, <2>1, <2>3 DEF QueueInv, Over
  <2> QED
    BY <2>2, <2>3
<1> QED
  BY <1>1, <1>2 DEF ControlInv, RootInv, CallInv, Current

\* If no branch of a Parallel of the consumer's is at work, whoever is works for
\* the consumer directly.
LEMMA NoneInBranches ==
    ASSUME TypeInv, ControlInv, ~(function = "aexecute_stream" /\ abandoned),
           \A n \in Nodes : IsParallel(n) /\ owner[n] = Root =>
               \A c \in ChildSet(n) : pc[c] # "running"
    PROVE  \A n \in Nodes : pc[n] = "running" => owner[n] = Root
<1> DEFINE S == {n \in Nodes : pc[n] = "running" /\ owner[n] # Root}
<1>1. ASSUME S # {} PROVE FALSE
  <2>1. PICK n \in S : n # Root => Parent(n) \notin S
    BY <1>1, HasTop
  <2>2. n \in Nodes \ {Root}
    BY DEF ControlInv, RootInv
  <2>3. Parent(n) \in Containers /\ n \in ChildSet(Parent(n)) /\ CallInv(n)
    BY <2>2, ParentFacts DEF ControlInv
  <2>4. pc[Parent(n)] = "running" /\ owner[Parent(n)] = Root
    BY <2>1, <2>2, <2>3 DEF CallInv, Containers
  <2>5. kind[Parent(n)] = "Parallel"
    BY <2>3, <2>4 DEF CallInv
  <2> QED
    BY <2>3, <2>4, <2>5 DEF IsParallel, Containers
<1> QED
  BY <1>1

\* A run is left: at once, or when the threads have ended.
LEMMA LeavingControl ==
    ASSUME TypeInv, ControlInv, Abandon \/ Unwind
    PROVE  ControlInv'
<1>1. /\ abandoned' /\ pc[Root] = "running"
      /\ UNCHANGED <<kind, function, owner, position, completed>>
  BY DEF Abandon, Unwind
<1>2. CASE Abandon /\ MustWait
  <2>1. pc' = pc /\ function = "execute_stream"
    BY <1>2 DEF Abandon, MustWait
  <2> QED
    BY <1>1, <2>1 DEF ControlInv, RootInv, CallInv, QueueInv, Over, Current
<1>3. CASE ~(Abandon /\ MustWait)
  <2>1. /\ \A n \in Nodes : pc'[n] = IF n \in LeftAtOnce THEN "abandoned" ELSE pc[n]
        /\ ~(function = "aexecute_stream" /\ abandoned)
    BY <1>3 DEF Abandon, Unwind, ControlInv, RootInv
  <2>2. \A n \in Nodes : n \in LeftAtOnce => pc[n] = "running"
    BY DEF LeftAtOnce
  <2>3. ASSUME function # "aexecute_stream", NEW n \in Nodes, pc[n] = "running"
        PROVE  n \in LeftAtOnce
    <3>1. CASE function = "aexecute"
      BY <2>3, <3>1 DEF LeftAtOnce
    <3>2. CASE function # "aexecute"
      <4>1. function = "execute_stream"
        BY <1>1, <2>3, <3>2 DEF Abandon, Unwind, ControlInv, RootInv, TypeInv, TypeOK, AllFunctions
      <4>2. \A q \in Nodes : IsParallel(q) /\ owner[q] = Root =>
                \A c \in ChildSet(q) : pc[c] # "running"
        BY <1>3, <4>1 DEF Abandon, Unwind, MustWait, Over
      <4>3. owner[n] = Root
        BY <2>1, <2>3, <4>2, NoneInBranches
      <4> QED
        BY <2>3, <4>3 DEF LeftAtOnce
    <3> QED
      BY <3>1, <3>2
  <2>4. ASSUME NEW n \in Nodes \ {Root} PROVE CallInv(n)'
    <3>1. CallInv(n) /\ Parent(n) \in Nodes
      BY ParentFacts DEF ControlInv, Containers
    <3>2. n \in LeftAtOnce => Parent(n) \in LeftAtOnce
      <4> SUFFICES ASSUME n \in LeftAtOnce PROVE Parent(n) \in LeftAtOnce
        OBVIOUS
      <4>1. pc[n] = "running" /\ pc[Parent(n)] = "running"
        BY <2>1, <2>2, <3>1 DEF CallInv
      <4>2. CASE function = "aexecute"
        BY <3>1, <4>1, <4>2 DEF LeftAtOnce
      <4>3. CASE function # "aexecute"
        <5>1. owner[n] = Root
          BY <4>3 DEF LeftAtOnce
        <5>2. owner[Parent(n)] = Root
          BY <3>1, <4>1, <5>1 DEF CallInv
        <5> QED
          BY <3>1, <4>1, <5>2 DEF LeftAtOnce
      <4> QED
        BY <4>2, <4>3
    <3>3. pc'[n] = "running" => function = "aexecute_stream"
      BY <2>1, <2>3
    <3> QED
      BY <1>1, <2>1, <2>2, <3>1, <3>2, <3>3 DEF CallInv, Current
  <2>5. \A q \in Nodes : QueueInv(q)'
    <3> SUFFICES ASSUME NEW q \in Nodes, NEW i \in DOMAIN completed[q]
                 PROVE  pc'[Children[q][completed[q][i]]] \in {"returned", "raised"}
      BY <1>1 DEF ControlInv, QueueInv, Over
    <3> DEFINE c == Children[q][completed[q][i]]
    <3>1. c \in Nodes /\ Over(c)
      BY ChildrenFacts, ChildFacts DEF TypeInv, TypeOK, ControlInv, QueueInv
    <3> QED
      BY <2>1, <2>2, <3>1 DEF Over
  <2>6. RootInv'
    <3>1. Root \in LeftAtOnce
      BY <1>1, RootIsANode DEF LeftAtOnce
    <3> QED
      BY <1>1, <2>1, <3>1, RootIsANode DEF ControlInv, RootInv
  <2> QED
    BY <2>4, <2>5, <2>6 DEF ControlInv
<1> QED
  BY <1>2, <1>3

LEMMA RunControl ==
    ASSUME TypeInv, ControlInv, RunWorkflow
    PROVE  ControlInv'
<1>1. \A n \in Nodes :
          /\ pc'[n] = IF n = Root THEN "running" ELSE pc[n]
          /\ owner'[n] = IF n = Root THEN Root ELSE owner[n]
          /\ n # Root => position'[n] = position[n]
  BY DEF RunWorkflow, Enter
<1>2. /\ pc[Root] = "idle" /\ UNCHANGED <<kind, function, completed, abandoned>>
  BY DEF RunWorkflow, Enter
<1>3. ASSUME NEW n \in Nodes \ {Root} PROVE CallInv(n)'
  <2>1. CallInv(n) /\ Parent(n) \in Nodes
    BY ParentFacts DEF ControlInv, Containers
  <2> QED
    BY <1>1, <1>2, <2>1 DEF CallInv, Current
<1>4. ASSUME NEW q \in Nodes PROVE QueueInv(q)'
  <2>1. QueueInv(q)
    BY DEF ControlInv
  <2>2. ASSUME NEW i \in DOMAIN completed[q]
        PROVE  pc'[Children[q][completed[q][i]]] \in {"returned", "raised"}
    <3> DEFINE c == Children[q][completed[q][i]]
    <3>1. c \in Nodes /\ Over(c)
      BY <2>1, <2>2, ChildrenFacts, ChildFacts DEF TypeInv, TypeOK, QueueInv
    <3> QED
      BY <1>1, <1>2, <3>1 DEF Over
  <2> QED
    BY <1>2, <2>1, <2>2 DEF QueueInv, Over
<1>5. RootInv'
  BY <1>1, <1>2, RootIsANode DEF ControlInv, RootInv
<1> QED
  BY <1>3, <1>4, <1>5 DEF ControlInv

LEMMA ControlAlways == Spec => [](TypeInv /\ ControlInv)
<1>1. Init => ControlInv
  <2> SUFFICES ASSUME Init PROVE ControlInv
    OBVIOUS
  <2>1. \A n \in Nodes : pc[n] = "idle" /\ completed[n] = << >> /\ owner[n] = Root
    BY DEF Init
  <2>2. ~abandoned
    BY DEF Init
  <2>3. \A n \in Nodes \ {Root} : CallInv(n)
    <3> SUFFICES ASSUME NEW n \in Nodes \ {Root} PROVE CallInv(n)
      OBVIOUS
    <3>1. Parent(n) \in Nodes
      BY ParentFacts DEF Containers
    <3> QED
      BY <2>1, <3>1 DEF CallInv
  <2> QED
    BY <2>1, <2>2, <2>3, RootIsANode DEF ControlInv, RootInv, QueueInv
<1>2. TypeInv /\ ControlInv /\ [Next]_vars => ControlInv'
  <2> SUFFICES ASSUME TypeInv, ControlInv, [Next]_vars PROVE ControlInv'
    OBVIOUS
  <2>1. CASE RunWorkflow
    BY <2>1, RunControl
  <2>2. CASE \E n \in Leaves : StepSucceeds(n) \/ StepRetries(n) \/ StepFails(n)
    BY <2>2, StepControl
  <2>3. ASSUME NEW n \in Containers, ContainerStep(n) PROVE ControlInv'
    BY <2>3, SequenceControl, NextChildControl, NextIterationControl, CallControl,
       JoinControl, BranchControl DEF ContainerStep
  <2>4. CASE Unwind \/ Abandon
    BY <2>4, LeavingControl
  <2>5. CASE UNCHANGED vars
    BY <2>5 DEF vars, ControlInv, RootInv, CallInv, QueueInv, Over, Current
  <2> QED
    BY <2>1, <2>2, <2>3, <2>4, <2>5 DEF Next, Progress
<1> QED
  BY <1>1, <1>2, InitTypes, NextTypes, PTL DEF Spec

\* No step runs after the container that called it has ended, in any tree and
\* however the run is left; only the tasks of Parallel.aexecute_stream do.
THEOREM NobodyIsOrphaned == Spec => []NoOrphanStep
<1>1. ControlInv => NoOrphanStep
  BY DEF ControlInv, CallInv, NoOrphanStep
<1> QED
  BY <1>1, ControlAlways, PTL

----------------------------------------------------------------------------
(* What the outputs of the nodes say.                                      *)

IdleInv(n) ==
    /\ pc[n] = "idle" => output[n] = NoStop
    /\ pc[n] = "raised" => ~output[n].success
    /\ pc[n] = "running" /\ kind[n] \in {"Step", "Parallel"} => output[n] = NoStop

\* A container that may still select nothing has nothing to report.
FreshInv(n) ==
    pc[n] = "running" /\ kind[n] \in {"Condition", "Router"} /\ position[n] = 1 =>
        /\ output[n] = NoStop
        /\ \A c \in ChildSet(n) : c # Current(n) => pc[c] = "idle"

\* The children behind the current one have not asked to stop, and their failures
\* have been noted.
RestInv(n) ==
    pc[Parent(n)] = "running" /\ kind[Parent(n)] # "Parallel" /\ n # Current(Parent(n)) =>
        ~output[n].stop /\ (output[n].success \/ ~output[Parent(n)].success)

OutputInv ==
    /\ \A n \in Nodes : IdleInv(n) /\ FreshInv(n)
    /\ \A n \in Nodes \ {Root} : RestInv(n)

\* What is inside of a node that does not run is idle.
LEMMA QuietBelow ==
    ASSUME ControlInv, NEW n \in Nodes, pc[n] \in {"idle", "returned", "raised"}
    PROVE  \A m \in Under[n] : pc[m] = "idle"
<1> DEFINE S == {m \in Nodes : pc[m] = "idle"}
<1>1. ASSUME NEW p \in Nodes, pc[p] \in {"idle", "returned", "raised"} PROVE ChildSet(p) \subseteq S
  <2> SUFFICES ASSUME NEW c \in ChildSet(p) PROVE c \in S
    OBVIOUS
  <2>1. c \in Nodes \ {Root} /\ Parent(c) = p
    BY <1>1, ChildFacts
  <2> QED
    BY <1>1, <2>1 DEF ControlInv, CallInv
<1>2. \A p \in S : ChildSet(p) \subseteq S
  BY <1>1
<1>3. Under[n] \subseteq S
  BY <1>1, <1>2, UnderLeast
<1> QED
  BY <1>3

LEMMA EndOutput ==
    ASSUME TypeInv, ControlInv, OutputInv, NEW m \in Nodes, pc[m] = "running",
           ChildrenAreOver(m), NEW end \in {"returned", "raised"}, NEW result,
           Leave(m, end, result), end = "raised" => ~result.success,
           UNCHANGED <<kind, position>>
    PROVE  OutputInv'
<1>1. \A n \in Nodes :
          /\ pc'[n] = IF n = m THEN end ELSE IF n \in ChildSet(m) THEN "idle" ELSE pc[n]
          /\ output'[n] = IF n = m THEN result
                          ELSE IF n \in ChildSet(m) THEN NoStop ELSE output[n]
  BY DEF Leave
<1>2. m \notin ChildSet(m)
  BY NotItsOwnChild
<1>3. ASSUME NEW n \in Nodes PROVE IdleInv(n)' /\ FreshInv(n)'
  <2>1. IdleInv(n) /\ FreshInv(n)
    BY DEF OutputInv
  <2>2. CASE n = m
    BY <1>1, <2>2 DEF IdleInv, FreshInv
  <2>3. CASE n \in ChildSet(m)
    BY <1>1, <1>2, <2>3 DEF IdleInv, FreshInv
  <2>4. CASE n # m /\ n \notin ChildSet(m)
    <3>1. pc'[n] = pc[n] /\ output'[n] = output[n]
      BY <1>1, <2>4
    <3>2. IdleInv(n)'
      BY <2>1, <3>1 DEF IdleInv
    <3>3. ASSUME pc[n] = "running", kind[n] \in {"Condition", "Router"}, position[n] = 1,
                 NEW c \in ChildSet(n), c # Current(n)
          PROVE  pc'[c] = "idle"
      <4>1. pc[c] = "idle" /\ c \in Nodes
        BY <2>1, <3>3, ChildFacts DEF FreshInv
      <4> QED
        BY <1>1, <4>1
    <3> QED
      BY <2>1, <3>1, <3>2, <3>3 DEF FreshInv, Current
  <2> QED
    BY <2>2, <2>3, <2>4
<1>4. ASSUME NEW n \in Nodes \ {Root} PROVE RestInv(n)'
  <2>1. Parent(n) \in Nodes /\ n \in ChildSet(Parent(n)) /\ CallInv(n) /\ RestInv(n)
    BY ParentFacts DEF ControlInv, OutputInv, Containers
  <2>2. n \in ChildSet(m) <=> Parent(n) = m
    BY <2>1, ChildFacts
  <2>3. CASE Parent(n) = m \/ Parent(n) \in ChildSet(m)
    BY <1>1, <1>2, <2>1, <2>3 DEF RestInv
  <2>4. CASE n = m
    <3>1. pc'[Parent(n)] = pc[Parent(n)]
      BY <1>1, <2>1, <2>4, NotItsOwnChild
    <3> QED
      BY <2>1, <2>4, <3>1 DEF CallInv, RestInv, Current
  <2>5. CASE Parent(n) # m /\ Parent(n) \notin ChildSet(m) /\ n # m
    BY <1>1, <2>1, <2>2, <2>5 DEF RestInv, Current
  <2> QED
    BY <2>3, <2>4, <2>5
<1> QED
  BY <1>3, <1>4 DEF OutputInv

LEMMA EnterOutput ==
    ASSUME TypeInv, ControlInv, OutputInv, NEW m \in Containers, pc[m] = "running",
           NEW C \in SUBSET ChildSet(m), \A c \in C : pc[c] = "idle",
           kind[m] # "Parallel" => C \subseteq {Current(m)},
           Enter(C, owner[m], kind[m] = "Parallel")
    PROVE  OutputInv'
<1>1. m \in Nodes /\ m \notin C
  BY NotItsOwnChild DEF Containers
<1>2. \A n \in Nodes :
          /\ pc'[n] = IF n \in C THEN "running" ELSE pc[n]
          /\ output'[n] = output[n]
          /\ n \notin C => position'[n] = position[n]
  <2>1. \A c \in C : output[c] = NoStop
    BY ChildFacts DEF OutputInv, IdleInv, Containers
  <2> QED
    BY <2>1 DEF Enter, TypeInv
<1>3. UNCHANGED kind
  BY DEF Enter
<1>4. ASSUME NEW n \in Nodes PROVE IdleInv(n)' /\ FreshInv(n)'
  <2>1. IdleInv(n) /\ FreshInv(n)
    BY DEF OutputInv
  <2>2. CASE n \in C
    <3>1. output[n] = NoStop
      BY <2>1, <2>2 DEF IdleInv
    <3>2. \A c \in ChildSet(n) : pc'[c] = "idle"
      <4> SUFFICES ASSUME NEW c \in ChildSet(n) PROVE pc'[c] = "idle"
        OBVIOUS
      <4>1. c \in Nodes \ {Root} /\ Parent(c) = n /\ pc[n] = "idle" /\ n # m
        BY <1>1, <2>2, ChildFacts
      <4>2. c \notin C
        BY <1>1, <4>1, ChildFacts
      <4> QED
        BY <1>2, <4>1, <4>2 DEF ControlInv, CallInv
    <3> QED
      BY <1>2, <1>3, <2>2, <3>1, <3>2 DEF IdleInv, FreshInv, NoStop
  <2>3. CASE n \notin C
    <3>1. pc'[n] = pc[n] /\ output'[n] = output[n] /\ position'[n] = position[n]
      BY <1>2, <2>3
    <3>2. ASSUME kind[n] \in {"Condition", "Router"}, NEW c \in ChildSet(n),
                 c # Current(n), pc[c] = "idle"
          PROVE  pc'[c] = "idle"
      <4>1. c \in Nodes /\ Parent(c) = n
        BY <3>2, ChildFacts
      <4>2. c \notin C
        BY <1>1, <3>2, <4>1, ChildFacts
      <4> QED
        BY <1>2, <3>2, <4>1, <4>2
    <3> QED
      BY <1>3, <2>1, <3>1, <3>2 DEF IdleInv, FreshInv, Current
  <2> QED
    BY <2>2, <2>3
<1>5. ASSUME NEW n \in Nodes \ {Root} PROVE RestInv(n)'
  <2>1. Parent(n) \in Nodes /\ n \in ChildSet(Parent(n)) /\ CallInv(n) /\ RestInv(n)
    BY ParentFacts DEF ControlInv, OutputInv, Containers
  <2>2. CASE Parent(n) \in C
    <3>1. output[n] = NoStop
      BY <2>1, <2>2 DEF CallInv, OutputInv, IdleInv
    <3> QED
      BY <1>2, <3>1 DEF RestInv, NoStop
  <2>3. CASE Parent(n) \notin C
    BY <1>2, <1>3, <2>1, <2>3 DEF RestInv, Current
  <2> QED
    BY <2>2, <2>3
<1> QED
  BY <1>4, <1>5 DEF OutputInv

LEMMA NextChildOutput ==
    ASSUME TypeInv, ControlInv, OutputInv, NEW n \in Containers, NextChild(n)
    PROVE  OutputInv'
<1>1. /\ n \in Nodes /\ pc[n] = "running" /\ kind[n] # "Parallel" /\ kind[n] # "Step"
      /\ UNCHANGED <<kind, pc>>
      /\ \A m \in Nodes : m # n => position'[m] = position[m] /\ output'[m] = output[m]
      /\ output'[n].success = (output[n].success /\ output[Current(n)].success)
      /\ ~output[Current(n)].stop
  <2>1. output' = [output EXCEPT ![n].success = SoFar(n).success]
    BY DEF NextChild
  <2>2. output[n] \in Outputs /\ n \in Nodes
    BY CurrentFacts
  <2>3. output'[n].success = (output[n].success /\ output[Current(n)].success)
    BY <2>1, <2>2 DEF TypeInv, TypeOK, Outputs, SoFar
  <2> QED
    BY <2>1, <2>2, <2>3 DEF NextChild, Sequential, GoesOn, TypeInv, TypeOK, KindInv, Containers
<1>2. position'[n] # 1
  <2>1. position[n] \in DOMAIN Children[n] /\ DOMAIN Children[n] = 1 .. Len(Children[n])
    BY <1>1, ChildrenFacts DEF TypeInv, TypeOK
  <2> QED
    BY <2>1, NextChildTypes
<1>3. ASSUME NEW m \in Nodes PROVE IdleInv(m)' /\ FreshInv(m)'
  <2>1. IdleInv(m) /\ FreshInv(m)
    BY DEF OutputInv
  <2>2. CASE m = n
    BY <1>1, <1>2, <2>2 DEF IdleInv, FreshInv
  <2>3. CASE m # n
    BY <1>1, <2>1, <2>3 DEF IdleInv, FreshInv, Current
  <2> QED
    BY <2>2, <2>3
<1>4. ASSUME NEW m \in Nodes \ {Root} PROVE RestInv(m)'
  <2>1. Parent(m) \in Nodes /\ m \in ChildSet(Parent(m)) /\ CallInv(m) /\ RestInv(m)
    BY ParentFacts DEF ControlInv, OutputInv, Containers
  <2>2. CASE m = n
    <3>1. Parent(m) # n
      BY <2>1, <2>2, NotItsOwnChild
    <3> QED
      BY <1>1, <2>1, <2>2, <3>1 DEF CallInv, RestInv, Current
  <2>3. CASE m # n /\ Parent(m) = n
    BY <1>1, <2>1, <2>3 DEF RestInv
  <2>4. CASE m # n /\ Parent(m) # n
    BY <1>1, <2>1, <2>4 DEF RestInv, Current
  <2> QED
    BY <2>2, <2>3, <2>4
<1> QED
  BY <1>3, <1>4 DEF OutputInv

LEMMA NextIterationOutput ==
    ASSUME TypeInv, ControlInv, OutputInv, NEW n \in Containers, NextIteration(n)
    PROVE  OutputInv'
<1>1. /\ n \in Nodes /\ pc[n] = "running" /\ kind[n] = "Loop" /\ UNCHANGED kind
      /\ \A m \in Nodes : /\ pc'[m] = IF m \in ChildSet(n) THEN "idle" ELSE pc[m]
                          /\ m # n => position'[m] = position[m]
                          /\ m # n => output'[m] = IF m \in ChildSet(n) THEN NoStop
                                                   ELSE output[m]
  BY DEF NextIteration, Sequential, Containers, TypeInv
<1>2. ChildrenAreOver(n)
  BY ChildrenOfSequence DEF NextIteration
<1>3. n \notin ChildSet(n)
  BY <1>1, NotItsOwnChild
<1>4. ASSUME NEW m \in Nodes PROVE IdleInv(m)' /\ FreshInv(m)'
  <2>1. IdleInv(m) /\ FreshInv(m)
    BY DEF OutputInv
  <2>2. CASE m = n
    BY <1>1, <1>3, <2>2 DEF IdleInv, FreshInv
  <2>3. CASE m \in ChildSet(n)
    BY <1>1, <1>3, <2>3 DEF IdleInv, FreshInv
  <2>4. CASE m # n /\ m \notin ChildSet(n)
    <3>1. \A c \in ChildSet(m) : c \in Nodes /\ (pc[c] = "idle" => pc'[c] = "idle")
      BY <1>1, ChildFacts
    <3> QED
      BY <1>1, <2>1, <2>4, <3>1 DEF IdleInv, FreshInv, Current
  <2> QED
    BY <2>2, <2>3, <2>4
<1>5. ASSUME NEW m \in Nodes \ {Root} PROVE RestInv(m)'
  <2>1. Parent(m) \in Nodes /\ m \in ChildSet(Parent(m)) /\ CallInv(m) /\ RestInv(m)
    BY ParentFacts DEF ControlInv, OutputInv, Containers
  <2>2. m \in ChildSet(n) <=> Parent(m) = n
    BY <1>1, <2>1, ChildFacts
  <2>3. CASE Parent(m) = n
    BY <1>1, <1>3, <2>2, <2>3 DEF RestInv, NoStop
  <2>4. CASE Parent(m) \in ChildSet(n)
    BY <1>1, <2>1, <2>4 DEF RestInv
  <2>5. CASE m = n
    <3>1. Parent(m) # n /\ Parent(m) \notin ChildSet(n)
      BY <2>1, <2>5, NotItsOwnChild
    <3> QED
      BY <1>1, <2>1, <2>5, <3>1 DEF CallInv, RestInv, Current
  <2>6. CASE Parent(m) # n /\ Parent(m) \notin ChildSet(n) /\ m # n
    BY <1>1, <2>1, <2>2, <2>6 DEF RestInv, Current
  <2> QED
    BY <2>3, <2>4, <2>5, <2>6
<1> QED
  BY <1>4, <1>5 DEF OutputInv

LEMMA NextOutput == TypeInv /\ ControlInv /\ OutputInv /\ [Next]_vars => OutputInv'
<1> SUFFICES ASSUME TypeInv, ControlInv, OutputInv, [Next]_vars PROVE OutputInv'
  OBVIOUS
<1>1. CASE RunWorkflow
  <2>1. /\ UNCHANGED kind
        /\ \A n \in Nodes : /\ pc'[n] = IF n = Root THEN "running" ELSE pc[n]
                            /\ output'[n] = output[n]
                            /\ n # Root => position'[n] = position[n]
    BY <1>1, RootIsANode DEF RunWorkflow, Enter, OutputInv, IdleInv
  <2>2. pc[Root] = "idle" /\ output[Root] = NoStop
    BY <1>1, RootIsANode DEF RunWorkflow, OutputInv, IdleInv
  <2>3. ASSUME NEW n \in Nodes PROVE IdleInv(n)' /\ FreshInv(n)'
    <3>1. IdleInv(n) /\ FreshInv(n)
      BY DEF OutputInv
    <3>2. \A c \in ChildSet(n) : pc'[c] = pc[c]
      BY <2>1, ChildFacts
    <3>3. \A c \in ChildSet(Root) : pc[c] = "idle"
      BY <2>2, RootIsANode, QuietBelow, UnderFacts
    <3> QED
      BY <2>1, <2>2, <3>1, <3>2, <3>3 DEF IdleInv, FreshInv, Current, NoStop
  <2>4. ASSUME NEW n \in Nodes \ {Root} PROVE RestInv(n)'
    <3>1. Parent(n) \in Nodes /\ n \in ChildSet(Parent(n)) /\ CallInv(n) /\ RestInv(n)
      BY ParentFacts DEF ControlInv, OutputInv, Containers
    <3>2. Parent(n) = Root => output[n] = NoStop
      BY <2>2, <3>1 DEF CallInv, OutputInv, IdleInv
    <3> QED
      BY <2>1, <3>1, <3>2 DEF RestInv, Current, NoStop
  <2> QED
    BY <2>3, <2>4 DEF OutputInv
<1>2. ASSUME NEW n \in Leaves, StepSucceeds(n) \/ StepRetries(n) \/ StepFails(n)
      PROVE  OutputInv'
  <2>1. CASE StepRetries(n)
    BY <2>1 DEF StepRetries, OutputInv, IdleInv, FreshInv, RestInv, Current
  <2>2. CASE StepSucceeds(n) \/ StepFails(n)
    <3>1. n \in Nodes /\ ChildrenAreOver(n)
      BY ChildrenFacts DEF Leaves, ChildrenAreOver
    <3>2. \E end \in {"returned", "raised"} : \E result :
              Leave(n, end, result) /\ (end = "raised" => ~result.success)
      BY <2>2 DEF StepSucceeds, StepFails, Returns, Raises, Failed
    <3>3. pc[n] = "running" /\ UNCHANGED <<kind, position>>
      BY <2>2 DEF StepSucceeds, StepFails
    <3> QED
      BY <3>1, <3>2, <3>3, EndOutput
  <2> QED
    BY <1>2, <2>1, <2>2
<1>3. ASSUME NEW n \in Containers, ContainerStep(n) PROVE OutputInv'
  <2>1. n \in Nodes
    BY DEF Containers
  <2>2. CASE \/ NothingSelected(n) \/ SelectorRaises(n) \/ ChildRaised(n)
             \/ SequenceEnds(n) \/ IterationEnds(n)
    <3>1. \E end \in {"returned", "raised"}, result \in Outputs :
              Leave(n, end, result) /\ (end = "raised" => ~result.success)
      BY <2>2, EndsWith DEF Failed
    <3>2. UNCHANGED <<kind, position>>
      BY <2>2 DEF NothingSelected, SelectorRaises, ChildRaised, SequenceEnds, IterationEnds
    <3> QED
      BY <2>1, <2>2, <3>1, <3>2, ContainerEnds, EndOutput
  <2>3. CASE Join(n)
    <3>1. Leave(n, "returned", AggregateResults(n)) /\ UNCHANGED <<kind, position>>
      BY <2>3 DEF Join, Returns
    <3> QED
      BY <2>1, <2>3, <3>1, JoinEnds, EndOutput
  <2>4. CASE CallChild(n)
    <3>1. /\ pc[n] = "running" /\ kind[n] # "Parallel" /\ pc[Current(n)] = "idle"
          /\ Enter({Current(n)}, owner[n], kind[n] = "Parallel")
      BY <2>4 DEF CallChild, Sequential
    <3>2. {Current(n)} \in SUBSET ChildSet(n)
      BY CurrentFacts
    <3> QED
      BY <3>1, <3>2, EnterOutput
  <2>5. CASE CallBranches(n)
    BY <2>5, EnterOutput DEF CallBranches, IsParallel
  <2>6. CASE \E i \in DOMAIN Children[n] : BranchCompletes(n, i)
    BY <2>6 DEF BranchCompletes, OutputInv, IdleInv, FreshInv, RestInv, Current
  <2> QED
    BY <1>3, <2>2, <2>3, <2>4, <2>5, <2>6, NextChildOutput, NextIterationOutput
       DEF ContainerStep
<1>4. CASE Unwind \/ Abandon
  <2>1. UNCHANGED <<kind, position, output>>
    BY <1>4 DEF Unwind, Abandon
  <2>2. \A n \in Nodes : pc'[n] = pc[n] \/ (pc[n] = "running" /\ pc'[n] = "abandoned")
    BY <1>4 DEF Unwind, Abandon, LeftAtOnce
  <2>3. ASSUME NEW n \in Nodes PROVE IdleInv(n)' /\ FreshInv(n)'
    <3>1. IdleInv(n) /\ FreshInv(n)
      BY DEF OutputInv
    <3>2. \A c \in ChildSet(n) : pc[c] = "idle" => pc'[c] = "idle"
      BY <2>2, ChildFacts
    <3> QED
      BY <2>1, <2>2, <3>1, <3>2 DEF IdleInv, FreshInv, Current
  <2>4. ASSUME NEW n \in Nodes \ {Root} PROVE RestInv(n)'
    <3>1. Parent(n) \in Nodes /\ RestInv(n)
      BY ParentFacts DEF OutputInv, Containers
    <3> QED
      BY <2>1, <2>2, <3>1 DEF RestInv, Current
  <2> QED
    BY <2>3, <2>4 DEF OutputInv
<1>5. CASE UNCHANGED vars
  BY <1>5 DEF vars, OutputInv, IdleInv, FreshInv, RestInv, Current
<1> QED
  BY <1>1, <1>2, <1>3, <1>4, <1>5 DEF Next, Progress

\* What holds of every run of the tree.
TreeInv == TypeInv /\ ControlInv /\ OutputInv

LEMMA TreeAlways == Spec => []TreeInv
<1>1. Init => OutputInv
  <2> SUFFICES ASSUME Init PROVE OutputInv
    OBVIOUS
  <2>1. \A n \in Nodes : pc[n] = "idle" /\ output[n] = NoStop
    BY DEF Init
  <2>2. \A n \in Nodes \ {Root} : Parent(n) \in Nodes
    BY ParentFacts DEF Containers
  <2> QED
    BY <2>1, <2>2 DEF OutputInv, IdleInv, FreshInv, RestInv
<1> QED
  BY <1>1, NextOutput, ControlAlways, PTL DEF Spec, TreeInv

----------------------------------------------------------------------------
(* A stop.                                                                 *)

\* A step of the sequence m, or a Parallel of it, has returned a stop.
HasStopped(n, m) == InSequence(n, m) /\ pc[n] = "returned" /\ output[n].stop

AskedInv ==
    \A m \in Containers :
        pc[m] = "running" /\ asked[m] => \E n \in Under[m] : HasStopped(n, m)

\* A container that is not Parallel hides what is below it from the sequences above.
LEMMA HiddenBelow ==
    ASSUME NEW m \in Nodes, NEW n \in Under[m], InSequence(n, m), Parent(n) # m
    PROVE  Parent(n) \in Under[m] /\ kind[Parent(n)] = "Parallel"
<1>1. n \in Nodes \ {Root}
  BY UnderFacts
<1>2. Parent(n) \in Nodes /\ n \in ChildSet(Parent(n))
  BY <1>1, ParentFacts DEF Containers
<1>3. Parent(n) \in Under[m] /\ n \in Under[Parent(n)]
  BY <1>2, UnderCases, UnderFacts
<1> QED
  BY <1>3 DEF InSequence

LEMMA NextAsked == TreeInv /\ TreeInv' /\ AskedInv /\ [Next]_vars => AskedInv'
<1> SUFFICES ASSUME TreeInv, TreeInv', AskedInv, [Next]_vars,
                    NEW m \in Containers, pc'[m] = "running", asked'[m]
             PROVE  \E n \in Under[m] : HasStopped(n, m)'
  BY DEF AskedInv
<1>0. m \in Nodes /\ \A n \in Under[m] : n \in Nodes \ {Root}
  BY UnderFacts DEF Containers
<1>1. CASE RunWorkflow
  <2>1. /\ UNCHANGED kind
        /\ \A n \in Nodes : /\ pc'[n] = IF n = Root THEN "running" ELSE pc[n]
                            /\ asked'[n] = (n # Root /\ asked[n])
                            /\ n # Root => output'[n] = output[n]
    BY <1>1, RootIsANode DEF RunWorkflow, Enter
  <2>2. PICK n \in Under[m] : HasStopped(n, m)
    BY <1>0, <2>1 DEF AskedInv
  <2> QED
    BY <1>0, <2>1, <2>2 DEF HasStopped, InSequence
<1>2. ASSUME NEW s \in Leaves, StepSucceeds(s) \/ StepRetries(s) \/ StepFails(s)
      PROVE  \E n \in Under[m] : HasStopped(n, m)'
  <2>1. s \in Nodes /\ s # m /\ ChildSet(s) = {} /\ pc[s] = "running" /\ UNCHANGED kind
    BY <1>2, ChildrenFacts DEF StepSucceeds, StepRetries, StepFails, Leaves, Containers
  <2>2. \A n \in Nodes : n # s => pc'[n] = pc[n] /\ output'[n] = output[n]
    BY <1>2, <2>1 DEF StepSucceeds, StepRetries, StepFails, Returns, Raises, Leave
  <2>3. CASE asked[m]
    <3>1. PICK n \in Under[m] : HasStopped(n, m)
      BY <1>0, <2>1, <2>2, <2>3 DEF AskedInv
    <3> QED
      BY <1>0, <2>1, <2>2, <3>1 DEF HasStopped, InSequence
  <2>4. CASE ~asked[m]
    <3>1. PICK result \in Results[s] :
              Returns(s, result) /\ result.stop /\ InSequence(s, m)
      BY <1>0, <1>2, <2>4 DEF StepSucceeds, StepRetries, StepFails
    <3>2. pc'[s] = "returned" /\ output'[s] = result
      BY <2>1, <3>1 DEF Returns, Leave
    <3> QED
      BY <2>1, <3>1, <3>2 DEF HasStopped, InSequence
  <2> QED
    BY <2>3, <2>4
<1>3. ASSUME NEW q \in Containers, ContainerStep(q)
      PROVE  \E n \in Under[m] : HasStopped(n, m)'
  <2>1. q \in Nodes
    BY DEF Containers
  <2>2. CASE \/ NothingSelected(q) \/ SelectorRaises(q) \/ ChildRaised(q)
             \/ SequenceEnds(q) \/ IterationEnds(q) \/ NextIteration(q)
    <3>1. /\ pc[q] = "running" /\ kind[q] # "Parallel" /\ UNCHANGED kind
          /\ \A n \in Nodes : n # q =>
                /\ pc'[n] = IF n \in ChildSet(q) THEN "idle" ELSE pc[n]
                /\ n \notin ChildSet(q) => output'[n] = output[n]
      <4>1. CASE NextIteration(q)
        BY <4>1 DEF NextIteration, Sequential
      <4>2. CASE ~NextIteration(q)
        <5>1. pc[q] = "running" /\ kind[q] # "Parallel"
          BY <2>2, <4>2, ContainerEnds DEF TreeInv
        <5>2. \E end \in {"returned", "raised"}, result \in Outputs : Leave(q, end, result)
          BY <2>2, <4>2, EndsWith DEF TreeInv
        <5>3. UNCHANGED kind
          BY <2>2, <4>2 DEF NothingSelected, SelectorRaises, ChildRaised, SequenceEnds,
                            IterationEnds
        <5> QED
          BY <5>1, <5>2, <5>3 DEF Leave
      <4> QED
        BY <4>1, <4>2
    <3>2. m # q /\ asked'[m] = asked[m]
      <4>1. CASE NextIteration(q)
        BY <1>0, <4>1 DEF NextIteration, TreeInv, TypeInv, TypeOK
      <4>2. CASE ~NextIteration(q)
        <5>1. pc'[q] # "running"
          BY <2>1, <2>2, <4>2, EndsWith DEF Leave, TreeInv
        <5> QED
          BY <2>2, <4>2, <5>1 DEF NothingSelected, SelectorRaises, ChildRaised, SequenceEnds,
                                  IterationEnds
      <4> QED
        BY <4>1, <4>2
    <3>3. pc[m] = "running"
      BY <1>0, <3>1, <3>2
    <3>4. PICK n \in Under[m] : HasStopped(n, m)
      BY <3>2, <3>3 DEF AskedInv
    <3>5. n # q /\ n \notin ChildSet(q)
      BY <1>0, <2>1, <3>1, <3>2, <3>4, ChildFacts, HiddenBelow DEF HasStopped
    <3> QED
      BY <1>0, <3>1, <3>4, <3>5 DEF HasStopped, InSequence
  <2>3. CASE Join(q)
    <3>1. pc[q] = "running" /\ kind[q] = "Parallel" /\ UNCHANGED <<kind, asked>>
      BY <2>3 DEF Join, IsParallel
    <3>2. \A n \in Nodes :
              /\ pc'[n] = IF n = q THEN "returned" ELSE IF n \in ChildSet(q) THEN "idle" ELSE pc[n]
              /\ output'[n] = IF n = q THEN AggregateResults(q)
                              ELSE IF n \in ChildSet(q) THEN NoStop ELSE output[n]
      BY <2>3 DEF Join, Returns, Leave
    <3>3. m # q /\ pc[m] = "running"
      BY <1>0, <2>1, <3>2
    <3>4. PICK n \in Under[m] : HasStopped(n, m)
      BY <3>1, <3>3 DEF AskedInv
    <3>5. CASE n \in ChildSet(q)
      <4>1. Parent(n) = q /\ n \in Nodes
        BY <2>1, <3>5, ChildFacts
      <4>2. q \in Under[m]
        BY <1>0, <3>3, <3>4, <4>1, HiddenBelow DEF HasStopped
      <4>3. \A p \in Under[m] : q \in Under[p] => n \in Under[p]
        BY <1>0, <3>5, UnderFacts
      <4>4. InSequence(q, m)
        BY <3>4, <4>2, <4>3 DEF HasStopped, InSequence
      <4>5. output'[q].stop
        <5>1. AggregateResults(q).stop = (\E c \in ChildSet(q) : output[c].stop)
          BY DEF AggregateResults
        <5>2. \E c \in ChildSet(q) : output[c].stop
          BY <3>4, <3>5 DEF HasStopped
        <5> QED
          BY <2>1, <3>2, <5>1, <5>2
      <4> QED
        BY <2>1, <3>1, <3>2, <4>2, <4>4, <4>5 DEF HasStopped, InSequence
    <3>6. CASE n \notin ChildSet(q)
      BY <1>0, <3>1, <3>2, <3>4, <3>6 DEF HasStopped, InSequence
    <3> QED
      BY <3>5, <3>6
  <2>4. CASE CallChild(q) \/ CallBranches(q)
    <3>1. PICK C \in SUBSET ChildSet(q) :
              /\ \A c \in C : pc[c] = "idle"
              /\ Enter(C, owner[q], kind[q] = "Parallel")
      BY <2>4, CurrentFacts DEF CallChild, CallBranches, Sequential, IsParallel, TreeInv
    <3>2. m \notin C /\ pc[m] = "running" /\ asked[m] /\ UNCHANGED kind
      BY <1>0, <3>1 DEF Enter
    <3>3. PICK n \in Under[m] : HasStopped(n, m)
      BY <3>2 DEF AskedInv
    <3>4. n \notin C
      BY <3>1, <3>3 DEF HasStopped
    <3> QED
      BY <1>0, <3>1, <3>2, <3>3, <3>4 DEF HasStopped, InSequence, Enter
  <2>5. CASE NextChild(q)
    <3>1. pc[q] = "running" /\ UNCHANGED <<kind, pc, asked>>
      BY <2>5 DEF NextChild, Sequential
    <3>2. \A n \in Nodes : n # q => output'[n] = output[n]
      BY <2>5 DEF NextChild, TreeInv, TypeInv, TypeOK
    <3>3. PICK n \in Under[m] : HasStopped(n, m)
      BY <1>0, <3>1 DEF AskedInv
    <3> QED
      BY <1>0, <3>1, <3>2, <3>3 DEF HasStopped, InSequence
  <2>6. CASE \E i \in DOMAIN Children[q] : BranchCompletes(q, i)
    BY <2>6 DEF BranchCompletes, AskedInv, HasStopped, InSequence
  <2> QED
    BY <1>3, <2>2, <2>3, <2>4, <2>5, <2>6 DEF ContainerStep
<1>4. CASE Unwind \/ Abandon
  <2>1. UNCHANGED <<kind, output, asked>>
    BY <1>4 DEF Unwind, Abandon
  <2>2. \A n \in Nodes : pc'[n] = pc[n] \/ (pc[n] = "running" /\ pc'[n] = "abandoned")
    BY <1>4 DEF Unwind, Abandon, LeftAtOnce
  <2>3. PICK n \in Under[m] : HasStopped(n, m)
    BY <1>0, <2>1, <2>2 DEF AskedInv
  <2> QED
    BY <1>0, <2>1, <2>2, <2>3 DEF HasStopped, InSequence
<1>5. CASE UNCHANGED vars
  BY <1>5 DEF vars, AskedInv, HasStopped, InSequence
<1> QED
  BY <1>1, <1>2, <1>3, <1>4, <1>5 DEF Next, Progress

LEMMA AskedAlways == Spec => []AskedInv
<1>1. Init => AskedInv
  BY DEF Init, AskedInv, Containers
<1> QED
  BY <1>1, NextAsked, TreeAlways, PTL DEF Spec

\* A step that asks to stop is the last of its sequence in this iteration: of any
\* tree, in whatever order the branches of its Parallels end.
THEOREM StopIsTheLast == Spec => StopEndsItsSequence
<1>1. TreeInv /\ AskedInv /\ [Next]_vars =>
          [\A n \in Containers :
              pc[n] = "running" /\ position'[n] > position[n] => ~asked[n]]_vars
  <2> SUFFICES ASSUME TreeInv, AskedInv, Next, NEW n \in Containers, pc[n] = "running",
                      position'[n] > position[n]
               PROVE  ~asked[n]
    BY DEF StopEndsItsSequence
  <2>0. n \in Nodes /\ position[n] \in Nat /\ position[n] >= 1
    <3>1. n \in Nodes /\ position[n] \in DOMAIN Children[n]
      BY DEF Containers, TreeInv, TypeInv, TypeOK
    <3> QED
      BY <3>1, ChildrenFacts
  <2>1. NextChild(n)
    <3>1. CASE RunWorkflow
      BY <2>0, <3>1 DEF RunWorkflow, Enter
    <3>2. CASE \E s \in Leaves : StepSucceeds(s) \/ StepRetries(s) \/ StepFails(s)
      <4>1. position' = position
        BY <3>2 DEF StepSucceeds, StepRetries, StepFails
      <4> QED
        BY <2>0, <4>1
    <3>3. ASSUME NEW q \in Containers, ContainerStep(q) PROVE NextChild(n)
      <4>1. CASE CallChild(q) \/ CallBranches(q)
        <5>1. \E C : position' = [m \in Nodes |-> IF m \in C THEN 1 ELSE position[m]]
          BY <4>1 DEF CallChild, CallBranches, Enter
        <5>2. position'[n] = 1 \/ position'[n] = position[n]
          BY <2>0, <5>1
        <5> QED
          BY <2>0, <5>2
      <4>2. CASE NextChild(q)
        <5>1. q # n => position'[n] = position[n]
          BY <2>0, <4>2 DEF NextChild, TreeInv, TypeInv
        <5>2. q = n
          BY <2>0, <5>1
        <5> QED
          BY <4>2, <5>2
      <4>3. CASE NextIteration(q)
        <5>1. position'[n] = 1 \/ position'[n] = position[n]
          BY <2>0, <4>3 DEF NextIteration, TreeInv, TypeInv
        <5> QED
          BY <2>0, <5>1
      <4>4. CASE ~(CallChild(q) \/ CallBranches(q) \/ NextChild(q) \/ NextIteration(q))
        BY <2>0, <3>3, <4>4 DEF ContainerStep, NothingSelected, SelectorRaises, ChildRaised,
                           SequenceEnds, IterationEnds, Join, BranchCompletes
      <4> QED
        BY <4>1, <4>2, <4>3, <4>4
    <3>4. CASE Unwind \/ Abandon
      BY <2>0, <3>4 DEF Unwind, Abandon
    <3> QED
      BY <3>1, <3>2, <3>3, <3>4 DEF Next, Progress
  <2>2. /\ kind[n] # "Parallel" /\ pc[Current(n)] = "returned" /\ ~output[Current(n)].stop
    BY <2>1 DEF NextChild, Sequential, GoesOn
  <2> SUFFICES ASSUME asked[n] PROVE FALSE
    OBVIOUS
  <2>3. PICK m \in Under[n] : HasStopped(m, n)
    BY DEF AskedInv
  <2>4. PICK c \in ChildSet(n) : m \in Descendants(c)
    BY <2>0, UnderCases
  <2>5. c \in Nodes \ {Root} /\ Parent(c) = n
    BY <2>0, ChildFacts
  <2>6. pc[c] \in {"idle", "returned"}
    BY <2>2, <2>5 DEF TreeInv, ControlInv, CallInv
  <2>7. m = c
    BY <2>3, <2>4, <2>5, <2>6, QuietBelow DEF HasStopped, Descendants, TreeInv
  <2>8. c # Current(n) => ~output[c].stop
    BY <2>2, <2>5 DEF TreeInv, OutputInv, RestInv
  <2> QED
    BY <2>2, <2>3, <2>7, <2>8 DEF HasStopped
<1> QED
  BY <1>1, TreeAlways, AskedAlways, PTL DEF Spec, StopEndsItsSequence

----------------------------------------------------------------------------
(* Failures.                                                               *)

\* A failure is on its way to the top: one of the nodes around the step that
\* failed says so, the root only when it is over.
FailureInv ==
    /\ \A n \in Nodes : ~output[n].success => Descendants(n) \cap failures # {}
    /\ \A f \in failures : \E n \in Nodes :
           f \in Descendants(n) /\ ~output[n].success /\ (n = Root => Over(Root))

\* What a node that ends does with the failures of its children.
LEMMA EndFailure ==
    ASSUME TreeInv, FailureInv, NEW m \in Nodes, pc[m] = "running", ChildrenAreOver(m),
           NEW end \in {"returned", "raised"}, NEW result, Leave(m, end, result),
           failures \subseteq failures', failures' \subseteq failures \cup {m},
           ~result.success => \/ m \in failures' \/ ~output[m].success
                              \/ \E c \in ChildSet(m) : ~output[c].success,
           result.success => /\ failures' = failures /\ output[m].success
                             /\ \A c \in ChildSet(m) : output[c].success
    PROVE  FailureInv'
<1>1. \A n \in Nodes :
          /\ pc'[n] = IF n = m THEN end ELSE IF n \in ChildSet(m) THEN "idle" ELSE pc[n]
          /\ output'[n] = IF n = m THEN result
                          ELSE IF n \in ChildSet(m) THEN NoStop ELSE output[n]
  BY DEF Leave
<1>2. \A c \in ChildSet(m) : c \in Nodes /\ Descendants(c) \subseteq Descendants(m)
  BY ChildFacts, UnderFacts, UnderTransitive DEF Descendants
<1>3. m \in Descendants(m)
  BY DEF Descendants
<1>4. ASSUME NEW n \in Nodes, ~output'[n].success
      PROVE  Descendants(n) \cap failures' # {}
  <2>1. CASE n = m
    <3>1. ~result.success
      BY <1>1, <1>4, <2>1
    <3> QED
      BY <1>2, <1>3, <2>1, <3>1 DEF FailureInv
  <2>2. CASE n # m
    <3>1. output'[n] = output[n]
      BY <1>1, <1>4, <2>2 DEF NoStop
    <3> QED
      BY <1>4, <3>1 DEF FailureInv
  <2> QED
    BY <2>1, <2>2
<1>5. ASSUME NEW f \in failures'
      PROVE  \E n \in Nodes :
                 f \in Descendants(n) /\ ~output'[n].success /\ (n = Root => Over(Root)')
  <2>0. ~result.success => ~output'[m].success
    BY <1>1
  <2>1. CASE f \notin failures
    <3>1. f = m /\ ~result.success
      BY <1>5, <2>1
    <3> QED
      BY <1>1, <1>3, <2>0, <3>1 DEF Over
  <2>2. CASE f \in failures
    <3>1. PICK n \in Nodes :
              f \in Descendants(n) /\ ~output[n].success /\ (n = Root => Over(Root))
      BY <2>2 DEF FailureInv
    <3>2. CASE n = m \/ n \in ChildSet(m)
      <4>1. ~result.success /\ f \in Descendants(m)
        BY <1>2, <3>1, <3>2
      <4> QED
        BY <1>1, <2>0, <4>1 DEF Over
    <3>3. CASE n # m /\ n \notin ChildSet(m)
      BY <1>1, <3>1, <3>3 DEF Over
    <3> QED
      BY <3>2, <3>3
  <2> QED
    BY <2>1, <2>2
<1> QED
  BY <1>4, <1>5 DEF FailureInv

\* SoFar has the failures of all children.
LEMMA SoFarFailure ==
    ASSUME TreeInv, NEW n \in Containers, Sequential(n)
    PROVE  /\ SoFar(n).success = (output[n].success /\ output[Current(n)].success)
           /\ SoFar(n).success => \A c \in ChildSet(n) : output[c].success
<1>1. SoFar(n).success = (output[n].success /\ output[Current(n)].success)
  BY DEF SoFar
<1>2. ASSUME SoFar(n).success, NEW c \in ChildSet(n) PROVE output[c].success
  <2>1. c \in Nodes \ {Root} /\ Parent(c) = n
    BY ChildFacts DEF Containers
  <2> QED
    BY <1>1, <1>2, <2>1 DEF Sequential, TreeInv, OutputInv, RestInv
<1> QED
  BY <1>1, <1>2

LEMMA StepFailure ==
    ASSUME TreeInv, FailureInv, NEW n \in Leaves,
           StepSucceeds(n) \/ StepRetries(n) \/ StepFails(n)
    PROVE  FailureInv'
<1>1. n \in Nodes /\ ChildrenAreOver(n) /\ ChildSet(n) = {}
  BY ChildrenFacts DEF Leaves, ChildrenAreOver
<1>2. pc[n] = "running" /\ output[n].success
  <2>1. pc[n] = "running" /\ kind[n] = "Step"
    BY <1>1 DEF StepSucceeds, StepRetries, StepFails, TreeInv, TypeInv, KindInv
  <2> QED
    BY <1>1, <2>1 DEF TreeInv, OutputInv, IdleInv, NoStop
<1>3. CASE StepSucceeds(n)
  <2>1. PICK result \in Results[n] :
            /\ Leave(n, "returned", result)
            /\ failures' = IF result.success THEN failures ELSE failures \cup {n}
    BY <1>3 DEF StepSucceeds, Returns
  <2> QED
    BY <1>1, <1>2, <2>1, EndFailure
<1>4. CASE StepFails(n)
  <2>1. PICK end \in {"returned", "raised"} : Leave(n, end, Failed)
    BY <1>4 DEF StepFails, Returns, Raises
  <2>2. failures' = failures \cup {n} /\ ~Failed.success
    BY <1>4 DEF StepFails, Failed
  <2> QED
    BY <1>1, <1>2, <2>1, <2>2, EndFailure
<1>5. CASE StepRetries(n)
  BY <1>5 DEF StepRetries, FailureInv, Over
<1> QED
  BY <1>3, <1>4, <1>5

LEMMA ContainerFailure ==
    ASSUME TreeInv, FailureInv, NEW n \in Containers,
           \/ NothingSelected(n) \/ SelectorRaises(n) \/ ChildRaised(n)
           \/ SequenceEnds(n) \/ IterationEnds(n) \/ Join(n)
    PROVE  FailureInv'
<1>1. n \in Nodes /\ pc[n] = "running" /\ ChildrenAreOver(n)
  BY ContainerEnds, JoinEnds DEF TreeInv, Containers
<1>2. Current(n) \in ChildSet(n) /\ Current(n) \in Nodes
  BY CurrentFacts DEF TreeInv
<1>3. ~Failed.success /\ NoStop.success
  BY DEF Failed, NoStop
<1>4. CASE NothingSelected(n)
  <2>1. Leave(n, "returned", NoStop) /\ failures' = failures
    BY <1>4 DEF NothingSelected, Returns
  <2>2. /\ output[n] = NoStop
        /\ \A c \in ChildSet(n) : pc[c] = "idle"
    BY <1>1, <1>4 DEF NothingSelected, IsAsked, Sequential, TreeInv, OutputInv, FreshInv
  <2>3. \A c \in ChildSet(n) : output[c].success
    BY <1>1, <1>3, <2>2, ChildFacts DEF TreeInv, OutputInv, IdleInv
  <2> QED
    BY <1>1, <1>3, <2>1, <2>2, <2>3, EndFailure
<1>5. CASE SelectorRaises(n)
  <2>1. Leave(n, "raised", Failed) /\ failures' = failures \cup {n}
    BY <1>5 DEF SelectorRaises, Raises
  <2> QED
    BY <1>1, <1>3, <2>1, EndFailure
<1>6. CASE ChildRaised(n)
  <2>1. PICK end \in {"returned", "raised"} : Leave(n, end, Failed)
    BY <1>6 DEF ChildRaised, Returns, Raises
  <2>2. failures' = failures /\ ~output[Current(n)].success
    BY <1>2, <1>6 DEF ChildRaised, TreeInv, OutputInv, IdleInv
  <2> QED
    BY <1>1, <1>2, <1>3, <2>1, <2>2, EndFailure
<1>7. CASE SequenceEnds(n) \/ IterationEnds(n)
  <2>1. \E stop \in BOOLEAN :
            Leave(n, "returned", [stop |-> stop, success |-> SoFar(n).success])
    BY <1>7, CurrentFacts DEF SequenceEnds, IterationEnds, Returns, TreeInv, Outputs
  <2>2. PICK result : Leave(n, "returned", result) /\ result.success = SoFar(n).success
    BY <2>1
  <2>3. failures' = failures /\ Sequential(n)
    BY <1>7 DEF SequenceEnds, IterationEnds
  <2> QED
    BY <1>1, <1>2, <2>2, <2>3, SoFarFailure, EndFailure
<1>8. CASE Join(n)
  <2>1. Leave(n, "returned", AggregateResults(n)) /\ failures' = failures
    BY <1>8 DEF Join, Returns
  <2>2. output[n].success
    BY <1>1, <1>3, <1>8 DEF Join, IsParallel, TreeInv, OutputInv, IdleInv
  <2>3. AggregateResults(n).success = (\A c \in ChildSet(n) : output[c].success)
    BY DEF AggregateResults
  <2> QED
    BY <1>1, <2>1, <2>2, <2>3, EndFailure
<1> QED
  BY <1>4, <1>5, <1>6, <1>7, <1>8

LEMMA NextFailure == TreeInv /\ FailureInv /\ [Next]_vars => FailureInv'
<1> SUFFICES ASSUME TreeInv, FailureInv, [Next]_vars PROVE FailureInv'
  OBVIOUS
<1>1. ASSUME NEW C \in SUBSET Nodes, NEW base, NEW deep, Enter(C, base, deep),
             \A c \in C : pc[c] = "idle"
      PROVE  FailureInv'
  <2>1. /\ \A n \in Nodes : output'[n] = output[n]
        /\ Over(Root) => Over(Root)'
        /\ failures' = failures
    BY <1>1, RootIsANode DEF Enter, Over, TreeInv, OutputInv, IdleInv
  <2> QED
    BY <2>1 DEF FailureInv
<1>2. CASE RunWorkflow
  <2>1. /\ {Root} \in SUBSET Nodes /\ Enter({Root}, Root, FALSE)
        /\ \A c \in {Root} : pc[c] = "idle"
    BY <1>2, RootIsANode DEF RunWorkflow
  <2> QED
    BY <1>1, <2>1
<1>3. CASE \E n \in Leaves : StepSucceeds(n) \/ StepRetries(n) \/ StepFails(n)
  BY <1>3, StepFailure
<1>4. ASSUME NEW n \in Containers, ContainerStep(n) PROVE FailureInv'
  <2>1. n \in Nodes /\ Current(n) \in Nodes /\ Current(n) \in ChildSet(n)
    BY CurrentFacts DEF TreeInv
  <2>2. CASE CallChild(n)
    <3>1. /\ {Current(n)} \in SUBSET Nodes /\ Enter({Current(n)}, owner[n], FALSE)
          /\ \A c \in {Current(n)} : pc[c] = "idle"
      BY <2>1, <2>2 DEF CallChild
    <3> QED
      BY <1>1, <3>1
  <2>3. CASE CallBranches(n)
    <3>1. ChildSet(n) \in SUBSET Nodes
      BY <2>1, ChildFacts
    <3> QED
      BY <1>1, <2>3, <3>1 DEF CallBranches
  <2>4. CASE NextChild(n)
    <3>1. /\ UNCHANGED <<pc, failures>>
          /\ \A m \in Nodes : m # n => output'[m] = output[m]
          /\ output'[n].success = (output[n].success /\ output[Current(n)].success)
      <4>1. output' = [output EXCEPT ![n].success = SoFar(n).success]
        BY <2>4 DEF NextChild
      <4>2. output[n] \in Outputs
        BY CurrentFacts DEF TreeInv
      <4> QED
        BY <2>1, <2>4, <4>1, <4>2 DEF TreeInv, TypeInv, TypeOK, NextChild, Outputs, SoFar
    <3>2. ASSUME ~output'[n].success PROVE Descendants(n) \cap failures # {}
      <4>1. Descendants(Current(n)) \subseteq Descendants(n)
        BY <2>1, UnderFacts, UnderTransitive DEF Descendants
      <4> QED
        BY <2>1, <3>1, <3>2, <4>1 DEF FailureInv
    <3>3. \A m \in Nodes : ~output[m].success => ~output'[m].success
      BY <3>1
    <3> QED
      BY <3>1, <3>2, <3>3 DEF FailureInv, Over
  <2>5. CASE NextIteration(n)
    <3>1. /\ Sequential(n) /\ kind[n] = "Loop" /\ failures' = failures
          /\ \A m \in Nodes : pc'[m] = IF m \in ChildSet(n) THEN "idle" ELSE pc[m]
          /\ \A m \in Nodes : m # n => output'[m] = IF m \in ChildSet(n) THEN NoStop
                                                    ELSE output[m]
          /\ output'[n].success = SoFar(n).success
      <4>1. n \notin ChildSet(n)
        BY <2>1, NotItsOwnChild
      <4> QED
        BY <2>1, <2>5, <4>1 DEF NextIteration
    <3>2. n # Root /\ Root \notin ChildSet(n)
      BY <2>1, <3>1, ChildFacts DEF TreeInv, TypeInv, KindInv
    <3>3. \A c \in ChildSet(n) : c \in Nodes /\ Descendants(c) \subseteq Descendants(n)
      BY <2>1, ChildFacts, UnderFacts, UnderTransitive DEF Descendants
    <3>4. ASSUME NEW m \in Nodes, ~output'[m].success
          PROVE  Descendants(m) \cap failures # {}
      <4>1. CASE m = n
        BY <2>1, <3>1, <3>3, <3>4, <4>1, SoFarFailure DEF FailureInv
      <4>2. CASE m # n
        BY <3>1, <3>4, <4>2 DEF FailureInv, NoStop
      <4> QED
        BY <4>1, <4>2
    <3>5. ASSUME NEW f \in failures
          PROVE  \E m \in Nodes :
                     f \in Descendants(m) /\ ~output'[m].success /\ (m = Root => Over(Root)')
      <4>1. PICK m \in Nodes :
                f \in Descendants(m) /\ ~output[m].success /\ (m = Root => Over(Root))
        BY <3>5 DEF FailureInv
      <4>2. CASE m = n \/ m \in ChildSet(n)
        <5>1. ~SoFar(n).success
          BY <3>1, <4>1, <4>2, SoFarFailure
        <5> QED
          BY <2>1, <3>1, <3>2, <3>3, <4>1, <4>2, <5>1
      <4>3. CASE m # n /\ m \notin ChildSet(n)
        BY <3>1, <3>2, <4>1, <4>3, RootIsANode DEF Over
      <4> QED
        BY <4>2, <4>3
    <3> QED
      BY <3>1, <3>4, <3>5 DEF FailureInv
  <2>6. CASE \E i \in DOMAIN Children[n] : BranchCompletes(n, i)
    BY <2>6 DEF BranchCompletes, FailureInv, Over
  <2> QED
    BY <1>4, <2>2, <2>3, <2>4, <2>5, <2>6, ContainerFailure DEF ContainerStep
<1>5. CASE Unwind \/ Abandon
  <2>1. UNCHANGED <<output, failures>>
    BY <1>5 DEF Unwind, Abandon
  <2>2. ~Over(Root)
    BY <1>5 DEF Unwind, Abandon, Over
  <2> QED
    BY <2>1, <2>2 DEF FailureInv
<1>6. CASE UNCHANGED vars
  BY <1>6 DEF vars, FailureInv, Over
<1> QED
  BY <1>2, <1>3, <1>4, <1>5, <1>6 DEF Next, Progress

\* The StepOutput of a step of the workflow says success exactly if nothing below
\* it has failed in any iteration: in any tree of containers that swallow
\* exceptions, aggregate results and start again.
THEOREM NoFailureIsLost == Spec => []FailuresAreReported
<1>1. Init => FailureInv
  <2> SUFFICES ASSUME Init PROVE FailureInv
    OBVIOUS
  <2>1. failures = {} /\ \A n \in Nodes : output[n].success
    BY DEF Init, NoStop
  <2> QED
    BY <2>1 DEF FailureInv
<1>2. TreeInv /\ FailureInv => FailuresAreReported
  <2> SUFFICES ASSUME TreeInv, FailureInv, NEW n \in ChildSet(Root), pc[n] = "returned"
               PROVE  output[n].success <=> Descendants(n) \cap failures = {}
    BY DEF FailuresAreReported
  <2>1. n \in Nodes \ {Root} /\ Parent(n) = Root
    BY RootIsANode, ChildFacts
  <2>2. pc[Root] \in {"running", "abandoned"}
    BY <2>1 DEF TreeInv, ControlInv, CallInv
  <2>3. ASSUME NEW f \in Descendants(n) \cap failures PROVE ~output[n].success
    <3>1. PICK m \in Nodes :
              f \in Descendants(m) /\ ~output[m].success /\ (m = Root => Over(Root))
      BY <2>3 DEF FailureInv
    <3>2. m # Root
      BY <2>2, <3>1 DEF Over
    <3>3. f \in Nodes
      BY <2>1, <2>3, UnderFacts DEF Descendants
    <3>4. n \notin Under[m]
      <4> SUFFICES ASSUME n \in Under[m] PROVE FALSE
        OBVIOUS
      <4>1. Root \in Under[m]
        BY <2>1, <3>2, UnderCases
      <4> QED
        BY <4>1, UnderFacts
    <3>5. m \in Descendants(n)
      BY <2>1, <2>3, <3>1, <3>3, <3>4, UnderChain
    <3>6. m \notin Under[n]
      <4> SUFFICES ASSUME m \in Under[n] PROVE FALSE
        OBVIOUS
      <4>1. pc[m] = "idle"
        BY <2>1, QuietBelow DEF TreeInv
      <4> QED
        BY <3>1, <4>1 DEF TreeInv, OutputInv, IdleInv, NoStop
    <3> QED
      BY <3>1, <3>5, <3>6 DEF Descendants
  <2> QED
    BY <2>1, <2>3 DEF FailureInv
<1> QED
  BY <1>1, <1>2, NextFailure, TreeAlways, PTL DEF Spec

----------------------------------------------------------------------------
(* Writes to the session state.                                            *)

\* The branches that have a copy of the session state of their own, and the node
\* whose state they were given a copy of.
Copies == {b \in Nodes \ {Root} : kind[Parent(b)] = "Parallel" /\ pc[b] # "idle"}

Base(b) == owner[Parent(b)]

\* Of the nodes that have a state, o is the lowest that contains w.
Nearest(C, o, w) ==
    /\ o \in C \cup {Root}
    /\ w \in Descendants(o)
    /\ \A b \in C \cap Under[o] : w \notin Descendants(b)

\* No outer key of s is missing in t.
Keeps(s, t) == \A j \in Keys \ Nested : s[j] # Absent => t[j] # Absent

SameTop(k) == {j \in Keys : TopKey[j] = TopKey[k]}

KeepInv ==
    /\ \A n \in Nodes : Keeps(InitialState, state[n])
    /\ \A b \in Copies : Keeps(state[Base(b)], state[b])

\* What only w may have written, its nearest state has, and the copies of the other
\* branches are in this as they were made.
ValueInv(k, w) ==
    /\ \A o \in Nodes : Nearest(Copies, o, w) =>
           \A j \in SameTop(k) : state[o][j] = ValueAfter(w, j)
    /\ \A b \in Copies : w \notin Descendants(b) =>
           \A j \in SameTop(k) : state[b][j] = state[Base(b)][j]

WriteInv ==
    /\ KeepInv
    /\ \A n \in Containers, j \in Keys : wrote[n][j] = Unwritten
    /\ \A k \in Keys, w \in Nodes : Writers(k) \subseteq {w} => ValueInv(k, w)

LEMMA CopiesAreNodes ==
    \A b \in Copies : b \in Nodes \ {Root} /\ Parent(b) \in Nodes /\ b \in ChildSet(Parent(b))
  BY ParentFacts DEF Copies, Containers

LEMMA NearestIsOne ==
    ASSUME NEW C \in SUBSET Nodes, NEW w \in Nodes, NEW o \in Nodes, NEW p \in Nodes,
           Nearest(C, o, w), Nearest(C, p, w)
    PROVE  o = p
<1>1. w \in Descendants(o) /\ w \in Descendants(p)
  BY DEF Nearest
<1>2. ASSUME NEW a \in Nodes, NEW b \in Nodes, Nearest(C, a, w), Nearest(C, b, w)
      PROVE  b \notin Under[a]
  <2> SUFFICES ASSUME b \in Under[a] PROVE FALSE
    OBVIOUS
  <2>1. b # Root
    BY UnderFacts
  <2> QED
    BY <1>2, <2>1 DEF Nearest
<1>3. o \in Descendants(p) \/ p \in Under[o]
  BY <1>1, UnderChain
<1> QED
  BY <1>2, <1>3 DEF Descendants

\* The state a node was given belongs to a node around it.
LEMMA OwnerAbove ==
    ASSUME TypeInv, ControlInv, NEW n \in Nodes, pc[n] # "idle"
    PROVE  owner[n] \in Copies \cup {Root} /\ n \in Descendants(owner[n])
<1> DEFINE S == {x \in Nodes : /\ pc[x] # "idle"
                               /\ ~(owner[x] \in Copies \cup {Root} /\ x \in Descendants(owner[x]))}
<1>1. ASSUME S # {} PROVE FALSE
  <2>1. PICK x \in S : x # Root => Parent(x) \notin S
    BY <1>1, HasTop
  <2>2. x # Root
    BY DEF ControlInv, RootInv, Descendants
  <2>3. x \in Nodes \ {Root} /\ Parent(x) \in Nodes /\ x \in ChildSet(Parent(x)) /\ CallInv(x)
    BY <2>2, ParentFacts DEF ControlInv, Containers
  <2>4. pc[Parent(x)] # "idle"
    BY <2>3 DEF CallInv
  <2>5. CASE kind[Parent(x)] = "Parallel"
    BY <2>3, <2>5 DEF CallInv, Copies, Descendants
  <2>6. CASE kind[Parent(x)] # "Parallel"
    <3>1. /\ owner[x] = owner[Parent(x)] /\ owner[x] \in Copies \cup {Root}
          /\ Parent(x) \in Descendants(owner[x])
      BY <2>1, <2>2, <2>3, <2>4, <2>6 DEF CallInv
    <3>2. owner[x] \in Nodes
      BY <3>1, RootIsANode DEF Copies
    <3>3. x \in Under[owner[x]]
      BY <2>3, <3>1, <3>2, UnderFacts DEF Descendants
    <3> QED
      BY <3>1, <3>3 DEF Descendants
  <2> QED
    BY <2>5, <2>6
<1> QED
  BY <1>1

\* Inside a branch nobody is given a state from outside.
LEMMA OwnerInside ==
    ASSUME TypeInv, ControlInv, NEW b \in Copies, NEW n \in Descendants(b), pc[n] # "idle"
    PROVE  owner[n] \in Descendants(b)
<1> DEFINE S == {x \in Nodes : /\ x \in Descendants(b) /\ pc[x] # "idle"
                               /\ owner[x] \notin Descendants(b)}
<1>1. b \in Nodes \ {Root} /\ n \in Nodes
  BY UnderFacts DEF Copies, Descendants
<1>2. ASSUME S # {} PROVE FALSE
  <2>1. PICK x \in S : x # Root => Parent(x) \notin S
    BY <1>2, HasTop
  <2>2. x \in Nodes \ {Root}
    BY <1>1, UnderFacts DEF Descendants
  <2>3. CallInv(x) /\ Parent(x) \in Nodes
    BY <2>2, ParentFacts DEF ControlInv, Containers
  <2>4. CASE x = b \/ kind[Parent(x)] = "Parallel"
    <3>1. owner[x] = x
      BY <2>3, <2>4 DEF CallInv, Copies
    <3> QED
      BY <3>1
  <2>5. CASE x # b /\ kind[Parent(x)] # "Parallel"
    <3>1. Parent(x) \in Descendants(b)
      BY <1>1, <2>5, UnderCases DEF Descendants
    <3>2. pc[Parent(x)] # "idle" /\ owner[x] = owner[Parent(x)]
      BY <2>3, <2>5 DEF CallInv
    <3> QED
      BY <2>1, <2>2, <2>3, <3>1, <3>2
  <2> QED
    BY <2>4, <2>5
<1> QED
  BY <1>1, <1>2

\* No copy lies between a node and the one whose state it was given.
LEMMA NoneBetween ==
    ASSUME TypeInv, ControlInv, NEW n \in Nodes, pc[n] # "idle",
           NEW b \in Copies \cap Under[owner[n]]
    PROVE  n \notin Descendants(b)
<1> SUFFICES ASSUME n \in Descendants(b) PROVE FALSE
  OBVIOUS
<1>1. owner[n] \in Descendants(b) /\ b \in Nodes
  BY OwnerInside DEF Copies
<1>2. owner[n] \in Nodes
  BY OwnerAbove, RootIsANode DEF Copies
<1> QED
  BY <1>1, <1>2, NotInItself, UnderTransitive DEF Descendants

\* What is inside a Parallel does not work on the state the Parallel was given.
LEMMA OwnBelowParallel ==
    ASSUME TypeInv, ControlInv, NEW p \in Nodes, pc[p] # "idle", kind[p] = "Parallel",
           NEW n \in Under[p], pc[n] # "idle"
    PROVE  owner[n] # owner[p]
<1>1. PICK c \in ChildSet(p) : n \in Descendants(c)
  BY UnderCases
<1>2. c \in Nodes \ {Root} /\ Parent(c) = p /\ c \in Under[p]
  BY ChildFacts, UnderFacts
<1>3. pc[c] # "idle"
  BY <1>1, <1>2, QuietBelow DEF Descendants
<1>4. owner[n] \in Descendants(c)
  BY <1>1, <1>2, <1>3, OwnerInside DEF Copies
<1>5. owner[n] \in Under[p]
  BY <1>2, <1>4, UnderTransitive DEF Descendants
<1>6. p \in Descendants(owner[p]) /\ owner[p] \in Nodes
  BY OwnerAbove, RootIsANode DEF Copies
<1> SUFFICES ASSUME owner[p] \in Under[p] PROVE FALSE
  BY <1>5
<1> QED
  BY <1>6, NotInItself, UnderTransitive DEF Descendants

\* Of two nodes that run on the same state one is inside of the other.
LEMMA OneAtWork ==
    ASSUME TypeInv, ControlInv, ~abandoned, NEW n \in Nodes, NEW m \in Nodes,
           pc[n] = "running", pc[m] = "running", owner[n] = owner[m]
    PROVE  n \in Descendants(m) \/ m \in Descendants(n)
<1> DEFINE S == {x \in Nodes : /\ pc[x] = "running" /\ owner[x] = owner[m]
                               /\ x \notin Descendants(m) /\ m \notin Descendants(x)}
<1>1. ASSUME S # {} PROVE FALSE
  <2>1. PICK x \in S : x # Root => Parent(x) \notin S
    BY <1>1, HasTop
  <2>2. x # Root
    BY AllUnderRoot DEF Descendants
  <2>3. /\ x \in Nodes \ {Root} /\ Parent(x) \in Nodes
        /\ x \in ChildSet(Parent(x)) /\ x \in Under[Parent(x)] /\ CallInv(x)
    BY <2>2, ParentFacts, UnderFacts DEF ControlInv, Containers
  <2>4. pc[Parent(x)] = "running"
    BY <2>3 DEF CallInv, ControlInv, RootInv
  <2>5. CASE kind[Parent(x)] = "Parallel"
    <3>1. owner[m] = x
      BY <2>3, <2>5 DEF CallInv
    <3> QED
      BY <3>1, OwnerAbove
  <2>6. CASE kind[Parent(x)] # "Parallel"
    <3>1. owner[Parent(x)] = owner[m]
      BY <2>3, <2>6 DEF CallInv
    <3>2. Parent(x) \notin Under[m] /\ Parent(x) # m
      BY <2>3, UnderTransitive, UnderFacts DEF Descendants
    <3>3. m \in Under[Parent(x)]
      BY <2>1, <2>2, <2>3, <2>4, <3>1, <3>2 DEF Descendants
    <3>4. PICK c \in ChildSet(Parent(x)) : m \in Descendants(c)
      BY <2>3, <3>3, UnderCases
    <3>5. c \in Nodes \ {Root} /\ Parent(c) = Parent(x) /\ CallInv(c)
      BY <2>3, <3>4, ChildFacts DEF ControlInv
    <3>6. pc[c] \notin {"idle", "returned"}
      BY <3>4, <3>5, QuietBelow DEF Descendants
    <3>7. c = Current(Parent(x)) /\ x = Current(Parent(x))
      BY <2>3, <2>4, <2>6, <3>5, <3>6 DEF CallInv
    <3> QED
      BY <3>4, <3>7
  <2> QED
    BY <2>5, <2>6
<1> QED
  BY <1>1

\* While a step or a Parallel is at work, no other Parallel has given branches
\* copies of the state it works on.
LEMMA BaseIsOwn ==
    ASSUME TypeInv, ControlInv, ~abandoned, NEW n \in Nodes, pc[n] = "running",
           kind[n] = "Parallel" \/ n \in Leaves,
           NEW b \in Copies, Base(b) = owner[n]
    PROVE  Parent(b) = n
<1> DEFINE p == Parent(b)
<1>1. p \in Nodes /\ b \in ChildSet(p) /\ kind[p] = "Parallel" /\ b \in Nodes \ {Root}
  BY CopiesAreNodes DEF Copies
<1>2. pc[p] = "running"
  BY <1>1 DEF Copies, ControlInv, RootInv, CallInv
<1>3. n \in Descendants(p) \/ p \in Descendants(n)
  BY <1>1, <1>2, OneAtWork DEF Base
<1>4. n \notin Under[p]
  BY <1>1, <1>2, OwnBelowParallel DEF Base
<1>5. p \notin Under[n]
  <2>1. CASE n \in Leaves
    BY <2>1, ChildrenFacts, UnderCases
  <2>2. CASE kind[n] = "Parallel"
    BY <1>2, <2>2, OwnBelowParallel DEF Base
  <2> QED
    BY <2>1, <2>2
<1> QED
  BY <1>3, <1>4, <1>5 DEF Descendants

\* A step of the program that touches neither states nor copies.
LEMMA SameWrites ==
    ASSUME WriteInv, UNCHANGED <<state, wrote>>, Copies' = Copies,
           \A b \in Copies : Base(b)' = Base(b)
    PROVE  WriteInv'
<1>1. KeepInv'
  BY DEF WriteInv, KeepInv
<1>2. \A n \in Containers, j \in Keys : wrote'[n][j] = Unwritten
  BY DEF WriteInv
<1>3. ASSUME NEW k \in Keys, NEW w \in Nodes, Writers(k)' \subseteq {w}
      PROVE  ValueInv(k, w)'
  <2>1. ValueInv(k, w)
    BY <1>3 DEF WriteInv, Writers
  <2> QED
    BY <2>1 DEF ValueInv, ValueAfter
<1> QED
  BY <1>1, <1>2, <1>3 DEF WriteInv

\* An end leaves the copies alone, but those a Parallel has made for its branches.
LEMMA EndCopies ==
    ASSUME NEW n \in Nodes, pc[n] = "running", NEW end \in {"returned", "raised"},
           NEW result, Leave(n, end, result), kind' = kind
    PROVE  Copies' = IF kind[n] = "Parallel" THEN Copies \ ChildSet(n) ELSE Copies
<1>1. \A m \in Nodes :
          pc'[m] = IF m = n THEN end ELSE IF m \in ChildSet(n) THEN "idle" ELSE pc[m]
  BY DEF Leave
<1>2. \A m \in Nodes \ {Root} : m \in ChildSet(n) <=> Parent(m) = n
  BY ChildFacts, ParentFacts
<1>3. n \notin ChildSet(n)
  BY NotItsOwnChild
<1> QED
  BY <1>1, <1>2, <1>3 DEF Copies

\* What an attempt of a step changes: each path of the owner's state is as it was,
\* or the step is known to have written it.
LEMMA ExecutesWrites ==
    ASSUME TypeInv, NEW n \in Leaves, NEW writes \in WriteSets[n], NEW merged \in BOOLEAN,
           Executes(n, writes, merged)
    PROVE  /\ \A m \in Nodes : m # owner[n] => state'[m] = state[m]
           /\ \A m \in Nodes : m # n => wrote'[m] = wrote[m]
           /\ \A j \in Keys :
                  \/ state'[owner[n]][j] = state[owner[n]][j] /\ wrote'[n][j] = wrote[n][j]
                  \/ state'[owner[n]][j] = wrote'[n][j] /\ wrote'[n][j] # Unwritten
           /\ Keeps(state[owner[n]], state'[owner[n]])
<1> DEFINE copied == OnCopy(n, writes)
           shared == InPlace(n, writes)
<1>1. n \in Nodes /\ owner[n] \in Nodes /\ copied \in States
  BY ExecutesTypes DEF TypeInv, TypeOK, Leaves
<1>2. /\ \A m \in Nodes : m # owner[n] => state'[m] = state[m]
      /\ \A m \in Nodes : m # n => wrote'[m] = wrote[m]
      /\ state'[owner[n]] = IF merged THEN MergeDictionaries(shared, copied) ELSE shared
      /\ wrote'[n] = Recorded(n, writes, copied, merged)
  BY <1>1 DEF Executes, TypeInv, TypeOK
<1>3. ASSUME NEW j \in Keys
      PROVE  /\ \/ state'[owner[n]][j] = state[owner[n]][j] /\ wrote'[n][j] = wrote[n][j]
                \/ state'[owner[n]][j] = wrote'[n][j] /\ wrote'[n][j] # Unwritten
             /\ j \notin Nested /\ state[owner[n]][j] # Absent => state'[owner[n]][j] # Absent
  <2>1. copied[j] # Unwritten
    BY <1>1, StateAssumption DEF States
  <2>2. shared[j] = IF j \in Nested /\ writes[j] # Unwritten THEN writes[j]
                    ELSE state[owner[n]][j]
    BY DEF InPlace
  <2>3. state'[owner[n]][j] = IF merged /\ j \notin Nested /\ copied[j] # Absent
                              THEN copied[j] ELSE shared[j]
    BY <1>2 DEF MergeDictionaries
  <2>4. wrote'[n][j] =
            IF j \in Nested
            THEN IF writes[j] # Unwritten THEN writes[j] ELSE wrote[n][j]
            ELSE IF merged /\ copied[j] # Absent /\ copied[j] # state[owner[n]][j]
                 THEN copied[j] ELSE wrote[n][j]
    BY <1>2 DEF Recorded
  <2> HIDE DEF copied, shared
  <2> QED
    BY <2>1, <2>2, <2>3, <2>4
<1> QED
  BY <1>2, <1>3 DEF Keeps

\* A step writes to the state that is its own to write to: nobody has a copy of it.
LEMMA StepWrites ==
    ASSUME TypeInv, ControlInv, ~abandoned, WriteInv, NEW n \in Leaves,
           StepSucceeds(n) \/ StepRetries(n) \/ StepFails(n)
    PROVE  WriteInv'
<1>1. n \in Nodes /\ pc[n] = "running" /\ owner[n] \in Nodes /\ n \notin Containers
  BY DEF Leaves, Containers, StepSucceeds, StepRetries, StepFails, TypeInv, TypeOK
<1>2. PICK writes \in WriteSets[n], merged \in BOOLEAN : Executes(n, writes, merged)
  BY DEF StepSucceeds, StepRetries, StepFails
<1>3. owner' = owner /\ kind' = kind
  BY DEF StepSucceeds, StepRetries, StepFails
<1>4. Copies' = Copies
  <2>1. kind[n] # "Parallel"
    BY <1>1 DEF TypeInv, KindInv
  <2>2. CASE pc' = pc
    BY <1>3, <2>2 DEF Copies
  <2>3. CASE StepSucceeds(n) \/ StepFails(n)
    <3>1. \E end \in {"returned", "raised"} : \E result : Leave(n, end, result)
      BY <2>3 DEF StepSucceeds, StepFails, Returns, Raises
    <3> QED
      BY <1>1, <1>3, <2>1, <3>1, EndCopies
  <2> QED
    BY <2>2, <2>3 DEF StepRetries
<1> DEFINE o == owner[n]
<1>5. /\ \A m \in Nodes : m # o => state'[m] = state[m]
      /\ \A m \in Nodes : m # n => wrote'[m] = wrote[m]
      /\ \A j \in Keys : \/ state'[o][j] = state[o][j] /\ wrote'[n][j] = wrote[n][j]
                         \/ state'[o][j] = wrote'[n][j] /\ wrote'[n][j] # Unwritten
      /\ Keeps(state[o], state'[o])
  BY <1>2, ExecutesWrites
<1>6. \A b \in Copies : b \in Nodes /\ Base(b) \in Nodes /\ Base(b) # o /\ Base(b)' = Base(b)
  <2> SUFFICES ASSUME NEW b \in Copies PROVE b \in Nodes /\ Base(b) \in Nodes /\ Base(b) # o
    BY <1>3 DEF Base
  <2>1. b \in Nodes /\ Parent(b) \in Nodes /\ b \in ChildSet(Parent(b))
    BY CopiesAreNodes
  <2>2. Parent(b) # n
    BY <2>1, ChildFacts, <1>1
  <2> QED
    BY <1>1, <2>1, <2>2, BaseIsOwn DEF Base, TypeInv, TypeOK
<1>7. KeepInv'
  BY <1>4, <1>5, <1>6 DEF KeepInv, Keeps, WriteInv
<1>8. \A m \in Containers, j \in Keys : wrote'[m][j] = Unwritten
  BY <1>1, <1>5 DEF WriteInv, Containers
<1>9. ASSUME NEW k \in Keys, NEW w \in Nodes, Writers(k)' \subseteq {w}
      PROVE  ValueInv(k, w)'
  <2>1. Writers(k) \subseteq {w}
    <3>1. \A m \in Leaves, j \in Keys : wrote[m][j] # Unwritten => wrote'[m][j] # Unwritten
      BY <1>5 DEF Leaves
    <3> QED
      BY <1>9, <3>1 DEF Writers
  <2>2. ValueInv(k, w)
    BY <2>1 DEF WriteInv
  <2>3. CASE n # w
    <3>1. \A j \in SameTop(k) : wrote'[n][j] = Unwritten
      BY <1>9, <2>3 DEF Writers, SameTop
    <3>2. \A j \in SameTop(k) : state'[o][j] = state[o][j]
      BY <1>5, <3>1 DEF SameTop
    <3>3. \A m \in Nodes, j \in SameTop(k) : state'[m][j] = state[m][j]
      BY <1>5, <3>2
    <3>4. \A j \in SameTop(k) : ValueAfter(w, j)' = ValueAfter(w, j)
      BY <1>5, <2>3 DEF ValueAfter
    <3> QED
      BY <1>4, <1>6, <2>2, <3>3, <3>4 DEF ValueInv
  <2>4. CASE n = w
    <3>1. o \in Copies \cup {Root} /\ w \in Descendants(o)
      BY <1>1, <2>4, OwnerAbove
    <3>2. Nearest(Copies, o, w)
      BY <1>1, <2>4, <3>1, NoneBetween DEF Nearest
    <3>3. \A p \in Nodes : Nearest(Copies, p, w) => p = o
      BY <1>1, <3>2, NearestIsOne DEF Copies
    <3>4. \A j \in SameTop(k) : state'[o][j] = ValueAfter(w, j)'
      <4> SUFFICES ASSUME NEW j \in SameTop(k) PROVE state'[o][j] = ValueAfter(w, j)'
        OBVIOUS
      <4>1. state[o][j] = ValueAfter(w, j)
        BY <1>1, <2>2, <3>2 DEF ValueInv
      <4> QED
        BY <1>5, <2>4, <4>1 DEF ValueAfter, SameTop
    <3>5. \A b \in Copies : w \notin Descendants(b) => b # o
      BY <3>1
    <3> QED
      BY <1>4, <1>5, <1>6, <2>2, <3>3, <3>4, <3>5 DEF ValueInv
  <2> QED
    BY <2>3, <2>4
<1> QED
  BY <1>7, <1>8, <1>9 DEF WriteInv

\* The branches of a Parallel begin with what the Parallel was given.
LEMMA BranchesWrites ==
    ASSUME TypeInv, ControlInv, ~abandoned, WriteInv, NEW n \in Containers, CallBranches(n)
    PROVE  WriteInv'
<1> DEFINE o == owner[n]
           C == ChildSet(n)
<1>1. /\ n \in Nodes /\ pc[n] = "running" /\ kind[n] = "Parallel" /\ o \in Nodes
      /\ \A c \in C : pc[c] = "idle"
      /\ Enter(C, o, TRUE)
  BY DEF CallBranches, IsParallel, Containers, TypeInv, TypeOK
<1>2. \A c \in C : c \in Nodes \ {Root} /\ Parent(c) = n /\ c \notin Copies
  BY <1>1, ChildFacts DEF Copies
<1>3. /\ \A m \in Nodes : state'[m] = IF m \in C THEN state[o] ELSE state[m]
      /\ wrote' = wrote
      /\ Copies' = Copies \cup C
  BY <1>1, <1>2 DEF Enter, Copies
<1>4. \A m \in Nodes : m \notin C => owner'[m] = owner[m]
  BY <1>1 DEF Enter
<1>5. \A b \in Copies' : b \in Nodes /\ Base(b)' = Base(b) /\ Base(b) \in Nodes /\ Base(b) \notin C
  <2> SUFFICES ASSUME NEW b \in Copies'
               PROVE  /\ b \in Nodes /\ Base(b)' = Base(b) /\ Base(b) \in Nodes
                      /\ Base(b) \notin C
    OBVIOUS
  <2>1. b \in Nodes \ {Root} /\ Parent(b) \in Nodes
    BY <1>1, <1>2, <1>3, CopiesAreNodes
  <2>2. pc[Parent(b)] # "idle"
    BY <1>1, <1>2, <1>3, <2>1 DEF Copies, ControlInv, CallInv
  <2>3. owner[Parent(b)] \in Copies \cup {Root}
    BY <2>1, <2>2, OwnerAbove
  <2>4. Parent(b) \notin C
    BY <1>1, <2>2
  <2> QED
    BY <1>2, <1>4, <2>1, <2>3, <2>4, RootIsANode DEF Base, Copies
<1>6. \A c \in C : Base(c) = o
  BY <1>2 DEF Base
<1>7. KeepInv'
  BY <1>1, <1>3, <1>5, <1>6 DEF KeepInv, Keeps, WriteInv
<1>8. ASSUME NEW k \in Keys, NEW w \in Nodes, Writers(k)' \subseteq {w}
      PROVE  ValueInv(k, w)'
  <2>1. ValueInv(k, w)
    BY <1>3, <1>8 DEF WriteInv, Writers
  <2>2. \A j \in Keys : ValueAfter(w, j)' = ValueAfter(w, j)
    BY <1>3 DEF ValueAfter
  <2>3. ASSUME NEW p \in Nodes, Nearest(Copies', p, w), NEW j \in SameTop(k)
        PROVE  state'[p][j] = ValueAfter(w, j)
    <3>1. CASE p \in C
      <4>1. p \in Under[n] /\ n \in Descendants(o)
        BY <1>1, <3>1, UnderFacts, OwnerAbove
      <4>2. w \in Under[n]
        BY <1>1, <2>3, <4>1, UnderTransitive DEF Nearest, Descendants
      <4>3. w \in Descendants(o) /\ o \in Copies \cup {Root}
        BY <1>1, <4>1, <4>2, UnderTransitive, OwnerAbove DEF Descendants
      <4>4. ASSUME NEW b \in Copies \cap Under[o], w \in Descendants(b) PROVE FALSE
        <5>1. b \in Nodes
          BY DEF Copies
        <5>2. n \in Descendants(b) \/ b \in Under[n]
          BY <1>1, <4>2, <4>4, <5>1, UnderChain DEF Descendants
        <5>3. b \notin Under[n]
          <6> SUFFICES ASSUME b \in Under[n] PROVE FALSE
            OBVIOUS
          <6>1. PICK c \in C : b \in Descendants(c)
            BY <1>1, UnderCases
          <6>2. pc[b] = "idle"
            BY <1>1, <1>2, <6>1, QuietBelow DEF Descendants
          <6> QED
            BY <6>2 DEF Copies
        <5> QED
          BY <1>1, <5>2, <5>3, NoneBetween
      <4>5. Nearest(Copies, o, w)
        BY <4>3, <4>4 DEF Nearest
      <4>6. state[o][j] = ValueAfter(w, j)
        BY <1>1, <2>1, <2>3, <4>5 DEF ValueInv
      <4> QED
        BY <1>3, <3>1, <4>6
    <3>2. CASE p \notin C
      <4>1. Nearest(Copies, p, w)
        BY <1>3, <2>3, <3>2 DEF Nearest
      <4> QED
        BY <1>3, <2>1, <2>3, <3>2, <4>1 DEF ValueInv
    <3> QED
      BY <3>1, <3>2
  <2>4. ASSUME NEW b \in Copies', w \notin Descendants(b), NEW j \in SameTop(k)
        PROVE  state'[b][j] = state'[Base(b)][j]
    <3>1. CASE b \in C
      BY <1>1, <1>2, <1>3, <1>5, <1>6, <3>1
    <3>2. CASE b \notin C
      BY <1>3, <1>5, <2>1, <2>4, <3>2 DEF ValueInv
    <3> QED
      BY <3>1, <3>2
  <2>5. \A p \in Nodes : Nearest(Copies', p, w) =>
            \A j \in SameTop(k) : state'[p][j] = ValueAfter(w, j)'
    BY <2>2, <2>3 DEF SameTop
  <2>6. \A b \in Copies' : w \notin Descendants(b) =>
            \A j \in SameTop(k) : state'[b][j] = state'[Base(b)'][j]
    BY <1>5, <2>4
  <2> QED
    BY <2>5, <2>6 DEF ValueInv
<1> QED
  BY <1>3, <1>7, <1>8 DEF WriteInv

\* The merge of copies of which one alone may have other values under an outer key.
LEMMA LoneMerge ==
    ASSUME NEW original \in States, NEW modifieds \in Seq(States), ~IsEmpty(original),
           NEW k \in Keys, NEW i \in DOMAIN modifieds, Keeps(original, modifieds[i]),
           \A n \in (DOMAIN modifieds) \ {i} :
               \A j \in SameTop(k) : modifieds[n][j] = original[j]
    PROVE  \A j \in SameTop(k) : MergeParallel(original, modifieds)[j] = modifieds[i][j]
<1> SUFFICES ASSUME NEW j \in SameTop(k)
             PROVE  MergeParallel(original, modifieds)[j] = modifieds[i][j]
  OBVIOUS
<1>1. j \in Keys /\ SameTop(j) = SameTop(k)
  BY DEF SameTop
<1>2. \A n \in DOMAIN modifieds : Changed(original, modifieds[n], j) => n = i
  BY <1>1 DEF Changed, SameTop
<1>3. CASE Changed(original, modifieds[i], j)
  <2>1. i \in Nat
    OBVIOUS
  <2>2. \A n \in DOMAIN modifieds : Changed(original, modifieds[n], j) => n <= i
    BY <1>2, <2>1
  <2> QED
    BY <1>1, <1>3, <2>2, LastChangeWins
<1>4. CASE ~Changed(original, modifieds[i], j)
  <2>1. modifieds[i][j] = original[j]
    BY <1>1, <1>4 DEF Changed, Keeps
  <2>2. ChangedBy(original, modifieds, j) = {}
    BY <1>2, <1>4 DEF ChangedBy
  <2> QED
    BY <1>1, <2>1, <2>2 DEF MergeParallel
<1> QED
  BY <1>3, <1>4

LEMMA IdleMerge ==
    ASSUME NEW original \in States, NEW modifieds \in Seq(States), NEW k \in Keys,
           \A n \in DOMAIN modifieds :
               \A j \in SameTop(k) : modifieds[n][j] = original[j]
    PROVE  \A j \in SameTop(k) : MergeParallel(original, modifieds)[j] = original[j]
<1> SUFFICES ASSUME NEW j \in SameTop(k)
             PROVE  MergeParallel(original, modifieds)[j] = original[j]
  OBVIOUS
<1>1. j \in Keys /\ SameTop(j) = SameTop(k)
  BY DEF SameTop
<1>2. ChangedBy(original, modifieds, j) = {}
  BY <1>1 DEF ChangedBy, Changed, SameTop
<1> QED
  BY <1>1, <1>2 DEF MergeParallel

LEMMA MergeKeeps ==
    ASSUME NEW original \in States, NEW modifieds \in Seq(States),
           \A n \in DOMAIN modifieds : Keeps(original, modifieds[n])
    PROVE  Keeps(original, MergeParallel(original, modifieds))
<1> SUFFICES ASSUME NEW j \in Keys \ Nested, original[j] # Absent
             PROVE  MergeParallel(original, modifieds)[j] # Absent
  BY DEF Keeps
<1> QED
  BY MergeInventsNothing DEF Keeps

LEMMA KeepsIsTransitive ==
    ASSUME NEW s, NEW t, NEW u, Keeps(s, t), Keeps(t, u)
    PROVE  Keeps(s, u)
  BY DEF Keeps

LEMMA KeepsContent ==
    ASSUME NEW s, Keeps(InitialState, s)
    PROVE  ~IsEmpty(s)
  BY StateAssumption DEF IsEmpty, Keeps

LEMMA OrderIsSequence ==
    ASSUME TypeInv, NEW n \in Containers, Len(completed[n]) = Len(Children[n]),
           NEW order \in MergeOrders(n)
    PROVE  order \in Seq(Nat) /\ Len(order) = Len(Children[n])
<1> DEFINE N == Len(Children[n])
<1>1. n \in Nodes /\ DOMAIN Children[n] = 1 .. N /\ N \in Nat
  BY ChildrenFacts DEF Containers
<1>2. CASE function \in {"execute", "aexecute"}
  <2>1. order \in [1 .. N -> 1 .. N]
    BY <1>1, <1>2 DEF MergeOrders, Permutations
  <2>2. order \in [1 .. N -> Nat]
    BY <1>1, <2>1
  <2> QED
    BY <1>1, <2>2
<1>3. CASE function \notin {"execute", "aexecute"}
  BY <1>1, <1>3 DEF MergeOrders, TypeInv
<1> QED
  BY <1>2, <1>3

\* What a Parallel makes of the states of its branches.
LEMMA JoinedStates ==
    ASSUME TypeInv, ControlInv, WriteInv, NEW n \in Containers, Join(n)
    PROVE  LET o == owner[n]
           IN  /\ \A m \in Nodes : m # o =>
                      state'[m] = IF m \in ChildSet(n) THEN InitialState ELSE state[m]
               /\ Keeps(state[o], state'[o])
               /\ \A k \in Keys, c \in ChildSet(n) :
                      (\A b \in ChildSet(n) \ {c} : \A j \in SameTop(k) : state[b][j] = state[o][j])
                          => \A j \in SameTop(k) : state'[o][j] = state[c][j]
               /\ \A k \in Keys :
                      (\A b \in ChildSet(n) : \A j \in SameTop(k) : state[b][j] = state[o][j])
                          => \A j \in SameTop(k) : state'[o][j] = state[o][j]
<1> DEFINE o == owner[n]
           N == Len(Children[n])
<1>1. PICK order \in MergeOrders(n) :
          \A m \in Nodes : state'[m] = IF m = o THEN Merged(n, order)
                           ELSE IF m \in ChildSet(n) THEN InitialState ELSE state[m]
  BY JoinFacts
<1> DEFINE modifieds == [i \in DOMAIN order |-> state[Children[n][order[i]]]]
<1>2. /\ n \in Nodes /\ N \in Nat /\ DOMAIN Children[n] = 1 .. N
      /\ Len(completed[n]) = N
      /\ o \in Nodes /\ state[o] \in States
  BY ChildrenFacts DEF Containers, Join, TypeInv, TypeOK
<1>3. /\ DOMAIN order = 1 .. N
      /\ \A i \in 1 .. N : order[i] \in 1 .. N
      /\ \A i, j \in 1 .. N : order[i] = order[j] => i = j
  BY <1>2, OrderFacts
<1>4. \A i \in 1 .. N : Children[n][order[i]] \in ChildSet(n)
  BY <1>2, <1>3, ChildrenFacts
<1>5. \A c \in ChildSet(n) : /\ c \in Copies /\ Base(c) = o
                             /\ state[c] \in States /\ Keeps(state[o], state[c])
  <2> SUFFICES ASSUME NEW c \in ChildSet(n)
               PROVE  /\ c \in Copies /\ Base(c) = o
                      /\ state[c] \in States /\ Keeps(state[o], state[c])
    OBVIOUS
  <2>1. c \in Nodes \ {Root} /\ Parent(c) = n
    BY <1>2, ChildFacts
  <2>2. kind[n] = "Parallel" /\ pc[c] # "idle"
    BY <1>2, BranchesAreOver DEF Join, IsParallel, Over
  <2>3. c \in Copies /\ Base(c) = o
    BY <2>1, <2>2 DEF Copies, Base
  <2> QED
    BY <2>1, <2>3 DEF WriteInv, KeepInv, TypeInv, TypeOK
<1>6. modifieds \in [1 .. N -> States]
  BY <1>3, <1>4, <1>5
<1>7. modifieds \in Seq(States) /\ DOMAIN modifieds = 1 .. N
  BY <1>2, <1>6
<1>8. state'[o] = MergeParallel(state[o], modifieds)
  BY <1>1, <1>2 DEF Merged
<1>9. \A i \in 1 .. N : /\ modifieds[i] = state[Children[n][order[i]]]
                        /\ Keeps(state[o], modifieds[i])
  BY <1>3, <1>4, <1>5
<1>10. ~IsEmpty(state[o])
  BY <1>2, KeepsContent DEF WriteInv, KeepInv
<1> HIDE DEF modifieds, N
<1>11. Keeps(state[o], state'[o])
  BY <1>2, <1>7, <1>8, <1>9, MergeKeeps
<1>12. ASSUME NEW k \in Keys, NEW c \in ChildSet(n),
              \A b \in ChildSet(n) \ {c} : \A j \in SameTop(k) : state[b][j] = state[o][j]
       PROVE  \A j \in SameTop(k) : state'[o][j] = state[c][j]
  <2>1. PICK l \in 1 .. N : c = Children[n][l]
    BY <1>2 DEF ChildSet
  <2>2. PICK i \in 1 .. N : order[i] = l
    <3>1. order \in Seq(Nat) /\ Len(order) = N
      BY <1>2, OrderIsSequence
    <3>2. /\ \A i \in DOMAIN order : order[i] \in 1 .. N
          /\ \A i, j \in DOMAIN order : order[i] = order[j] => i = j
      BY <1>3
    <3>3. \A j \in 1 .. N : \E i \in DOMAIN order : order[i] = j
      BY <1>2, <3>1, <3>2, NoMoreThan
    <3> QED
      BY <1>3, <3>3
  <2>3. \A m \in (1 .. N) \ {i} : \A j \in SameTop(k) : modifieds[m][j] = state[o][j]
    <3> SUFFICES ASSUME NEW m \in (1 .. N) \ {i}, NEW j \in SameTop(k)
                 PROVE  modifieds[m][j] = state[o][j]
      OBVIOUS
    <3>1. order[m] # l /\ order[m] \in 1 .. N
      BY <1>3, <2>2
    <3>2. Children[n][order[m]] # c
      BY <1>2, <2>1, <3>1, TreeAssumption
    <3> QED
      BY <1>4, <1>9, <1>12, <3>2
  <2>4. modifieds[i] = state[c]
    BY <1>9, <2>1, <2>2
  <2>5. /\ i \in DOMAIN modifieds /\ Keeps(state[o], modifieds[i])
        /\ \A m \in (DOMAIN modifieds) \ {i} : \A j \in SameTop(k) : modifieds[m][j] = state[o][j]
    BY <1>7, <1>9, <2>3
  <2>6. \A j \in SameTop(k) : MergeParallel(state[o], modifieds)[j] = modifieds[i][j]
    BY <1>2, <1>7, <1>10, <2>5, LoneMerge
  <2> QED
    BY <1>8, <2>4, <2>6
<1>13. ASSUME NEW k \in Keys,
              \A b \in ChildSet(n) : \A j \in SameTop(k) : state[b][j] = state[o][j]
       PROVE  \A j \in SameTop(k) : state'[o][j] = state[o][j]
  <2>1. \A m \in 1 .. N : \A j \in SameTop(k) : modifieds[m][j] = state[o][j]
    BY <1>4, <1>9, <1>13
  <2>2. \A j \in SameTop(k) : MergeParallel(state[o], modifieds)[j] = state[o][j]
    BY <1>2, <1>7, <2>1, IdleMerge
  <2> QED
    BY <1>8, <2>2
<1> QED
  BY <1>1, <1>2, <1>11, <1>12, <1>13

\* The branches end, and what only w may have written is where it belongs: in the
\* state the Parallel was given, if w is in one of its branches.
LEMMA JoinWrites ==
    ASSUME TypeInv, ControlInv, ~abandoned, WriteInv, NEW n \in Containers, Join(n)
    PROVE  WriteInv'
<1> DEFINE o == owner[n]
           C == ChildSet(n)
<1>1. /\ n \in Nodes /\ pc[n] = "running" /\ kind[n] = "Parallel" /\ o \in Nodes
      /\ \A c \in C : Over(c)
  BY BranchesAreOver DEF Join, IsParallel, Containers, TypeInv, TypeOK
<1>2. \A c \in C : c \in Nodes \ {Root} /\ Parent(c) = n /\ c \in Copies /\ Base(c) = o
  BY <1>1, ChildFacts DEF Copies, Over, Base
<1>3. UNCHANGED <<kind, owner, wrote>>
  BY DEF Join
<1>4. Copies' = Copies \ C
  <2>1. Leave(n, "returned", AggregateResults(n))
    BY DEF Join, Returns
  <2> QED
    BY <1>1, <1>3, <2>1, EndCopies
<1>5. n \in Descendants(o) /\ o \in Copies \cup {Root} /\ o \notin C
  <2>1. n \in Descendants(o) /\ o \in Copies \cup {Root}
    BY <1>1, OwnerAbove
  <2>2. o \notin Under[n]
    BY <1>1, <2>1, NotInItself, UnderTransitive DEF Descendants
  <2> QED
    BY <1>1, <2>1, <2>2, UnderFacts
<1>6. /\ \A m \in Nodes : m # o => state'[m] = IF m \in C THEN InitialState ELSE state[m]
      /\ Keeps(state[o], state'[o])
      /\ \A k \in Keys, c \in C :
             (\A b \in C \ {c} : \A j \in SameTop(k) : state[b][j] = state[o][j])
                 => \A j \in SameTop(k) : state'[o][j] = state[c][j]
      /\ \A k \in Keys :
             (\A b \in C : \A j \in SameTop(k) : state[b][j] = state[o][j])
                 => \A j \in SameTop(k) : state'[o][j] = state[o][j]
  BY JoinedStates
\* No other branch has a copy of the state that was merged into, or of a branch.
<1>7. ASSUME NEW b \in Copies'
      PROVE  /\ b \in Copies /\ b \in Nodes /\ b \notin C
             /\ Base(b)' = Base(b) /\ Base(b) \in Nodes
             /\ Base(b) # o /\ Base(b) \notin C
  <2>1. b \in Copies /\ b \notin C
    BY <1>4
  <2>2. b \in Nodes \ {Root} /\ Parent(b) \in Nodes /\ b \in ChildSet(Parent(b))
    BY <2>1, CopiesAreNodes
  <2>3. pc[Parent(b)] = "running"
    BY <2>1, <2>2 DEF Copies, ControlInv, CallInv, RootInv
  <2>4. Base(b) # o
    BY <1>1, <2>1, <2>2, BaseIsOwn
  <2>5. Base(b) \in Nodes /\ Parent(b) \in Descendants(Base(b))
    BY <2>2, <2>3, OwnerAbove DEF Base, TypeInv, TypeOK
  <2>6. Base(b) \notin C
    <3> SUFFICES ASSUME Base(b) \in C PROVE FALSE
      OBVIOUS
    <3>1. Over(Base(b))
      BY <1>1
    <3> QED
      BY <2>3, <2>5, <3>1, QuietBelow DEF Over, Descendants
  <2> QED
    BY <1>3, <2>1, <2>2, <2>4, <2>5, <2>6 DEF Base
<1>8. KeepInv'
  <2>1. ASSUME NEW m \in Nodes PROVE Keeps(InitialState, state'[m])
    <3>1. Keeps(InitialState, state[m]) /\ Keeps(InitialState, state[o])
      BY <1>1 DEF WriteInv, KeepInv
    <3>2. Keeps(InitialState, InitialState)
      BY DEF Keeps
    <3>3. m = o => Keeps(InitialState, state'[m])
      BY <1>6, <3>1, KeepsIsTransitive
    <3> QED
      BY <1>6, <3>1, <3>2, <3>3
  <2>2. ASSUME NEW b \in Copies' PROVE Keeps(state'[Base(b)'], state'[b])
    <3>1. state'[Base(b)'] = state[Base(b)]
      BY <1>6, <1>7
    <3>2. Keeps(state[Base(b)], state[b])
      BY <1>7 DEF WriteInv, KeepInv
    <3>3. b = o => Keeps(state[Base(b)], state'[b])
      BY <1>6, <3>2, KeepsIsTransitive
    <3>4. b # o => state'[b] = state[b]
      BY <1>6, <1>7
    <3> QED
      BY <3>1, <3>2, <3>3, <3>4
  <2> QED
    BY <2>1, <2>2 DEF KeepInv
<1>9. ASSUME NEW k \in Keys, NEW w \in Nodes, Writers(k)' \subseteq {w}
      PROVE  ValueInv(k, w)'
  <2>1. ValueInv(k, w)
    BY <1>3, <1>9 DEF WriteInv, Writers
  <2>2. \A j \in Keys : ValueAfter(w, j)' = ValueAfter(w, j)
    BY <1>3 DEF ValueAfter
  <2>3. \A c \in C : w \notin Descendants(c) =>
            \A j \in SameTop(k) : state[c][j] = state[o][j]
    BY <1>2, <2>1 DEF ValueInv
  <2>4. CASE w \in Under[n]
    <3>1. PICK c \in C : w \in Descendants(c)
      BY <1>1, <2>4, UnderCases
    <3>2. \A b \in C \ {c} : w \notin Descendants(b)
      <4> SUFFICES ASSUME NEW b \in C \ {c}, w \in Descendants(b) PROVE FALSE
        OBVIOUS
      <4>1. b \in Under[c] \/ c \in Under[b]
        BY <1>2, <3>1, UnderChain DEF Descendants
      <4>2. \A p \in C : pc[p] # "idle" /\ pc[p] \in {"idle", "returned", "raised"}
        BY <1>1 DEF Over
      <4> QED
        BY <1>2, <3>1, <4>1, <4>2, QuietBelow
    <3>3. \A b \in Copies \cap Under[c] : FALSE
      BY <1>1, <1>2, QuietBelow DEF Over, Copies
    <3>4. Nearest(Copies, c, w)
      BY <1>2, <3>1, <3>3 DEF Nearest
    <3>5. \A j \in SameTop(k) : state'[o][j] = ValueAfter(w, j)'
      <4>1. \A j \in SameTop(k) : state'[o][j] = state[c][j]
        BY <1>6, <2>3, <3>2
      <4>2. \A j \in SameTop(k) : state[c][j] = ValueAfter(w, j)
        BY <1>2, <2>1, <3>4 DEF ValueInv
      <4> QED
        BY <2>2, <4>1, <4>2 DEF SameTop
    <3>6. w \in Descendants(o)
      BY <1>1, <1>5, <2>4, UnderTransitive DEF Descendants
    <3>7. ASSUME NEW b \in Copies' \cap Under[o], w \in Descendants(b) PROVE FALSE
      <4>1. n \notin Descendants(b)
        BY <1>1, <1>7, <3>7, NoneBetween
      <4>2. b \in Under[n]
        BY <1>1, <1>7, <2>4, <3>7, <4>1, UnderChain DEF Descendants
      <4>3. PICK d \in C : b \in Descendants(d)
        BY <1>1, <4>2, UnderCases
      <4>4. b \in Under[d]
        BY <1>7, <3>7, <4>3 DEF Descendants
      <4> QED
        BY <1>1, <1>2, <1>7, <3>7, <4>4, QuietBelow DEF Over, Copies
    <3>8. Nearest(Copies', o, w)
      BY <1>4, <1>5, <3>6, <3>7 DEF Nearest
    <3>9. \A p \in Nodes : Nearest(Copies', p, w) => p = o
      <4>1. Copies' \in SUBSET Nodes
        BY <1>7
      <4> QED
        BY <1>1, <3>8, <4>1, NearestIsOne
    <3>10. \A b \in Copies' : w \notin Descendants(b) =>
               \A j \in SameTop(k) : state'[b][j] = state'[Base(b)'][j]
      <4> SUFFICES ASSUME NEW b \in Copies', w \notin Descendants(b), NEW j \in SameTop(k)
                   PROVE  state'[b][j] = state'[Base(b)'][j]
        OBVIOUS
      <4>1. b # o
        BY <3>6
      <4>2. state[b][j] = state[Base(b)][j]
        BY <1>7, <2>1 DEF ValueInv
      <4> QED
        BY <1>6, <1>7, <4>1, <4>2
    <3>11. \A p \in Nodes : Nearest(Copies', p, w) =>
               \A j \in SameTop(k) : state'[p][j] = ValueAfter(w, j)'
      BY <3>5, <3>9
    <3> QED
      BY <3>10, <3>11 DEF ValueInv
  <2>5. CASE w \notin Under[n]
    <3>1. \A c \in C : w \notin Descendants(c)
      BY <1>1, <2>5, UnderFacts, UnderTransitive DEF Descendants
    <3>2. \A j \in SameTop(k) : state'[o][j] = state[o][j]
      BY <1>6, <2>3, <3>1
    <3>3. \A m \in Nodes \ C : \A j \in SameTop(k) : state'[m][j] = state[m][j]
      BY <1>6, <3>2
    <3>4. ASSUME NEW p \in Nodes, Nearest(Copies', p, w)
          PROVE  \A j \in SameTop(k) : state'[p][j] = ValueAfter(w, j)'
      <4>1. Nearest(Copies, p, w) /\ p \notin C
        BY <1>2, <1>4, <3>1, <3>4 DEF Nearest
      <4>2. \A j \in SameTop(k) : state[p][j] = ValueAfter(w, j)
        BY <2>1, <4>1 DEF ValueInv
      <4> QED
        BY <2>2, <3>3, <4>1, <4>2 DEF SameTop
    <3>5. ASSUME NEW b \in Copies', w \notin Descendants(b)
          PROVE  \A j \in SameTop(k) : state'[b][j] = state'[Base(b)'][j]
      <4>1. \A j \in SameTop(k) : state[b][j] = state[Base(b)][j]
        BY <1>7, <2>1, <3>5 DEF ValueInv
      <4> QED
        BY <1>7, <3>3, <4>1
    <3> QED
      BY <3>4, <3>5 DEF ValueInv
  <2> QED
    BY <2>4, <2>5
<1> QED
  BY <1>3, <1>8, <1>9 DEF WriteInv

\* Calls and ends of sequences make no copies and write nothing.
LEMMA SequenceWrites ==
    ASSUME TypeInv, ControlInv, ~abandoned, WriteInv, NEW n \in Containers,
           \/ NothingSelected(n) \/ SelectorRaises(n) \/ CallChild(n) \/ NextChild(n)
           \/ ChildRaised(n) \/ SequenceEnds(n) \/ IterationEnds(n) \/ NextIteration(n)
    PROVE  WriteInv'
<1>1. n \in Nodes /\ pc[n] = "running" /\ kind[n] # "Parallel" /\ kind' = kind
  BY DEF Containers, NothingSelected, SelectorRaises, IsAsked, CallChild, NextChild, ChildRaised,
         SequenceEnds, IterationEnds, NextIteration, Sequential, Enter
<1>2. CASE CallChild(n)
  <2>1. /\ Current(n) \in Nodes \ {Root} /\ Parent(Current(n)) = n /\ pc[Current(n)] = "idle"
        /\ Enter({Current(n)}, owner[n], FALSE)
    BY <1>1, <1>2, CurrentFacts, ChildFacts DEF CallChild
  <2>2. /\ \A m \in Nodes : pc'[m] = IF m = Current(n) THEN "running" ELSE pc[m]
        /\ \A m \in Nodes : m # Current(n) => owner'[m] = owner[m]
        /\ state' = state /\ wrote' = wrote
    BY <2>1 DEF Enter, TypeInv, TypeOK
  <2>3. Copies' = Copies
    BY <1>1, <2>1, <2>2 DEF Copies
  <2>4. \A b \in Copies : Base(b)' = Base(b)
    <3> SUFFICES ASSUME NEW b \in Copies PROVE owner'[Parent(b)] = owner[Parent(b)]
      BY DEF Base
    <3>1. Parent(b) \in Nodes /\ pc[Parent(b)] # "idle"
      BY CopiesAreNodes DEF Copies, ControlInv, CallInv
    <3> QED
      BY <2>1, <2>2, <3>1
  <2> QED
    BY <2>2, <2>3, <2>4, SameWrites
<1>3. CASE ~CallChild(n)
  <2>1. UNCHANGED <<owner, state, wrote>>
    BY <1>3 DEF NothingSelected, SelectorRaises, NextChild, ChildRaised, SequenceEnds,
                IterationEnds, NextIteration
  <2>2. Copies' = Copies
    <3>1. CASE NextChild(n)
      BY <3>1 DEF NextChild, Copies
    <3>2. CASE NextIteration(n)
      <4>1. \A m \in Nodes : m \notin ChildSet(n) => pc'[m] = pc[m]
        BY <3>2 DEF NextIteration
      <4>2. \A m \in Nodes \ {Root} : kind[Parent(m)] = "Parallel" => m \notin ChildSet(n)
        BY <1>1, ChildFacts
      <4> QED
        BY <1>1, <4>1, <4>2 DEF Copies
    <3>3. CASE ~NextChild(n) /\ ~NextIteration(n)
      <4>1. \E end \in {"returned", "raised"} : \E result : Leave(n, end, result)
        BY <1>3, <3>3 DEF NothingSelected, SelectorRaises, ChildRaised, SequenceEnds,
                          IterationEnds, Returns, Raises
      <4> QED
        BY <1>1, <4>1, EndCopies
    <3> QED
      BY <3>1, <3>2, <3>3
  <2>3. \A b \in Copies : Base(b)' = Base(b)
    BY <2>1 DEF Base
  <2> QED
    BY <2>1, <2>2, <2>3, SameWrites
<1> QED
  BY <1>2, <1>3

LEMMA NextWrites ==
    TypeInv /\ ControlInv /\ (~abandoned => WriteInv) /\ [Next]_vars
        => (~abandoned => WriteInv)'
<1> SUFFICES ASSUME TypeInv, ControlInv, ~abandoned => WriteInv, [Next]_vars, ~abandoned'
             PROVE  WriteInv'
  OBVIOUS
<1>1. CASE Unwind \/ Abandon
  BY <1>1 DEF Unwind, Abandon
<1>2. CASE RunWorkflow
  <2>1. ~abandoned /\ WriteInv
    BY <1>2 DEF RunWorkflow, Enter
  <2>2. /\ \A m \in Nodes : m # Root => pc'[m] = pc[m]
        /\ \A m \in Nodes : owner'[m] = owner[m]
        /\ UNCHANGED <<kind, state, wrote>>
    BY <1>2, RootIsANode DEF RunWorkflow, Enter, TypeInv, TypeOK, ControlInv, RootInv
  <2>3. Copies' = Copies
    BY <2>2 DEF Copies
  <2>4. \A b \in Copies : Base(b)' = Base(b)
    BY <2>2, CopiesAreNodes DEF Base
  <2> QED
    BY <2>1, <2>2, <2>3, <2>4, SameWrites
<1>3. CASE \E n \in Leaves : StepSucceeds(n) \/ StepRetries(n) \/ StepFails(n)
  <2>1. ~abandoned
    BY <1>3 DEF StepSucceeds, StepRetries, StepFails
  <2> QED
    BY <1>3, <2>1, StepWrites
<1>4. ASSUME NEW n \in Containers, ContainerStep(n) PROVE WriteInv'
  <2>1. ~abandoned
    BY <1>4 DEF ContainerStep, NothingSelected, SelectorRaises, CallChild, NextChild, ChildRaised,
                SequenceEnds, IterationEnds, NextIteration, CallBranches, Join,
                BranchCompletes, Enter
  <2>2. CASE \E i \in DOMAIN Children[n] : BranchCompletes(n, i)
    <3>1. UNCHANGED <<kind, pc, owner, state, wrote>>
      BY <2>2 DEF BranchCompletes
    <3> QED
      BY <2>1, <3>1, SameWrites DEF Copies, Base
  <2> QED
    BY <1>4, <2>1, <2>2, SequenceWrites, BranchesWrites, JoinWrites DEF ContainerStep
<1>5. CASE UNCHANGED vars
  <2>1. UNCHANGED <<kind, pc, owner, state, wrote, abandoned>>
    BY <1>5 DEF vars
  <2> QED
    BY <2>1, SameWrites DEF Copies, Base
<1> QED
  BY <1>1, <1>2, <1>3, <1>4, <1>5 DEF Next, Progress

\* When the steps are over, an outer key that one step alone wrote to has the value
\* that step gave it last, and a key that no step wrote to is as it was: for every
\* tree, in whatever order branches are merged and however often a step is executed.
THEOREM LoneWriteIsKept == Spec => []LoneWriteSurvives
<1>1. Init => (~abandoned => WriteInv)
  <2> SUFFICES ASSUME Init PROVE WriteInv
    OBVIOUS
  <2>1. /\ \A n \in Nodes : pc[n] = "idle" /\ state[n] = InitialState
        /\ \A n \in Nodes, j \in Keys : wrote[n][j] = Unwritten
    BY DEF Init
  <2>2. Copies = {}
    BY <2>1 DEF Copies
  <2>3. KeepInv
    BY <2>1, <2>2 DEF KeepInv, Keeps
  <2>4. \A k \in Keys, w \in Nodes : ValueInv(k, w)
    BY <2>1, <2>2 DEF ValueInv, ValueAfter, SameTop
  <2> QED
    BY <2>1, <2>3, <2>4 DEF WriteInv, Containers
<1>2. TypeInv /\ ControlInv /\ (~abandoned => WriteInv) => LoneWriteSurvives
  <2> SUFFICES ASSUME TypeInv, ControlInv, WriteInv, Finished, NEW k \in Keys
               PROVE  /\ Writers(k) = {} => state[Root][k] = InitialState[k]
                      /\ \A n \in Writers(k) :
                             Writers(k) = {n} => state[Root][k] = ValueAfter(n, k)
    BY DEF LoneWriteSurvives, Finished
  <2>1. ASSUME NEW w \in Nodes, Writers(k) \subseteq {w}
        PROVE  state[Root][k] = ValueAfter(w, k)
    <3>1. w \in Descendants(Root)
      BY AllUnderRoot DEF Descendants
    <3>2. \A b \in Copies \cap Under[Root] : FALSE
      BY RootIsANode, QuietBelow DEF Finished, Copies
    <3>3. Nearest(Copies, Root, w)
      BY <3>1, <3>2 DEF Nearest
    <3> QED
      BY <2>1, <3>3, RootIsANode DEF WriteInv, ValueInv, SameTop
  <2>2. ASSUME Writers(k) = {} PROVE state[Root][k] = InitialState[k]
    <3>1. wrote[Root][k] = Unwritten
      BY RootIsANode DEF WriteInv
    <3> QED
      BY <2>1, <2>2, <3>1, RootIsANode DEF ValueAfter
  <2> QED
    BY <2>1, <2>2 DEF Writers, Leaves
<1> QED
  BY <1>1, <1>2, NextWrites, ControlAlways, PTL DEF Spec
=============================================================================

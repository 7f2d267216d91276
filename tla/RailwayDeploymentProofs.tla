----------------------- MODULE RailwayDeploymentProofs -----------------------
(***************************************************************************)
(* What holds of every deployment, whatever is listed and however often    *)
(* the program is called, fails and is started again.                      *)
(***************************************************************************)
EXTENDS RailwayDeployment, TLAPS

Records == [kind : Order!Kinds, name : STRING]
Listed == {Listing[i] : i \in DOMAIN Listing}

\* The facts about the plans of the list of resources.
Plans == INSTANCE InstallPlanProofs
             WITH Resources <- Listed, MaxListed <- 0, MaxDependencies <- 0,
                  listed <- Listing, dependsOn <- NoDependencies,
                  plan <- CreateOrder, purpose <- "create"

LEMMA SameOrder ==
    ASSUME NEW t, NEW order
    PROVE  Order!OfOrder(t, order) = Plans!OfOrder(t, order)
  BY Zenon DEF Order!OfOrder, Plans!OfOrder, Order!AppendOfOrder, Plans!AppendOfOrder,
               Order!OrderOf, Plans!OrderOf, Order!RailwayResourceInstallOrder,
               Plans!RailwayResourceInstallOrder, Order!Kinds, Plans!Kinds

LEMMA SameAppend ==
    ASSUME NEW s, NEW t
    PROVE  Order!AppendAllNew(s, t) = Plans!AppendAllNew(s, t)
  BY Zenon DEF Order!AppendAllNew, Plans!AppendAllNew, Order!AppendNew, Plans!AppendNew,
               Order!IsIn, Plans!IsIn

LEMMA SameCreatePlan ==
    ASSUME NEW t, NEW d
    PROVE  Order!CreatePlan(t, d) = Plans!CreatePlan(t, d)
<1>1. Order!StableSort(t) = Plans!StableSort(t)
  BY SameOrder DEF Order!StableSort, Plans!StableSort
<1>2. Order!Deduplicate(Order!StableSort(t)) = Plans!Deduplicate(Plans!StableSort(t))
  BY <1>1, SameAppend DEF Order!Deduplicate, Plans!Deduplicate
<1>3. \A s : Order!AddAllWithDependencies(s, d) = Plans!AddAllWithDependencies(s, d)
  BY Zenon DEF Order!AddAllWithDependencies, Plans!AddAllWithDependencies,
               Order!AddWithDependencies, Plans!AddWithDependencies,
               Order!AppendAllNew, Plans!AppendAllNew, Order!AppendNew, Plans!AppendNew,
               Order!IsIn, Plans!IsIn
<1> QED
  BY <1>2, <1>3 DEF Order!CreatePlan, Plans!CreatePlan

LEMMA SameDeletePlan ==
    ASSUME NEW t
    PROVE  Order!DeletePlan(t) = Plans!DeletePlan(t)
<1>1. Order!ReverseSort(t) = Plans!ReverseSort(t)
  BY SameOrder DEF Order!ReverseSort, Plans!ReverseSort
<1> QED
  BY <1>1, SameAppend DEF Order!DeletePlan, Plans!DeletePlan,
                          Order!Deduplicate, Plans!Deduplicate

\* What the instance of the plans assumes of its constants.
LEMMA PlansApply == (\A r \in Listed : r.kind \in Plans!Kinds) /\ 0 \in Nat
<1> DEFINE R == Records
<1>1. Listing \in Seq(R) /\ \A r \in R : r.kind \in Plans!Kinds
  BY ListingAssumption DEF Records, Order!Kinds, Plans!Kinds
<1> HIDE DEF R
<1> QED
  BY <1>1 DEF Listed

LEMMA RecordsAreRanked == Plans!Ranked(Listed)
<1>1. \A r \in Listed : r.kind \in Plans!Kinds
  BY PlansApply
<1>2. \A k \in Plans!Kinds : Plans!RailwayResourceInstallOrder[k] \in 1 .. 4
  BY DEF Plans!Kinds, Plans!RailwayResourceInstallOrder
<1> QED
  BY <1>1, <1>2 DEF Plans!Ranked, Plans!OrderOf

LEMMA OrderFacts ==
    /\ CreateOrder \in Seq(Listed)
    /\ Plans!ToSet(CreateOrder) = Plans!ToSet(Listing)
    /\ Plans!SortedBy(CreateOrder, Plans!Ascending(Listed))
    /\ DeleteOrder \in Seq(Listed)
    /\ Plans!ToSet(DeleteOrder) = Plans!ToSet(Listing)
    /\ Len(CreateOrder) = Len(DeleteOrder)
<1>1. Listing \in Seq(Listed)
  BY ListingAssumption DEF Listed
<1>2. NoDependencies \in [Listed -> Seq(Listed)] /\ \A r \in Listed : NoDependencies[r] = << >>
  BY DEF NoDependencies, Listed
<1>3. CreateOrder = Plans!CreatePlan(Listing, NoDependencies)
  BY SameCreatePlan DEF CreateOrder
<1>4. DeleteOrder = Plans!DeletePlan(Listing)
  BY SameDeletePlan DEF DeleteOrder
<1>5. Plans!CreatePlan(Listing, NoDependencies) \in Seq(Listed)
  BY <1>1, <1>2, PlansApply, RecordsAreRanked, Plans!CreatePlanFacts
<1>6. Plans!DeletePlan(Listing) \in Seq(Listed) /\ Plans!ToSet(Plans!DeletePlan(Listing)) = Plans!ToSet(Listing)
  BY <1>1, PlansApply, RecordsAreRanked, Plans!DeletePlanFacts
<1>7. Plans!SortedBy(Plans!CreatePlan(Listing, NoDependencies), Plans!Ascending(Listed))
  BY <1>1, <1>2, PlansApply, RecordsAreRanked, Plans!CreatePlanIsSorted
<1>8. /\ Plans!ToSet(Plans!CreatePlan(Listing, NoDependencies)) = Plans!ToSet(Listing)
      /\ Len(Plans!CreatePlan(Listing, NoDependencies)) = Len(Plans!DeletePlan(Listing))
  BY <1>1, <1>2, PlansApply, RecordsAreRanked, Plans!PlansAgree
<1> QED
  BY <1>3, <1>4, <1>5, <1>6, <1>7, <1>8

\* The resources, and where they stand in the two plans.
LEMMA ResourceFacts ==
    /\ Resources \subseteq Records /\ Resources = Listed
    /\ \A r \in Resources : Project(r) \in Resources /\ Environment(r) \in Resources
    /\ Total \in Nat /\ Total >= 1
    /\ \A i \in 1 .. Total : CreateOrder[i] \in Resources /\ DeleteOrder[i] \in Resources
    /\ \A r \in Resources : /\ \E i \in 1 .. Total : CreateOrder[i] = r
                            /\ \E i \in 1 .. Total : DeleteOrder[i] = r
<1>1. /\ CreateOrder \in Seq(Listed) /\ DeleteOrder \in Seq(Listed)
      /\ Len(CreateOrder) = Len(DeleteOrder)
  BY OrderFacts
<1>2. /\ Total \in Nat /\ DOMAIN CreateOrder = 1 .. Total /\ DOMAIN DeleteOrder = 1 .. Total
  BY <1>1 DEF Total
<1>3. /\ {CreateOrder[i] : i \in 1 .. Total} = Listed
      /\ {DeleteOrder[i] : i \in 1 .. Total} = Listed
  BY <1>2, OrderFacts DEF Plans!ToSet, Listed
<1>4. Resources = Listed
  BY <1>2, <1>3 DEF Resources
<1> DEFINE R == Records
<1>5. Listing \in Seq(R) /\ DOMAIN Listing # {}
  BY ListingAssumption DEF Records
<1> HIDE DEF R
<1>6. Listed \subseteq R /\ Listed # {}
  BY <1>5 DEF Listed
<1>7. \A r \in Listed : Project(r) \in Listed /\ Environment(r) \in Listed
  BY ListingAssumption DEF Listed
<1>8. Total >= 1
  BY <1>2, <1>3, <1>6
<1> QED
  BY <1>2, <1>3, <1>4, <1>6, <1>7, <1>8 DEF R

\* The plan goes by the install order: projects first, then environments.
LEMMA PlanIsOrdered ==
    ASSUME NEW i \in 1 .. Total, NEW j \in 1 .. Total,
           Plans!RailwayResourceInstallOrder[CreateOrder[i].kind]
               < Plans!RailwayResourceInstallOrder[CreateOrder[j].kind]
    PROVE  i < j
<1>1. CreateOrder[i] \in Listed /\ CreateOrder[j] \in Listed
  BY ResourceFacts
<1>2. \A r \in Listed : /\ r.kind \in Plans!Kinds
                        /\ Plans!Ascending(Listed)[r] = Plans!RailwayResourceInstallOrder[r.kind]
  BY PlansApply DEF Plans!Ascending, Plans!OrderOf
<1>3. \A k \in Plans!Kinds : Plans!RailwayResourceInstallOrder[k] \in 1 .. 4
  BY DEF Plans!Kinds, Plans!RailwayResourceInstallOrder
<1> DEFINE key == Plans!Ascending(Listed)
<1>4. \A k, l \in 1 .. Total : k < l => key[CreateOrder[k]] <= key[CreateOrder[l]]
  BY OrderFacts DEF Plans!SortedBy, Total
<1>5. /\ key[CreateOrder[i]] < key[CreateOrder[j]]
      /\ key[CreateOrder[i]] \in 1 .. 4 /\ key[CreateOrder[j]] \in 1 .. 4
  BY <1>1, <1>2, <1>3
<1> HIDE DEF key
<1>6. ~(j < i)
  BY <1>4, <1>5
<1>7. i # j
  BY <1>5
<1> QED
  BY <1>6, <1>7, ResourceFacts

LEMMA ProjectsComeFirst ==
    ASSUME NEW i \in 1 .. Total, NEW j \in 1 .. Total,
           CreateOrder[i].kind = "project", CreateOrder[j].kind # "project"
    PROVE  i < j
<1>1. CreateOrder[j].kind \in Plans!Kinds
  BY ResourceFacts, PlansApply
<1>2. /\ Plans!RailwayResourceInstallOrder["project"] = 1
      /\ \A k \in Plans!Kinds : k # "project" => Plans!RailwayResourceInstallOrder[k] \in 2 .. 4
  BY DEF Plans!Kinds, Plans!RailwayResourceInstallOrder
<1>3. Plans!RailwayResourceInstallOrder[CreateOrder[i].kind]
          < Plans!RailwayResourceInstallOrder[CreateOrder[j].kind]
  BY <1>1, <1>2
<1> QED
  BY <1>3, PlanIsOrdered

LEMMA EnvironmentsComeNext ==
    ASSUME NEW i \in 1 .. Total, NEW j \in 1 .. Total,
           CreateOrder[i].kind = "environment", HasEnvironmentId(CreateOrder[j])
    PROVE  i < j
<1>1. CreateOrder[j].kind \in Plans!Kinds \ {"project", "environment"}
  BY ResourceFacts, PlansApply DEF HasEnvironmentId
<1>2. /\ Plans!RailwayResourceInstallOrder["environment"] = 2
      /\ \A k \in Plans!Kinds \ {"project", "environment"} :
            Plans!RailwayResourceInstallOrder[k] \in 3 .. 4
  BY DEF Plans!Kinds, Plans!RailwayResourceInstallOrder
<1>3. Plans!RailwayResourceInstallOrder[CreateOrder[i].kind]
          < Plans!RailwayResourceInstallOrder[CreateOrder[j].kind]
  BY <1>1, <1>2
<1> QED
  BY <1>3, PlanIsOrdered

----------------------------------------------------------------------------
(* The types, and where the loop is.                                       *)

Running ==
    /\ pc # "idle" => index \in 1 .. Total /\ count < index
    /\ pc \in {"check", "remove", "make"} => Creating
    /\ pc = "delete" => call = "delete"

TypeInv == TypeOK /\ Running

LEMMA CurrentIsListed ==
    ASSUME TypeInv, pc # "idle"
    PROVE  Current \in Resources
  BY ResourceFacts DEF TypeInv, Running, Current

LEMMA AdvanceFacts ==
    ASSUME TypeInv, pc # "idle", NEW succeeded \in BOOLEAN, Advance(succeeded)
    PROVE  /\ index' \in 1 .. Total /\ count' \in 0 .. index'
           /\ pc' \in {"idle", "check", "delete"}
           /\ pc' # "idle" => count' < index'
           /\ pc' = "check" => Creating'
           /\ pc' = "delete" => call' = "delete"
           /\ call' = call /\ made' = made
<1>1. index \in 1 .. Total /\ count \in 0 .. index /\ count < index /\ Total \in Nat
  BY ResourceFacts DEF TypeInv, TypeOK, Running
<1>2. call' = call /\ made' = made
  BY DEF Advance
<1>3. CASE index < Total /\ (succeeded \/ ~scenario.stop)
  <2>1. index' = index + 1 /\ pc' = IF Creating THEN "check" ELSE "delete"
    BY <1>3 DEF Advance
  <2>2. ~Creating => call = "delete"
    BY DEF TypeInv, Running, TypeOK, Creating, Steps
  <2>3. count' = count \/ count' = count + 1
    BY DEF Advance
  <2>4. index' \in 1 .. Total /\ count' \in 0 .. index' /\ count' < index'
    BY <1>1, <1>3, <2>1, <2>3
  <2>5. Creating' <=> Creating
    BY <1>2 DEF Creating
  <2> QED
    BY <1>2, <2>1, <2>2, <2>4, <2>5
<1>4. CASE ~(index < Total /\ (succeeded \/ ~scenario.stop))
  <2>1. index' = index /\ pc' = "idle"
    BY <1>4 DEF Advance
  <2>2. count' = count \/ count' = count + 1
    BY DEF Advance
  <2> QED
    BY <1>1, <1>2, <2>1, <2>2
<1> QED
  BY <1>3, <1>4

LEMMA PropagateTypes ==
    ASSUME projectId \in [Resources -> References], environmentId \in [Resources -> References],
           NEW r, NEW id \in {NoId} \cup Ids, Propagate(r, id)
    PROVE  /\ projectId' \in [Resources -> References]
           /\ environmentId' \in [Resources -> References]
  BY DEF Propagate, Filled, References

\* Only what Railway accepts has an effect, and success has one.
LEMMA OutcomeFacts ==
    ASSUME NEW r, NEW accepted \in BOOLEAN, NEW o \in MutationOutcomes(r, accepted)
    PROVE  /\ o.ok \in BOOLEAN /\ o.effects \in Nat
           /\ o.ok => accepted /\ o.effects >= 1
           /\ o.effects > 0 => accepted
           /\ r.kind # "project" => o.effects <= 1
           /\ "lost" \notin scenario.faults => o.effects = IF o.ok THEN 1 ELSE 0
           /\ accepted /\ scenario.faults \cap {"lost", "write"} = {} => o.ok
<1>1. ASSUME NEW n \in Nat, NEW x \in Outcomes(n)
      PROVE  /\ x.ok \in BOOLEAN /\ x.effects \in Nat /\ (x.ok => x.effects >= 1)
             /\ n = 0 => x.effects = IF x.ok THEN 1 ELSE 0
  <2>1. CASE x \in [ok : {TRUE}, effects : 1 .. 1 + n]
    <3>1. x.ok = TRUE /\ x.effects \in 1 .. 1 + n
      BY <2>1
    <3>2. x.effects \in Nat /\ x.effects >= 1 /\ (n = 0 => x.effects = 1)
      BY <3>1
    <3> QED
      BY <3>1, <3>2, Zenon
  <2>2. CASE x \in [ok : {FALSE}, effects : 0 .. n]
    <3>1. x.ok = FALSE /\ x.effects \in 0 .. n
      BY <2>2
    <3>2. x.effects \in Nat /\ (n = 0 => x.effects = 0)
      BY <3>1
    <3> QED
      BY <3>1, <3>2, Zenon
  <2> QED
    BY <1>1, <2>1, <2>2 DEF Outcomes
<1> DEFINE n == IF "lost" \in scenario.faults THEN MaxLosses ELSE 0
<1>2. o \in Outcomes(n) /\ n \in Nat /\ ("lost" \notin scenario.faults => n = 0)
  BY BoundsAssumption DEF MutationOutcomes
<1> HIDE DEF n
<1>3. /\ ~accepted => ~o.ok /\ o.effects = 0
      /\ accepted /\ ~o.ok => "write" \in scenario.faults \/ o.effects > 0
      /\ r.kind # "project" => o.effects <= 1
  BY DEF MutationOutcomes
<1>4. /\ o.ok \in BOOLEAN /\ o.effects \in Nat /\ (o.ok => o.effects >= 1)
      /\ "lost" \notin scenario.faults => o.effects = IF o.ok THEN 1 ELSE 0
  BY <1>1, <1>2
<1> QED
  BY <1>3, <1>4

LEMMA NameTypes ==
    ASSUME NEW r \in Resources
    PROVE  r.kind \in Order!Kinds /\ r.name \in Names /\ CloudName(r) \in Names
<1>1. r \in Records
  BY ResourceFacts
<1> QED
  BY <1>1 DEF Records, Names

LEMMA MadeTypes ==
    ASSUME TypeInv, NEW r \in Resources, Accepts(r), NEW id \in Ids
    PROVE  \A o \in Made(r, id) : o \in Objects /\ o.id \in id .. id + Width(r) - 1
<1>1. r.kind \in Order!Kinds /\ r.name \in Names /\ CloudName(r) \in Names
  BY NameTypes
<1>2. CASE r.kind = "project"
  <2> DEFINE a == [id |-> id, kind |-> "project", name |-> r.name, project |-> id,
                   environment |-> NoId]
             b == [id |-> id + 1, kind |-> "environment", name |-> "production",
                   project |-> id, environment |-> NoId]
  <2>1. a \in Objects /\ b \in Objects
    <3>1. {"project", "environment"} \subseteq Order!Kinds /\ "production" \in Names
      BY DEF Order!Kinds, Names
    <3>2. id + 1 \in Ids /\ NoId \in {NoId} \cup Ids
      BY DEF Ids
    <3>3. a \in Objects
      BY <1>1, <3>1, <3>2 DEF Objects
    <3>4. b \in Objects
      BY <3>1, <3>2 DEF Objects
    <3> QED
      BY <3>3, <3>4
  <2>2. Made(r, id) = {a, b} /\ Width(r) = 2
    BY <1>2 DEF Made, Width
  <2>3. a.id = id /\ b.id = id + 1
    OBVIOUS
  <2> HIDE DEF a, b
  <2> QED
    BY <2>1, <2>2, <2>3 DEF Ids
<1>3. CASE r.kind # "project"
  <2> DEFINE e == IF r.kind \in {"variable", "collection"} THEN environmentId[r] ELSE NoId
             a == [id |-> id, kind |-> r.kind, name |-> CloudName(r),
                   project |-> projectId[r], environment |-> e]
  <2>1. projectId[r] \in Ids
    BY <1>3 DEF Accepts, HasProjectId, IsLive, TypeInv, TypeOK, Objects
  <2>2. r.kind \in {"variable", "collection"} => environmentId[r] \in Ids
    BY DEF Accepts, IsLive, TypeInv, TypeOK, Objects
  <2>3. e \in {NoId} \cup Ids
    BY <2>2
  <2>4. Made(r, id) = {a} /\ Width(r) = 1
    BY <1>3 DEF Made, Width
  <2> HIDE DEF e
  <2>5. a \in Objects
    BY <1>1, <2>1, <2>3 DEF Objects
  <2>6. a.id = id
    OBVIOUS
  <2> HIDE DEF a
  <2> QED
    BY <2>4, <2>5, <2>6 DEF Ids
<1> QED
  BY <1>2, <1>3

LEMMA FoundTypes ==
    ASSUME TypeInv, NEW r \in Resources, NEW found \in ReadResults(r)
    PROVE  /\ found \in {NoId, Template} \cup Ids
           /\ r.kind # "collection" => found \in {NoId} \cup Ids
           /\ Remembered(r, found) \in [Resources -> {NoId} \cup Ids]
<1>1. \A o \in Matches(r) : o \in objects /\ o.id \in Ids
  BY DEF Matches, TypeInv, TypeOK, Objects
<1>2. /\ found \in {NoId, Template} \cup Ids
      /\ r.kind # "collection" => found \in {NoId} \cup Ids
  BY <1>1 DEF ReadResults
<1>3. railwayId \in [Resources -> {NoId} \cup Ids]
  BY DEF TypeInv, TypeOK
<1> QED
  BY <1>2, <1>3 DEF Remembered

LEMMA DeleteFacts ==
    ASSUME TypeInv, NEW r \in Resources, NEW outcome, Delete(r, outcome)
    PROVE  /\ objects' \subseteq objects
           /\ active' \in [Resources -> BOOLEAN]
           /\ outcome.ok \in BOOLEAN
<1>1. CanDelete(r) \in BOOLEAN
  BY DEF CanDelete, IsLive
<1>2. outcome.ok \in BOOLEAN
  BY <1>1, OutcomeFacts DEF Delete
<1>3. active \in [Resources -> BOOLEAN]
  BY DEF TypeInv, TypeOK
<1> QED
  BY <1>2, <1>3 DEF Delete

\* What Make makes.
LEMMA CreatedTypes ==
    ASSUME TypeInv, NEW r \in Resources, NEW effects \in Nat, effects > 0 => Accepts(r),
           NEW created,
           created = UNION {Made(r, id) : id \in {nextId + Width(r) * k : k \in 0 .. effects - 1}}
    PROVE  /\ created \subseteq Objects
           /\ \A o \in created : o.id >= nextId /\ o.id < nextId + Width(r) * effects
           /\ nextId + Width(r) * effects \in Ids
           /\ nextId + Width(r) * effects >= nextId
           /\ effects >= 1 => nextId + Width(r) * (effects - 1) \in Ids
<1>1. nextId \in Ids /\ Width(r) \in {1, 2}
  BY DEF TypeInv, TypeOK, Width
<1>2. ASSUME NEW w \in {1, 2}, w = Width(r)
      PROVE  /\ nextId + w * effects \in Ids
             /\ nextId + w * effects >= nextId
             /\ effects >= 1 => nextId + w * (effects - 1) \in Ids
             /\ \A k \in 0 .. effects - 1 :
                   /\ nextId + w * k \in Ids /\ nextId + w * k >= nextId
                   /\ nextId + w * k + w <= nextId + w * effects
  <2>1. CASE w = 1
    BY <1>1, <2>1 DEF Ids
  <2>2. CASE w = 2
    BY <1>1, <2>2 DEF Ids
  <2> QED
    BY <2>1, <2>2
<1>3. ASSUME NEW k \in 0 .. effects - 1, NEW o \in Made(r, nextId + Width(r) * k)
      PROVE  o \in Objects /\ o.id >= nextId /\ o.id < nextId + Width(r) * effects
  <2> DEFINE id == nextId + Width(r) * k
  <2>1. id \in Ids /\ id >= nextId /\ id + Width(r) <= nextId + Width(r) * effects
    BY <1>1, <1>2
  <2>2. Accepts(r)
    OBVIOUS
  <2> HIDE DEF id
  <2>3. o \in Objects /\ o.id \in id .. id + Width(r) - 1
    BY <2>1, <2>2, <1>3, MadeTypes DEF id
  <2> QED
    BY <1>1, <2>1, <2>3 DEF Ids, Objects
<1>4. \A o \in created : \E k \in 0 .. effects - 1 : o \in Made(r, nextId + Width(r) * k)
  OBVIOUS
<1> QED
  BY <1>1, <1>2, <1>3, <1>4

\* What every step of the loop leaves alone.
LEMMA LoopTypes ==
    ASSUME TypeInv, pc # "idle", NEW succeeded \in BOOLEAN, Advance(succeeded),
           UNCHANGED scenario, settled' \subseteq Settlement,
           objects' \subseteq Objects, nextId' \in Ids, \A o \in objects' : o.id < nextId',
           railwayId' \in [Resources -> {NoId} \cup Ids],
           active' \in [Resources -> BOOLEAN], force' \in [Resources -> BOOLEAN],
           projectId' \in [Resources -> References],
           environmentId' \in [Resources -> References]
    PROVE  TypeInv'
<1>1. Objects' = Objects
  BY DEF Objects, Names, CloudName
<1>2. /\ index' \in 1 .. Total /\ count' \in 0 .. index'
      /\ pc' \in {"idle", "check", "delete"}
      /\ pc' # "idle" => count' < index'
      /\ pc' = "check" => Creating'
      /\ pc' = "delete" => call' = "delete"
      /\ call' = call /\ made' = made
  BY AdvanceFacts
<1>3. index' \in 0 .. Len(CreateOrder)
  BY <1>2, ResourceFacts DEF Total
<1>4. TypeOK'
  BY <1>1, <1>2, <1>3 DEF TypeInv, TypeOK, Steps
<1>5. Running'
  BY <1>2 DEF Running, Total
<1> QED
  BY <1>4, <1>5 DEF TypeInv

LEMMA CheckTypes ==
    ASSUME TypeInv, Check
    PROVE  TypeInv'
<1> DEFINE r == Current
           wanted == force[r] \/ call = "force"
           exists(found) == active[r] \/ found # NoId
           ids(found) == IF active[r] THEN railwayId ELSE Remembered(r, found)
<1>1. r \in Resources /\ pc = "check"
  BY CurrentIsListed DEF Check
<1>2. PICK found \in IF active[r] THEN {railwayId[r]} ELSE ReadResults(r) :
          /\ railwayId' = ids(found)
          /\ active' = [active EXCEPT ![r] = exists(found)]
          /\ force' = [force EXCEPT ![r] = wanted]
          /\ IF exists(found) /\ ~wanted
             THEN Propagate(r, ids(found)[r]) /\ Advance(TRUE)
             ELSE /\ pc' = IF exists(found) THEN "remove" ELSE "make"
                  /\ UNCHANGED <<projectId, environmentId, call, index, count, made>>
  BY DEF Check
<1>3. ids(found) \in [Resources -> {NoId} \cup Ids]
  <2>1. CASE active[r]
    BY <2>1 DEF TypeInv, TypeOK
  <2>2. CASE ~active[r]
    BY <1>1, <1>2, <2>2, FoundTypes
  <2> QED
    BY <2>1, <2>2
<1>4. UNCHANGED <<scenario, objects, nextId, settled>>
  BY DEF Check
<1>5. exists(found) \in BOOLEAN /\ wanted \in BOOLEAN
  BY <1>1 DEF TypeInv, TypeOK
<1>6. active' \in [Resources -> BOOLEAN] /\ force' \in [Resources -> BOOLEAN]
  BY <1>2, <1>5 DEF TypeInv, TypeOK
<1>7. /\ objects' \subseteq Objects /\ nextId' \in Ids /\ settled' \subseteq Settlement
      /\ \A o \in objects' : o.id < nextId'
      /\ projectId \in [Resources -> References] /\ environmentId \in [Resources -> References]
  BY <1>4 DEF TypeInv, TypeOK
<1> HIDE DEF r, wanted, exists, ids
<1>8. CASE exists(found) /\ ~wanted
  <2>1. Propagate(r, ids(found)[r]) /\ Advance(TRUE)
    BY <1>2, <1>8
  <2>2. /\ projectId' \in [Resources -> References]
        /\ environmentId' \in [Resources -> References]
    BY <1>1, <1>3, <1>7, <2>1, PropagateTypes
  <2> QED
    BY <1>1, <1>2, <1>3, <1>4, <1>6, <1>7, <2>1, <2>2, LoopTypes
<1>9. CASE ~(exists(found) /\ ~wanted)
  <2>1. /\ pc' = IF exists(found) THEN "remove" ELSE "make"
        /\ UNCHANGED <<projectId, environmentId, call, index, count, made>>
    BY <1>2, <1>9
  <2>2. Objects' = Objects
    BY <1>4 DEF Objects, Names, CloudName
  <2>3. TypeOK'
    BY <1>2, <1>3, <1>4, <1>6, <1>7, <2>1, <2>2 DEF TypeInv, TypeOK, Steps
  <2>4. Running'
    BY <1>1, <2>1 DEF TypeInv, Running, Total, Creating
  <2> QED
    BY <2>3, <2>4 DEF TypeInv
<1> QED
  BY <1>8, <1>9

LEMMA RemoveTypes ==
    ASSUME TypeInv, Remove
    PROVE  TypeInv'
<1>1. Current \in Resources /\ pc = "remove" /\ pc' = "make"
  BY CurrentIsListed DEF Remove
<1>2. objects' \subseteq objects /\ active' \in [Resources -> BOOLEAN]
  BY <1>1, DeleteFacts DEF Remove
<1>3. UNCHANGED <<scenario, nextId, settled, railwayId, force, projectId, environmentId,
                  call, index, count, made>>
  BY DEF Remove
<1>4. Objects' = Objects
  BY <1>3 DEF Objects, Names, CloudName
<1>5. TypeOK'
  BY <1>1, <1>2, <1>3, <1>4 DEF TypeInv, TypeOK, Steps
<1>6. Running'
  BY <1>1, <1>3 DEF TypeInv, Running, Total, Creating
<1> QED
  BY <1>5, <1>6 DEF TypeInv

LEMMA DeleteStepTypes ==
    ASSUME TypeInv, DeleteStep
    PROVE  TypeInv'
<1>1. Current \in Resources /\ pc = "delete"
  BY CurrentIsListed DEF DeleteStep
<1>2. PICK outcome \in Outcomes(MaxLosses) : Delete(Current, outcome) /\ Advance(outcome.ok)
  BY DEF DeleteStep
<1>3. objects' \subseteq objects /\ active' \in [Resources -> BOOLEAN] /\ outcome.ok \in BOOLEAN
  BY <1>1, <1>2, DeleteFacts
<1>4. UNCHANGED <<scenario, nextId, settled, railwayId, force, projectId, environmentId>>
  BY DEF DeleteStep
<1>5. /\ objects' \subseteq Objects /\ nextId' \in Ids /\ settled' \subseteq Settlement
      /\ \A o \in objects' : o.id < nextId'
      /\ railwayId' \in [Resources -> {NoId} \cup Ids] /\ force' \in [Resources -> BOOLEAN]
      /\ projectId' \in [Resources -> References]
      /\ environmentId' \in [Resources -> References]
  BY <1>3, <1>4 DEF TypeInv, TypeOK
<1> QED
  BY <1>1, <1>2, <1>3, <1>4, <1>5, LoopTypes

\* What Make does, with the outcome it is done with.
Makes(r, outcome) ==
    LET ids == {nextId + Width(r) * k : k \in 0 .. outcome.effects - 1}
        newest == nextId + Width(r) * (outcome.effects - 1)
        named == outcome.ok /\ r.kind \notin {"variable", "collection"}
    IN  /\ objects' = objects \cup UNION {Made(r, id) : id \in ids}
        /\ nextId' = nextId + Width(r) * outcome.effects
        /\ \E done \in IF outcome.ok THEN FollowedUp(r) ELSE {{}} : Settle(r, newest, done)
        /\ railwayId' = IF named THEN [railwayId EXCEPT ![r] = newest] ELSE railwayId
        /\ outcome.ok => \E refreshed \in BOOLEAN : active' = [active EXCEPT ![r] = refreshed]
        /\ ~outcome.ok => active' = active
        /\ outcome.ok => Propagate(r, railwayId'[r])
        /\ ~outcome.ok => UNCHANGED <<projectId, environmentId>>
        /\ Advance(outcome.ok)

LEMMA MakeFacts ==
    ASSUME TypeInv, Make
    PROVE  /\ Current \in Resources /\ pc = "make"
           /\ UNCHANGED <<scenario, force>>
           /\ \E outcome \in MutationOutcomes(Current, Accepts(Current)) : Makes(Current, outcome)
<1>1. Current \in Resources /\ pc = "make"
  BY CurrentIsListed DEF Make
<1> DEFINE r == Current
<1>2. PICK outcome \in MutationOutcomes(r, Accepts(r)) :
          LET ids == {nextId + Width(r) * k : k \in 0 .. outcome.effects - 1}
              created == UNION {Made(r, id) : id \in ids}
              newest == nextId + Width(r) * (outcome.effects - 1)
              named == outcome.ok /\ r.kind \notin {"variable", "collection"}
          IN  /\ objects' = objects \cup created
              /\ nextId' = nextId + Width(r) * outcome.effects
              /\ \E done \in IF outcome.ok THEN FollowedUp(r) ELSE {{}} :
                    Settle(r, newest, done)
              /\ railwayId' = IF named THEN [railwayId EXCEPT ![r] = newest] ELSE railwayId
              /\ IF outcome.ok
                 THEN \E refreshed \in {TRUE} \cup (IF "read" \in scenario.faults
                                                    THEN {FALSE} ELSE {}) :
                         active' = [active EXCEPT ![r] = refreshed]
                 ELSE active' = active
              /\ IF Succeeded(outcome)
                 THEN Propagate(r, railwayId'[r])
                 ELSE UNCHANGED <<projectId, environmentId>>
              /\ Advance(Succeeded(outcome))
  BY DEF Make
<1>3. outcome.ok => \E refreshed \in BOOLEAN : active' = [active EXCEPT ![r] = refreshed]
  <2> HIDE DEF r
  <2> QED
    BY <1>2
<1> HIDE DEF r
<1>4. Makes(r, outcome)
  BY <1>2, <1>3 DEF Makes, Succeeded
<1>5. UNCHANGED <<scenario, force>>
  BY DEF Make
<1> QED
  BY <1>1, <1>2, <1>4, <1>5 DEF r

LEMMA SettleTypes ==
    ASSUME TypeInv, NEW r \in Resources, NEW id, NEW done \in FollowedUp(r) \cup {{}},
           done # {} => id \in Ids, NEW part \in SUBSET done, Settle(r, id, part)
    PROVE  settled' \subseteq Settlement
<1>1. done \subseteq {"variables", "deployment"}
  BY DEF FollowedUp, FollowUps
<1>2. done # {} => environmentId[r] \in Ids
  BY DEF FollowedUp, IsLive, TypeInv, TypeOK, Objects
<1>3. ASSUME NEW p \in part
      PROVE  [service |-> id, environment |-> environmentId[r], part |-> p] \in Settlement
  BY <1>1, <1>2 DEF Settlement
<1>4. settled \subseteq Settlement
  BY DEF TypeInv, TypeOK
<1> QED
  BY <1>3, <1>4 DEF Settle

LEMMA MakeTypes ==
    ASSUME TypeInv, Make
    PROVE  TypeInv'
<1> DEFINE r == Current
<1>1. r \in Resources /\ pc = "make" /\ UNCHANGED <<scenario, force>>
  BY MakeFacts
<1>2. PICK outcome \in MutationOutcomes(r, Accepts(r)) : Makes(r, outcome)
  BY MakeFacts
<1>3. Accepts(r) \in BOOLEAN
  BY DEF Accepts, IsLive
<1> HIDE DEF r
<1>4. /\ outcome.ok \in BOOLEAN /\ outcome.effects \in Nat
      /\ outcome.ok => Accepts(r) /\ outcome.effects >= 1
      /\ outcome.effects > 0 => Accepts(r)
  BY <1>3, OutcomeFacts
<1> DEFINE created == UNION {Made(r, id) : id \in {nextId + Width(r) * k : k \in 0 .. outcome.effects - 1}}
<1>5. objects' = objects \cup created /\ nextId' = nextId + Width(r) * outcome.effects
  BY <1>2 DEF Makes
<1>6. /\ created \subseteq Objects
      /\ \A o \in created : o.id >= nextId /\ o.id < nextId + Width(r) * outcome.effects
      /\ nextId + Width(r) * outcome.effects \in Ids
      /\ nextId + Width(r) * outcome.effects >= nextId
      /\ outcome.effects >= 1 => nextId + Width(r) * (outcome.effects - 1) \in Ids
  BY <1>1, <1>4, CreatedTypes
<1> HIDE DEF created
<1>7. /\ objects' \subseteq Objects /\ nextId' \in Ids
      /\ \A o \in objects' : o.id < nextId'
  <2>1. \A o \in objects : o \in Objects /\ o.id \in Ids /\ o.id < nextId
    BY DEF TypeInv, TypeOK, Objects
  <2>2. nextId \in Ids
    BY DEF TypeInv, TypeOK
  <2> QED
    BY <1>5, <1>6, <2>1, <2>2 DEF Ids
<1>8. railwayId' \in [Resources -> {NoId} \cup Ids]
  BY <1>2, <1>4, <1>6 DEF Makes, TypeInv, TypeOK
<1>9. active' \in [Resources -> BOOLEAN] /\ force' \in [Resources -> BOOLEAN]
  BY <1>1, <1>2 DEF Makes, TypeInv, TypeOK
<1>10. projectId' \in [Resources -> References] /\ environmentId' \in [Resources -> References]
  <2>1. projectId \in [Resources -> References] /\ environmentId \in [Resources -> References]
    BY DEF TypeInv, TypeOK
  <2>2. CASE outcome.ok
    BY <1>1, <1>2, <1>8, <2>1, <2>2, PropagateTypes DEF Makes
  <2>3. CASE ~outcome.ok
    BY <1>2, <2>1, <2>3 DEF Makes
  <2> QED
    BY <1>4, <2>2, <2>3
<1>11. Advance(outcome.ok)
  BY <1>2 DEF Makes
<1>12. settled' \subseteq Settlement
  <2> DEFINE newest == nextId + Width(r) * (outcome.effects - 1)
  <2>1. PICK done \in IF outcome.ok THEN FollowedUp(r) ELSE {{}} : Settle(r, newest, done)
    BY <1>2 DEF Makes
  <2>2. outcome.ok => newest \in Ids
    BY <1>4, <1>6
  <2> HIDE DEF newest
  <2>3. done \in FollowedUp(r) \cup {{}} /\ (done # {} => newest \in Ids) /\ done \in SUBSET done
    BY <2>1, <2>2
  <2> QED
    BY <1>1, <2>1, <2>3, SettleTypes
<1> QED
  BY <1>1, <1>4, <1>7, <1>8, <1>9, <1>10, <1>11, <1>12, LoopTypes

LEMMA FreshTypes ==
    /\ [r \in Resources |-> NoId] \in [Resources -> {NoId} \cup Ids]
    /\ [r \in Resources |-> FALSE] \in [Resources -> BOOLEAN]
    /\ [r \in Resources |-> FreshReference(r)] \in [Resources -> References]
  BY DEF FreshReference, References

LEMMA InitTypes == Init => TypeInv
<1> SUFFICES ASSUME Init
             PROVE  TypeInv
  OBVIOUS
<1>1. /\ railwayId \in [Resources -> {NoId} \cup Ids]
      /\ active \in [Resources -> BOOLEAN] /\ force \in [Resources -> BOOLEAN]
      /\ projectId \in [Resources -> References] /\ environmentId \in [Resources -> References]
  BY FreshTypes DEF Init, Fresh
<1>2. scenario.maxCalls \in Nat
  BY ScenariosAssumption DEF Init, Scenario
<1>3. Len(CreateOrder) \in Nat
  BY ResourceFacts DEF Total
<1>4. TypeOK
  BY <1>1, <1>2, <1>3 DEF Init, TypeOK, Steps, Ids
<1>5. Running
  BY DEF Init, Running
<1> QED
  BY <1>4, <1>5 DEF TypeInv

LEMMA StartTypes ==
    ASSUME TypeInv, NEW kind \in scenario.calls, Start(kind)
    PROVE  TypeInv'
<1>1. kind \in Call /\ scenario.maxCalls \in Nat
  BY ScenariosAssumption DEF TypeInv, TypeOK, Scenario
<1>2. UNCHANGED <<scenario, objects, nextId, settled, railwayId, active, force, projectId,
                  environmentId>>
  BY DEF Start, localVars
<1>3. Objects' = Objects
  BY <1>2 DEF Objects, Names, CloudName
<1>4. /\ made < scenario.maxCalls /\ made' = made + 1 /\ call' = kind /\ index' = 1 /\ count' = 0
      /\ pc' = IF kind = "delete" THEN "delete" ELSE "check"
  BY DEF Start
<1>5. 1 \in 1 .. Total /\ 1 \in 0 .. Len(CreateOrder)
  BY ResourceFacts DEF Total
<1>6. TypeOK'
  BY <1>1, <1>2, <1>3, <1>4, <1>5 DEF TypeInv, TypeOK, Steps
<1>7. Running'
  BY <1>1, <1>4, <1>5 DEF Running, Creating, Call, Total
<1> QED
  BY <1>6, <1>7 DEF TypeInv

LEMMA RestartTypes ==
    ASSUME TypeInv, Restart
    PROVE  TypeInv'
<1>1. UNCHANGED <<scenario, objects, nextId, settled, made>>
  BY DEF Restart
<1>2. /\ railwayId' \in [Resources -> {NoId} \cup Ids]
      /\ active' \in [Resources -> BOOLEAN] /\ force' \in [Resources -> BOOLEAN]
      /\ projectId' \in [Resources -> References] /\ environmentId' \in [Resources -> References]
  BY FreshTypes DEF Restart, Fresh
<1>3. pc' = "idle" /\ call' = "none" /\ index' = 0 /\ count' = 0
  BY DEF Restart
<1>4. Objects' = Objects
  BY <1>1 DEF Objects, Names, CloudName
<1>5. Len(CreateOrder) \in Nat
  BY ResourceFacts DEF Total
<1>6. TypeOK'
  BY <1>1, <1>2, <1>3, <1>4, <1>5 DEF TypeInv, TypeOK, Steps
<1>7. Running'
  BY <1>3 DEF Running
<1> QED
  BY <1>6, <1>7 DEF TypeInv

\* What an interrupt leaves: a service, and a program that knows nothing.
LEMMA InterruptFacts ==
    ASSUME TypeInv, Interrupt
    PROVE  /\ "restart" \in scenario.faults /\ UNCHANGED <<scenario, made>>
           /\ \E r \in Resources :
                 /\ r.kind \in Services /\ Accepts(r) /\ nextId' = nextId + 1
                 /\ objects' = objects \cup {[id |-> nextId, kind |-> r.kind,
                        name |-> CloudName(r), project |-> projectId[r],
                        environment |-> NoId]}
                 /\ \E done \in FollowedUp(r), reached \in {{}, {"variables"}} :
                       Settle(r, nextId, done \cap reached)
           /\ Fresh(railwayId', active', force', projectId', environmentId')
           /\ pc' = "idle" /\ call' = "none" /\ index' = 0 /\ count' = 0
<1>1. PICK r \in Resources : r = Current
  BY CurrentIsListed DEF Interrupt
<1>2. r.kind \in Services
  BY <1>1 DEF Interrupt, FollowUps, Services
<1>3. /\ Made(r, nextId) = {[id |-> nextId, kind |-> r.kind, name |-> CloudName(r),
                             project |-> projectId[r], environment |-> NoId]}
      /\ Width(r) = 1
  BY <1>2 DEF Services, Made, Width
<1>4. /\ Accepts(r) /\ objects' = objects \cup Made(r, nextId)
      /\ nextId' = nextId + Width(r)
      /\ \E done \in FollowedUp(r), reached \in {{}, {"variables"}} :
            Settle(r, nextId, done \cap reached)
  BY <1>1 DEF Interrupt
<1>5. /\ "restart" \in scenario.faults /\ UNCHANGED <<scenario, made>>
      /\ Fresh(railwayId', active', force', projectId', environmentId')
      /\ pc' = "idle" /\ call' = "none" /\ index' = 0 /\ count' = 0
  BY DEF Interrupt
<1> QED
  BY <1>2, <1>3, <1>4, <1>5

LEMMA InterruptTypes ==
    ASSUME TypeInv, Interrupt
    PROVE  TypeInv'
<1>1. PICK r \in Resources :
          /\ r.kind \in Services /\ Accepts(r) /\ nextId' = nextId + 1
          /\ objects' = objects \cup {[id |-> nextId, kind |-> r.kind, name |-> CloudName(r),
                                       project |-> projectId[r], environment |-> NoId]}
          /\ \E done \in FollowedUp(r), reached \in {{}, {"variables"}} :
                Settle(r, nextId, done \cap reached)
  BY InterruptFacts
<1>2. /\ UNCHANGED <<scenario, made>>
      /\ pc' = "idle" /\ call' = "none" /\ index' = 0 /\ count' = 0
  BY InterruptFacts
<1>3. /\ railwayId' \in [Resources -> {NoId} \cup Ids]
      /\ active' \in [Resources -> BOOLEAN] /\ force' \in [Resources -> BOOLEAN]
      /\ projectId' \in [Resources -> References] /\ environmentId' \in [Resources -> References]
  BY FreshTypes, InterruptFacts DEF Fresh
<1>4. Objects' = Objects /\ Len(CreateOrder) \in Nat
  BY <1>2, ResourceFacts DEF Objects, Names, CloudName, Total
<1>5. nextId \in Ids /\ nextId' \in Ids
  BY <1>1 DEF TypeInv, TypeOK, Ids
<1>6. projectId[r] \in Ids
  BY <1>1 DEF Accepts, HasProjectId, Services, IsLive, TypeInv, TypeOK, Objects
<1> DEFINE new == [id |-> nextId, kind |-> r.kind, name |-> CloudName(r),
                   project |-> projectId[r], environment |-> NoId]
<1>7. new \in Objects /\ new.id = nextId
  <2>1. r.kind \in Order!Kinds /\ CloudName(r) \in Names
    BY NameTypes
  <2> QED
    BY <1>5, <1>6, <2>1 DEF Objects
<1>8. objects' = objects \cup {new}
  BY <1>1
<1> HIDE DEF new
<1>9. objects' \subseteq Objects /\ \A o \in objects' : o.id < nextId'
  <2>1. \A o \in objects : o \in Objects /\ o.id \in Ids /\ o.id < nextId
    BY DEF TypeInv, TypeOK, Objects
  <2> QED
    BY <1>1, <1>5, <1>7, <1>8, <2>1 DEF Ids
<1>10. settled' \subseteq Settlement
  <2>1. PICK done \in FollowedUp(r), reached \in {{}, {"variables"}} :
            Settle(r, nextId, done \cap reached)
    BY <1>1
  <2>2. done \in FollowedUp(r) \cup {{}} /\ done \cap reached \in SUBSET done
    OBVIOUS
  <2> QED
    BY <1>5, <2>1, <2>2, SettleTypes
<1>11. TypeOK'
  BY <1>2, <1>3, <1>4, <1>5, <1>9, <1>10 DEF TypeInv, TypeOK, Steps
<1>12. Running'
  BY <1>2 DEF Running
<1> QED
  BY <1>11, <1>12 DEF TypeInv

LEMMA TypeInvariant == Spec => []TypeInv
<1>1. TypeInv /\ [Next]_vars => TypeInv'
  <2> SUFFICES ASSUME TypeInv, [Next]_vars
               PROVE  TypeInv'
    OBVIOUS
  <2>1. CASE \E kind \in scenario.calls : Start(kind)
    BY <2>1, StartTypes
  <2>2. CASE Check
    BY <2>2, CheckTypes
  <2>3. CASE Remove
    BY <2>3, RemoveTypes
  <2>4. CASE Make
    BY <2>4, MakeTypes
  <2>5. CASE DeleteStep
    BY <2>5, DeleteStepTypes
  <2>6. CASE Restart
    BY <2>6, RestartTypes
  <2>7. CASE UNCHANGED vars
    BY <2>7 DEF vars, localVars, driverVars, TypeInv, TypeOK, Running, Objects, Names,
                CloudName, Creating
  <2>8. CASE Interrupt
    BY <2>8, InterruptTypes
  <2> QED
    BY <2>1, <2>2, <2>3, <2>4, <2>5, <2>6, <2>7, <2>8 DEF Next, LoopStep
<1> QED
  BY InitTypes, <1>1, PTL DEF Spec

\* Whatever the deployment, its calls, its faults and its restarts, the loop stays
\* inside its plan, counts no resource twice, and Railway never holds an object
\* inside something that is no container.
THEOREM DeploymentTypes == Spec => []TypeOK
  BY TypeInvariant, PTL DEF TypeInv

----------------------------------------------------------------------------
(* What a step does to the ids, in the words the invariants use.           *)

\* What Check does, with the id it finds.
Checks(r, found) ==
    LET exists == active[r] \/ found # NoId
        wanted == force[r] \/ call = "force"
    IN  /\ found \in IF active[r] THEN {railwayId[r]} ELSE ReadResults(r)
        /\ railwayId' = IF active[r] THEN railwayId ELSE Remembered(r, found)
        /\ active' = [active EXCEPT ![r] = exists]
        /\ force' = [force EXCEPT ![r] = wanted]
        /\ exists /\ ~wanted => Propagate(r, railwayId'[r]) /\ Advance(TRUE)
        /\ ~(exists /\ ~wanted) =>
               /\ pc' = IF exists THEN "remove" ELSE "make"
               /\ UNCHANGED <<projectId, environmentId, call, index, count, made>>

LEMMA CheckFacts ==
    ASSUME TypeInv, Check
    PROVE  /\ Current \in Resources /\ pc = "check"
           /\ UNCHANGED <<scenario, objects, nextId>>
           /\ \E found : Checks(Current, found)
<1>1. Current \in Resources /\ pc = "check"
  BY CurrentIsListed DEF Check
<1>2. UNCHANGED <<scenario, objects, nextId>>
  BY DEF Check
<1> DEFINE r == Current
           wanted == force[r] \/ call = "force"
           exists(found) == active[r] \/ found # NoId
           ids(found) == IF active[r] THEN railwayId ELSE Remembered(r, found)
<1>3. PICK found \in IF active[r] THEN {railwayId[r]} ELSE ReadResults(r) :
          /\ railwayId' = ids(found)
          /\ active' = [active EXCEPT ![r] = exists(found)]
          /\ force' = [force EXCEPT ![r] = wanted]
          /\ IF exists(found) /\ ~wanted
             THEN Propagate(r, ids(found)[r]) /\ Advance(TRUE)
             ELSE /\ pc' = IF exists(found) THEN "remove" ELSE "make"
                  /\ UNCHANGED <<projectId, environmentId, call, index, count, made>>
  BY DEF Check
<1>4. Checks(r, found)
  <2> DEFINE e == exists(found)
             w == wanted
  <2>1. /\ found \in IF active[r] THEN {railwayId[r]} ELSE ReadResults(r)
        /\ railwayId' = IF active[r] THEN railwayId ELSE Remembered(r, found)
        /\ active' = [active EXCEPT ![r] = e]
        /\ force' = [force EXCEPT ![r] = w]
        /\ e /\ ~w => Propagate(r, railwayId'[r]) /\ Advance(TRUE)
        /\ ~(e /\ ~w) => /\ pc' = IF e THEN "remove" ELSE "make"
                         /\ UNCHANGED <<projectId, environmentId, call, index, count, made>>
    BY <1>3
  <2> QED
    BY <2>1, Zenon DEF Checks
<1> QED
  BY <1>1, <1>2, <1>4

LEMMA PropagateKeeps ==
    ASSUME TypeInv, NEW r, NEW id, Propagate(r, id), NEW q \in Resources
    PROVE  /\ projectId[q] \in Ids => projectId'[q] = projectId[q]
           /\ environmentId[q] \in Ids => environmentId'[q] = environmentId[q]
           /\ projectId'[q] # projectId[q] =>
                 r.kind = "project" /\ HasProjectId(q) /\ projectId'[q] = id
           /\ environmentId'[q] # environmentId[q] =>
                 r.kind = "environment" /\ HasEnvironmentId(q) /\ environmentId'[q] = id
<1>1. /\ projectId \in [Resources -> References] /\ environmentId \in [Resources -> References]
      /\ NoId \notin Ids /\ Template \notin Ids
  BY DEF TypeInv, TypeOK, Ids, NoId, Template
<1> QED
  BY <1>1 DEF Propagate, Filled

\* A project that is created reaches everything that names a project.
LEMMA PropagateFills ==
    ASSUME TypeInv, pc # "idle", Creating, Current.kind = "project",
           NEW id \in Ids, Propagate(Current, id), NEW q \in Resources, HasProjectId(q)
    PROVE  projectId'[q] \in Ids
<1>1. index \in 1 .. Total /\ Current = CreateOrder[index] /\ Total \in Nat
  BY ResourceFacts DEF TypeInv, Running, Current
<1>2. PICK j \in 1 .. Total : CreateOrder[j] = q
  BY ResourceFacts
<1>3. index < j
  BY <1>1, <1>2, ProjectsComeFirst DEF HasProjectId
<1>4. q \in Later
  BY <1>1, <1>2, <1>3 DEF Later
<1>5. id # NoId /\ projectId[q] \in References
  BY DEF TypeInv, TypeOK, Ids, NoId
<1>6. projectId' = Filled(projectId, {x \in Later : HasProjectId(x)}, id)
  BY <1>5 DEF Propagate
<1> QED
  BY <1>4, <1>5, <1>6 DEF Filled, References

\* An environment reaches everything that names an environment.
LEMMA PropagateFillsEnvironments ==
    ASSUME TypeInv, pc # "idle", Creating, Current.kind = "environment",
           NEW id \in Ids, Propagate(Current, id), NEW q \in Resources, HasEnvironmentId(q)
    PROVE  environmentId'[q] \in Ids
<1>1. index \in 1 .. Total /\ Current = CreateOrder[index] /\ Total \in Nat
  BY ResourceFacts DEF TypeInv, Running, Current
<1>2. PICK j \in 1 .. Total : CreateOrder[j] = q
  BY ResourceFacts
<1>3. index < j
  BY <1>1, <1>2, EnvironmentsComeNext
<1>4. q \in Later
  BY <1>1, <1>2, <1>3 DEF Later
<1>5. id # NoId /\ environmentId[q] \in References
  BY DEF TypeInv, TypeOK, Ids, NoId
<1>6. environmentId' = Filled(environmentId, {x \in Later : HasEnvironmentId(x)}, id)
  BY <1>5 DEF Propagate
<1> QED
  BY <1>4, <1>5, <1>6 DEF Filled, References

\* A project without an id is not looked up, and one with an id keeps it.
LEMMA CheckKeepsProjects ==
    ASSUME TypeInv, NEW r \in Resources, NEW found, Checks(r, found)
    PROVE  /\ \A p \in Resources : p.kind = "project" => railwayId'[p] = railwayId[p]
           /\ \A q \in Resources : q # r => railwayId'[q] = railwayId[q]
<1>1. railwayId \in [Resources -> {NoId} \cup Ids]
  BY DEF TypeInv, TypeOK
<1>2. \A q \in Resources : q # r => railwayId'[q] = railwayId[q]
  BY <1>1 DEF Checks, Remembered
<1>3. ASSUME r.kind = "project"
      PROVE  railwayId' = railwayId
  <2>1. CASE active[r]
    BY <2>1 DEF Checks
  <2>2. CASE ~active[r]
    <3>1. found \in ReadResults(r) /\ railwayId' = Remembered(r, found)
      BY <2>2 DEF Checks
    <3>2. \A o \in Matches(r) : railwayId[r] # NoId /\ o.id = railwayId[r]
      BY <1>3 DEF Matches
    <3>3. found = NoId \/ found = railwayId[r]
      BY <1>3, <3>1, <3>2 DEF ReadResults
    <3> QED
      BY <1>1, <3>1, <3>3 DEF Remembered
  <2> QED
    BY <2>1, <2>2
<1> QED
  BY <1>2, <1>3

\* Where Check leads.
LEMMA CheckLeads ==
    ASSUME TypeInv, NEW r \in Resources, NEW found, Checks(r, found)
    PROVE  \/ /\ pc' = "remove" /\ (force[r] \/ call = "force")
              /\ UNCHANGED <<projectId, environmentId, call, index, count, made>>
           \/ /\ pc' = "make" /\ ~active[r] /\ found = NoId
              /\ UNCHANGED <<projectId, environmentId, call, index, count, made>>
           \/ /\ active[r] \/ found # NoId
              /\ Propagate(r, railwayId'[r]) /\ Advance(TRUE)
<1> DEFINE exists == active[r] \/ found # NoId
           wanted == force[r] \/ call = "force"
<1>1. CASE exists /\ ~wanted
  BY <1>1, Zenon DEF Checks
<1>2. CASE ~(exists /\ ~wanted)
  <2>1. /\ pc' = IF exists THEN "remove" ELSE "make"
        /\ UNCHANGED <<projectId, environmentId, call, index, count, made>>
    BY <1>2, Zenon DEF Checks
  <2>2. CASE exists
    BY <1>2, <2>1, <2>2
  <2>3. CASE ~exists
    BY <2>1, <2>3
  <2> QED
    BY <2>2, <2>3
<1> QED
  BY <1>1, <1>2

----------------------------------------------------------------------------
(* Templates.                                                              *)

FillInv ==
    \A p, q \in Resources :
        p.kind = "project" /\ HasProjectId(q) /\ railwayId[p] # NoId => projectId[q] \in Ids

LEMMA CheckFills ==
    ASSUME TypeInv, FillInv, Check
    PROVE  FillInv'
<1> DEFINE r == Current
<1>1. PICK found : Checks(r, found)
  BY CheckFacts
<1>2. r \in Resources
  BY CheckFacts
<1> HIDE DEF r
<1>3. \A p \in Resources : p.kind = "project" => railwayId'[p] = railwayId[p]
  BY <1>1, <1>2, CheckKeepsProjects
<1>4. \A q \in Resources : projectId[q] \in Ids => projectId'[q] \in Ids
  <2>1. Propagate(r, railwayId'[r]) \/ projectId' = projectId
    BY <1>1 DEF Checks
  <2> QED
    BY <2>1, PropagateKeeps
<1> QED
  BY <1>3, <1>4 DEF FillInv, HasProjectId

LEMMA MakeFills ==
    ASSUME TypeInv, FillInv, Make
    PROVE  FillInv'
<1> DEFINE r == Current
<1>1. /\ r \in Resources /\ pc = "make"
      /\ \E outcome \in MutationOutcomes(r, Accepts(r)) : Makes(r, outcome)
  BY MakeFacts
<1>2. PICK outcome \in MutationOutcomes(r, Accepts(r)) : Makes(r, outcome)
  BY <1>1
<1>3. TypeInv'
  BY MakeTypes
<1>4. Creating
  BY <1>1 DEF TypeInv, Running
<1>5. /\ railwayId \in [Resources -> {NoId} \cup Ids]
      /\ railwayId' \in [Resources -> {NoId} \cup Ids]
  BY <1>3 DEF TypeInv, TypeOK
<1>6. \A q \in Resources : q # r => railwayId'[q] = railwayId[q]
  BY <1>2, <1>5 DEF Makes
<1>7. CASE ~outcome.ok
  <2>1. railwayId' = railwayId /\ projectId' = projectId
    BY <1>2, <1>7 DEF Makes
  <2> QED
    BY <2>1 DEF FillInv, HasProjectId
<1>8. CASE outcome.ok /\ (r.kind # "project" \/ railwayId'[r] = NoId)
  <2>1. Propagate(r, railwayId'[r])
    BY <1>2, <1>8 DEF Makes
  <2>2. \A q \in Resources : projectId[q] \in Ids => projectId'[q] \in Ids
    BY <2>1, PropagateKeeps
  <2>3. \A p \in Resources : p.kind = "project" /\ railwayId'[p] # NoId => railwayId[p] # NoId
    BY <1>6, <1>8
  <2> QED
    BY <2>2, <2>3 DEF FillInv, HasProjectId
<1>9. CASE outcome.ok /\ r.kind = "project" /\ railwayId'[r] # NoId
  <2>1. Propagate(r, railwayId'[r]) /\ railwayId'[r] \in Ids
    BY <1>1, <1>2, <1>5, <1>9 DEF Makes
  <2>2. \A q \in Resources : HasProjectId(q) => projectId'[q] \in Ids
    BY <1>1, <1>4, <1>9, <2>1, PropagateFills
  <2> QED
    BY <2>2 DEF FillInv, HasProjectId
<1> QED
  BY <1>7, <1>8, <1>9

LEMMA FillInvariant == Spec => []FillInv
<1>1. Init => FillInv
  BY DEF Init, Fresh, FillInv
<1>2. TypeInv /\ FillInv /\ [Next]_vars => FillInv'
  <2> SUFFICES ASSUME TypeInv, FillInv, [Next]_vars
               PROVE  FillInv'
    OBVIOUS
  <2>1. CASE Check
    BY <2>1, CheckFills
  <2>2. CASE Make
    BY <2>2, MakeFills
  <2>3. CASE Restart \/ Interrupt
    BY <2>3 DEF Restart, Interrupt, Fresh, FillInv
  <2>4. CASE (\E kind \in scenario.calls : Start(kind)) \/ Remove \/ DeleteStep \/ UNCHANGED vars
    <3>1. UNCHANGED <<railwayId, projectId>>
      BY <2>4 DEF Start, Remove, DeleteStep, vars, localVars
    <3> QED
      BY <3>1 DEF FillInv, HasProjectId
  <2> QED
    BY <2>1, <2>2, <2>3, <2>4 DEF Next, LoopStep
<1> QED
  BY <1>1, <1>2, TypeInvariant, PTL DEF Spec

\* Without force, an environment has an id only when create() has returned True.
EnvironmentFillInv ==
    "force" \notin scenario.calls =>
        /\ call # "force" /\ \A r \in Resources : ~force[r]
        /\ \A e, q \in Resources :
              e.kind = "environment" /\ HasEnvironmentId(q) /\ railwayId[e] # NoId
                  => environmentId[q] \in Ids

LEMMA CheckFillsEnvironments ==
    ASSUME TypeInv, EnvironmentFillInv, Check
    PROVE  EnvironmentFillInv'
<1> SUFFICES ASSUME "force" \notin scenario.calls
             PROVE  EnvironmentFillInv'
  BY CheckFacts DEF EnvironmentFillInv
<1>1. PICK r \in Resources : r = Current /\ pc = "check" /\ \E found : Checks(r, found)
  BY CheckFacts
<1>2. PICK found : Checks(r, found)
  BY <1>1
<1>3. Creating /\ TypeInv'
  BY <1>1, CheckTypes DEF TypeInv, Running
<1>4. /\ railwayId \in [Resources -> {NoId} \cup Ids]
      /\ railwayId' \in [Resources -> {NoId} \cup Ids]
  BY <1>3 DEF TypeInv, TypeOK
<1>5. call # "force" /\ \A q \in Resources : ~force[q]
  BY DEF EnvironmentFillInv
<1>6. \A q \in Resources : q # r => railwayId'[q] = railwayId[q]
  BY <1>2, CheckKeepsProjects
<1>7. \/ /\ railwayId' = railwayId /\ call' = call
         /\ UNCHANGED <<projectId, environmentId>>
      \/ Propagate(r, railwayId'[r]) /\ call' = call
  <2>1. ~active[r] /\ found = NoId => railwayId' = railwayId
    BY <1>2 DEF Checks, Remembered
  <2> QED
    BY <1>2, <1>5, <2>1, CheckLeads DEF Advance
<1>8. call' # "force" /\ \A q \in Resources : ~force'[q]
  <2>1. force' = [force EXCEPT ![r] = force[r] \/ call = "force"]
    BY <1>2 DEF Checks
  <2> QED
    BY <1>5, <1>7, <2>1 DEF TypeInv, TypeOK
<1>9. ASSUME NEW e \in Resources, NEW q \in Resources, e.kind = "environment",
             HasEnvironmentId(q), railwayId'[e] # NoId
      PROVE  environmentId'[q] \in Ids
  <2>1. CASE railwayId' = railwayId /\ environmentId' = environmentId
    BY <1>9, <2>1 DEF EnvironmentFillInv
  <2>2. CASE Propagate(r, railwayId'[r]) /\ e = r
    BY <1>1, <1>3, <1>4, <1>9, <2>2, PropagateFillsEnvironments
  <2>3. CASE Propagate(r, railwayId'[r]) /\ e # r
    <3>1. environmentId[q] \in Ids
      BY <1>6, <1>9, <2>3 DEF EnvironmentFillInv
    <3> QED
      BY <2>3, <3>1, PropagateKeeps
  <2> QED
    BY <1>7, <2>1, <2>2, <2>3
<1> QED
  BY <1>8, <1>9 DEF EnvironmentFillInv, HasEnvironmentId

LEMMA MakeFillsEnvironments ==
    ASSUME TypeInv, EnvironmentFillInv, Make
    PROVE  EnvironmentFillInv'
<1> SUFFICES ASSUME "force" \notin scenario.calls
             PROVE  EnvironmentFillInv'
  BY MakeFacts DEF EnvironmentFillInv
<1>1. PICK r \in Resources :
          /\ r = Current /\ pc = "make"
          /\ \E outcome \in MutationOutcomes(r, Accepts(r)) : Makes(r, outcome)
  BY MakeFacts
<1>2. PICK outcome \in MutationOutcomes(r, Accepts(r)) : Makes(r, outcome)
  BY <1>1
<1>3. Creating /\ TypeInv'
  BY <1>1, MakeTypes DEF TypeInv, Running
<1>4. /\ railwayId \in [Resources -> {NoId} \cup Ids]
      /\ railwayId' \in [Resources -> {NoId} \cup Ids]
  BY <1>3 DEF TypeInv, TypeOK
<1>5. call' # "force" /\ \A q \in Resources : ~force'[q]
  BY <1>2, MakeFacts DEF EnvironmentFillInv, Makes, Advance
<1>6. \A q \in Resources : q # r => railwayId'[q] = railwayId[q]
  BY <1>2, <1>4 DEF Makes
<1>7. \/ railwayId' = railwayId /\ environmentId' = environmentId
      \/ Propagate(r, railwayId'[r])
  BY <1>2 DEF Makes
<1>8. ASSUME NEW e \in Resources, NEW q \in Resources, e.kind = "environment",
             HasEnvironmentId(q), railwayId'[e] # NoId
      PROVE  environmentId'[q] \in Ids
  <2>1. CASE railwayId' = railwayId /\ environmentId' = environmentId
    BY <1>8, <2>1 DEF EnvironmentFillInv
  <2>2. CASE Propagate(r, railwayId'[r]) /\ e = r
    BY <1>1, <1>3, <1>4, <1>8, <2>2, PropagateFillsEnvironments
  <2>3. CASE Propagate(r, railwayId'[r]) /\ e # r
    <3>1. environmentId[q] \in Ids
      BY <1>6, <1>8, <2>3 DEF EnvironmentFillInv
    <3> QED
      BY <2>3, <3>1, PropagateKeeps
  <2> QED
    BY <1>7, <2>1, <2>2, <2>3
<1> QED
  BY <1>5, <1>8 DEF EnvironmentFillInv, HasEnvironmentId

LEMMA EnvironmentFillInvariant == Spec => []EnvironmentFillInv
<1>1. Init => EnvironmentFillInv
  BY DEF Init, Fresh, EnvironmentFillInv
<1>2. TypeInv /\ EnvironmentFillInv /\ [Next]_vars => EnvironmentFillInv'
  <2> SUFFICES ASSUME TypeInv, EnvironmentFillInv, [Next]_vars
               PROVE  EnvironmentFillInv'
    OBVIOUS
  <2>1. CASE Check
    BY <2>1, CheckFillsEnvironments
  <2>2. CASE Make
    BY <2>2, MakeFillsEnvironments
  <2>3. CASE Restart \/ Interrupt
    <3>1. /\ scenario' = scenario /\ call' = "none"
          /\ railwayId' = [r \in Resources |-> NoId]
          /\ force' = [r \in Resources |-> FALSE]
      BY <2>3 DEF Restart, Interrupt, Fresh
    <3> QED
      BY <3>1 DEF EnvironmentFillInv
  <2>4. CASE \E kind \in scenario.calls : Start(kind)
    <3>1. UNCHANGED <<scenario, railwayId, environmentId, force>> /\ call' \in scenario.calls
      BY <2>4 DEF Start, localVars
    <3> QED
      BY <3>1 DEF EnvironmentFillInv, HasEnvironmentId
  <2>5. CASE Remove \/ DeleteStep \/ UNCHANGED vars
    <3>1. UNCHANGED <<scenario, railwayId, environmentId, force, call>>
      BY <2>5 DEF Remove, DeleteStep, Advance, vars, localVars, driverVars
    <3> QED
      BY <3>1 DEF EnvironmentFillInv, HasEnvironmentId
  <2> QED
    BY <2>1, <2>2, <2>3, <2>4, <2>5 DEF Next, LoopStep
<1> QED
  BY <1>1, <1>2, TypeInvariant, PTL DEF Spec

\* RailwayApp templates: whatever is listed, and whatever failed before, once the
\* program knows the project of an app, everything of the app that it creates names
\* a project by its id, as the plan lists all projects before the rest; and without
\* force the same holds of environments.
THEOREM NamesAreResolved == Spec => []TemplatesAreResolved
<1>1. TypeInv /\ FillInv /\ EnvironmentFillInv => TemplatesAreResolved
  <2> SUFFICES ASSUME TypeInv, FillInv, EnvironmentFillInv, pc = "make"
               PROVE  /\ HasProjectId(Current) /\ railwayId[Project(Current)] # NoId
                            => projectId[Current] \in Ids
                      /\ "force" \notin scenario.calls =>
                            (HasEnvironmentId(Current)
                             /\ railwayId[Environment(Current)] # NoId
                                => environmentId[Current] \in Ids)
    BY DEF TemplatesAreResolved
  <2>1. Current \in Resources
    BY CurrentIsListed
  <2>2. /\ Project(Current) \in Resources /\ Project(Current).kind = "project"
        /\ Environment(Current) \in Resources /\ Environment(Current).kind = "environment"
    BY <2>1, ResourceFacts DEF Project, Environment
  <2> QED
    BY <2>1, <2>2 DEF FillInv, EnvironmentFillInv
<1> QED
  BY <1>1, TypeInvariant, FillInvariant, EnvironmentFillInvariant, PTL

----------------------------------------------------------------------------
(* What exists at Railway.                                                 *)

\* An id names one object, a project stands for itself, and everything is in a
\* project that exists.
ObjectsInv ==
    /\ \A o, q \in objects : o.id = q.id => o = q
    /\ \A o \in objects : o.kind = "project" => o.project = o.id /\ o.environment = NoId
    /\ \A o \in objects : \E q \in objects : q.kind = "project" /\ q.id = o.project

\* The objects that one mutation with the given number of effects adds.
Creation(r, effects) ==
    UNION {Made(r, id) : id \in {nextId + Width(r) * k : k \in 0 .. effects - 1}}

LEMMA CreationFacts ==
    ASSUME TypeInv, NEW r \in Resources, NEW effects \in Nat, effects > 0 => Accepts(r),
           r.kind # "project" => effects <= 1
    PROVE  /\ effects = 0 => Creation(r, effects) = {}
           /\ effects = 1 => Creation(r, effects) = Made(r, nextId)
           /\ \A o, q \in Creation(r, effects) : o.id = q.id => o = q
           /\ r.kind # "project" => \A o \in Creation(r, effects) :
                 /\ o.kind = r.kind /\ o.name = CloudName(r) /\ o.project = projectId[r]
                 /\ IsLive("project", o.project)
           /\ r.kind = "project" => \A o \in Creation(r, effects) :
                 /\ o.kind = "project" => /\ o.project = o.id /\ o.environment = NoId
                                          /\ o.name = r.name
                 /\ \E q \in Creation(r, effects) : q.kind = "project" /\ q.id = o.project
                 /\ o.kind \in {"project", "environment"}
           /\ effects >= 1 => Made(r, nextId + Width(r) * (effects - 1)) \subseteq Creation(r, effects)
<1>1. nextId \in Nat /\ nextId >= 1
  BY DEF TypeInv, TypeOK, Ids
<1>2. effects = 0 => Creation(r, effects) = {}
  BY DEF Creation
<1>3. effects = 1 => Creation(r, effects) = Made(r, nextId)
  <2> SUFFICES ASSUME effects = 1
               PROVE  Creation(r, effects) = Made(r, nextId)
    OBVIOUS
  <2>1. 0 .. effects - 1 = {0}
    OBVIOUS
  <2>2. nextId + Width(r) * 0 = nextId
    BY <1>1 DEF Width
  <2> QED
    BY <2>1, <2>2 DEF Creation
<1>4. effects >= 1 => Made(r, nextId + Width(r) * (effects - 1)) \subseteq Creation(r, effects)
  BY DEF Creation
<1>5. CASE r.kind # "project"
  <2>1. \A id : \A o \in Made(r, id) : /\ o.id = id /\ o.kind = r.kind /\ o.name = CloudName(r)
                                       /\ o.project = projectId[r]
    BY <1>5 DEF Made
  <2>2. effects > 0 => IsLive("project", projectId[r])
    BY <1>5 DEF Accepts, HasProjectId
  <2>3. \A id : \A o, q \in Made(r, id) : o = q
    BY <1>5 DEF Made
  <2>4. effects = 0 \/ effects = 1
    BY <1>5
  <2> QED
    BY <1>2, <1>3, <1>4, <1>5, <2>1, <2>2, <2>3, <2>4
<1>6. CASE r.kind = "project"
  <2> DEFINE P(id) == [id |-> id, kind |-> "project", name |-> r.name, project |-> id,
                       environment |-> NoId]
             E(id) == [id |-> id + 1, kind |-> "environment", name |-> "production",
                       project |-> id, environment |-> NoId]
             at(k) == nextId + 2 * k
  <2>1. Creation(r, effects) = UNION {{P(at(k)), E(at(k))} : k \in 0 .. effects - 1}
    BY <1>6 DEF Creation, Made, Width
  <2>2. \A k, l \in 0 .. effects - 1 : /\ at(k) = at(l) => k = l
                                       /\ at(k) # at(l) + 1
    BY <1>1
  <2>3. \A id : /\ P(id).id = id /\ P(id).kind = "project" /\ P(id).project = id
                /\ P(id).name = r.name /\ P(id).environment = NoId
                /\ E(id).id = id + 1 /\ E(id).kind = "environment" /\ E(id).project = id
    OBVIOUS
  <2>5. \A k, l \in 0 .. effects - 1 : at(k) + 1 = at(l) + 1 => k = l
    BY <1>1
  <2> HIDE DEF P, E, at
  <2>4. ASSUME NEW o \in Creation(r, effects)
        PROVE  \E k \in 0 .. effects - 1 : o = P(at(k)) \/ o = E(at(k))
    BY <2>1
  <2>6. \A k \in 0 .. effects - 1 : P(at(k)) \in Creation(r, effects)
    BY <2>1
  <2>7. \A o, q \in Creation(r, effects) : o.id = q.id => o = q
    BY <2>2, <2>3, <2>4, <2>5
  <2>8. \A o \in Creation(r, effects) :
            /\ o.kind = "project" => /\ o.project = o.id /\ o.environment = NoId
                                     /\ o.name = r.name
            /\ \E q \in Creation(r, effects) : q.kind = "project" /\ q.id = o.project
            /\ o.kind \in {"project", "environment"}
    BY <2>3, <2>4, <2>6
  <2> QED
    BY <1>2, <1>3, <1>4, <1>6, <2>7, <2>8
<1> QED
  BY <1>5, <1>6

\* What Make adds, and how much.
LEMMA MakeCreates ==
    ASSUME TypeInv, NEW r \in Resources,
           NEW outcome \in MutationOutcomes(r, Accepts(r)), Makes(r, outcome)
    PROVE  /\ outcome.ok \in BOOLEAN /\ outcome.effects \in Nat
           /\ outcome.ok => Accepts(r) /\ outcome.effects >= 1
           /\ outcome.effects > 0 => Accepts(r)
           /\ r.kind # "project" => outcome.effects <= 1
           /\ "lost" \notin scenario.faults => outcome.effects = IF outcome.ok THEN 1 ELSE 0
           /\ Accepts(r) /\ scenario.faults \cap {"lost", "write"} = {} => outcome.ok
           /\ objects' = objects \cup Creation(r, outcome.effects)
           /\ \A o \in Creation(r, outcome.effects) : o \in Objects /\ o.id >= nextId
<1>1. Accepts(r) \in BOOLEAN
  BY DEF Accepts, IsLive
<1>2. /\ outcome.ok \in BOOLEAN /\ outcome.effects \in Nat
      /\ outcome.ok => Accepts(r) /\ outcome.effects >= 1
      /\ outcome.effects > 0 => Accepts(r)
      /\ r.kind # "project" => outcome.effects <= 1
      /\ "lost" \notin scenario.faults => outcome.effects = IF outcome.ok THEN 1 ELSE 0
      /\ Accepts(r) /\ scenario.faults \cap {"lost", "write"} = {} => outcome.ok
  BY <1>1, OutcomeFacts
<1>3. objects' = objects \cup Creation(r, outcome.effects)
  BY DEF Makes, Creation
<1>4. \A o \in Creation(r, outcome.effects) : o \in Objects /\ o.id >= nextId
  BY <1>2, CreatedTypes DEF Creation
<1> QED
  BY <1>2, <1>3, <1>4

LEMMA MakeObjects ==
    ASSUME TypeInv, ObjectsInv, Make
    PROVE  ObjectsInv'
<1> DEFINE r == Current
<1>1. r \in Resources /\ \E outcome \in MutationOutcomes(r, Accepts(r)) : Makes(r, outcome)
  BY MakeFacts
<1> HIDE DEF r
<1>2. PICK outcome \in MutationOutcomes(r, Accepts(r)) : Makes(r, outcome)
  BY <1>1
<1> DEFINE n == outcome.effects
           new == Creation(r, n)
<1>3. /\ n \in Nat /\ (n > 0 => Accepts(r)) /\ (r.kind # "project" => n <= 1)
      /\ objects' = objects \cup new
      /\ \A o \in new : o \in Objects /\ o.id >= nextId
  BY <1>1, <1>2, MakeCreates
<1> HIDE DEF n
<1>4. /\ \A o, q \in new : o.id = q.id => o = q
      /\ r.kind # "project" => \A o \in new : o.kind = r.kind /\ IsLive("project", o.project)
      /\ r.kind = "project" => \A o \in new :
            /\ o.kind = "project" => o.project = o.id /\ o.environment = NoId
            /\ \E q \in new : q.kind = "project" /\ q.id = o.project
  BY <1>1, <1>3, CreationFacts
<1> HIDE DEF new
<1>5. \A o \in objects : o.id \in Nat /\ o.id < nextId
  BY DEF TypeInv, TypeOK, Objects, Ids
<1>6. \A o \in new : o.id \in Nat
  BY <1>3 DEF Objects, Ids
<1>7. \A o, q \in objects' : o.id = q.id => o = q
  <2>1. \A o \in objects, q \in new : o.id # q.id
    BY <1>3, <1>5, <1>6 DEF TypeInv, TypeOK, Ids
  <2> QED
    BY <1>3, <1>4, <2>1 DEF ObjectsInv
<1>8. \A o \in objects' : o.kind = "project" => o.project = o.id /\ o.environment = NoId
  BY <1>3, <1>4 DEF ObjectsInv
<1>9. \A o \in objects' : \E q \in objects' : q.kind = "project" /\ q.id = o.project
  BY <1>3, <1>4 DEF ObjectsInv, IsLive
<1> QED
  BY <1>7, <1>8, <1>9 DEF ObjectsInv

\* What Delete deletes: nothing, or all that Railway can delete with r.
LEMMA DeleteDeletes ==
    ASSUME TypeInv, NEW r \in Resources, NEW outcome, Delete(r, outcome)
    PROVE  /\ \/ objects' = objects
              \/ objects' = objects \ Contents(r) /\ CanDelete(r)
           /\ outcome.ok => objects' = objects \ Contents(r) /\ CanDelete(r)
           /\ CanDelete(r) /\ scenario.faults \cap {"lost", "write"} = {}
                 => objects' = objects \ Contents(r)
<1>1. CanDelete(r) \in BOOLEAN /\ outcome \in MutationOutcomes(r, CanDelete(r))
  BY DEF CanDelete, IsLive, Delete
<1>2. /\ outcome.ok \in BOOLEAN /\ outcome.effects \in Nat
      /\ outcome.ok => CanDelete(r) /\ outcome.effects >= 1
      /\ outcome.effects > 0 => CanDelete(r)
      /\ CanDelete(r) /\ scenario.faults \cap {"lost", "write"} = {} => outcome.ok
  BY <1>1, OutcomeFacts
<1>3. objects' = IF outcome.effects > 0 THEN objects \ Contents(r) ELSE objects
  BY DEF Delete
<1>4. CASE outcome.effects > 0
  BY <1>2, <1>3, <1>4
<1>5. CASE ~(outcome.effects > 0)
  BY <1>2, <1>3, <1>5
<1> QED
  BY <1>4, <1>5

\* What is deleted of a container goes with all of its contents.
LEMMA DeleteObjects ==
    ASSUME TypeInv, ObjectsInv, NEW r \in Resources, NEW outcome, Delete(r, outcome)
    PROVE  ObjectsInv'
<1>1. objects' \subseteq objects
  BY DeleteFacts
<1>2. ASSUME NEW o \in objects', NEW q \in objects, q.kind = "project", q.id = o.project
      PROVE  q \in objects'
  <2>1. CASE objects' = objects
    BY <2>1
  <2>2. CASE objects' = objects \ Contents(r) /\ CanDelete(r)
    <3>1. o \notin Contents(r) /\ o \in objects
      BY <2>2
    <3>2. ASSUME q \in Contents(r)
          PROVE  FALSE
      <4>1. q.project = q.id /\ q.environment = NoId
        BY <1>2 DEF ObjectsInv
      <4>2. CASE r.kind \in {"variable", "collection"}
        BY <1>2, <3>2, <4>2 DEF Contents, Matches
      <4>3. CASE r.kind = "project"
        <5>1. q.id = railwayId[r]
          BY <3>2, <4>1, <4>3 DEF Contents, Alike
        <5> QED
          BY <1>2, <3>1, <4>3, <5>1 DEF Contents
      <4>4. CASE r.kind \notin {"variable", "collection", "project"}
        <5>1. q.environment = railwayId[r]
          BY <1>2, <3>2, <4>4 DEF Contents, Alike, Services
        <5>2. railwayId[r] # NoId
          BY <2>2, <4>4 DEF CanDelete
        <5> QED
          BY <4>1, <5>1, <5>2
      <4> QED
        BY <4>2, <4>3, <4>4
    <3> QED
      BY <1>2, <2>2, <3>2
  <2> QED
    BY <2>1, <2>2, DeleteDeletes
<1> QED
  BY <1>1, <1>2 DEF ObjectsInv

LEMMA InterruptObjects ==
    ASSUME TypeInv, ObjectsInv, Interrupt
    PROVE  ObjectsInv'
<1>1. PICK r \in Resources :
          /\ r.kind \in Services /\ Accepts(r)
          /\ objects' = objects \cup {[id |-> nextId, kind |-> r.kind, name |-> CloudName(r),
                                       project |-> projectId[r], environment |-> NoId]}
  BY InterruptFacts
<1> DEFINE new == [id |-> nextId, kind |-> r.kind, name |-> CloudName(r),
                   project |-> projectId[r], environment |-> NoId]
<1>2. /\ objects' = objects \cup {new} /\ new.id = nextId
      /\ new.kind = r.kind /\ new.project = projectId[r]
  BY <1>1
<1> HIDE DEF new
<1>3. \A o \in objects : o.id # new.id
  BY <1>2 DEF TypeInv, TypeOK, Objects, Ids
<1>4. new.kind # "project" /\ \E q \in objects : q.kind = "project" /\ q.id = new.project
  BY <1>1, <1>2 DEF Services, Accepts, HasProjectId, IsLive
<1> QED
  BY <1>2, <1>3, <1>4 DEF ObjectsInv

LEMMA ObjectsInvariant == Spec => []ObjectsInv
<1>1. Init => ObjectsInv
  BY DEF Init, ObjectsInv
<1>2. TypeInv /\ ObjectsInv /\ [Next]_vars => ObjectsInv'
  <2> SUFFICES ASSUME TypeInv, ObjectsInv, [Next]_vars
               PROVE  ObjectsInv'
    OBVIOUS
  <2>1. CASE Make
    BY <2>1, MakeObjects
  <2>2. CASE Remove \/ DeleteStep
    <3>1. Current \in Resources
      BY <2>2, CurrentIsListed DEF Remove, DeleteStep
    <3>2. \E outcome : Delete(Current, outcome)
      BY <2>2 DEF Remove, DeleteStep
    <3> QED
      BY <3>1, <3>2, DeleteObjects
  <2>3. CASE (\E kind \in scenario.calls : Start(kind)) \/ Check \/ Restart \/ UNCHANGED vars
    <3>1. objects' = objects
      BY <2>3 DEF Start, Check, Restart, vars
    <3> QED
      BY <3>1 DEF ObjectsInv
  <2>4. CASE Interrupt
    BY <2>4, InterruptObjects
  <2> QED
    BY <2>1, <2>2, <2>3, <2>4 DEF Next, LoopStep
<1> QED
  BY <1>1, <1>2, TypeInvariant, PTL DEF Spec

----------------------------------------------------------------------------
(* While nothing goes wrong.                                               *)

\* The program knows every project, and creates one only where none of its name is.
OneProjectInv ==
    scenario.faults = {} =>
        /\ \A o \in objects : o.kind = "project" =>
              Project(o) \in Resources /\ o.id = railwayId[Project(o)]
        /\ pc = "make" /\ Current.kind = "project" =>
              \A o \in objects : ~(o.kind = "project" /\ o.name = Current.name)

LEMMA ProjectIsItself ==
    ASSUME NEW r \in Resources, r.kind = "project"
    PROVE  /\ Project(r) = r
           /\ \A o : o.name = r.name => Project(o) = r
           /\ CloudName(r) = r.name
<1>1. r \in [kind : Order!Kinds, name : STRING]
  BY ResourceFacts DEF Records
<1> QED
  BY <1>1 DEF Project, CloudName

\* What cannot be found by its id, or has none, is no project the program knows.
LEMMA ProjectIsMissed ==
    ASSUME TypeInv, NEW r \in Resources, r.kind = "project", Matches(r) = {} \/ railwayId[r] = NoId
    PROVE  \A o \in objects : o.kind = "project" => o.id # railwayId[r]
<1>1. \A o \in objects : o.id # NoId
  BY DEF TypeInv, TypeOK, Objects, Ids, NoId
<1> QED
  BY <1>1 DEF Matches, Alike, Services

LEMMA CheckMissesProjects ==
    ASSUME TypeInv, Check, "read" \notin scenario.faults, pc' = "make", Current.kind = "project"
    PROVE  Matches(Current) = {} \/ railwayId[Current] = NoId
<1> DEFINE r == Current
<1>1. r \in Resources /\ r.kind = "project" /\ \E found : Checks(r, found)
  BY CheckFacts
<1> HIDE DEF r
<1>2. PICK found : Checks(r, found)
  BY <1>1
<1>3. ~active[r] /\ found = NoId
  BY <1>1, <1>2, CheckLeads DEF Advance
<1>4. found \in ReadResults(r) /\ found = NoId
  BY <1>2, <1>3 DEF Checks
<1>5. \A o \in Matches(r) : o.id # NoId
  BY DEF Matches, TypeInv, TypeOK, Objects, Ids, NoId
<1>6. Matches(r) = {}
  BY <1>1, <1>4, <1>5 DEF ReadResults
<1> QED
  BY <1>6 DEF r

LEMMA CheckKeepsOneProject ==
    ASSUME TypeInv, OneProjectInv, Check
    PROVE  OneProjectInv'
<1> SUFFICES ASSUME scenario.faults = {}
             PROVE  OneProjectInv'
  BY CheckFacts DEF OneProjectInv
<1>1. /\ Current \in Resources /\ UNCHANGED <<scenario, objects>>
      /\ \E found : Checks(Current, found)
  BY CheckFacts
<1>2. \A p \in Resources : p.kind = "project" => railwayId'[p] = railwayId[p]
  BY <1>1, CheckKeepsProjects
<1>3. \A o \in objects : o.kind = "project" =>
         Project(o) \in Resources /\ o.id = railwayId'[Project(o)]
  BY <1>2 DEF OneProjectInv, Project
<1>4. ASSUME pc' = "make", Current'.kind = "project",
             NEW o \in objects, o.kind = "project", o.name = Current'.name
      PROVE  FALSE
  <2>1. Current' = Current
    <3>1. PICK found : Checks(Current, found)
      BY <1>1
    <3>2. UNCHANGED <<call, index>>
      BY <1>1, <1>4, <3>1, CheckLeads DEF Advance
    <3> QED
      BY <3>2 DEF Current, Creating
  <2>2. Current.kind = "project" /\ o.name = Current.name
    BY <1>4, <2>1
  <2>3. Matches(Current) = {} \/ railwayId[Current] = NoId
    BY <1>4, <2>2, CheckMissesProjects
  <2>4. Project(o) = Current
    BY <1>1, <2>2, ProjectIsItself
  <2>5. o.id = railwayId[Current]
    BY <1>4, <2>4 DEF OneProjectInv
  <2> QED
    BY <1>1, <1>4, <2>2, <2>3, <2>5, ProjectIsMissed
<1> QED
  BY <1>1, <1>3, <1>4 DEF OneProjectInv

LEMMA RemoveKeepsOneProject ==
    ASSUME TypeInv, OneProjectInv, Remove
    PROVE  OneProjectInv'
<1> SUFFICES ASSUME scenario.faults = {}
             PROVE  OneProjectInv'
  BY DEF OneProjectInv, Remove
<1> DEFINE r == Current
<1>1. /\ r \in Resources /\ Current' = r
      /\ UNCHANGED <<scenario, railwayId>>
  BY CurrentIsListed DEF Remove, Current, Creating
<1>2. PICK outcome : Delete(r, outcome)
  BY DEF Remove
<1> HIDE DEF r
<1>3. objects' \subseteq objects
  BY <1>1, <1>2, DeleteFacts
<1>4. ASSUME r.kind = "project", NEW o \in objects', o.kind = "project", o.name = r.name
      PROVE  FALSE
  <2>1. o \in objects /\ o.id = railwayId[r]
    BY <1>1, <1>3, <1>4, ProjectIsItself DEF OneProjectInv
  <2>2. CanDelete(r)
    BY <1>1, <1>4, <2>1, ProjectIsMissed DEF CanDelete
  <2>3. objects' = objects \ Contents(r)
    BY <1>1, <1>2, <2>2, DeleteDeletes
  <2>4. o \in Contents(r)
    BY <1>4, <2>1 DEF Contents, Alike, Services
  <2> QED
    BY <1>4, <2>3, <2>4
<1> QED
  BY <1>1, <1>3, <1>4 DEF OneProjectInv

LEMMA MakeKeepsOneProject ==
    ASSUME TypeInv, OneProjectInv, Make
    PROVE  OneProjectInv'
<1> SUFFICES ASSUME scenario.faults = {}
             PROVE  OneProjectInv'
  BY MakeFacts DEF OneProjectInv
<1> DEFINE r == Current
<1>1. /\ r \in Resources /\ pc = "make" /\ UNCHANGED scenario
      /\ \E outcome \in MutationOutcomes(r, Accepts(r)) : Makes(r, outcome)
  BY MakeFacts
<1>2. r.kind = "project" => \A o \in objects : ~(o.kind = "project" /\ o.name = r.name)
  BY <1>1 DEF OneProjectInv
<1> HIDE DEF r
<1>3. PICK outcome \in MutationOutcomes(r, Accepts(r)) : Makes(r, outcome)
  BY <1>1
<1> DEFINE n == outcome.effects
           new == Creation(r, n)
<1>4. /\ n \in Nat /\ (n > 0 => Accepts(r)) /\ (r.kind # "project" => n <= 1)
      /\ outcome.ok \in BOOLEAN
      /\ n = IF outcome.ok THEN 1 ELSE 0
      /\ objects' = objects \cup new
  BY <1>1, <1>3, MakeCreates
<1>5. railwayId \in [Resources -> {NoId} \cup Ids]
  BY DEF TypeInv, TypeOK
<1>6. pc' # "make"
  BY <1>3 DEF Makes, Advance
<1>7. CASE r.kind # "project"
  <2>1. \A o \in new : o.kind # "project"
    BY <1>1, <1>4, <1>7, CreationFacts
  <2>2. \A p \in Resources : p.kind = "project" => railwayId'[p] = railwayId[p]
    BY <1>3, <1>5, <1>7 DEF Makes
  <2> HIDE DEF new
  <2>3. \A o \in objects' : o.kind = "project" =>
           o \in objects /\ Project(o) \in Resources /\ o.id = railwayId'[Project(o)]
    BY <1>4, <2>1, <2>2 DEF OneProjectInv, Project
  <2> QED
    BY <1>6, <2>3 DEF OneProjectInv
<1>8. CASE r.kind = "project" /\ ~outcome.ok
  <2>1. new = {} /\ railwayId' = railwayId
    <3>1. n = 0
      BY <1>4, <1>8
    <3>2. new = {}
      BY <3>1, <1>1, <1>4, CreationFacts
    <3> QED
      BY <1>3, <1>8, <3>2 DEF Makes
  <2> QED
    BY <1>4, <1>6, <2>1 DEF OneProjectInv
<1>9. CASE r.kind = "project" /\ outcome.ok
  <2>1. n = 1 /\ new = Made(r, nextId)
    <3>1. n = 1
      BY <1>4, <1>9
    <3> QED
      BY <3>1, <1>1, <1>4, CreationFacts
  <2>2. \A o \in new : o.kind = "project" => o.name = r.name /\ o.id = nextId
    BY <1>9, <2>1 DEF Made
  <2>3. railwayId' = [railwayId EXCEPT ![r] = nextId]
    <3>1. railwayId' = [railwayId EXCEPT ![r] = nextId + Width(r) * (outcome.effects - 1)]
      BY <1>3, <1>9 DEF Makes
    <3>2. nextId \in Nat
      BY DEF TypeInv, TypeOK, Ids
    <3>3. nextId + Width(r) * (outcome.effects - 1) = nextId
      BY <2>1, <3>2 DEF Width
    <3> QED
      BY <3>1, <3>3, Zenon
  <2> HIDE DEF new
  <2>4. \A o \in new : o.kind = "project" =>
           Project(o) \in Resources /\ o.id = railwayId'[Project(o)]
    <3>1. \A o \in new : o.kind = "project" => Project(o) = r
      BY <1>1, <1>9, <2>2, ProjectIsItself
    <3> QED
      BY <1>1, <1>5, <2>2, <2>3, <3>1
  <2>5. \A o \in objects : o.kind = "project" =>
           Project(o) \in Resources /\ o.id = railwayId'[Project(o)]
    <3>1. \A o \in objects : o.kind = "project" => Project(o) # r
      BY <1>2, <1>9 DEF Project
    <3> QED
      BY <1>5, <2>3, <3>1 DEF OneProjectInv
  <2> QED
    BY <1>4, <1>6, <2>4, <2>5 DEF OneProjectInv
<1> QED
  BY <1>4, <1>7, <1>8, <1>9

LEMMA OneProjectInvariant == Spec => []OneProjectInv
<1>1. Init => OneProjectInv
  BY DEF Init, OneProjectInv
<1>2. TypeInv /\ OneProjectInv /\ [Next]_vars => OneProjectInv'
  <2> SUFFICES ASSUME TypeInv, OneProjectInv, [Next]_vars
               PROVE  OneProjectInv'
    OBVIOUS
  <2>1. CASE Check
    BY <2>1, CheckKeepsOneProject
  <2>2. CASE Remove
    BY <2>2, RemoveKeepsOneProject
  <2>3. CASE Make
    BY <2>3, MakeKeepsOneProject
  <2>4. CASE DeleteStep
    <3>1. Current \in Resources /\ \E outcome : Delete(Current, outcome)
      BY <2>4, CurrentIsListed DEF DeleteStep
    <3>2. objects' \subseteq objects /\ UNCHANGED <<scenario, railwayId>>
      BY <2>4, <3>1, DeleteFacts DEF DeleteStep
    <3>3. pc' # "make"
      BY <2>4 DEF DeleteStep, Advance
    <3> QED
      BY <3>2, <3>3 DEF OneProjectInv
  <2>5. CASE \E kind \in scenario.calls : Start(kind)
    <3>1. UNCHANGED <<scenario, objects, railwayId>> /\ pc' # "make"
      BY <2>5 DEF Start, localVars
    <3> QED
      BY <3>1 DEF OneProjectInv
  <2>6. CASE Restart
    BY <2>6 DEF Restart, OneProjectInv
  <2>7. CASE UNCHANGED vars
    BY <2>7 DEF vars, localVars, driverVars, OneProjectInv, Current, Creating
  <2>8. CASE Interrupt
    BY <2>8 DEF Interrupt, OneProjectInv
  <2> QED
    BY <2>1, <2>2, <2>3, <2>4, <2>5, <2>6, <2>7, <2>8 DEF Next, LoopStep
<1> QED
  BY <1>1, <1>2, TypeInvariant, PTL DEF Spec

\* RailwayProject.create and delete, called in any order and as often as one likes,
\* with force or without: as long as nothing fails and the program runs on, there is
\* never a second project of an app, which no name at Railway would prevent.
THEOREM NoSecondProject == Spec => []OneProjectPerApp
<1>1. OneProjectInv /\ ObjectsInv => OneProjectPerApp
  <2> SUFFICES ASSUME OneProjectInv, ObjectsInv, scenario.faults = {},
                      NEW o \in objects, NEW q \in objects,
                      o.kind = "project", q.kind = "project", o.name = q.name
               PROVE  o = q
    BY DEF OneProjectPerApp
  <2>1. Project(o) = Project(q)
    BY DEF Project
  <2>2. o.id = q.id
    BY <2>1, Zenon DEF OneProjectInv
  <2> QED
    BY <2>2 DEF ObjectsInv
<1> QED
  BY <1>1, OneProjectInvariant, ObjectsInvariant, PTL

----------------------------------------------------------------------------
(* While nothing is forgotten.                                             *)

\* Nothing is left in the project that the program knows as p.
Gone(p) == \A o \in objects : o.project # railwayId[p]

ProjectResources == {p \in Resources : p.kind = "project"}

\* All there is, is in a project the program knows; a project is created where
\* nothing is left of an earlier one; and what the loop of delete_resources has
\* counted is gone.
KnownInv ==
    /\ \A o \in objects : \E p \in ProjectResources : o.project = railwayId[p]
    /\ pc = "make" /\ Current.kind = "project" => Gone(Current)

ForceInv ==
    call = "force" \/ pc = "remove" \/ (\E r \in Resources : force[r])
        => "force" \in scenario.calls

DeletedInv ==
    /\ pc = "delete" /\ count = index - 1 =>
          \A j \in 1 .. index - 1 : DeleteOrder[j].kind = "project" => Gone(DeleteOrder[j])
    /\ pc = "idle" /\ call = "delete" /\ count = Total =>
          \A p \in ProjectResources : Gone(p)

DeleteInv == ForgetsNothing => KnownInv /\ ForceInv /\ DeletedInv

\* Without a project object that it knows, a project has no contents.
LEMMA MissedIsGone ==
    ASSUME TypeInv, ObjectsInv, NEW r \in Resources, r.kind = "project",
           Matches(r) = {} \/ railwayId[r] = NoId
    PROVE  Gone(r)
<1>1. \A o \in objects : \E q \in objects : q.kind = "project" /\ q.id = o.project
  BY DEF ObjectsInv
<1>2. \A o \in objects : o.kind = "project" => o.id # railwayId[r]
  BY ProjectIsMissed
<1> QED
  BY <1>1, <1>2 DEF Gone

LEMMA CheckKeepsDelete ==
    ASSUME TypeInv, ObjectsInv, DeleteInv, Check
    PROVE  DeleteInv'
<1> SUFFICES ASSUME ForgetsNothing
             PROVE  KnownInv' /\ ForceInv' /\ DeletedInv'
  BY CheckFacts DEF DeleteInv, ForgetsNothing
<1> DEFINE r == Current
<1>1. /\ r \in Resources /\ pc = "check" /\ UNCHANGED <<scenario, objects>>
      /\ \E found : Checks(r, found)
  BY CheckFacts
<1>2. Creating /\ KnownInv /\ ForceInv
  BY <1>1 DEF DeleteInv, TypeInv, Running
<1>3. pc' = "make" /\ r.kind = "project" => Matches(r) = {} \/ railwayId[r] = NoId
  BY CheckMissesProjects DEF ForgetsNothing
<1>4. UNCHANGED <<call, index>> => Current' = r
  BY DEF Current, Creating
<1> HIDE DEF r
<1>5. PICK found : Checks(r, found)
  BY <1>1
<1>6. \A p \in ProjectResources : railwayId'[p] = railwayId[p]
  BY <1>1, <1>5, CheckKeepsProjects DEF ProjectResources
<1>7. /\ call' = call /\ pc' # "delete"
      /\ pc' = "make" => Current' = r
      /\ pc' = "remove" => force[r] \/ call = "force"
  BY <1>1, <1>2, <1>4, <1>5, CheckLeads DEF Advance
<1>8. KnownInv'
  <2>1. \A o \in objects' : \E p \in ProjectResources : o.project = railwayId'[p]
    BY <1>1, <1>2, <1>6 DEF KnownInv
  <2>2. ASSUME pc' = "make", Current'.kind = "project"
        PROVE  Gone(Current)'
    <3>1. Gone(r)
      BY <1>1, <1>3, <1>7, <2>2, MissedIsGone
    <3>2. railwayId'[r] = railwayId[r]
      BY <1>1, <1>6, <1>7, <2>2 DEF ProjectResources
    <3> QED
      BY <1>1, <1>7, <2>2, <3>1, <3>2 DEF Gone
  <2> QED
    BY <2>1, <2>2 DEF KnownInv, ProjectResources
<1>9. ForceInv'
  <2>1. \A q \in Resources : force'[q] => force[q] \/ call = "force"
    <3> DEFINE wanted == force[r] \/ call = "force"
    <3>1. force' = [force EXCEPT ![r] = wanted] /\ force \in [Resources -> BOOLEAN]
      BY <1>5 DEF Checks, TypeInv, TypeOK
    <3> QED
      BY <3>1
  <2> QED
    BY <1>1, <1>2, <1>7, <2>1 DEF ForceInv
<1>10. DeletedInv'
  BY <1>2, <1>7 DEF DeletedInv, Creating
<1> QED
  BY <1>8, <1>9, <1>10

LEMMA RemoveKeepsDelete ==
    ASSUME TypeInv, ObjectsInv, DeleteInv, Remove
    PROVE  DeleteInv'
<1> SUFFICES ASSUME ForgetsNothing
             PROVE  KnownInv' /\ ForceInv' /\ DeletedInv'
  BY DEF DeleteInv, ForgetsNothing, Remove
<1>0. PICK r \in Resources : r = Current
  BY CurrentIsListed DEF Remove
<1>1. /\ r \in Resources /\ pc = "remove" /\ pc' = "make" /\ Current' = r
      /\ UNCHANGED <<scenario, railwayId, call, force>>
  BY <1>0 DEF Remove, Current, Creating
<1>2. PICK outcome : Delete(r, outcome)
  BY <1>0 DEF Remove
<1>3. objects' \subseteq objects
  BY <1>1, <1>2, DeleteFacts
<1>4. KnownInv /\ ForceInv
  BY DEF DeleteInv
<1>5. "force" \in scenario.calls /\ scenario.faults \cap {"lost", "write"} = {}
  BY <1>1, <1>4 DEF ForceInv, ForgetsNothing
<1>6. r.kind = "project" => Gone(r)'
  <2> SUFFICES ASSUME r.kind = "project"
               PROVE  Gone(r)'
    OBVIOUS
  <2>1. CASE CanDelete(r)
    <3>1. objects' = objects \ Contents(r)
      BY <1>1, <1>2, <1>5, <2>1, DeleteDeletes
    <3> QED
      BY <1>1, <3>1 DEF Gone, Contents
  <2>2. CASE ~CanDelete(r)
    <3>1. Gone(r)
      BY <1>1, <2>2, MissedIsGone DEF CanDelete
    <3> QED
      BY <1>1, <1>3, <3>1 DEF Gone
  <2> QED
    BY <2>1, <2>2
<1>7. KnownInv'
  BY <1>1, <1>3, <1>4, <1>6 DEF KnownInv, Gone, ProjectResources
<1>8. ForceInv' /\ DeletedInv'
  BY <1>1, <1>5 DEF ForceInv, DeletedInv
<1> QED
  BY <1>7, <1>8

LEMMA MakeKeepsDelete ==
    ASSUME TypeInv, ObjectsInv, DeleteInv, Make
    PROVE  DeleteInv'
<1> SUFFICES ASSUME ForgetsNothing
             PROVE  KnownInv' /\ ForceInv' /\ DeletedInv'
  BY MakeFacts DEF DeleteInv, ForgetsNothing
<1> DEFINE r == Current
<1>1. /\ r \in Resources /\ pc = "make" /\ UNCHANGED <<scenario, force>>
      /\ \E outcome \in MutationOutcomes(r, Accepts(r)) : Makes(r, outcome)
  BY MakeFacts
<1>2. /\ \A o \in objects : \E p \in ProjectResources : o.project = railwayId[p]
      /\ r.kind = "project" => Gone(r)
      /\ ForceInv /\ Creating
  BY <1>1 DEF DeleteInv, KnownInv, TypeInv, Running
<1> HIDE DEF r
<1>3. PICK outcome \in MutationOutcomes(r, Accepts(r)) : Makes(r, outcome)
  BY <1>1
<1> DEFINE n == outcome.effects
           new == Creation(r, n)
<1>4. /\ n \in Nat /\ (n > 0 => Accepts(r)) /\ (r.kind # "project" => n <= 1)
      /\ outcome.ok \in BOOLEAN
      /\ n = IF outcome.ok THEN 1 ELSE 0
      /\ objects' = objects \cup new
  BY <1>1, <1>3, MakeCreates DEF ForgetsNothing
<1>5. railwayId \in [Resources -> {NoId} \cup Ids]
  BY DEF TypeInv, TypeOK
<1>6. pc' \in {"idle", "check"} /\ call' = call
  BY <1>2, <1>3 DEF Makes, Advance
<1>7. ForceInv' /\ DeletedInv'
  BY <1>1, <1>2, <1>6 DEF ForceInv, DeletedInv, Creating
<1>8. \A o \in objects' : \E p \in ProjectResources : o.project = railwayId'[p]
  <2>1. CASE ~outcome.ok
    <3>1. n = 0
      BY <1>4, <2>1
    <3>2. new = {}
      BY <3>1, <1>1, <1>4, CreationFacts
    <3>3. railwayId' = railwayId
      BY <1>3, <2>1 DEF Makes
    <3> HIDE DEF new
    <3> QED
      BY <1>2, <1>4, <3>2, <3>3
  <2>2. CASE outcome.ok /\ r.kind # "project"
    <3>1. \A o \in new : IsLive("project", o.project)
      BY <1>1, <1>4, <2>2, CreationFacts
    <3>2. \A o \in new : \E q \in objects : q.project = o.project
      <4> HIDE DEF new
      <4> QED
        BY <3>1 DEF IsLive, ObjectsInv
    <3>3. \A p \in ProjectResources : railwayId'[p] = railwayId[p]
      BY <1>3, <1>5, <2>2 DEF Makes, ProjectResources
    <3> HIDE DEF new
    <3> QED
      BY <1>2, <1>4, <3>2, <3>3
  <2>3. CASE outcome.ok /\ r.kind = "project"
    <3>1. n = 1
      BY <1>4, <2>3
    <3>2. new = Made(r, nextId)
      BY <3>1, <1>1, <1>4, CreationFacts
    <3>3. \A o \in new : o.project = nextId
      BY <2>3, <3>2 DEF Made
    <3>4. railwayId' = [railwayId EXCEPT ![r] = nextId]
      <4>1. railwayId' = [railwayId EXCEPT ![r] = nextId + Width(r) * (outcome.effects - 1)]
        BY <1>3, <2>3 DEF Makes
      <4>2. nextId \in Nat
        BY DEF TypeInv, TypeOK, Ids
      <4>3. nextId + Width(r) * (outcome.effects - 1) = nextId
        BY <3>1, <4>2 DEF Width
      <4> QED
        BY <4>1, <4>3, Zenon
    <3>5. r \in ProjectResources /\ railwayId'[r] = nextId
      BY <1>1, <1>5, <2>3, <3>4 DEF ProjectResources
    <3>6. \A o \in objects : \E p \in ProjectResources : o.project = railwayId'[p]
      <4>1. \A p \in ProjectResources : p # r => railwayId'[p] = railwayId[p]
        BY <1>5, <3>4 DEF ProjectResources
      <4> QED
        BY <1>2, <2>3, <4>1 DEF Gone
    <3> HIDE DEF new
    <3> QED
      BY <1>4, <3>3, <3>5, <3>6
  <2> QED
    BY <1>4, <2>1, <2>2, <2>3
<1>9. KnownInv'
  BY <1>6, <1>8 DEF KnownInv, ProjectResources
<1> QED
  BY <1>7, <1>9

LEMMA DeleteStepKeepsDelete ==
    ASSUME TypeInv, ObjectsInv, DeleteInv, DeleteStep
    PROVE  DeleteInv'
<1> SUFFICES ASSUME ForgetsNothing
             PROVE  KnownInv' /\ ForceInv' /\ DeletedInv'
  BY DEF DeleteInv, ForgetsNothing, DeleteStep
<1>0. PICK r \in Resources : r = Current
  BY CurrentIsListed DEF DeleteStep
<1>1. /\ r \in Resources /\ pc = "delete" /\ call = "delete" /\ r = DeleteOrder[index]
      /\ UNCHANGED <<scenario, railwayId, force>>
      /\ index \in 1 .. Total /\ count \in 0 .. index /\ count < index /\ Total \in Nat
  BY <1>0, ResourceFacts
     DEF DeleteStep, TypeInv, TypeOK, Running, Current, Creating
<1>2. KnownInv /\ ForceInv /\ DeletedInv
  BY DEF DeleteInv
<1>3. PICK outcome : Delete(r, outcome) /\ Advance(outcome.ok)
  BY <1>0 DEF DeleteStep
<1>4. pc' \in {"idle", "delete"} /\ call' = call
  BY <1>1, <1>3 DEF Advance, Creating
<1>5. objects' \subseteq objects /\ outcome.ok \in BOOLEAN
  BY <1>1, <1>3, DeleteFacts
<1>6. KnownInv' /\ ForceInv'
  BY <1>1, <1>2, <1>4, <1>5 DEF KnownInv, ForceInv, ProjectResources
<1>7. \A p : Gone(p) => Gone(p)'
  BY <1>1, <1>5 DEF Gone
<1>8. outcome.ok /\ r.kind = "project" => Gone(r)'
  <2>1. outcome.ok => objects' = objects \ Contents(r)
    BY <1>1, <1>3, DeleteDeletes
  <2> QED
    BY <1>1, <2>1 DEF Gone, Contents
<1>9. /\ index' = index \/ index' = index + 1
      /\ pc' = "delete" => index' = index + 1
      /\ pc' = "idle" => index' = index
      /\ count' = IF outcome.ok THEN count + 1 ELSE count
  BY <1>1, <1>3 DEF Advance, Creating
\* A count that is complete so far is one to which r was added.
<1>10. ASSUME count' >= index
       PROVE  \A j \in 1 .. index : DeleteOrder[j].kind = "project" => Gone(DeleteOrder[j])'
  <2>1. outcome.ok /\ count = index - 1
    BY <1>1, <1>5, <1>9, <1>10
  <2>2. \A j \in 1 .. index - 1 : DeleteOrder[j].kind = "project" => Gone(DeleteOrder[j])
    BY <1>1, <1>2, <2>1 DEF DeletedInv
  <2>3. \A j \in 1 .. index : j \in 1 .. index - 1 \/ j = index
    BY <1>1
  <2>4. ASSUME NEW j \in 1 .. index, DeleteOrder[j].kind = "project"
        PROVE  Gone(DeleteOrder[j])'
    <3>1. CASE j = index
      <4>1. DeleteOrder[j] = r
        BY <1>1, <3>1
      <4> QED
        BY <1>8, <2>1, <2>4, <4>1
    <3>2. CASE j # index
      <4>1. Gone(DeleteOrder[j])
        BY <2>2, <2>3, <2>4, <3>2
      <4> QED
        BY <1>7, <4>1
    <3> QED
      BY <3>1, <3>2
  <2> QED
    BY <2>4
<1>11. ASSUME pc' = "delete", count' = index' - 1, NEW j \in 1 .. index' - 1,
              DeleteOrder[j].kind = "project"
       PROVE  Gone(DeleteOrder[j])'
  <2>1. count' >= index /\ j \in 1 .. index
    BY <1>1, <1>9, <1>11
  <2> QED
    BY <1>10, <1>11, <2>1
<1>12. ASSUME pc' = "idle", count' = Total, NEW p \in ProjectResources
       PROVE  Gone(p)'
  <2>1. count' >= index /\ index = Total
    BY <1>1, <1>9, <1>12
  <2>2. PICK j \in 1 .. Total : DeleteOrder[j] = p
    BY ResourceFacts DEF ProjectResources
  <2>3. p.kind = "project"
    BY DEF ProjectResources
  <2> QED
    BY <1>10, <2>1, <2>2, <2>3
<1>13. DeletedInv'
  BY <1>4, <1>11, <1>12 DEF DeletedInv, ProjectResources, Total
<1> QED
  BY <1>6, <1>13

LEMMA DeleteInvariant == Spec => []DeleteInv
<1>1. Init => DeleteInv
  BY DEF Init, Fresh, DeleteInv, KnownInv, ForceInv, DeletedInv
<1>2. TypeInv /\ ObjectsInv /\ DeleteInv /\ [Next]_vars => DeleteInv'
  <2> SUFFICES ASSUME TypeInv, ObjectsInv, DeleteInv, [Next]_vars
               PROVE  DeleteInv'
    OBVIOUS
  <2>1. CASE Check
    BY <2>1, CheckKeepsDelete
  <2>2. CASE Remove
    BY <2>2, RemoveKeepsDelete
  <2>3. CASE Make
    BY <2>3, MakeKeepsDelete
  <2>4. CASE DeleteStep
    BY <2>4, DeleteStepKeepsDelete
  <2>5. ASSUME NEW kind \in scenario.calls, Start(kind)
        PROVE  DeleteInv'
    <3>1. /\ UNCHANGED <<scenario, objects, railwayId, force>>
          /\ call' = kind /\ index' = 1 /\ pc' \in {"check", "delete"}
      BY <2>5 DEF Start, localVars
    <3>2. index' - 1 = 0
      BY <3>1
    <3>3. KnownInv => KnownInv'
      BY <3>1 DEF KnownInv, ProjectResources
    <3>4. ForceInv => ForceInv'
      BY <3>1 DEF ForceInv
    <3>5. DeletedInv'
      BY <3>1, <3>2 DEF DeletedInv
    <3> QED
      BY <3>1, <3>3, <3>4, <3>5 DEF DeleteInv, ForgetsNothing
  <2>6. CASE Restart
    BY <2>6 DEF Restart, DeleteInv, ForgetsNothing
  <2>7. CASE UNCHANGED vars
    <3>1. UNCHANGED <<scenario, objects, railwayId, force, pc, call, index, count>>
      BY <2>7 DEF vars, localVars, driverVars
    <3>2. Current' = Current
      BY <3>1 DEF Current, Creating
    <3>3. /\ KnownInv => KnownInv'
          /\ ForceInv => ForceInv'
          /\ DeletedInv => DeletedInv'
      BY <3>1, <3>2 DEF KnownInv, ForceInv, DeletedInv, Gone, ProjectResources, Total
    <3> QED
      BY <3>1, <3>3 DEF DeleteInv, ForgetsNothing
  <2>8. CASE Interrupt
    BY <2>8 DEF Interrupt, DeleteInv, ForgetsNothing
  <2> QED
    BY <2>1, <2>2, <2>3, <2>4, <2>5, <2>6, <2>7, <2>8 DEF Next, LoopStep
<1> QED
  BY <1>1, <1>2, TypeInvariant, ObjectsInvariant, PTL DEF Spec

\* delete_resources: unless the program has forgotten what it created, "n of n
\* deleted" means that nothing is left at Railway, of whatever apps are listed.
THEOREM DeletedMeansNothingLeft == Spec => []DeleteCountIsHonest
<1>1. TypeInv /\ DeleteInv => DeleteCountIsHonest
  BY DEF DeleteInv, KnownInv, DeletedInv, Gone, DeleteCountIsHonest, Returned
<1> QED
  BY <1>1, TypeInvariant, DeleteInvariant, PTL

----------------------------------------------------------------------------
(* While nothing is deleted, with one app.                                 *)

OneApp == \A q, r \in Resources : q.name = r.name

OnlyCreates ==
    /\ scenario.calls = {"create"} /\ "read" \notin scenario.faults
    /\ DatabasesHaveOwnNames

Plain(r) == r.kind \notin {"variable", "collection"}

\* The object the program takes for r is the one of its own project.
Known(r) ==
    \E o \in objects :
        /\ o.kind = r.kind /\ o.name = CloudName(r)
        /\ o.id = railwayId[r] /\ o.project = railwayId[Project(r)]

Counted(r) == r.kind # "collection" => Deployed(r)

CallsInv ==
    /\ \A r \in Resources : ~force[r]
    /\ call \in {"none", "create"}
    /\ pc \in {"idle", "check", "make"}

\* What the program knows is so, and the ids it has filled in are the ones it knows.
IdsInv ==
    /\ \A r \in Resources : Plain(r) /\ railwayId[r] # NoId => Known(r)
    /\ \A r \in Resources : HasProjectId(r) /\ projectId[r] \in Ids =>
          projectId[r] = railwayId[Project(r)]
    /\ \A r \in Resources : HasEnvironmentId(r) /\ environmentId[r] \in Ids =>
          environmentId[r] = railwayId[Environment(r)]

\* A variable is in an environment of its project.
VariablesInv ==
    \A o \in objects : o.kind = "variable" =>
        \E e \in objects :
            e.kind = "environment" /\ e.id = o.environment /\ e.project = o.project

\* A service has the name of one that is listed as what it is.
ServicesInv ==
    \A o \in objects : o.kind \in Services =>
        \E q \in Resources : q.kind = o.kind /\ o.name = CloudName(q)

\* What is cached is deployed, what is looked up in vain is not known, and what the
\* loop of create_resources has counted is deployed.
CachedInv == \A r \in Resources : active[r] => Counted(r)

MissedInv == pc = "make" /\ Plain(Current) => railwayId[Current] = NoId

CountedInv ==
    /\ pc # "idle" /\ count = index - 1 =>
          \A j \in 1 .. index - 1 : Counted(CreateOrder[j])
    /\ pc = "idle" /\ call = "create" /\ count = Total =>
          \A r \in Resources : Counted(r)

CreateInv ==
    OneApp /\ OnlyCreates =>
        /\ CallsInv /\ IdsInv /\ VariablesInv /\ ServicesInv
        /\ CachedInv /\ MissedInv /\ CountedInv

\* The project and the environment of a resource.
LEMMA ContainerFacts ==
    ASSUME NEW r \in Resources
    PROVE  /\ Project(r) \in Resources /\ Project(r).kind = "project"
           /\ Environment(r) \in Resources /\ Environment(r).kind = "environment"
           /\ Project(Environment(r)) = Project(r) /\ Project(Project(r)) = Project(r)
           /\ Plain(Project(r)) /\ Plain(Environment(r))
           /\ OneApp => \A q \in Resources : /\ q.kind = "project" => Project(r) = q
                                             /\ q.kind = "environment" => Environment(r) = q
<1>1. Resources \subseteq [kind : Order!Kinds, name : STRING]
  BY ResourceFacts DEF Records
<1>2. Project(r) \in Resources /\ Environment(r) \in Resources
  BY ResourceFacts
<1>3. OneApp => \A q \in Resources : /\ q.kind = "project" => Project(r) = q
                                     /\ q.kind = "environment" => Environment(r) = q
  <2> SUFFICES ASSUME OneApp, NEW q \in Resources
               PROVE  /\ q.kind = "project" => Project(r) = q
                      /\ q.kind = "environment" => Environment(r) = q
    OBVIOUS
  <2>1. q.name = r.name
    BY DEF OneApp
  <2>2. q = [kind |-> q.kind, name |-> q.name]
    BY <1>1
  <2> QED
    BY <2>1, <2>2 DEF Project, Environment
<1> QED
  BY <1>2, <1>3 DEF Project, Environment, Plain

\* A step that learns at most one id: that of an object in its own project, of a
\* resource that had none.
Learns(r) ==
    /\ scenario' = scenario /\ objects \subseteq objects'
    /\ \A q \in Resources : q # r => railwayId'[q] = railwayId[q]
    /\ railwayId'[r] # railwayId[r] => railwayId[r] = NoId /\ Known(r)'
    /\ Propagate(r, railwayId'[r]) \/ UNCHANGED <<projectId, environmentId>>

LEMMA LearnsKeeps ==
    ASSUME TypeInv, OneApp, IdsInv, VariablesInv, NEW r \in Resources, Learns(r)
    PROVE  /\ IdsInv'
           /\ \A q \in Resources : Counted(q) => Counted(q)'
<1>1. \A q \in Resources : railwayId[q] # NoId => railwayId'[q] = railwayId[q]
  BY DEF Learns
<1>2. \A o \in objects : o \in objects' /\ o.id \in Ids /\ o.project \in Ids
  BY DEF Learns, TypeInv, TypeOK, Objects
<1>3. NoId \notin Ids
  BY DEF NoId, Ids
<1>4. \A q : CloudName(q)' = CloudName(q)
  BY DEF Learns, CloudName
<1>5. ASSUME NEW q \in Resources, Plain(q), railwayId'[q] # NoId
      PROVE  Known(q)'
  <2>1. CASE railwayId'[q] # railwayId[q]
    <3>1. q = r
      BY <2>1 DEF Learns
    <3>2. Known(r)'
      BY <2>1, <3>1 DEF Learns
    <3> QED
      BY <3>1, <3>2
  <2>2. CASE railwayId'[q] = railwayId[q]
    <3>1. PICK o \in objects : /\ o.kind = q.kind /\ o.name = CloudName(q)
                               /\ o.id = railwayId[q] /\ o.project = railwayId[Project(q)]
      BY <1>5, <2>2 DEF IdsInv, Known
    <3>2. railwayId'[Project(q)] = railwayId[Project(q)]
      BY <1>1, <1>2, <1>3, <3>1, ContainerFacts
    <3> QED
      BY <1>2, <1>4, <2>2, <3>1, <3>2 DEF Known, Project
  <2> QED
    BY <2>1, <2>2
<1>6. ASSUME NEW q \in Resources, HasProjectId(q), projectId'[q] \in Ids
      PROVE  projectId'[q] = railwayId'[Project(q)]
  <2>1. CASE projectId'[q] = projectId[q]
    <3>1. projectId[q] = railwayId[Project(q)]
      BY <1>6, <2>1 DEF IdsInv
    <3> QED
      BY <1>1, <1>3, <1>6, <2>1, <3>1, ContainerFacts
  <2>2. CASE projectId'[q] # projectId[q]
    <3>1. Propagate(r, railwayId'[r])
      BY <2>2 DEF Learns
    <3>2. r.kind = "project" /\ projectId'[q] = railwayId'[r]
      BY <2>2, <3>1, PropagateKeeps
    <3> QED
      BY <3>2, ContainerFacts
  <2> QED
    BY <2>1, <2>2
<1>7. ASSUME NEW q \in Resources, HasEnvironmentId(q), environmentId'[q] \in Ids
      PROVE  environmentId'[q] = railwayId'[Environment(q)]
  <2>1. CASE environmentId'[q] = environmentId[q]
    <3>1. environmentId[q] = railwayId[Environment(q)]
      BY <1>7, <2>1 DEF IdsInv
    <3> QED
      BY <1>1, <1>3, <1>7, <2>1, <3>1, ContainerFacts
  <2>2. CASE environmentId'[q] # environmentId[q]
    <3>1. Propagate(r, railwayId'[r])
      BY <2>2 DEF Learns
    <3>2. r.kind = "environment" /\ environmentId'[q] = railwayId'[r]
      BY <2>2, <3>1, PropagateKeeps
    <3> QED
      BY <3>2, ContainerFacts
  <2> QED
    BY <2>1, <2>2
<1>8. IdsInv'
  BY <1>5, <1>6, <1>7 DEF IdsInv, Plain, HasProjectId, HasEnvironmentId, Project, Environment
<1>9. ASSUME NEW q \in Resources, Deployed(q)
      PROVE  Deployed(q)'
  <2>1. PICK o \in objects : /\ o.kind = q.kind /\ o.name = CloudName(q)
                             /\ o.project = railwayId[Project(q)]
                             /\ q.kind = "variable" => o.environment = railwayId[Environment(q)]
    BY <1>9 DEF Deployed
  <2>2. railwayId'[Project(q)] = railwayId[Project(q)]
    BY <1>1, <1>2, <1>3, <2>1, ContainerFacts
  <2>3. q.kind = "variable" => railwayId'[Environment(q)] = railwayId[Environment(q)]
    <3>1. q.kind = "variable" => o.environment \in Ids
      BY <1>2, <2>1 DEF VariablesInv
    <3> QED
      BY <1>1, <1>3, <2>1, <3>1, ContainerFacts
  <2> QED
    BY <1>2, <1>4, <2>1, <2>2, <2>3 DEF Deployed, Project, Environment
<1> QED
  BY <1>8, <1>9 DEF Counted

\* Where the id of its environment is known, a variable is looked up and made in
\* the environment of its own project.
LEMMA EnvironmentIsOwn ==
    ASSUME TypeInv, ObjectsInv, IdsInv, NEW r \in Resources, HasEnvironmentId(r),
           NEW e \in objects, e.kind = "environment", e.id = environmentId[r]
    PROVE  /\ environmentId[r] = railwayId[Environment(r)]
           /\ e.project = railwayId[Project(r)]
<1>1. environmentId[r] \in Ids /\ NoId \notin Ids
  BY DEF TypeInv, TypeOK, Objects, NoId, Ids
<1>2. environmentId[r] = railwayId[Environment(r)]
  BY <1>1 DEF IdsInv
<1>3. Known(Environment(r))
  BY <1>1, <1>2, ContainerFacts DEF IdsInv
<1>4. PICK o \in objects : /\ o.id = railwayId[Environment(r)]
                           /\ o.project = railwayId[Project(Environment(r))]
  BY <1>3 DEF Known
<1>5. o = e
  BY <1>2, <1>4 DEF ObjectsInv
<1> QED
  BY <1>2, <1>4, <1>5, ContainerFacts

\* The loop goes on with a count that is complete, or not.
LEMMA AdvanceCounts ==
    ASSUME TypeInv, CountedInv, pc # "idle", Creating, NEW succeeded \in BOOLEAN,
           Advance(succeeded), NEW r \in Resources, r = Current,
           \A q \in Resources : Counted(q) => Counted(q)',
           succeeded => Counted(r)'
    PROVE  CountedInv'
<1>1. /\ index \in 1 .. Total /\ count \in 0 .. index /\ count < index /\ Total \in Nat
      /\ r = CreateOrder[index]
  BY ResourceFacts DEF TypeInv, TypeOK, Running, Current
<1>2. /\ index' = index \/ index' = index + 1
      /\ pc' # "idle" => index' = index + 1
      /\ count' = IF succeeded THEN count + 1 ELSE count
  BY DEF Advance
<1>3. \A j \in 1 .. Total : CreateOrder[j] \in Resources
  BY ResourceFacts
<1>4. ASSUME count' >= index, NEW j \in 1 .. index
      PROVE  Counted(CreateOrder[j])'
  <2>1. succeeded /\ count = index - 1
    BY <1>1, <1>2, <1>4
  <2>2. CASE j = index
    <3>1. CreateOrder[j] = r
      BY <1>1, <2>2
    <3> QED
      BY <2>1, <3>1
  <2>3. CASE j # index
    <3>1. j \in 1 .. index - 1 /\ j \in 1 .. Total
      BY <1>1, <2>3
    <3>2. Counted(CreateOrder[j])
      BY <2>1, <3>1 DEF CountedInv
    <3> QED
      BY <1>3, <3>1, <3>2
  <2> QED
    BY <2>2, <2>3
<1>5. ASSUME pc' # "idle", count' = index' - 1, NEW j \in 1 .. index' - 1
      PROVE  Counted(CreateOrder[j])'
  <2>1. count' >= index /\ j \in 1 .. index
    BY <1>1, <1>2, <1>5
  <2> QED
    BY <1>4, <2>1
<1>6. ASSUME count' = Total, NEW q \in Resources
      PROVE  Counted(q)'
  <2>1. count' >= index /\ index = Total
    BY <1>1, <1>2, <1>6
  <2>2. PICK j \in 1 .. Total : CreateOrder[j] = q
    BY ResourceFacts
  <2>3. Counted(CreateOrder[j])'
    BY <1>4, <2>1
  <2> QED
    BY <2>2, <2>3
<1> QED
  BY <1>5, <1>6 DEF CountedInv, Total

\* Where databases have names of their own, a name tells what a service is.
LEMMA NamesTellApart ==
    ASSUME OneApp, OnlyCreates, ServicesInv, NEW r \in Resources, NEW o \in objects,
           o.kind \in Alike(r), o.name = CloudName(r)
    PROVE  o.kind = r.kind
<1>1. CASE r.kind \notin Services
  BY <1>1 DEF Alike
<1>2. CASE r.kind \in Services
  <2>1. PICK q \in Resources : q.kind = o.kind /\ CloudName(q) = CloudName(r)
    BY <1>2 DEF Alike, ServicesInv
  <2>2. q.name = r.name /\ q.kind \in Services
    BY <1>2, <2>1 DEF Alike, OneApp
  <2>3. \A x \in Resources : x.kind = "postgres" =>
            CloudName(x) = scenario.databases[x.name] /\ CloudName(x) # x.name
    BY DEF OnlyCreates, DatabasesHaveOwnNames, CloudName
  <2>4. \A x \in Resources : x.kind = "service" => CloudName(x) = x.name
    BY DEF CloudName
  <2> QED
    BY <1>2, <2>1, <2>2, <2>3, <2>4 DEF Services
<1> QED
  BY <1>1, <1>2

\* What Check finds is what the program already knows, or an object of its own project.
LEMMA CheckLearns ==
    ASSUME TypeInv, ObjectsInv, OneApp, CreateInv, OnlyCreates, NEW r \in Resources,
           NEW found, Checks(r, found), UNCHANGED <<scenario, objects>>
    PROVE  /\ Learns(r)
           /\ active[r] \/ found # NoId => Counted(r)'
           /\ ~active[r] /\ found = NoId /\ Plain(r) => railwayId'[r] = NoId
<1>1. CallsInv /\ IdsInv /\ VariablesInv /\ ServicesInv /\ CachedInv
  BY DEF CreateInv
<1>2. /\ railwayId \in [Resources -> {NoId} \cup Ids] /\ NoId \notin Ids
      /\ \A o \in objects : o.id \in Ids /\ o.project \in Ids
  BY DEF TypeInv, TypeOK, Objects, NoId, Ids
<1>3. \A q \in Resources : q # r => railwayId'[q] = railwayId[q]
  BY CheckKeepsProjects
<1>4. ~active[r] => found \in ReadResults(r) /\ railwayId' = Remembered(r, found)
  BY DEF Checks
<1>5. active[r] => railwayId' = railwayId
  BY DEF Checks
<1>6. r.kind # "collection" => (ReadResults(r) = IF Matches(r) = {} THEN {NoId}
                                                 ELSE {o.id : o \in Matches(r)})
  BY DEF ReadResults, OnlyCreates
<1>7. ASSUME ~active[r], found # NoId, Plain(r)
      PROVE  /\ railwayId'[r] = found
             /\ railwayId[r] # NoId => found = railwayId[r]
             /\ railwayId[r] = NoId => Known(r)'
  <2>1. railwayId'[r] = found
    BY <1>2, <1>4, <1>7 DEF Remembered, Plain
  <2>2. PICK o \in Matches(r) : o.id = found
    BY <1>4, <1>6, <1>7 DEF Plain
  <2>3. railwayId[r] # NoId => found = railwayId[r]
    BY <1>7, <2>2 DEF Matches, Plain
  <2>4. ASSUME railwayId[r] = NoId
        PROVE  Known(r)'
    <3>1. /\ r.kind # "project" /\ o \in objects /\ o.kind = r.kind /\ o.name = CloudName(r)
          /\ o.project = projectId[r]
      <4>1. /\ r.kind # "project" /\ o \in objects /\ o.kind \in Alike(r)
            /\ o.name = CloudName(r) /\ o.project = projectId[r]
        BY <1>7, <2>2, <2>4 DEF Matches, Plain
      <4> QED
        BY <1>1, <4>1, NamesTellApart
    <3>2. o.project = railwayId[Project(r)]
      BY <1>1, <1>2, <3>1 DEF IdsInv, HasProjectId
    <3>3. railwayId'[Project(r)] = railwayId[Project(r)]
      BY <1>3, <3>1, ContainerFacts
    <3>4. CloudName(r)' = CloudName(r)
      BY DEF CloudName
    <3> QED
      BY <2>1, <2>2, <3>1, <3>2, <3>3, <3>4 DEF Known, Project
  <2> QED
    BY <2>1, <2>3, <2>4
<1>8. railwayId'[r] # railwayId[r] => railwayId[r] = NoId /\ Known(r)'
  <2> SUFFICES ASSUME railwayId'[r] # railwayId[r]
               PROVE  railwayId[r] = NoId /\ Known(r)'
    OBVIOUS
  <2>1. ~active[r]
    BY <1>5
  <2>2. found # NoId /\ Plain(r)
    BY <1>4, <2>1 DEF Remembered, Plain
  <2> QED
    BY <1>7, <2>1, <2>2
<1>9. Learns(r)
  <2>1. Propagate(r, railwayId'[r]) \/ UNCHANGED <<projectId, environmentId>>
    BY CheckLeads
  <2> QED
    BY <1>3, <1>8, <2>1 DEF Learns
<1>10. IdsInv' /\ \A q \in Resources : Counted(q) => Counted(q)'
  BY <1>1, <1>9, LearnsKeeps
<1>11. ASSUME active[r] \/ found # NoId, r.kind # "collection"
       PROVE  Counted(r)'
  <2>1. CASE active[r]
    BY <1>1, <1>10, <2>1 DEF CachedInv
  <2>2. CASE ~active[r] /\ Plain(r)
    <3>1. railwayId'[r] # NoId
      BY <1>7, <1>11, <2>2
    <3>2. Known(r)'
      BY <1>10, <2>2, <3>1 DEF IdsInv, Plain
    <3> QED
      BY <2>2, <3>2 DEF Known, Counted, Deployed, Plain
  <2>3. CASE ~active[r] /\ r.kind = "variable"
    <3>1. PICK o \in Matches(r) : o.id = found
      BY <1>4, <1>6, <1>11, <2>3
    <3>2. /\ o \in objects /\ o.kind = "variable" /\ o.name = CloudName(r)
          /\ o.environment = environmentId[r]
      BY <2>3, <3>1 DEF Matches
    <3>3. PICK e \in objects : /\ e.kind = "environment" /\ e.id = environmentId[r]
                               /\ e.project = o.project
      BY <1>1, <3>2 DEF VariablesInv
    <3>4. /\ environmentId[r] = railwayId[Environment(r)]
          /\ o.project = railwayId[Project(r)]
      BY <1>1, <2>3, <3>3, EnvironmentIsOwn DEF HasEnvironmentId
    <3>5. Deployed(r)
      BY <2>3, <3>2, <3>4 DEF Deployed
    <3> QED
      BY <1>10, <3>5 DEF Counted
  <2> QED
    BY <1>11, <2>1, <2>2, <2>3 DEF Plain
<1>12. ASSUME ~active[r], found = NoId, Plain(r)
       PROVE  railwayId'[r] = NoId
  <2>1. railwayId' = railwayId
    BY <1>4, <1>12 DEF Remembered
  <2>2. Matches(r) = {}
    BY <1>2, <1>4, <1>6, <1>12 DEF Matches, Plain
  <2>3. ASSUME railwayId[r] # NoId
        PROVE  FALSE
    <3>1. PICK o \in objects : o.kind = r.kind /\ o.id = railwayId[r]
      BY <1>1, <1>12, <2>3 DEF IdsInv, Known
    <3> QED
      BY <1>12, <2>2, <2>3, <3>1 DEF Matches, Plain, Alike, Services
  <2> QED
    BY <2>1, <2>3
<1> QED
  BY <1>9, <1>11, <1>12 DEF Counted

LEMMA CheckKeepsCreate ==
    ASSUME TypeInv, ObjectsInv, CreateInv, Check
    PROVE  CreateInv'
<1> SUFFICES ASSUME OneApp, OnlyCreates
             PROVE  /\ CallsInv' /\ IdsInv' /\ VariablesInv' /\ ServicesInv'
                    /\ CachedInv' /\ MissedInv' /\ CountedInv'
  BY CheckFacts DEF CreateInv, OnlyCreates, DatabasesHaveOwnNames
<1>1. CallsInv /\ IdsInv /\ VariablesInv /\ ServicesInv /\ CachedInv /\ CountedInv
  BY DEF CreateInv
<1>2. /\ Current \in Resources /\ pc = "check" /\ UNCHANGED <<scenario, objects>>
      /\ \E found : Checks(Current, found)
  BY CheckFacts
<1>3. PICK r \in Resources : r = Current
  BY <1>2
<1>4. PICK found : Checks(r, found)
  BY <1>2, <1>3
<1>5. Creating
  BY <1>2 DEF TypeInv, Running
<1>6. /\ Learns(r)
      /\ active[r] \/ found # NoId => Counted(r)'
      /\ ~active[r] /\ found = NoId /\ Plain(r) => railwayId'[r] = NoId
  BY <1>2, <1>4, CheckLearns
<1>7. IdsInv' /\ \A q \in Resources : Counted(q) => Counted(q)'
  BY <1>1, <1>6, LearnsKeeps
<1>8. \/ /\ pc' = "make" /\ ~active[r] /\ found = NoId
         /\ UNCHANGED <<call, index, count>>
      \/ /\ active[r] \/ found # NoId
         /\ Advance(TRUE)
  BY <1>1, <1>4, CheckLeads DEF CallsInv
<1>9. CallsInv'
  <2>1. force' = [force EXCEPT ![r] = force[r] \/ call = "force"]
    BY <1>4 DEF Checks
  <2>2. \A q \in Resources : ~force'[q]
    BY <1>1, <2>1 DEF CallsInv, TypeInv, TypeOK
  <2>3. call' = call /\ pc' \in {"idle", "check", "make"}
    BY <1>5, <1>8 DEF Advance
  <2> QED
    BY <1>1, <2>2, <2>3 DEF CallsInv
<1>10. VariablesInv' /\ ServicesInv'
  BY <1>1, <1>2 DEF VariablesInv, ServicesInv, CloudName
<1>11. CachedInv'
  <2>1. \A q \in Resources : q # r => active'[q] = active[q]
    BY <1>4 DEF Checks, TypeInv, TypeOK
  <2>2. active'[r] => active[r] \/ found # NoId
    BY <1>4 DEF Checks, TypeInv, TypeOK
  <2> QED
    BY <1>1, <1>6, <1>7, <2>1, <2>2 DEF CachedInv
<1>12. CASE UNCHANGED <<call, index, count>> /\ pc' = "make" /\ ~active[r] /\ found = NoId
  <2>1. Current' = r
    BY <1>3, <1>12 DEF Current, Creating
  <2>2. MissedInv'
    BY <1>6, <1>12, <2>1 DEF MissedInv, Plain
  <2>3. CountedInv'
    <3>1. \A j \in 1 .. index - 1 : CreateOrder[j] \in Resources
      BY <1>2, ResourceFacts DEF TypeInv, Running
    <3> QED
      BY <1>1, <1>2, <1>7, <1>12, <3>1 DEF CountedInv
  <2> QED
    BY <1>7, <1>9, <1>10, <1>11, <2>2, <2>3
<1>13. CASE (active[r] \/ found # NoId) /\ Advance(TRUE)
  <2>1. MissedInv'
    BY <1>5, <1>13 DEF Advance, MissedInv
  <2>2. CountedInv'
    BY <1>1, <1>2, <1>3, <1>5, <1>6, <1>7, <1>13, AdvanceCounts
  <2> QED
    BY <1>7, <1>9, <1>10, <1>11, <2>1, <2>2
<1> QED
  BY <1>8, <1>12, <1>13

\* What Make makes is in the project, and the environment, that the program knows.
LEMMA MakeLearns ==
    ASSUME TypeInv, ObjectsInv, OneApp, CreateInv, OnlyCreates, NEW r \in Resources,
           NEW outcome \in MutationOutcomes(r, Accepts(r)), Makes(r, outcome),
           Plain(r) => railwayId[r] = NoId, UNCHANGED scenario
    PROVE  /\ Learns(r)
           /\ outcome.ok => Counted(r)'
           /\ VariablesInv' /\ ServicesInv'
<1>1. IdsInv /\ VariablesInv /\ ServicesInv
  BY DEF CreateInv
<1> DEFINE n == outcome.effects
           new == Creation(r, n)
           newest == nextId + Width(r) * (n - 1)
<1>2. /\ n \in Nat /\ (n > 0 => Accepts(r)) /\ (r.kind # "project" => n <= 1)
      /\ outcome.ok \in BOOLEAN /\ (outcome.ok => n >= 1)
      /\ objects' = objects \cup new
      /\ \A o \in new : o \in Objects
  BY MakeCreates
<1>3. railwayId \in [Resources -> {NoId} \cup Ids] /\ NoId \notin Ids
  BY DEF TypeInv, TypeOK, NoId, Ids
<1>4. railwayId' = IF outcome.ok /\ Plain(r) THEN [railwayId EXCEPT ![r] = newest] ELSE railwayId
  BY DEF Makes, Plain
<1>5. /\ outcome.ok => Propagate(r, railwayId'[r])
      /\ ~outcome.ok => UNCHANGED <<projectId, environmentId>>
  BY DEF Makes
<1>6. Accepts(r) /\ HasProjectId(r) => projectId[r] = railwayId[Project(r)]
  BY <1>1 DEF Accepts, IsLive, IdsInv, TypeInv, TypeOK, Objects
<1>7. n >= 1 => Made(r, newest) \subseteq new
  BY <1>2, CreationFacts
<1>8. r.kind # "project" /\ n >= 1 => new = Made(r, nextId) /\ newest = nextId
  <2> SUFFICES ASSUME r.kind # "project", n >= 1
               PROVE  new = Made(r, nextId) /\ newest = nextId
    OBVIOUS
  <2>1. n = 1
    BY <1>2
  <2>2. new = Made(r, nextId)
    BY <2>1, <1>2, CreationFacts
  <2>3. nextId \in Nat
    BY DEF TypeInv, TypeOK, Ids
  <2>4. newest = nextId
    BY <2>1, <2>3 DEF Width
  <2> QED
    BY <2>2, <2>4
<1>9. n = 0 => new = {}
  BY <1>2, CreationFacts
<1>10. n >= 1 => newest \in Ids
  BY <1>2, CreatedTypes
<1>11. \A q : CloudName(q)' = CloudName(q)
  BY DEF CloudName
<1>12. ~Plain(r) => r.kind \in {"variable", "collection"} /\ r.kind # "project"
  BY DEF Plain
<1> HIDE DEF new, n, newest
<1>13. \A q \in Resources : q # r => railwayId'[q] = railwayId[q]
  BY <1>3, <1>4
<1>14. ASSUME outcome.ok, Plain(r)
       PROVE  railwayId'[r] = newest /\ newest # NoId /\ Known(r)'
  <2>1. railwayId'[r] = newest /\ newest # NoId
    BY <1>2, <1>3, <1>4, <1>10, <1>14
  <2>2. CASE r.kind = "project"
    <3>1. PICK o \in Made(r, newest) : /\ o.kind = "project" /\ o.name = r.name
                                       /\ o.id = newest /\ o.project = newest
      BY <2>2 DEF Made
    <3>2. o \in objects'
      BY <1>2, <1>7, <1>14, <3>1
    <3>3. Project(r) = r /\ CloudName(r) = r.name
      BY <2>2, ProjectIsItself
    <3>4. railwayId'[Project(r)] = newest
      BY <2>1, <3>3, Zenon
    <3>5. CloudName(r)' = r.name
      BY <1>11, <3>3
    <3> QED
      BY <2>1, <2>2, <3>1, <3>2, <3>4, <3>5 DEF Known, Project
  <2>3. CASE r.kind # "project"
    <3>1. PICK o \in Made(r, newest) : /\ o.kind = r.kind /\ o.name = CloudName(r)
                                       /\ o.id = newest /\ o.project = projectId[r]
      BY <2>3 DEF Made
    <3>2. o \in objects'
      BY <1>2, <1>7, <1>14, <3>1
    <3>3. projectId[r] = railwayId[Project(r)]
      BY <1>2, <1>6, <1>14, <2>3 DEF HasProjectId
    <3>4. railwayId'[Project(r)] = railwayId[Project(r)]
      BY <1>13, <2>3, ContainerFacts
    <3> QED
      BY <1>11, <2>1, <3>1, <3>2, <3>3, <3>4 DEF Known, Project
  <2> QED
    BY <2>1, <2>2, <2>3
<1>15. Learns(r)
  <2>1. railwayId'[r] # railwayId[r] => railwayId[r] = NoId /\ Known(r)'
    BY <1>4, <1>14
  <2>2. Propagate(r, railwayId'[r]) \/ UNCHANGED <<projectId, environmentId>>
    BY <1>2, <1>5
  <2> QED
    BY <1>2, <1>13, <2>1, <2>2 DEF Learns
\* A variable is made in the environment it names, which the program knows.
<1>16. ASSUME n >= 1, r.kind = "variable"
       PROVE  \E o \in new :
                 /\ new = {o} /\ o.kind = "variable" /\ o.name = CloudName(r)
                 /\ o.project = railwayId[Project(r)]
                 /\ o.environment = railwayId[Environment(r)]
                 /\ \E e \in objects : /\ e.kind = "environment" /\ e.id = o.environment
                                       /\ e.project = o.project
  <2>1. PICK o : /\ new = {o} /\ o.kind = "variable" /\ o.name = CloudName(r)
                 /\ o.project = projectId[r] /\ o.environment = environmentId[r]
    <3> DEFINE object == [id |-> nextId, kind |-> r.kind, name |-> CloudName(r),
                         project |-> projectId[r], environment |-> environmentId[r]]
    <3>1. new = {object}
      BY <1>8, <1>16 DEF Made
    <3>2. /\ object.kind = "variable" /\ object.name = CloudName(r)
          /\ object.project = projectId[r] /\ object.environment = environmentId[r]
      BY <1>16
    <3> HIDE DEF object
    <3> QED
      BY <3>1, <3>2
  <2>2. projectId[r] = railwayId[Project(r)]
    BY <1>2, <1>6, <1>16 DEF HasProjectId
  <2>3. PICK e \in objects : e.kind = "environment" /\ e.id = environmentId[r]
    BY <1>2, <1>16 DEF Accepts, IsLive
  <2>4. /\ environmentId[r] = railwayId[Environment(r)]
        /\ e.project = railwayId[Project(r)]
    BY <1>1, <1>16, <2>3, EnvironmentIsOwn DEF HasEnvironmentId
  <2> QED
    BY <2>1, <2>2, <2>3, <2>4
<1>17. VariablesInv'
  <2>1. ASSUME NEW o \in new, o.kind = "variable"
        PROVE  \E e \in objects : /\ e.kind = "environment" /\ e.id = o.environment
                                  /\ e.project = o.project
    <3>1. n >= 1
      BY <1>2, <1>9, <2>1
    <3>2. r.kind = "variable"
      <4>1. CASE r.kind = "project"
        <5>1. \A x \in Creation(r, n) : x.kind \in {"project", "environment"}
          BY <1>2, <4>1, CreationFacts DEF n
        <5> QED
          BY <2>1, <5>1 DEF new
      <4>2. CASE r.kind # "project"
        <5>1. \A x \in Creation(r, n) : x.kind = r.kind
          BY <1>2, <4>2, CreationFacts DEF n
        <5> QED
          BY <2>1, <5>1 DEF new
      <4> QED
        BY <4>1, <4>2
    <3> QED
      BY <1>16, <3>1, <3>2
  <2> QED
    BY <1>1, <1>2, <2>1 DEF VariablesInv
<1>18. ServicesInv'
  <2>1. \A o \in new : o.kind \in Services => o.kind = r.kind /\ o.name = CloudName(r)
    <3>1. CASE r.kind = "project"
      <4>1. \A x \in Creation(r, n) : x.kind \in {"project", "environment"}
        BY <1>2, <3>1, CreationFacts DEF n
      <4> QED
        BY <4>1 DEF new, Services
    <3>2. CASE r.kind # "project"
      <4>1. \A x \in Creation(r, n) : x.kind = r.kind /\ x.name = CloudName(r)
        BY <1>2, <3>2, CreationFacts DEF n
      <4> QED
        BY <4>1 DEF new
    <3> QED
      BY <3>1, <3>2
  <2> QED
    BY <1>1, <1>2, <1>11, <2>1 DEF ServicesInv
<1>19. ASSUME outcome.ok, r.kind # "collection"
       PROVE  Counted(r)'
  <2>1. CASE Plain(r)
    BY <1>14, <1>19, <2>1 DEF Known, Counted, Deployed, Plain
  <2>2. CASE r.kind = "variable"
    <3>1. PICK o \in new : /\ o.kind = "variable" /\ o.name = CloudName(r)
                           /\ o.project = railwayId[Project(r)]
                           /\ o.environment = railwayId[Environment(r)]
      BY <1>2, <1>16, <1>19, <2>2
    <3>2. railwayId' = railwayId
      BY <1>4, <2>2 DEF Plain
    <3> QED
      BY <1>2, <1>11, <2>2, <3>1, <3>2 DEF Counted, Deployed, Project, Environment
  <2> QED
    BY <1>19, <2>1, <2>2 DEF Plain
<1> QED
  BY <1>15, <1>17, <1>18, <1>19 DEF Counted

LEMMA MakeKeepsCreate ==
    ASSUME TypeInv, ObjectsInv, CreateInv, Make
    PROVE  CreateInv'
<1> SUFFICES ASSUME OneApp, OnlyCreates
             PROVE  /\ CallsInv' /\ IdsInv' /\ VariablesInv' /\ ServicesInv'
                    /\ CachedInv' /\ MissedInv' /\ CountedInv'
  BY MakeFacts DEF CreateInv, OnlyCreates, DatabasesHaveOwnNames
<1>1. CallsInv /\ IdsInv /\ VariablesInv /\ ServicesInv /\ CachedInv /\ MissedInv /\ CountedInv
  BY DEF CreateInv
<1>2. /\ Current \in Resources /\ pc = "make" /\ UNCHANGED <<scenario, force>>
      /\ \E outcome \in MutationOutcomes(Current, Accepts(Current)) : Makes(Current, outcome)
  BY MakeFacts
<1>3. PICK r \in Resources : r = Current
  BY <1>2
<1>4. PICK outcome \in MutationOutcomes(r, Accepts(r)) : Makes(r, outcome)
  BY <1>2, <1>3
<1>5. Creating
  BY <1>2 DEF TypeInv, Running
<1>6. Plain(r) => railwayId[r] = NoId
  BY <1>1, <1>2, <1>3 DEF MissedInv
<1>7. /\ Learns(r)
      /\ outcome.ok => Counted(r)'
      /\ VariablesInv' /\ ServicesInv'
  BY <1>2, <1>4, <1>6, MakeLearns
<1>8. IdsInv' /\ \A q \in Resources : Counted(q) => Counted(q)'
  BY <1>1, <1>7, LearnsKeeps
<1>9. Advance(outcome.ok) /\ outcome.ok \in BOOLEAN
  BY <1>4, MakeCreates DEF Makes
<1>10. CallsInv' /\ MissedInv'
  BY <1>1, <1>2, <1>5, <1>9 DEF CallsInv, MissedInv, Advance
<1>11. CachedInv'
  <2>1. \A q \in Resources : q # r => active'[q] = active[q]
    BY <1>4, <1>9 DEF Makes, TypeInv, TypeOK
  <2>2. ~outcome.ok => active' = active
    BY <1>4 DEF Makes
  <2>3. \A q \in Resources : q # r => (active'[q] => Counted(q)')
    BY <1>1, <1>8, <2>1 DEF CachedInv
  <2>4. active'[r] => Counted(r)'
    BY <1>1, <1>7, <1>8, <1>9, <2>2 DEF CachedInv
  <2> QED
    BY <2>3, <2>4 DEF CachedInv
<1>12. CountedInv'
  BY <1>1, <1>2, <1>3, <1>5, <1>7, <1>8, <1>9, AdvanceCounts
<1> QED
  BY <1>7, <1>8, <1>10, <1>11, <1>12

LEMMA CreateInvariant == Spec => []CreateInv
<1> DEFINE Parts == /\ CallsInv /\ IdsInv /\ VariablesInv /\ ServicesInv
                    /\ CachedInv /\ MissedInv /\ CountedInv
<1>1. Init => CreateInv
  <2> SUFFICES ASSUME Init
               PROVE  Parts
    BY DEF CreateInv
  <2>1. \A r \in Resources : projectId[r] \notin Ids /\ environmentId[r] \notin Ids
    BY DEF Init, Fresh, FreshReference, Template, NoId, Ids
  <2> QED
    BY <2>1 DEF Init, Fresh, CallsInv, IdsInv, VariablesInv, ServicesInv, CachedInv, MissedInv, CountedInv
<1>2. TypeInv /\ ObjectsInv /\ CreateInv /\ [Next]_vars => CreateInv'
  <2> SUFFICES ASSUME TypeInv, ObjectsInv, CreateInv, [Next]_vars
               PROVE  CreateInv'
    OBVIOUS
  <2>1. CASE Check
    BY <2>1, CheckKeepsCreate
  <2>2. CASE Make
    BY <2>2, MakeKeepsCreate
  <2>3. CASE Remove \/ DeleteStep
    <3>1. ~CallsInv
      BY <2>3 DEF Remove, DeleteStep, CallsInv
    <3>2. scenario' = scenario
      BY <2>3 DEF Remove, DeleteStep
    <3> QED
      BY <3>1, <3>2 DEF CreateInv, OnlyCreates, DatabasesHaveOwnNames
  <2>4. ASSUME NEW kind \in scenario.calls, Start(kind)
        PROVE  CreateInv'
    <3> SUFFICES ASSUME OneApp, OnlyCreates, Parts
                 PROVE  Parts'
      BY <2>4 DEF CreateInv, OnlyCreates, DatabasesHaveOwnNames, Start
    <3>1. /\ UNCHANGED <<scenario, objects, railwayId, active, force, projectId, environmentId>>
          /\ call' = "create" /\ index' = 1 /\ pc' = "check"
      BY <2>4 DEF Start, localVars, OnlyCreates
    <3>2. index' - 1 = 0
      BY <3>1
    <3> QED
      BY <3>1, <3>2
         DEF CallsInv, IdsInv, VariablesInv, ServicesInv, CachedInv, MissedInv, CountedInv, Known,
             Counted, Deployed, CloudName, Project, Environment, Plain, HasProjectId,
             HasEnvironmentId
  <2>5. CASE Restart
    <3> SUFFICES ASSUME OneApp, OnlyCreates, Parts
                 PROVE  Parts'
      BY <2>5 DEF CreateInv, OnlyCreates, DatabasesHaveOwnNames, Restart
    <3>1. /\ UNCHANGED <<scenario, objects>>
          /\ pc' = "idle" /\ call' = "none"
          /\ \A r \in Resources : /\ railwayId'[r] = NoId /\ ~active'[r] /\ ~force'[r]
                                  /\ projectId'[r] \notin Ids /\ environmentId'[r] \notin Ids
      BY <2>5 DEF Restart, Fresh, FreshReference, Template, NoId, Ids
    <3> QED
      BY <3>1 DEF CallsInv, IdsInv, VariablesInv, ServicesInv, CachedInv, MissedInv,
                  CountedInv, CloudName
  <2>6. CASE UNCHANGED vars
    <3> SUFFICES ASSUME OneApp, OnlyCreates, Parts
                 PROVE  Parts'
      BY <2>6 DEF CreateInv, OnlyCreates, DatabasesHaveOwnNames, vars
    <3>1. UNCHANGED <<scenario, objects, railwayId, active, force, projectId, environmentId,
                      pc, call, index, count>>
      BY <2>6 DEF vars, localVars, driverVars
    <3>2. Current' = Current
      BY <3>1 DEF Current, Creating
    <3> QED
      BY <3>1, <3>2
         DEF CallsInv, IdsInv, VariablesInv, ServicesInv, CachedInv, MissedInv, CountedInv, Known,
             Counted, Deployed, CloudName, Project, Environment, Plain, HasProjectId,
             HasEnvironmentId, Total
  <2>7. CASE Interrupt
    <3> SUFFICES ASSUME OneApp, OnlyCreates, Parts
                 PROVE  Parts'
      BY <2>7 DEF CreateInv, OnlyCreates, DatabasesHaveOwnNames, Interrupt
    <3>1. /\ scenario' = scenario /\ pc' = "idle" /\ call' = "none"
          /\ \A r \in Resources : /\ railwayId'[r] = NoId /\ ~active'[r] /\ ~force'[r]
                                  /\ projectId'[r] \notin Ids /\ environmentId'[r] \notin Ids
      BY <2>7, InterruptFacts DEF Fresh, FreshReference, Template, NoId, Ids
    <3>2. PICK r \in Resources :
              /\ r.kind \in Services
              /\ objects' = objects \cup {[id |-> nextId, kind |-> r.kind,
                     name |-> CloudName(r), project |-> projectId[r], environment |-> NoId]}
      BY <2>7, InterruptFacts
    <3> DEFINE new == [id |-> nextId, kind |-> r.kind, name |-> CloudName(r),
                       project |-> projectId[r], environment |-> NoId]
    <3>3. /\ objects' = objects \cup {new} /\ new.kind = r.kind
          /\ new.name = CloudName(r)
      BY <3>2
    <3> HIDE DEF new
    <3>4. VariablesInv'
      BY <3>2, <3>3 DEF VariablesInv, Services
    <3>5. ServicesInv'
      <4>1. \A q : CloudName(q)' = CloudName(q)
        BY <3>1 DEF CloudName
      <4> QED
        BY <3>3, <4>1 DEF ServicesInv
    <3> QED
      BY <3>1, <3>4, <3>5 DEF CallsInv, IdsInv, CachedInv, MissedInv, CountedInv
  <2> QED
    BY <2>1, <2>2, <2>3, <2>4, <2>5, <2>6, <2>7 DEF Next, LoopStep
<1> QED
  BY <1>1, <1>2, TypeInvariant, ObjectsInvariant, PTL DEF Spec

\* create_resources of one app, in whatever environments and whatever is listed in
\* it: while nothing is deleted, every query is answered and databases have names of
\* their own, "n of n created" means that all of it exists, in the app's own project
\* and environment.
THEOREM CreatedMeansAllExists == Spec => [](OneApp => CreateCountIsHonest)
<1>1. TypeInv /\ CreateInv => (OneApp => CreateCountIsHonest)
  BY DEF CreateInv, CountedInv, Counted, OnlyCreates, CreateCountIsHonest, Returned
<1> QED
  BY <1>1, TypeInvariant, CreateInvariant, PTL
=============================================================================

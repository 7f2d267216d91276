----------------------------- MODULE InstallPlan -----------------------------
(***************************************************************************)
(* The order in which RailwayResources creates and deletes resources       *)
(* (agno/railway/resources.py).  The resources that pass the filters are   *)
(* sorted by the install order of their class, duplicates are dropped and, *)
(* when creating, the dependencies of each resource are put before it.     *)
(*                                                                         *)
(* A resource is a record with a kind and a name: two resource objects of  *)
(* the same type and name are equal (InfraResource.__eq__).                *)
(***************************************************************************)
EXTENDS Naturals, Sequences

Kinds == {"project", "environment", "postgres", "service", "variable", "collection"}

RailwayResourceInstallOrder ==
    [kind \in Kinds |-> CASE kind = "project" -> 1
                          [] kind = "environment" -> 2
                          [] kind \in {"postgres", "service"} -> 3
                          [] kind \in {"variable", "collection"} -> 4]

OrderOf(r) == RailwayResourceInstallOrder[r.kind]

AppendOfOrder(picked, r, order) == IF OrderOf(r) = order THEN Append(picked, r) ELSE picked

\* The resources with one install order, as they are listed.
OfOrder(resources, order) ==
    LET picked[i \in 0 .. Len(resources)] ==
            IF i = 0 THEN <<>> ELSE AppendOfOrder(picked[i - 1], resources[i], order)
    IN  picked[Len(resources)]

\* list.sort(key): stable.
StableSort(resources) ==
    OfOrder(resources, 1) \o OfOrder(resources, 2)
        \o OfOrder(resources, 3) \o OfOrder(resources, 4)

\* list.sort(key, reverse=True): stable too.
ReverseSort(resources) ==
    OfOrder(resources, 4) \o OfOrder(resources, 3)
        \o OfOrder(resources, 2) \o OfOrder(resources, 1)

IsIn(r, resources) == \E i \in DOMAIN resources : resources[i] = r

AppendNew(resources, r) == IF IsIn(r, resources) THEN resources ELSE Append(resources, r)

\* The resources that are not there yet are appended one after the other.
AppendAllNew(resources, others) ==
    LET longer[i \in 0 .. Len(others)] ==
            IF i = 0 THEN resources ELSE AppendNew(longer[i - 1], others[i])
    IN  longer[Len(others)]

Deduplicate(resources) == AppendAllNew(<<>>, resources)

\* Mutant: the resource goes before its dependencies.
AddBeforeDependencies(plan, r, dependsOn) ==
    AppendAllNew(AppendNew(plan, r), dependsOn[r])

\* The dependencies of r, but not theirs, then r itself.
AddWithDependencies(plan, r, dependsOn) ==
    AppendNew(AppendAllNew(plan, dependsOn[r]), r)

AddAllWithDependencies(resources, dependsOn) ==
    LET plan[i \in 0 .. Len(resources)] ==
            IF i = 0 THEN <<>> ELSE AddWithDependencies(plan[i - 1], resources[i], dependsOn)
    IN  plan[Len(resources)]

CreatePlan(resources, dependsOn) ==
    AddAllWithDependencies(Deduplicate(StableSort(resources)), dependsOn)

\* Mutant: the resources are deleted in the order in which they are created.
DeleteInInstallOrder(resources) == Deduplicate(StableSort(resources))

\* Dependencies play no part here.
DeletePlan(resources) == Deduplicate(ReverseSort(resources))
=============================================================================

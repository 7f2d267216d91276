-------------------------- MODULE InstallPlanCheck --------------------------
(***************************************************************************)
(* What the plans of InstallPlan promise, for every list of resources and  *)
(* every choice of depends_on over a small set of resources.               *)
(***************************************************************************)
EXTENDS InstallPlan, SequencesExt

CONSTANTS Resources,        \* the resources an application may list
          MaxListed,        \* the longest list
          MaxDependencies   \* the longest depends_on

ASSUME ResourcesAssumption == \A r \in Resources : r.kind \in Kinds
ASSUME BoundsAssumption == MaxListed \in Nat /\ MaxDependencies \in Nat

VARIABLES listed,     \* the resources that pass the filters, in their order
          dependsOn,  \* InfraBase.depends_on of each resource
          plan,       \* the list the loop goes through
          purpose     \* what the plan was made for

planVars == <<listed, dependsOn, plan, purpose>>

ListsUpTo(n) == UNION {[1 .. k -> Resources] : k \in 0 .. n}

Init ==
    /\ listed \in ListsUpTo(MaxListed)
    /\ dependsOn \in [Resources -> ListsUpTo(MaxDependencies)]
    /\ plan = <<>>
    /\ purpose = "none"

PlanCreate ==
    /\ purpose = "none"
    /\ purpose' = "create"
    /\ plan' = CreatePlan(listed, dependsOn)
    /\ UNCHANGED <<listed, dependsOn>>

PlanDelete ==
    /\ purpose = "none"
    /\ purpose' = "delete"
    /\ plan' = DeletePlan(listed)
    /\ UNCHANGED <<listed, dependsOn>>

Next == PlanCreate \/ PlanDelete

Spec == Init /\ [][Next]_planVars

----------------------------------------------------------------------------
Precedes(q, r) == \E i, j \in 1 .. Len(plan) : i < j /\ plan[i] = q /\ plan[j] = r

Direct(r) == ToSet(dependsOn[r])

\* Some listed resource depends on r.
IsDependency(r) == \E q \in ToSet(listed) : r \in Direct(q)

\* No resource is created twice and none is forgotten: the plan holds exactly
\* the listed resources and what they depend on, once each; and a listed
\* resource that no other one needs comes after all it depends on.
CreatePlanIsExact ==
    purpose = "create" =>
        /\ IsInjective(plan)
        /\ ToSet(plan) = ToSet(listed) \cup UNION {Direct(r) : r \in ToSet(listed)}
        /\ \A r \in ToSet(listed) :
              ~IsDependency(r) => \A q \in Direct(r) : Precedes(q, r)

\* Containers outlive their contents: the delete loop goes through the listed
\* resources once each, and never through a project before an environment,
\* service or variable, nor through a service before a variable.
ContentsAreDeletedFirst ==
    purpose = "delete" =>
        /\ IsInjective(plan)
        /\ ToSet(plan) = ToSet(listed)
        /\ \A q, r \in ToSet(listed) : OrderOf(q) > OrderOf(r) => Precedes(q, r)

=============================================================================

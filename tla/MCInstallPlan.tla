---------------------------- MODULE MCInstallPlan ----------------------------
(***************************************************************************)
(* Every list of up to three of four resources, two of them of the same    *)
(* install order, and every dependency graph with at most one edge out of  *)
(* a resource: chains of three, cycles and repetitions are among them.     *)
(***************************************************************************)
EXTENDS InstallPlanCheck

Project == [kind |-> "project", name |-> "app"]
Service == [kind |-> "service", name |-> "app"]
Database == [kind |-> "postgres", name |-> "db"]
Variable == [kind |-> "variable", name |-> "app"]

FourResources == {Project, Service, Database, Variable}
=============================================================================

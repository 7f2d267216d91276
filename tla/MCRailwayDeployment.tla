------------------------- MODULE MCRailwayDeployment -------------------------
(***************************************************************************)
(* Instances of RailwayDeployment for TLC: one app with a project, an      *)
(* environment, a service, a variable, a database and a collection of      *)
(* variables under four scenarios, and the two apps of Example 3 of the    *)
(* provider's README.                                                      *)
(***************************************************************************)
EXTENDS RailwayDeployment

Kinds == <<"project", "environment", "service", "variable">>

App(name) == [i \in 1 .. 4 |-> [kind |-> Kinds[i], name |-> name]]

FullApp == <<[kind |-> "postgres", name |-> "api"]>> \o App("api")
               \o <<[kind |-> "collection", name |-> "api"]>>
TwoApps == App("prod") \o App("staging")

\* An environment of its own, or the one that comes with the project.
Own == [name \in {"api"} |-> "staging"]
Given == [name \in {"api"} |-> "production"]

\* A database with a name of its own, or with that of its app.
Database == [name \in {"api"} |-> "db"]
Namesake == [name \in {"api"} |-> "api"]

\* Creation under every fault but a failed query.
Creation == [calls |-> {"create"}, maxCalls |-> 3,
             faults |-> {"write", "lost", "restart"}, stop |-> FALSE,
             environments |-> Own, databases |-> Database]

\* Creation by programs that are interrupted, and by nothing else disturbed.
Interruption == [calls |-> {"create"}, maxCalls |-> 3, faults |-> {"restart"},
                 stop |-> FALSE, environments |-> Own, databases |-> Database]

\* Creation and deletion with failing mutations.
Deletion == [calls |-> {"create", "delete"}, maxCalls |-> 5,
             faults |-> {"write"}, stop |-> FALSE, environments |-> Own,
             databases |-> Database]

\* All calls, stopping at a failure, without a fault of the network.
Recreation == [calls |-> Call, maxCalls |-> 6, faults |-> {}, stop |-> TRUE,
               environments |-> Given, databases |-> Namesake]

AllScenarios == {Creation, Interruption, Deletion, Recreation}

OneCall == {[calls |-> {"create"}, maxCalls |-> 1, faults |-> {}, stop |-> FALSE,
             environments |-> [name \in {"prod", "staging"} |->
                                  IF name = "staging" THEN "staging" ELSE "production"],
             databases |-> [name \in {"prod", "staging"} |-> "db"]]}
=============================================================================

-------------------------- MODULE RailwayDeployment --------------------------
(***************************************************************************)
(* A Railway deployment over several calls of create_resources and         *)
(* delete_resources and several runs of the program (agno/railway/         *)
(* resources.py and agno/railway/resource/).  What the program knows of    *)
(* Railway lives in the resource objects and is lost with the process;     *)
(* what it created stays.                                                  *)
(*                                                                         *)
(* Railway itself is outside the repository.  It is taken to behave as     *)
(* well as it can: a request that names live containers is executed unless *)
(* a fault of Faults strikes, deleting a container deletes its contents,   *)
(* and a new project comes with an environment named "production".         *)
(***************************************************************************)
EXTENDS Integers, FiniteSets, Sequences, RailwayApiOutcomes

CONSTANTS Listing,          \* the resources of all apps, in the order listed
          Scenarios,        \* what may happen: see Scenario
          MaxLosses         \* bound: answers lost, or of no use, per mutation

Call == {"create", "force", "delete"}

\* A query fails, a mutation fails, the answer of a mutation is lost or cannot be
\* used, the program stops and is started again.
Fault == {"read", "write", "lost", "restart"}

\* One way to use the program: the calls made and a bound of their number, what
\* may go wrong, whether a loop stops at a resource that fails
\* (InfraSettings.continue_on_*_failure), RailwayApp.railway_environment, and the
\* name of an app's database.
Scenario == [calls : SUBSET Call, maxCalls : Nat, faults : SUBSET Fault,
             stop : BOOLEAN,
             environments : [{Listing[i].name : i \in DOMAIN Listing} -> STRING],
             databases : [{Listing[i].name : i \in DOMAIN Listing} -> STRING]]

ASSUME ScenariosAssumption == Scenarios \subseteq Scenario
ASSUME BoundsAssumption == MaxLosses \in Nat

Order == INSTANCE InstallPlan

Project(r) == [kind |-> "project", name |-> r.name]
Environment(r) == [kind |-> "environment", name |-> r.name]

\* There is something to deploy, and RailwayApp.build_resources lists a project
\* and an environment for all it lists.  (An app that names the project it goes
\* into by its id lists none, and is left out.)
ASSUME ListingAssumption ==
    /\ Listing \in Seq([kind : Order!Kinds, name : STRING])
    /\ Listing # <<>>
    /\ \A i \in DOMAIN Listing :
          \E j, k \in DOMAIN Listing :
             Listing[j] = Project(Listing[i]) /\ Listing[k] = Environment(Listing[i])

\* The apps of the model use no depends_on.
NoDependencies == [r \in {Listing[i] : i \in DOMAIN Listing} |-> <<>>]

CreateOrder == Order!CreatePlan(Listing, NoDependencies)
DeleteOrder == Order!DeletePlan(Listing)

Resources == {CreateOrder[i] : i \in DOMAIN CreateOrder}

\* Values of the id fields that are no ids: None, and the template strings
\* such as "{{project.railway_id}}".
NoId == 0
Template == -1

Ids == Nat \ {0}
References == {NoId, Template} \cup Ids

----------------------------------------------------------------------------
VARIABLES
    scenario,     \* never changes
    objects,      \* what exists at Railway
    nextId,       \* the next id Railway gives
    settled,      \* what was done to the services: see Settlement
    railwayId,    \* RailwayResource.railway_id
    active,       \* is RailwayResource.active_resource set?
    force,        \* InfraBase.force
    projectId,    \* project_id of the resources that have one
    environmentId,\* environment_id, likewise
    pc,           \* what the loop does with the current resource
    call,         \* the call that runs, or ran last
    index,        \* the current resource, as a position in the plan
    count,        \* num_resources_created or num_resources_deleted
    made          \* calls made so far

localVars == <<railwayId, active, force, projectId, environmentId>>
driverVars == <<pc, call, index, count>>
vars == <<scenario, objects, nextId, settled, localVars, driverVars, made>>

Steps == {"idle", "check", "remove", "make", "delete"}

HasProjectId(r) == r.kind # "project"
HasEnvironmentId(r) == r.kind \notin {"project", "environment"}

\* The name under which Railway knows a resource.
CloudName(r) ==
    IF r.kind = "environment" THEN scenario.environments[r.name]
    ELSE IF r.kind = "postgres" THEN scenario.databases[r.name]
    ELSE r.name

\* To Railway a database is a service as any other.
Services == {"service", "postgres"}
Alike(r) == IF r.kind \in Services THEN Services ELSE {r.kind}

\* Those of the resources and the one Railway gives.
Names == {r.name : r \in Resources} \cup {CloudName(r) : r \in Resources} \cup {"production"}

Objects == [id : Ids, kind : Order!Kinds, name : Names, project : Ids,
            environment : {NoId} \cup Ids]

\* A service was deployed in an environment, or given the variables of a database.
Settlement == [service : Ids, environment : Ids, part : {"variables", "deployment"}]

TypeOK ==
    /\ scenario \in Scenarios
    /\ settled \subseteq Settlement
    /\ objects \subseteq Objects
    /\ nextId \in Ids
    /\ \A o \in objects : o.id < nextId
    /\ railwayId \in [Resources -> {NoId} \cup Ids]
    /\ active \in [Resources -> BOOLEAN]
    /\ force \in [Resources -> BOOLEAN]
    /\ projectId \in [Resources -> References]
    /\ environmentId \in [Resources -> References]
    /\ pc \in Steps
    /\ call \in Call \cup {"none"}
    /\ index \in 0 .. Len(CreateOrder)
    /\ count \in 0 .. index
    /\ made \in 0 .. scenario.maxCalls

\* RailwayApp.build_resources; a database listed by itself has no ids at all.
FreshReference(r) == IF r.kind = "postgres" THEN NoId ELSE Template

Fresh(newId, newActive, newForce, newProject, newEnvironment) ==
    /\ newId = [r \in Resources |-> NoId]
    /\ newActive = [r \in Resources |-> FALSE]
    /\ newForce = [r \in Resources |-> FALSE]
    /\ newProject = [r \in Resources |-> FreshReference(r)]
    /\ newEnvironment = [r \in Resources |-> FreshReference(r)]

Init ==
    /\ scenario \in Scenarios
    /\ objects = {}
    /\ nextId = 1
    /\ settled = {}
    /\ Fresh(railwayId, active, force, projectId, environmentId)
    /\ pc = "idle" /\ call = "none" /\ index = 0 /\ count = 0 /\ made = 0

----------------------------------------------------------------------------
(* The calls.                                                              *)

Total == Len(CreateOrder)
Creating == call \in {"create", "force"}
Current == IF Creating THEN CreateOrder[index] ELSE DeleteOrder[index]

Start(kind) ==
    /\ pc = "idle"
    /\ made < scenario.maxCalls
    /\ made' = made + 1
    /\ call' = kind
    /\ pc' = IF kind = "delete" THEN "delete" ELSE "check"
    /\ index' = 1
    /\ count' = 0
    /\ UNCHANGED <<scenario, objects, nextId, settled, localVars>>

\* The loop goes on, unless it is told to stop at a resource that failed.
Advance(succeeded) ==
    /\ count' = IF succeeded THEN count + 1 ELSE count
    /\ IF index < Total /\ (succeeded \/ ~scenario.stop)
       THEN /\ index' = index + 1
            /\ pc' = IF Creating THEN "check" ELSE "delete"
       ELSE /\ pc' = "idle"
            /\ index' = index
    /\ UNCHANGED <<call, made>>

Later == {CreateOrder[i] : i \in index + 1 .. Total}

\* Mutant: the loop sets only what is still None, not the templates.
FilledNoneOnly(field, holders, id) ==
    [q \in Resources |-> IF q \in holders /\ field[q] = NoId THEN id ELSE field[q]]

\* The later resources get the id where their own is a template or None.  The
\* templates do not say of which app: "{{project.railway_id}}" fits any project.
Filled(field, holders, id) ==
    [q \in Resources |->
        IF q \in holders /\ field[q] \in {Template, NoId} THEN id ELSE field[q]]

\* create() returned True.
Propagate(r, id) ==
    /\ projectId' = IF r.kind = "project" /\ id # NoId
                    THEN Filled(projectId, {q \in Later : HasProjectId(q)}, id)
                    ELSE projectId
    /\ environmentId' = IF r.kind = "environment" /\ id # NoId
                        THEN Filled(environmentId, {q \in Later : HasEnvironmentId(q)}, id)
                        ELSE environmentId

----------------------------------------------------------------------------
(* Railway.                                                                *)

IsLive(kind, id) == \E o \in objects : o.kind = kind /\ o.id = id

\* A new object is created inside live containers only.  The service id of a
\* variable is a template that nothing ever resolves: Railway lets it pass.
Accepts(r) ==
    /\ HasProjectId(r) => IsLive("project", projectId[r])
    /\ r.kind \in {"variable", "collection"} => IsLive("environment", environmentId[r])

\* The objects that one execution of the create mutation adds.
Made(r, id) ==
    IF r.kind = "project"
    THEN {[id |-> id, kind |-> "project", name |-> r.name, project |-> id,
           environment |-> NoId],
          [id |-> id + 1, kind |-> "environment", name |-> "production",
           project |-> id, environment |-> NoId]}
    ELSE {[id |-> id, kind |-> r.kind, name |-> CloudName(r),
           project |-> projectId[r],
           environment |-> IF r.kind \in {"variable", "collection"}
                           THEN environmentId[r] ELSE NoId]}

Width(r) == IF r.kind = "project" THEN 2 ELSE 1

\* How a mutation of r may end, as RailwayApiClient.execute reports it.  Names
\* are unique inside a project: only a project can be created twice by one call.
MutationOutcomes(r, accepted) ==
    {o \in Outcomes(IF "lost" \in scenario.faults THEN MaxLosses ELSE 0) :
        /\ ~accepted => ~o.ok /\ o.effects = 0
        /\ accepted /\ ~o.ok => "write" \in scenario.faults \/ o.effects > 0
        /\ r.kind # "project" => o.effects <= 1}

\* Mutant: a project is looked up by its name, like all the rest.
ProjectsByName(r) ==
    IF r.kind \in {"variable", "collection"}
    THEN {o \in objects : /\ o.kind = r.kind /\ o.name = CloudName(r)
                          /\ o.environment = environmentId[r]}
    ELSE IF railwayId[r] # NoId
    THEN {o \in objects : o.kind \in Alike(r) /\ o.id = railwayId[r]}
    ELSE {o \in objects : /\ o.kind \in Alike(r) /\ o.name = CloudName(r)
                          /\ r.kind = "project" \/ o.project = projectId[r]}

\* The objects that r.railway_id or, without one, the name of r refers to.
Matches(r) ==
    IF r.kind \in {"variable", "collection"}
    THEN {o \in objects : /\ o.kind = r.kind /\ o.name = CloudName(r)
                          /\ o.environment = environmentId[r]}
    ELSE IF railwayId[r] # NoId
    THEN {o \in objects : o.kind \in Alike(r) /\ o.id = railwayId[r]}
    ELSE IF r.kind = "project" THEN {}
    ELSE {o \in objects : /\ o.kind \in Alike(r) /\ o.name = CloudName(r)
                          /\ o.project = projectId[r]}

\* The ids an object found by _read may have; none if the query fails.  The
\* collection "finds" the variables of any environment that can be read.
ReadResults(r) ==
    (IF r.kind = "collection"
     THEN IF IsLive("environment", environmentId[r]) THEN {Template} ELSE {NoId}
     ELSE IF Matches(r) = {} THEN {NoId} ELSE {o.id : o \in Matches(r)})
        \cup (IF "read" \in scenario.faults THEN {NoId} ELSE {})

\* A resource that is looked up by name remembers the id it finds.
Remembered(r, found) ==
    IF found = NoId \/ r.kind \in {"variable", "collection"}
    THEN railwayId
    ELSE [railwayId EXCEPT ![r] = found]

----------------------------------------------------------------------------
(* RailwayResource.create.                                                 *)

\* is_active: the cached object, or else a read.
Check ==
    /\ pc = "check"
    /\ LET r == Current
           wanted == force[r] \/ call = "force"
       IN  \E found \in IF active[r] THEN {railwayId[r]} ELSE ReadResults(r) :
             LET exists == active[r] \/ found # NoId
                 ids == IF active[r] THEN railwayId ELSE Remembered(r, found)
             IN  /\ railwayId' = ids
                 /\ active' = [active EXCEPT ![r] = exists]
                 /\ force' = [force EXCEPT ![r] = wanted]
                 /\ IF exists /\ ~wanted
                    THEN Propagate(r, ids[r]) /\ Advance(TRUE)
                    ELSE /\ pc' = IF exists THEN "remove" ELSE "make"
                         /\ UNCHANGED <<projectId, environmentId, call, index,
                                        count, made>>
    /\ UNCHANGED <<scenario, objects, nextId, settled>>

\* What goes when r is deleted: a project takes everything in it along, an
\* environment its variables.
Contents(r) ==
    IF r.kind \in {"variable", "collection"}
    THEN Matches(r)
    ELSE {o \in objects :
            \/ o.kind \in Alike(r) /\ o.id = railwayId[r]
            \/ r.kind = "project" /\ o.project = railwayId[r]
            \/ r.kind = "environment" /\ o.environment = railwayId[r]}

\* _delete needs an id, a variable its environment.
CanDelete(r) ==
    IF r.kind \in {"variable", "collection"}
    THEN IsLive("environment", environmentId[r])
    ELSE Matches(r) # {} /\ railwayId[r] # NoId

\* RailwayResource.delete: the id stays, only the cached object goes.  A deletion
\* whose answer is lost is sent again and then refused: it counts as failed.
Delete(r, outcome) ==
    /\ outcome \in MutationOutcomes(r, CanDelete(r))
    /\ objects' = IF outcome.effects > 0 THEN objects \ Contents(r) ELSE objects
    /\ active' = IF outcome.ok THEN [active EXCEPT ![r] = FALSE] ELSE active

\* Mutant: force creates anew, and deletes nothing.
RemoveNothing ==
    /\ pc = "remove"
    /\ pc' = "make"
    /\ UNCHANGED <<scenario, objects, nextId, settled, localVars, call, index, count,
                   made>>

\* Whether the deletion before a re-creation succeeded is not looked at.
Remove ==
    /\ pc = "remove"
    /\ \E outcome \in Outcomes(MaxLosses) : Delete(Current, outcome)
    /\ pc' = "make"
    /\ UNCHANGED <<scenario, nextId, settled, railwayId, force, projectId,
                   environmentId, call, index, count, made>>

\* Mutant: the outcome of the mutation is not looked at.
SucceededAnyway(outcome) == TRUE

Succeeded(outcome) == outcome.ok

\* The mutations that follow the one that creates a service: a database gets its
\* three variables, and each is deployed.
FollowUps(r) ==
    IF r.kind = "postgres" THEN {"variables", "deployment"}
    ELSE IF r.kind = "service" THEN {"deployment"}
    ELSE {}

\* Those that take effect: they need an environment, and that one of them fails is
\* logged and forgotten.
FollowedUp(r) ==
    IF ~IsLive("environment", environmentId[r]) THEN {{}}
    ELSE IF "write" \in scenario.faults THEN SUBSET FollowUps(r)
    ELSE {FollowUps(r)}

Settle(r, id, done) ==
    settled' = settled \cup {[service |-> id, environment |-> environmentId[r],
                              part |-> p] : p \in done}

\* _create with all it does, then the read that refreshes the cached object.
Make ==
    /\ pc = "make"
    /\ LET r == Current
       IN  \E outcome \in MutationOutcomes(r, Accepts(r)) :
             LET ids == {nextId + Width(r) * k : k \in 0 .. outcome.effects - 1}
                 created == UNION {Made(r, id) : id \in ids}
                 newest == nextId + Width(r) * (outcome.effects - 1)
                 named == outcome.ok /\ r.kind \notin {"variable", "collection"}
             IN  /\ objects' = objects \cup created
                 /\ nextId' = nextId + Width(r) * outcome.effects
                 /\ \E done \in IF outcome.ok THEN FollowedUp(r) ELSE {{}} :
                       Settle(r, newest, done)
                 /\ railwayId' = IF named THEN [railwayId EXCEPT ![r] = newest] ELSE railwayId
                 /\ IF outcome.ok
                    THEN \E refreshed \in {TRUE} \cup (IF "read" \in scenario.faults THEN {FALSE} ELSE {}) :
                            active' = [active EXCEPT ![r] = refreshed]
                    ELSE active' = active
                 /\ IF Succeeded(outcome)
                    THEN Propagate(r, railwayId'[r])
                    ELSE UNCHANGED <<projectId, environmentId>>
                 /\ Advance(Succeeded(outcome))
    /\ UNCHANGED <<scenario, force>>

\* Mutant: every resource counts as deleted.
DeleteStepCountsAll ==
    /\ pc = "delete"
    /\ \E outcome \in Outcomes(MaxLosses) : Delete(Current, outcome) /\ Advance(TRUE)
    /\ UNCHANGED <<scenario, nextId, settled, railwayId, force, projectId, environmentId>>

\* One resource of delete_resources.
DeleteStep ==
    /\ pc = "delete"
    /\ \E outcome \in Outcomes(MaxLosses) : Delete(Current, outcome) /\ Advance(outcome.ok)
    /\ UNCHANGED <<scenario, nextId, settled, railwayId, force, projectId, environmentId>>

\* The program ends, or is interrupted, and is started again.
Restart ==
    /\ "restart" \in scenario.faults
    /\ call # "none"
    /\ Fresh(railwayId', active', force', projectId', environmentId')
    /\ pc' = "idle" /\ call' = "none" /\ index' = 0 /\ count' = 0
    /\ UNCHANGED <<scenario, objects, nextId, settled, made>>

\* The program is interrupted when a service has been created and not deployed yet.
Interrupt ==
    /\ "restart" \in scenario.faults
    /\ pc = "make"
    /\ FollowUps(Current) # {} /\ Accepts(Current)
    /\ objects' = objects \cup Made(Current, nextId)
    /\ nextId' = nextId + Width(Current)
    /\ \E done \in FollowedUp(Current), reached \in {{}, {"variables"}} :
          Settle(Current, nextId, done \cap reached)
    /\ Fresh(railwayId', active', force', projectId', environmentId')
    /\ pc' = "idle" /\ call' = "none" /\ index' = 0 /\ count' = 0
    /\ UNCHANGED <<scenario, made>>

LoopStep == Check \/ Remove \/ Make \/ DeleteStep

Next ==
    \/ \E kind \in scenario.calls : Start(kind)
    \/ LoopStep
    \/ Restart
    \/ Interrupt

Spec == Init /\ [][Next]_vars

----------------------------------------------------------------------------
(* Properties.                                                             *)

\* The object of a resource exists, in the project of its own app.
Deployed(r) ==
    \E o \in objects :
        /\ o.kind = r.kind
        /\ o.name = CloudName(r)
        /\ o.project = railwayId[Project(r)]
        /\ r.kind = "variable" => o.environment = railwayId[Environment(r)]

Returned(kind) == pc = "idle" /\ call = kind

\* A database that has the name of its app is taken for the app's service.
DatabasesHaveOwnNames ==
    \A r \in Resources : r.kind = "postgres" => scenario.databases[r.name] # r.name

\* Where nothing is deleted, every query is answered and databases have names of
\* their own, create_resources reports "n of n" only when every resource exists, in
\* the project and environment this program works with, whatever mutations failed
\* before and in whatever program run.  That they exist is all it means: a service
\* whose deployment failed is found by its name and counted.  A collection of
\* variables is the exception: it counts as soon as its environment can be read.
\* (A project whose query fails is created anew, while its environment and services
\* are still found in the old one.)
CreateCountIsHonest ==
    /\ scenario.calls = {"create"} /\ "read" \notin scenario.faults
    /\ DatabasesHaveOwnNames
    /\ Returned("create") /\ count = Total
    => \A r \in Resources : r.kind # "collection" => Deployed(r)

\* Where moreover no mutation fails and no answer is lost, "n of n" also means that
\* every service and database is deployed in the environment of its app, the
\* database with its variables: even if earlier runs of the program were interrupted
\* between the creation of a service and its deployment.  (Such a service is never
\* found again, as its project is not looked up by name.)
CreateCountIsDeployed ==
    /\ scenario.calls = {"create"} /\ scenario.faults \subseteq {"restart"}
    /\ DatabasesHaveOwnNames
    /\ Returned("create") /\ count = Total
    => \A r \in Resources : \A p \in FollowUps(r) :
          [service |-> railwayId[r], environment |-> railwayId[Environment(r)],
           part |-> p] \in settled

\* Once the program knows the project of an app, none of its resources asks Railway
\* for a project with an unresolved template; nor for an environment, once the
\* program knows that of the app.  (An environment that could not be created is not
\* known: its services and variables do ask with the template.  Nor does one help
\* that was found, deleted by force, and could not be created again.)
TemplatesAreResolved ==
    pc = "make" =>
        /\ HasProjectId(Current) /\ railwayId[Project(Current)] # NoId
              => projectId[Current] \in Ids
        /\ "force" \notin scenario.calls =>
              (HasEnvironmentId(Current) /\ railwayId[Environment(Current)] # NoId
                  => environmentId[Current] \in Ids)

\* The program knows all it has created, unless an answer is lost, a query fails,
\* it is started anew, or the deletion before a re-creation fails.
ForgetsNothing ==
    /\ scenario.faults \cap {"read", "lost", "restart"} = {}
    /\ "force" \in scenario.calls => "write" \notin scenario.faults

\* Then delete_resources reports "n of n" only when nothing is left of what was
\* created, whatever mutation failed and whatever was created anew.
DeleteCountIsHonest ==
    ForgetsNothing /\ Returned("delete") /\ count = Total => objects = {}

\* While nothing goes wrong, Railway never holds two projects of one app.
OneProjectPerApp ==
    scenario.faults = {} =>
        \A o, q \in objects :
            o.kind = "project" /\ q.kind = "project" /\ o.name = q.name => o = q

----------------------------------------------------------------------------
(* What the provider's docs say, and the code does not do.                 *)

\* README, Example 3: an app per environment.
ServiceRunsInItsEnvironment ==
    pc = "make" /\ Current.kind = "service" /\ railwayId[Environment(Current)] # NoId
        => environmentId[Current] = railwayId[Environment(Current)]
=============================================================================

------------------------------ MODULE KubePlan ------------------------------
(***************************************************************************)
(* compiler/kubernetes-compiler.go: what kubernetesPlan.Execute does to a  *)
(* cluster when several mp-compiler processes ("runs") deploy or delete    *)
(* models, one API call at a time.                                         *)
(*                                                                         *)
(* A model keeps what Execute branches on and what it puts into the        *)
(* manifests: whether a spec has replicas, what its shard specification    *)
(* asks for, its ports, and what `serve` exposes.  An object of the cluster *)
(* is its kind and its name.  Every API call is one step, so that runs     *)
(* interleave and a process can die between any two calls.                 *)
(***************************************************************************)
EXTENDS Integers, Sequences

CONSTANTS
  Runs,      \* mp-compiler processes, each run once
  NoRun,     \* the maker of an object nobody has created
  Names,     \* object names
  Sharder,   \* makeSharderName: the name of the sharder of a spec name
  NoServe,   \* the `serve` of a model without one
  Scenarios  \* who is started with which command, and after whom

SpecNames == DOMAIN Sharder

Specs == [name : SpecNames, replicated : BOOLEAN,
          shard : {"none", "zero", "some"}, ports : Seq(Nat)]

Models == [services : Seq(Specs), jobs : Seq(Names),
           serve : SpecNames \cup {NoServe}, public : BOOLEAN]

\* behind: the runs that must be over before this one begins
Commands == [model : Models, delete : BOOLEAN, dryrun : BOOLEAN, behind : SUBSET Runs]

ASSUME ConstantsAssumption ==
  /\ NoRun \notin Runs
  /\ NoServe \notin SpecNames
  /\ SpecNames \subseteq Names
  /\ Sharder \in [SpecNames -> Names]
  \* "%s-sharder" is injective and never the name itself
  /\ \A m, n \in SpecNames : Sharder[m] = Sharder[n] => m = n
  /\ \A n \in SpecNames : Sharder[n] # n
  /\ Scenarios \subseteq [Runs -> Commands]

Kinds == {"Deployment", "StatefulSet", "Service", "Job"}
Objects == Kinds \X Names

Calls == [op : {"create", "delete"}, obj : Objects, flag : BOOLEAN]

VARIABLES
  cmd,      \* the command line and the parsed model of each run
  status,   \* how each run stands
  ix,       \* the loop index of Execute: services first, then jobs
  step,     \* the next API call for the item at ix
  cluster,  \* the state of each object in the cluster
  maker,    \* the run that last created each object
  exposed   \* the Service objects created with type LoadBalancer

vars == <<cmd, status, ix, step, cluster, maker, exposed>>
runVars == <<cmd, status, ix, step>>
objVars == <<cluster, maker, exposed>>

Stages == {"idle", "running", "ok", "conflict", "notfound", "error", "panic", "killed"}

TypeOK ==
  /\ cmd \in [Runs -> Commands]
  /\ status \in [Runs -> Stages]
  /\ ix \in [Runs -> Nat \ {0}]
  /\ step \in [Runs -> Nat \ {0}]
  /\ cluster \in [Objects -> {"absent", "live", "terminating"}]
  /\ maker \in [Objects -> Runs \cup {NoRun}]
  /\ exposed \in SUBSET Objects

\* len(service.Ports) > 0
HasPorts(s) == s.ports # <<>>

-----------------------------------------------------------------------------
(* The API calls a plan makes for one item of the model, in code order.      *)

\* flag: the Service is a LoadBalancer
Create(kind, n, flag) == [op |-> "create", obj |-> <<kind, n>>, flag |-> flag]

\* flag: foreground propagation, the object stays until its dependents are gone
Delete(kind, n, flag) == [op |-> "delete", obj |-> <<kind, n>>, flag |-> flag]

\* Under --dry-run a call is left out.  The code has a test of its own for every
\* call that creates, a test for all that a deletion asks for, and none for jobs.
UnlessDry(dry, call) == IF dry THEN <<>> ELSE <<call>>

deploy(s, dry) == UnlessDry(dry, Create("Deployment", s.name, FALSE))

createLoadBalancedService(s, public, dry) ==
  UnlessDry(dry, Create("Service", s.name, public))

\* without ports the index in getShardAddresses panics in between (see DeployEnd)
deployStateful(s, dry) ==
  UnlessDry(dry, Create("StatefulSet", s.name, FALSE))
  \o (IF HasPorts(s) THEN UnlessDry(dry, Create("Deployment", Sharder[s.name], FALSE)) ELSE <<>>)

\* Mutant: the headless Service of the shards is the one exposed.
createStatefulServiceSwapped(s, public, dry) ==
  UnlessDry(dry, Create("Service", s.name, public))
  \o UnlessDry(dry, Create("Service", Sharder[s.name], FALSE))

\* Mutant: the front Service of the sharder is forgotten.
createStatefulServiceBlind(s, public, dry) == UnlessDry(dry, Create("Service", s.name, FALSE))

\* Mutant: the first of the two dry-run tests is forgotten.
createStatefulServiceWet(s, public, dry) ==
  <<Create("Service", s.name, FALSE)>> \o UnlessDry(dry, Create("Service", Sharder[s.name], public))

createStatefulService(s, public, dry) ==
  UnlessDry(dry, Create("Service", s.name, FALSE))
  \o UnlessDry(dry, Create("Service", Sharder[s.name], public))

DeployReplicated(s, public, dry) ==
  deploy(s, dry) \o (IF HasPorts(s) THEN createLoadBalancedService(s, public, dry) ELSE <<>>)

DeploySharded(s, public, dry) ==
  deployStateful(s, dry) \o (IF HasPorts(s) THEN createStatefulService(s, public, dry) ELSE <<>>)

\* *service.Serve.Name == *service.Services[ix].Name && service.Serve.Public
IsPublic(m, s) == m.serve = s.name /\ m.public

\* "Replicas and shards are mutually exclusive"
Contradicts(s) == s.replicated /\ s.shard # "none"

DeployCalls(m, s, dry) ==
  IF Contradicts(s) \/ m.serve = NoServe THEN <<>>
  ELSE IF s.replicated THEN DeployReplicated(s, IsPublic(m, s), dry)
  ELSE IF s.shard = "some" THEN DeploySharded(s, IsPublic(m, s), dry)
  ELSE <<>>

\* What Execute does after the calls of a spec: go on, return an error, or
\* panic (nil Serve, or the first port of a spec without ports).
DeployEnd(m, s) ==
  IF Contradicts(s) THEN "error"
  ELSE IF m.serve = NoServe \/ (s.shard = "some" /\ ~HasPorts(s)) THEN "panic"
  ELSE "next"

\* Mutant: a Service is forgotten by the deletion of a sharded spec.
DeleteShardedLeaky(s, dry) ==
  IF dry THEN <<>>
  ELSE <<Delete("Deployment", Sharder[s.name], TRUE), Delete("StatefulSet", s.name, TRUE),
         Delete("Service", Sharder[s.name], TRUE)>>

\* deleteShardedService
DeleteSharded(s, dry) ==
  IF dry THEN <<>>
  ELSE <<Delete("Deployment", Sharder[s.name], TRUE), Delete("StatefulSet", s.name, TRUE),
         Delete("Service", Sharder[s.name], TRUE), Delete("Service", s.name, TRUE)>>

\* Mutant: the Service is deleted whether or not the spec has ports.
DeleteReplicatedAlways(s, dry) ==
  IF dry THEN <<>>
  ELSE <<Delete("Deployment", s.name, TRUE), Delete("Service", s.name, FALSE)>>

\* Mutant: the Service is deleted before the Deployment.
DeleteReplicatedBackwards(s, dry) ==
  IF dry THEN <<>>
  ELSE IF HasPorts(s) THEN <<Delete("Service", s.name, FALSE), Delete("Deployment", s.name, TRUE)>>
  ELSE <<Delete("Deployment", s.name, TRUE)>>

\* Mutant: the dry-run test is forgotten.
DeleteReplicatedWet(s, dry) ==
  IF HasPorts(s) THEN <<Delete("Deployment", s.name, TRUE), Delete("Service", s.name, FALSE)>>
  ELSE <<Delete("Deployment", s.name, TRUE)>>

\* deleteReplicatedService
DeleteReplicated(s, dry) ==
  IF dry THEN <<>>
  ELSE IF HasPorts(s) THEN <<Delete("Deployment", s.name, TRUE), Delete("Service", s.name, FALSE)>>
  ELSE <<Delete("Deployment", s.name, TRUE)>>

DeleteCalls(s, dry) ==
  IF s.shard # "none" THEN DeleteSharded(s, dry) ELSE DeleteReplicated(s, dry)

\* createJob and deleteJob: neither looks at dryrun
JobCalls(c, j) ==
  IF c.delete THEN <<Delete("Job", j, FALSE)>> ELSE <<Create("Job", j, FALSE)>>

Items(c) == Len(c.model.services) + Len(c.model.jobs)

IsService(c, i) == i <= Len(c.model.services)

ItemCalls(c, i) ==
  LET m == c.model IN
  IF IsService(c, i)
  THEN IF c.delete THEN DeleteCalls(m.services[i], c.dryrun)
       ELSE DeployCalls(m, m.services[i], c.dryrun)
  ELSE JobCalls(c, m.jobs[i - Len(m.services)])

\* Mutant: the first test of deployStateful returns, like the others, and a dry run
\* does not get as far as the shard addresses.
ItemEndDry(c, i) ==
  LET m == c.model   s == m.services[i] IN
  IF ~IsService(c, i) \/ c.delete \/ (c.dryrun /\ ~Contradicts(s) /\ m.serve # NoServe)
  THEN "next" ELSE DeployEnd(m, s)

ItemEnd(c, i) ==
  IF IsService(c, i) /\ ~c.delete THEN DeployEnd(c.model, c.model.services[i]) ELSE "next"

-----------------------------------------------------------------------------
Init ==
  /\ cmd \in Scenarios
  /\ status = [r \in Runs |-> "idle"]
  /\ ix = [r \in Runs |-> 1]
  /\ step = [r \in Runs |-> 1]
  /\ cluster = [o \in Objects |-> "absent"]
  /\ maker = [o \in Objects |-> NoRun]
  /\ exposed = {}

\* mp-compiler starts: main builds the plan and enters Execute
Begin(r) ==
  /\ status[r] = "idle"
  /\ \A q \in cmd[r].behind : status[q] \notin {"idle", "running"}
  /\ status' = [status EXCEPT ![r] = "running"]
  /\ UNCHANGED <<cmd, ix, step>>
  /\ UNCHANGED objVars

End(r, how) ==
  /\ status' = [status EXCEPT ![r] = how]
  /\ UNCHANGED <<cmd, ix, step>>

Running(r) == status[r] = "running" /\ ix[r] <= Items(cmd[r])

HasCall(r) == Running(r) /\ step[r] <= Len(ItemCalls(cmd[r], ix[r]))
Call(r) == ItemCalls(cmd[r], ix[r])[step[r]]

NextCall(r) ==
  /\ step' = [step EXCEPT ![r] = @ + 1]
  /\ UNCHANGED <<cmd, status, ix>>

(* The API server (external): Create refuses a name that is taken, also by an *)
(* object that is still terminating; Delete refuses a name that is free.      *)

Takes(r, o, public) ==
  /\ cluster[o] = "absent"
  /\ cluster' = [cluster EXCEPT ![o] = "live"]
  /\ maker' = [maker EXCEPT ![o] = r]
  /\ exposed' = IF public THEN exposed \cup {o} ELSE exposed \ {o}

\* Mutant: Create overwrites what another run made, as an update would.
TakesOver(r, o, public) ==
  /\ cluster' = [cluster EXCEPT ![o] = "live"]
  /\ maker' = [maker EXCEPT ![o] = r]
  /\ exposed' = IF public THEN exposed \cup {o} ELSE exposed \ {o}

APICreate(r, o, public) == Takes(r, o, public)

APIDelete(o, foreground) ==
  /\ cluster[o] # "absent"
  /\ cluster' = [cluster EXCEPT
       ![o] = IF foreground \/ @ = "terminating" THEN "terminating" ELSE "absent"]
  /\ UNCHANGED <<maker, exposed>>

Effect(r) ==
  \/ Call(r).op = "create" /\ APICreate(r, Call(r).obj, Call(r).flag)
  \/ Call(r).op = "delete" /\ APIDelete(Call(r).obj, Call(r).flag)

\* the call succeeds and the plan goes on
Succeeds(r) == HasCall(r) /\ Effect(r) /\ NextCall(r)

\* Create answers AlreadyExists: log.Fatalf, or the error of createJob
Conflicts(r) ==
  /\ HasCall(r)
  /\ Call(r).op = "create" /\ cluster[Call(r).obj] # "absent"
  /\ End(r, "conflict")
  /\ UNCHANGED objVars

\* Delete answers NotFound: Execute returns the error
Misses(r) ==
  /\ HasCall(r)
  /\ Call(r).op = "delete" /\ cluster[Call(r).obj] = "absent"
  /\ End(r, "notfound")
  /\ UNCHANGED objVars

\* Mutant: calls are counted from zero.
NextItemFromZero(r) ==
  /\ Running(r) /\ ~HasCall(r) /\ ItemEnd(cmd[r], ix[r]) = "next"
  /\ ix' = [ix EXCEPT ![r] = @ + 1]
  /\ step' = [step EXCEPT ![r] = 0]
  /\ UNCHANGED <<cmd, status>>
  /\ UNCHANGED objVars

\* Mutant: the loop goes over the same item again.
NextItemAgain(r) ==
  /\ Running(r) /\ ~HasCall(r) /\ ItemEnd(cmd[r], ix[r]) = "next"
  /\ step' = [step EXCEPT ![r] = 1]
  /\ UNCHANGED <<cmd, status, ix>>
  /\ UNCHANGED objVars

\* the loop moves on to the next item
NextItem(r) ==
  /\ Running(r) /\ ~HasCall(r) /\ ItemEnd(cmd[r], ix[r]) = "next"
  /\ ix' = [ix EXCEPT ![r] = @ + 1]
  /\ step' = [step EXCEPT ![r] = 1]
  /\ UNCHANGED <<cmd, status>>
  /\ UNCHANGED objVars

\* the item ends the run: an error is returned, or the process panics
Stops(r) ==
  /\ Running(r) /\ ~HasCall(r) /\ ItemEnd(cmd[r], ix[r]) # "next"
  /\ End(r, ItemEnd(cmd[r], ix[r]))
  /\ UNCHANGED objVars

Finishes(r) ==
  /\ status[r] = "running" /\ ix[r] > Items(cmd[r])
  /\ End(r, "ok")
  /\ UNCHANGED objVars

\* the process is killed, panics in `output` because it cannot open the plan file, or
\* a call fails without reaching the cluster
Dies(r) ==
  /\ status[r] = "running"
  /\ End(r, "killed")
  /\ UNCHANGED objVars

\* the call takes effect, its answer is lost, and the run ends in the error
LosesAnswer(r) == HasCall(r) /\ Effect(r) /\ End(r, "killed")

\* the garbage collector (external) ends a foreground deletion
Collect(o) ==
  /\ cluster[o] = "terminating"
  /\ cluster' = [cluster EXCEPT ![o] = "absent"]
  /\ UNCHANGED <<maker, exposed>>
  /\ UNCHANGED runVars

Execute(r) ==
  Succeeds(r) \/ Conflicts(r) \/ Misses(r) \/ NextItem(r) \/ Stops(r) \/ Finishes(r)

Next ==
  \/ \E r \in Runs : Begin(r) \/ Execute(r) \/ Dies(r) \/ LosesAnswer(r)
  \/ \E o \in Objects : Collect(o)

Spec == Init /\ [][Next]_vars

\* a run goes on; the garbage collector need not
Fairness == \A r \in Runs : WF_vars(Execute(r))

FairSpec == Spec /\ Fairness
-----------------------------------------------------------------------------
(* How a request finds a container, from the manifests: every workload labels *)
(* its pods app=<its name>, and every Service selects app=<its name>.         *)

Workloads == {"Deployment", "StatefulSet", "Job"}
PodLabel(w) == w[2]

\* Mutant: the Service of the sharder selects the shards.
SelectorOfShards(o) ==
  IF \E n \in SpecNames : o[2] = Sharder[n]
  THEN CHOOSE n \in SpecNames : o[2] = Sharder[n] ELSE o[2]

Selector(o) == o[2]

\* the live workloads whose pods a Service forwards to
Selected(o) ==
  {w \in Objects : w[1] \in Workloads /\ cluster[w] = "live" /\ PodLabel(w) = Selector(o)}

\* getPorts: every port of the spec, forwarded to the same port of a pod
ServicePorts(s) == {s.ports[i] : i \in 1..Len(s.ports)}

\* SERVER_ADDRESS of the sharder
SharderPort == 8080

\* The ports the pods of a workload of s listen on: the sharder on its own, the
\* containers of the spec (external) on those the spec declares.
ListensOn(s, w) ==
  IF w = <<"Deployment", Sharder[s.name]>> THEN {SharderPort} ELSE ServicePorts(s)

\* the Service o of spec s forwards port p to the workload w of the same run
Reaches(s, o, p, w) ==
  /\ cluster[o] = "live" /\ w \in Selected(o) /\ maker[w] = maker[o]
  /\ p \in ServicePorts(s) \cap ListensOn(s, w)

\* SHARD_ADDRESSES: <name>-<ix>.<name>:<first port>, through the headless Service
ShardsResolve(s) ==
  Reaches(s, <<"Service", s.name>>, s.ports[1], <<"StatefulSet", s.name>>)

-----------------------------------------------------------------------------
(* Properties *)

Deploys(r) == ~cmd[r].delete /\ ~cmd[r].dryrun
Deletes(r) == cmd[r].delete /\ ~cmd[r].dryrun

\* the call at item i, position k of the plan of r is on o
CallOn(r, i, k, o) == ItemCalls(cmd[r], i)[k].obj = o

\* r has had a call on o answered, and went on
Issued(r, o) ==
  \E i \in 1..Items(cmd[r]) : \E k \in 1..Len(ItemCalls(cmd[r], i)) :
    /\ i < ix[r] \/ (i = ix[r] /\ k < step[r])
    /\ CallOn(r, i, k, o)

\* the objects r has issued calls on
IssuedBy(r) ==
  UNION {{ItemCalls(cmd[r], i)[k].obj :
            k \in {k \in 1..Len(ItemCalls(cmd[r], i)) : i < ix[r] \/ (i = ix[r] /\ k < step[r])}}
         : i \in 1..Items(cmd[r])}

\* r has got as far as a call on o, answered or not
Reached(r, o) ==
  /\ status[r] # "idle"
  /\ \E i \in 1..Items(cmd[r]) : \E k \in 1..Len(ItemCalls(cmd[r], i)) :
       /\ i < ix[r] \/ (i = ix[r] /\ k <= step[r])
       /\ CallOn(r, i, k, o)

\* What the language promises for a model, read from the model alone: the
\* workloads, the Services in front of them, the jobs; for a spec that is refused,
\* or asks for neither replicas nor shards, nothing.
PromisedBy(s) ==
  IF Contradicts(s) THEN {}
  ELSE (IF s.replicated THEN {<<"Deployment", s.name>>} ELSE {})
       \cup (IF s.replicated /\ HasPorts(s) THEN {<<"Service", s.name>>} ELSE {})
       \cup (IF s.shard = "some"
             THEN {<<"StatefulSet", s.name>>, <<"Deployment", Sharder[s.name]>>,
                   <<"Service", s.name>>, <<"Service", Sharder[s.name]>>}
             ELSE {})

Promised(m) ==
  (UNION {PromisedBy(m.services[i]) : i \in 1..Len(m.services)})
  \cup {<<"Job", m.jobs[i]>> : i \in 1..Len(m.jobs)}

\* the way in to a spec
Door(s) == <<"Service", IF s.shard = "some" THEN Sharder[s.name] ELSE s.name>>

\* o is the way in to the spec that m serves to the public
FrontDoor(m, o) ==
  /\ m.public
  /\ \E i \in 1..Len(m.services) :
       m.services[i].name = m.serve /\ o = Door(m.services[i])

\* Whatever a deploy has created is live and still its own until some delete
\* run gets as far as that object: no other deploy takes it over, however the
\* runs interleave and wherever they die (Execute, lines 429-468).
Accounted ==
  \A r \in Runs : ~cmd[r].delete =>
    \A o \in IssuedBy(r) :
      \/ cluster[o] = "live" /\ maker[o] = r
      \/ \E d \in Runs : cmd[d].delete /\ Reached(d, o)

\* A deploy that reports success has put up everything its model promises, and
\* only a delete run can have taken any of it down since (lines 445-467).
OkMeansDeployed ==
  \A r \in Runs : Deploys(r) /\ status[r] = "ok" =>
    \A o \in Promised(cmd[r].model) :
      \/ cluster[o] = "live" /\ maker[o] = r
      \/ \E d \in Runs : cmd[d].delete /\ Reached(d, o)

\* Nothing but the front door of the spec named by a public `serve` ever gets a
\* load balancer: the Service of a replicated spec, the sharder's Service of a
\* sharded one, and never the headless Service of the shards (lines 297-386).
OnlyServedIsExposed ==
  \A o \in exposed :
    maker[o] \in Runs /\ FrontDoor(cmd[maker[o]].model, o)

\* What the public serve of a model names can be reached once a deploy reports
\* success: its front door is a load balancer that leads to the workload behind
\* it, a sharder to its shards, until a delete run gets to one of them (the
\* labels, selectors and ports of lines 163-386).  A sharder listens on 8080 only,
\* so the other ports that its Service forwards lead nowhere.
ServedIsReachable ==
  \A r \in Runs : Deploys(r) /\ status[r] = "ok" /\ cmd[r].model.public =>
    \A i \in 1..Len(cmd[r].model.services) :
      LET s == cmd[r].model.services[i] IN
      s.name = cmd[r].model.serve /\ HasPorts(s) /\ PromisedBy(s) # {} =>
        \/ /\ Door(s) \in exposed /\ maker[Door(s)] = r
           /\ \A p \in ServicePorts(s) : (s.shard = "some" => p = SharderPort) =>
                Reaches(s, Door(s), p, <<"Deployment", Door(s)[2]>>)
           /\ s.shard = "some" => ShardsResolve(s)
        \/ \E d \in Runs, o \in PromisedBy(s) : cmd[d].delete /\ Reached(d, o)

\* A step of a dry run leaves every workload and Service alone: each of the eight
\* dryrun tests is there, six of them for one call each and two for a deletion.
DryRunKeepsServices ==
  [][\A r \in Runs : cmd[r].dryrun /\ step'[r] # step[r] =>
       \A o \in Objects : o[1] # "Job" => cluster'[o] = cluster[o]]_vars

\* how a run ends that ends by itself, and not because of the cluster, of a kill, or of
\* a plan file that cannot be written (a dry run writes to its standard output)
Verdicts == {"ok", "error", "panic"}

\* A dry run shows how the real one will go, whatever the cluster says to the latter and
\* whatever runs beside them: it meets the same checks in the same order (replicas with
\* shards, a serve, a first port for the shards), and no dryrun test stands before one.
\* So a run and a dry run of the same model do not end by themselves in different ways.
DryRunForetells ==
  \A d, r \in Runs :
    /\ cmd[d].dryrun /\ ~cmd[r].dryrun
    /\ cmd[d].model = cmd[r].model /\ cmd[d].delete = cmd[r].delete
    /\ status[d] \in Verdicts /\ status[r] \in Verdicts
    => status[d] = status[r]

\* d is over before another run begins, or begins when it is over; a run that is
\* behind itself never begins
Apart(d) ==
  \A q \in Runs \ {d} : q \in cmd[d].behind \/ {d, q} \cap cmd[q].behind # {}

\* nothing has run but deploys of the model of d, complete or cut short
OnlyDeploysBefore(d) ==
  \A q \in Runs \ {d} :
    status[q] = "idle" \/ (Deploys(q) /\ cmd[q].model = cmd[d].model)

\* every spec makes a Deployment, and no StatefulSet: specs are deleted in the order
\* in which they are deployed, object by object
SameOrder(m) ==
  \A i \in 1..Len(m.services) : m.services[i].replicated /\ m.services[i].shard = "none"

\* A delete run that reports success has left nothing of what its model promises
\* live: deleteService takes down all that deploy and deployStateful put up.  After
\* a deploy of replicated specs that was cut short anywhere the same holds of a
\* deletion that ends in NotFound, since it has met all that is there before.  (A
\* sharder is made second and asked for first: no such thing holds of shards.)
\* Stated for a run that does not overlap with others.
TornDown ==
  [][\A d \in Runs :
       /\ Deletes(d) /\ Apart(d) /\ status[d] = "running"
       /\ \/ status'[d] = "ok"
          \/ status'[d] = "notfound" /\ OnlyDeploysBefore(d) /\ SameOrder(cmd[d].model)
       => \A o \in Promised(cmd[d].model) : cluster[o] # "live"]_vars

\* d runs right after a successful deploy r of the same model, and nothing else has
Follows(d, r) ==
  /\ d # r /\ Apart(d) /\ cmd[d].model = cmd[r].model
  /\ Deploys(r) /\ status[r] = "ok"
  /\ status[d] = "running"
  /\ \A q \in Runs \ {d, r} : status[q] = "idle"

\* every spec asks for something
NoneDormant(m) == \A i \in 1..Len(m.services) : PromisedBy(m.services[i]) # {}

\* The deletion of a model that was just deployed finds every object it asks for, if
\* every spec of it made some: it also asks for the objects of a spec that made none.
RoundTrip ==
  [][\A d, r \in Runs :
       Deletes(d) /\ Follows(d, r) /\ NoneDormant(cmd[d].model) => status'[d] # "notfound"]_vars

\* The documentation of --deploy: "deploy or update the service".  An update of a
\* deployed model is not refused.
UpdateAccepted ==
  [][\A d, r \in Runs : Deploys(d) /\ Follows(d, r) => status'[d] # "conflict"]_vars

\* The documentation of --dry-run: "only output the execution plan, don't actually
\* enact it".  No object in the cluster was made by a dry run.
DryRunEnactsNothing ==
  \A o \in Objects : maker[o] # NoRun => ~cmd[maker[o]].dryrun

\* Every run that begins ends: the loops of Execute always get on.
Terminates == <>[](\A r \in Runs : status[r] # "running")
=============================================================================

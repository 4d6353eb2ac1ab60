# A TLA+ model of metaparticle-ast

metaparticle-ast turns a *model* of a service (JSON: replicated or sharded specs, jobs, and which
spec to serve) into objects of a Kubernetes cluster, docker containers or ACI container groups, and
tails their logs. It has a registry, an HTTP server that keeps models under a name, and
`mp-compiler`, a command line that can register a model, fetch one, deploy it, delete it and attach
to it. The repository has no tests. This directory holds the TLA+ modules that model it, the
configurations that check them with TLC, and theorems about them that TLAPS has checked.
`PROJECT.json` lists, for machines, what this file says in prose: components, runs, the source lines
of every definition, mutants, findings, hazards and theorems. Paths below are relative to the root
of the repository.

## The system

| component | state | operations | talks to |
|---|---|---|---|
| Kubernetes plan: `compiler/kubernetes-compiler.go` 76-468 | the loop index of `Execute` and the next API call; everything else is in the cluster | deploy a replicated spec (Deployment, Service), a sharded one (StatefulSet, sharder Deployment, two Services), a job; delete each | the Kubernetes API, one synchronous call at a time |
| Docker and ACI plans: `docker-compiler.go`, `aci-compiler.go`, `exec.go` | the loop index; the containers are in the daemon or the resource group | `docker run`, `docker rm -f`, `az container create`, `az container delete` per spec | child processes |
| `ktail.Controller`: `ktail/controller.go` | the map of tailers, under a mutex | `Run` (List, then an informer), `onAdd`, `onDelete` | informer callbacks; creates and stops tailers |
| `ktail.ContainerTailer`: `ktail/tailer.go` | `stop`, `fromTimestamp` or `sinceTime` | `Run` (reopen the stream for ever), `getStream` (retry on 400, stop on 404), `Stop` | log streams; `stop` is written by another goroutine without a lock |
| `kubernetesCompiler.Logs` 500-566 | none | builds a selector and runs a Controller until an interrupt | ktail |
| Registry handlers: `restapi/impl.go` | a map from names to services, nil at first, under one mutex; nothing on disk | get, list, put, delete | one goroutine per HTTP request |
| Registry plumbing: `restapi/operations`, `restapi/configure_*.go` | routes | bind, validate, call a handler, write the answer | handlers above, HTTP below |
| Registry server: `restapi/server.go`, `cmd/server` | listeners, goroutines, a WaitGroup | `Listen`, `Serve`, `Fatalf` | the network, signals |
| Model types: `models/` | none | `Validate` | called by `BindRequest` |
| Client library: `client/` | none | one call per operation, with a timeout | HTTP |
| `mp-compiler`: `cmd/compiler/mp-compiler.go` | flags, `obj` | PUT the file, GET by name, build and execute a plan, attach | everything above |
| `cmd/client` | none | GET, then PUT | does not compile: it calls `GetServices`, which the client library lacks |

**What is hard here.**
Several `mp-compiler` processes share a cluster, a daemon and a registry, and nothing coordinates
them. Every operation is a sequence of separate calls, and a process that fails at the n-th
(`log.Fatalf`, a panic on a nil pointer, a kill, a lost answer) leaves the first n-1 done. Calls of the
registry have a timeout, after which they may still be served. ktail sees the cluster through two
Lists and a watch that may lose events, identifies pods by a name that is used again, and stops
goroutines that are asleep or reading. The registry dereferences and stores what clients send,
validates only the top level of a model, and forgets everything when it ends.

**What makes each component correct.**
*Plans:* no plan takes over objects of another; success means that all that was promised is up;
a successful deletion leaves nothing; only what `serve` names is exposed; a dry run changes no workload or
Service and ends as the run that it stands for.
*ktail:* one live tailer per container that exists, none for one that is gone, old logs not replayed,
every container read in the end. *Registry:* an atomic map. *mp-compiler:* enacts what was
registered and what was validated, ends, and follows a nil pointer only in documents that no schema promises
it can handle. (It also panics over directories, plan files and the first List of ktail, whatever the document says.)

## Modules

| module | models | state and actions in the code |
|---|---|---|
| `KubePlan` | the Kubernetes plan, for any number of processes | `cmd`, `status`, `ix`, `step` are the flags, the fate and the position of each process in `Execute`; `cluster`, `maker`, `exposed` the objects. `deploy`, `createLoadBalancedService`, `deployStateful`, `createStatefulService`, `DeleteReplicated`, `DeleteSharded`, `JobCalls` list the API calls of each function in code order, every call behind the `dryrun` test that the code has for it (six `UnlessDry`, two that return before a deletion, none for jobs); `DeployCalls` and `DeleteCalls` put them together for a spec; `DeployEnd` has the early return and the panics over a nil `serve` and a first port. One step is one API call: `Succeeds`, `Conflicts` (AlreadyExists), `Misses` (NotFound), `Dies`, `LosesAnswer`. The API server and its garbage collector (`APICreate`, `APIDelete`, `Collect`) are external. `Scenarios` says who is started with which command, and behind whom. `Selector`, `PodLabel`, `ServicePorts`, `ListensOn` are what the manifests say of routing, and `Reaches` what follows from them. |
| `KubePlanProofs` | | theorems about `KubePlan` |
| `Containers` | the docker and ACI plans and the commands they start | `child` is the command that `executeCommand` waits for, a process that outlives a killed `mp-compiler`; `box` is what there is under each name. `runService`, `deleteService`, `Return`, `Finish` are the loop; `MakeCommand` and `RemoveCommand` what docker and az do (external). |
| `ContainersProofs` | | theorems about `Containers` |
| `Ktail` | Controller and tailers, against a cluster that deletes and recreates a pod under its name and an informer that lags, loses watches and relists | `List` (l. 55), `StartInformer`, `Watch` and `Relist` run the handlers `addContainers` and `deleteContainer`; `LoopTest`, `GetLogs`, `WakeUp`, `StreamEnds` are a tailer between its loop test and the end of a stream. |
| `KtailProofs` | | theorems about `Ktail` |
| `LogReader` | what tailing a log promises: lines in order, none skipped but the excused ones | `Write`, `Excuse`, `Show` |
| `LogPositions` | which lines one tailer shows of the log of one container, with a clock | `since`, `next`, `fromBeginning` are `sinceTime` and the positions of `getStream` and `runStream`. `Run` is the loop test and the entry of `getStream`; `Opens`, `NotReady`, `WakeUp`, `NotFound` its answers and its retry; `ReadLine`, `LogIsOver`, `Breaks` the stream; `Fails` any other error. The container, its kubelet and the clock are external. Implements `LogReader`. `FirstLogs`, the logs that a tailer may find, is a constant that `MCLogPositions` gives. |
| `LogPositionsProofs` | | theorems about `LogPositions`, among them that it implements `LogReader` |
| `RegistrySpec` | what the registry promises: an atomic map | `Apply` answers a request and changes the map at one instant |
| `Registry` | the four handlers, statement by statement under the mutex, and the crash | `Lock`, `CheckMap`, `MakeMap`, `Store`, `StartList`, `ListNext`, `EndList`, `HandleGetOne`, `HandleDestroyOne`; implements `RegistrySpec` |
| `RegistryProofs` | | theorems about `Registry`, among them that it implements `RegistrySpec` |
| `Server` | the registry as a process, from its flags to its exit, when several want one port or one socket file | `Begin`, `Listen`, `Serve`, `Return` are main, `Server.Listen` and `Server.Serve` block by block; `Register`, `Done`, `Fatalf` a goroutine of `Serve`. `graceful.Server` and the kernel are external: `Signal`, `Interrupt`, `Drained`, `AcceptFails`, `Connect`. |
| `ServerProofs` | | theorems about `Server` |
| `Documents` | what documents are, as far as pointers go | `ValidService` is `Service.Validate` as the registry runs it; `Conforms` all that api.yaml requires, which nothing checks below the top level; `ExecuteSafe`, `Refused`, `LogsSafe` say which nil pointers each executor meets, and which documents it refuses first; `Outputs` which deployments get as far as a plan file; `Made`, `Watched` what each executor has made for a document, by the names that `Logs` may ask for, and what it asks for |
| `FrontEnd` | `mp-compiler` from its flags to its exit, with the client library, the network, the generated server and the registry as one step per request | `LoadFile`, `ReceivePut`, `SendGet`, `ReceiveGet`, `GiveUp`, `MakePlan` (with `NewCompiler`), `Execute`, `Attach`, `LogsFail` are main; `CreateOrUpdateService`, `GetService` the calls of the client library; `ServePut`, `ServeGet` the server with `BindRequest` and the handlers; `Lose`, `Crash`, `OtherWrites` the rest of the world. A process that ends badly is `fatal` (`glog.Fatalf`), `panic` (a nil pointer, or an element that is not there) or `broken` (the panics of `Getwd`, `MkdirAll`, `output` and the first List of ktail) |
| `FrontEndProofs` | | theorems about `FrontEnd` |

The modules meet where the code does. A process of `Server` that exits is a `Crash` of `Registry` and
`FrontEnd`, and its `Answer` a handler. `FrontEnd` takes from `Registry` that a handler is one step
(`Linearizable`), from `KubePlan` that `Execute` returns (`Terminates`), and from `Documents`
whether it panics; it gives to `KubePlan` and `Containers` the processes whose `Begin` is the call of
`plan.Execute`. `Ktail` starts where `Attach` says
`attached`, and `LogPositions` is one tailer of `Ktail`, from its `LoopTest` on, with what `Ktail` leaves out: lines and times.

Definitions called *Mutant* stand before the definition that they would replace. Each is a
mistake that this code could have, and each property of a passing run is violated with one of them in place.

**Abstractions.** A manifest is its kind, its name and whether it is a LoadBalancer; the labels, selectors and
ports in it are functions of the spec, and no pods or endpoints are created from them. In `KubePlan` a document is well formed; malformed ones are in
`Documents` and `FrontEnd`. The handlers of ktail treat the containers of a pod alike, in one call
under a lock, so `Ktail` has one container per pod; labels of pods do not change. The unlocked write
of `stop` is a data race: a read that misses it is a read before the write, and the model has
`Stop` at any point between two steps of the tailer. The streams of `Ktail` have
no lines; those of `LogPositions` have, and there the tailer and the kubelet have one clock of half
seconds, a container is not restarted in its pod, and a last line without a newline is never shown
(`ReadString` returns it together with `io.EOF`, and `runStream` drops it). The panics that no document
rules out are the outcome `broken` of `FrontEnd`, apart from `panic`: they happen at `os.Getwd` and `os.MkdirAll` (`mp-compiler.go` 97-104), at a plan file
that cannot be opened (`output`, also because a spec name has a slash, which api.yaml allows) and at a first List of ktail that
fails. In `KubePlan` that of `output` is one of the ways in which a process `Dies`. In `Containers`
az and docker may fail, with or without effect, and whether removing what is absent is an
error is left open, since their versions differ.

## Runs

Passing runs (TLC finishes without an error):

| run | question | instance | size |
|---|---|---|---|
| `kube` | Do processes that deploy and delete stay out of each other's way, does a deletion take down what deploys put up, however they were cut short, can what is served be reached, does a dry run foretell the real one, and do they end? | 2 processes at once, each with any of 21 commands: models whose specs share names, one called like the sharder of another, and the corner cases (no `serve`, no ports, replicas with shards, zero of each), dry and not; or 2 at once and then a tear-down; or 3 one after another, with 12 commands; or the deletion of specs that are refused or deploy nothing after their own deploy. Any of them killed anywhere | 395 thousand states |
| `containers` | The same for docker and aci, with commands that half succeed and survive their process | 2 processes, any of 22 commands | 504 thousand |
| `ktail_one_pod` | Does ktail keep one live tailer per pod and read it? | one name through up to 3 incarnations (6 changes), stale first view, lost watches, every error | 51 thousand |
| `log_positions` | Does a tailer show a log in order, with nothing skipped and little repeated, when streams break, containers are late and pods go? | one container and up to 3 lines before its last, over 2 seconds in half-second ticks, with 2 breaks | 2.24 million |
| `registry` | Do the handlers implement the atomic map? | 3 requests in flight, 7 different asks, 2 names, crashes at will | 82 thousand |
| `server` | Does a registry only serve when it has all its addresses, and does a clean exit keep its promises? | 2 processes with 6 pairs of flags, each pair with an address that both want or one that cannot be had; grace period and read timeouts in every combination; 2 connections, signals, kills and errors anywhere | 198 thousand |
| `front_end` | Does the cluster only get what was registered and validated, and does a process end, and follow no nil pointer? | 2 processes (one with any of 36 commands, the other with 4 that write or read the same names), 15 documents, one write of another client, one crash, losses and timeouts anywhere | 605 thousand |

What the properties say:

- `Accounted` (KubePlan): what a deploy has created is live and its own until a deletion reaches it.
  `OkMeansDeployed`: a deploy that ends well has put up every object its model promises, read from the
  model and not from the calls. `OnlyServedIsExposed`: a load balancer is the front door of the spec
  that a public `serve` names, never the headless Service of its shards. `ServedIsReachable`: after a deploy that ends well the load balancer of
  what is served leads, by labels, selectors and ports, to the pods of that spec or to its sharder, and
  the sharder to its shards; a sharder listens on 8080 only, so of a sharded spec this is claimed for
  that port alone. `Terminates`.
- `TornDown`: a deletion that ends well has left nothing of its model live; after a deploy of replicated specs that
  was cut short anywhere, neither has one that ends in NotFound. `RoundTrip`: the deletion
  of a model just deployed finds every object. `DryRunKeepsServices`: a dry run leaves workloads and
  Services alone (jobs it does not: see below), which takes all of the eight `dryrun` tests; a mutant forgets one on the
  way of a deployment, another one of a deletion. `DryRunForetells`: no such test stands before a check, so that a dry run and a run of the same model, if
  both end by themselves, end alike: well, in the error of a spec that is refused, or in the panic over a `serve` or
  a port that is not there. (`deployStateful` needs care for this: its first test must not return, as the other tests do, or a dry
  run would miss the panic of l. 329.) A dry run writes to its standard output, so it says nothing of plan files. `TornDown` and `RoundTrip` are about deletions that do not
  overlap with other processes. A spec that asks for replicas and shards promises nothing, since `Execute` refuses to deploy it;
  it is deleted as a sharded one all the same, so that a Deployment of its name which another model has made stays.
  `RoundTrip` is not claimed for models with a spec that deploys nothing (neither
  replicas nor shards, or zero of these): their deletion asks for objects nobody made and ends in NotFound. The scenarios
  `NeverDeployed` of `MCKubePlan` have both cases.
- `Accounted` (Containers): what a deploy has gone past is up and its own, of that very spec, until a
  deletion gets to it; with aci, where all specs of a model share one name, until the next create.
  `CleansUp`: a deletion takes down what is left of a deploy of the same model that was refused,
  failed or killed half-way, even when it ends in the error that the next container is missing. The
  order of the two loops is what makes this true; the Kubernetes plan, which makes the StatefulSet first
  and deletes the sharder first, has it for replicated specs only (`TornDown`): no deletion ever gets past the
  missing sharder of a deploy that was cut short after its StatefulSet.
- ktail: `OneLiveTailer`, `MapMirrorsView`, `StopOnlyDead`, `OnlyStragglersOverlap` (two goroutines
  print the same log only when one is a stopped straggler of an earlier incarnation),
  `HistoryOnlyForNewPods`, and, as liveness, `GoneMeansEnded` (no goroutine outlives
  its pod for good) and `SeenIsTailed` (a pod that stays up and ready is read again and again,
  unless the informer has missed something of it or a fatal error has ended its tailer).
- the lines of a log: `InOrder` (refinement of `LogReader`: the log of a new pod from its first line, that of an
  older one from now on, in order and without a gap, but for lines that were more than a second old when
  a stream was asked for), `NoReplay` (what a break repeats was written less than two seconds before it:
  `sinceTime` goes back one second, and a further one by being cut to whole seconds),
  `EveryLineShown` (a break or a retry never ends the reading, short of an error or the end of the pod).
- registry: `Linearizable` (refinement of `RegistrySpec`), with it that making the map loses nothing,
  `AllServed` (every request is answered: no handler keeps the mutex, or panics on the nil map).
- server: `AllListenFirst` (nothing is taken on before every listener is open), `OkMeansAnswered` (a clean
  exit cuts off no request that a handler had, but for the grace period), `FileGoesWithServer` (a clean
  exit leaves no socket file to fail the next start), `LimitKept` (also where HTTPS inherits the limit of
  HTTP), `SignalEnds` (a signal that finds all goroutines serving ends the process, unless a client may
  be slow for ever: no grace period and a listener without a read timeout, as the domain socket is).
- front end: `EnactsRegistered`, `FetchedIsValid`, `NoNilFollowed` (with a registry and the Kubernetes executor,
  `mp-compiler` never follows a nil pointer, or indexes what is not there, with a document that has all that api.yaml
  requires, a `serve` and a port for each sharded spec; the panics called `broken` are not excluded), `Terminates`.

Runs in which TLC finds a violation; each shows that the program does other than the repository
says (`findings` in `PROJECT.json` quotes both sides):

| run | property | what happens |
|---|---|---|
| `kube_dry_run` | `DryRunEnactsNothing` | `--dry-run` of a model with jobs creates or deletes them |
| `kube_update` | `UpdateAccepted` | `--deploy`, "deploy or update the service", of a deployed model ends in AlreadyExists |
| `ktail_restart` | `ExistingIsTailed` | a pod of a StatefulSet replaced under its name between the two Lists is never tailed |
| `front_tear_down` | `TearDownDeletes` | the tear-down command of README.md, `--deploy=false --delete=true`, deletes nothing and succeeds |
| `front_attach` | `AttachFollows` | attaching to the sharded example of README.md selects pods by a label that none has; with aci, the group is named after the model and its logs are asked for by the name of the first spec |

Seen on the way and not checked by a run: api.yaml does not require `serve`, and the Kubernetes
executor dereferences it for every spec (none of the documents of `replicated-example/` has one); the validators of the array types are never called; a 404 of the registry carries an
Error whose required message is nil; the sharder always listens on 8080 while its Service forwards the
ports of the spec, so any other port of a sharded spec leads nowhere; `--kubeconfig` is declared by
`NewKubernetesCompiler`, after the command line has been parsed, and by the standard `flag`, so it can never be
given (`compiler/kubernetes-compiler.go` 53-58); a PUT without a body is accepted and puts a null into every list; a signal that
comes while `Serve` starts its goroutines stops those that have asked for signals, and the others
serve on; the error of one listener ends the process with `os.Exit`, without the grace period that
`--cleanup-timeout` gives to the others.

### Why the bounds are enough

Conflicts in `KubePlan` and `Containers` are between two processes about one object: two cover them,
and the theorems below hold for any number: of processes, of incarnations of a pod, of lines, requests,
connections, crashes and breaks. What is left to the bounds is liveness. A deletion that is tried again after one that was cut short needs three,
which the scenarios of `kube` that run one after another have. Two names and their sharders give every clash that a name can have.
Three incarnations of a pod are what it takes for a tailer of the first to meet the third while the
informer still shows the second; different pod names share nothing but the phase of the Controller.
In `log_positions` two seconds of half-second ticks put a line, a break or a request on and off a whole second,
and within and beyond the window of `sinceTime`; the log starts with lines from long before the tailer or from
half a second around its start; two breaks let one stream repeat what another had repeated.
The pairs of flags of `server` have each kind of clash (socket file, port, one process that wants a port
twice, TLS files that are missing or cannot be read), and a limit of one that two connections meet.
Two names, two bodies and three requests give every race on one entry, and one on the making of
the map while another is listing. In `front_end`, `MaxWrites = 1` and `MaxCrashes = 1` each
put an event between any two steps of a process, and the theorems hold for any bound.
`CHECK_DEADLOCK FALSE` is set where every process has ended in a final state, which all of these
systems reach.

### Fairness

- `KubePlan`: weak fairness of `Execute` of each process (the API server answers or the call fails).
  None of the garbage collector: a deletion does not wait for it.
- `Ktail`: weak fairness of each tailer (the scheduler of Go, and `time.Sleep`), of `Watch` (the
  informer delivers what the watch sends), and of the end of the log stream of a pod that is gone.
  Nothing makes a stream end otherwise, or the watch complete: a lost watch may lose a deletion.
- `LogPositions`: weak fairness of `Tailer` (the goroutine runs, the sleep of the backoff ends, the API server
  answers, the lines of an open stream arrive). None of the clock, the container or `Stop`.
- `Registry`: weak fairness of the handler of each request that has arrived (`net/http` runs its
  goroutine). Contention for the mutex ends because the requests are finite.
- `Server`: weak fairness of main and of each goroutine, of handlers and of read timeouts. None of
  clients, signals or `Sweep`.
- `FrontEnd`: weak fairness of main, the five second timer of its calls included. None of the registry,
  the network or `az` (`LogsFail`): `Terminates` holds when no answer ever comes.

## Proofs

TLAPS checks, for all values of the constants that meet the named assumptions:

| theorem | states |
|---|---|
| `KubePlanProofs!TypeCorrect` | `Spec => []TypeOK` |
| `KubePlanProofs!AccountedAlways` | `Spec => []Accounted` |
| `KubePlanProofs!ExposedAlways` | `Spec => []OnlyServedIsExposed` |
| `KubePlanProofs!OkMeansDeployedAlways` | `Spec => []OkMeansDeployed` |
| `KubePlanProofs!ServedIsReachableAlways` | `Spec => []ServedIsReachable` |
| `KubePlanProofs!DryRunKeepsServicesAlways` | `Spec => DryRunKeepsServices` |
| `KubePlanProofs!DryRunForetellsAlways` | `Spec => []DryRunForetells` |
| `KubePlanProofs!TornDownAlways` | `Spec => TornDown` |
| `KubePlanProofs!RoundTripAlways` | `Spec => RoundTrip` |
| `KtailProofs!TypeCorrect` | `Spec => []TypeOK` |
| `KtailProofs!OneLiveTailerAlways` | `Spec => []OneLiveTailer` |
| `KtailProofs!MapMirrorsViewAlways` | `Spec => []MapMirrorsView` |
| `KtailProofs!StopOnlyDeadAlways` | `Spec => []StopOnlyDead` |
| `KtailProofs!OnlyStragglersOverlapAlways` | `Spec => []OnlyStragglersOverlap` |
| `KtailProofs!HistoryOnlyForNewPodsAlways` | `Spec => []HistoryOnlyForNewPods` |
| `LogPositionsProofs!TypeCorrect` | `Spec => []TypeOK` |
| `LogPositionsProofs!InOrderAlways` | `Spec => InOrder` (implements `LogReader`) |
| `LogPositionsProofs!NoReplayAlways` | `Spec => NoReplay` |
| `RegistryProofs!TypeCorrect` | `Spec => []TypeOK` |
| `RegistryProofs!LinearizableAlways` | `Spec => Linearizable` (implements `RegistrySpec`) |
| `RegistryProofs!MutualExclusionAlways` | `Spec => []MutualExclusion` |
| `ContainersProofs!TypeCorrect` | `Spec => []TypeOK` |
| `ContainersProofs!AccountedAlways` | `Spec => []Accounted` |
| `ContainersProofs!CleansUpAlways` | `Spec => CleansUp` |
| `ServerProofs!TypeCorrect` | `Spec => []TypeOK` |
| `ServerProofs!AllListenFirstAlways` | `Spec => []AllListenFirst` |
| `ServerProofs!OkMeansAnsweredAlways` | `Spec => []OkMeansAnswered` |
| `ServerProofs!FileGoesWithServerAlways` | `Spec => []FileGoesWithServer` |
| `ServerProofs!LimitKeptAlways` | `Spec => []LimitKept` |
| `FrontEndProofs!TypeCorrect` | `Spec => []TypeOK` |
| `FrontEndProofs!EnactsRegisteredAlways` | `Spec => []EnactsRegistered` |
| `FrontEndProofs!FetchedIsValidAlways` | `Spec => []FetchedIsValid` |
| `FrontEndProofs!NoNilFollowedAlways` | `Spec => []NoNilFollowed` |

So every safety property that a passing run checks, invariants, action properties and both refinements, is also a theorem.

*KubePlan.* Assumed (`ConstantsAssumption`): commands are well typed, and `makeSharderName` is
injective and never returns its argument. The lemmas up to `CallsMeaning` are about the pure part:
the calls of an item are well typed, a deploy only creates, a deletion only deletes, and a call
that exposes is on the front door. `WetPlans` is what the functions of a spec ask for in a run that enacts, and
`DryPlans` that in a dry run nothing is left of any of them, test by test; `DryRunKeepsServices` follows from the latter. `Accounted`, which ranges over the set
`IssuedBy` for the sake of TLC (`IssuedByMeans`: its members are the `Issued` ones), is inductive given the
types: `Issued` only grows by the call a process has just made (`IssuedByCalling`), which took a name that was free (`CallTakes`);
an object that is held (`Held`) stays so, or was deleted by a deletion that had reached it
(`StepKeeps`, `ReachedGrows`). `OkMeansDeployed` is not inductive. It needs `Passed`: a process that
is past an item was allowed to go on from it, so that it has neither a contradiction nor a nil
`serve` nor a shard without ports behind it, and one that has succeeded is past all of them. Then
every promised object is in the calls of some item (`ServicePlanned`, `JobPlanned`, by cases on
the shape of the spec), all of these have been issued, and `Accounted` says the rest.
`ServedIsReachable` needs one thing more than `OkMeansDeployed`, that the front door is still exposed. `Opened`, inductive
in the way of `Accounted`, says so of every call with the flag that has been answered (`IssuedCall`), and
`DoorPlanned` finds the call of the front door in the plan. That the objects lead to one another then follows
from their names (`HeldReaches`), and from `makeSharderName` never returning its argument. `DryRunForetells` joins `Passed` with
`Judged`: a process that has ended in an error or a panic did so at the item where it stands. What an item ends in does not depend
on `dryrun` (`SameEnds`), so of two processes with one model neither is past the item that stopped the other
(`NotPast`); they have stopped at the same one, or both have ended well.

`TornDown` and `RoundTrip` compare the plans of two processes, and need four facts more, each inductive given the types.
`Waited`: a process that has begun has those that it is behind over, so that a deletion that is `Apart` runs alone
(`Alone`). `Torn`: what such a deletion has asked for is not live, since only a deploy could bring it back. `Made`:
what is in the cluster was made by a deploy that got as far as it. `Standing`: what the deploys before the
deletion have made is live until the deletion asks for it, and none of them has made one object twice. A deletion
that ends well has asked for all that is promised (`PromisedDeleted`), and `Torn` says the rest. One that ends in
NotFound has not found some object p; were another one, o, live, then a deploy has got as far as o (`Made`). Its
plan is that of the deletion, call by call (`SamePlan`). So either the deletion has had o before p, against `Torn`; or the deploy has
made p before o, and by `Standing` the deletion has had p twice, and so has the deploy. For `RoundTrip` the plans
need only agree item by item (`SameObjects`), which holds of shards too, and no item is asked for the same thing twice (`DeletionsDistinct`).
In the course of this proof both properties turned out to be false of specs that are refused and of specs that deploy nothing, which the
instance had not combined with a deletion: TLC shows it in the scenarios that were added, and the properties
now say what they are about (see *What the properties say*).

*Ktail.* Assumed (`ConstantsAssumption`): a bound on the changes of the cluster, any number. The invariant
says of each pod that the tailer in the map is the one made last and the only one not told to stop (`LiveIn`), that what tailers say
of their incarnation fits the position that the controller knows of (`FitIn`), and that later tailers are for later
incarnations (`AscendIn`); of the whole, that lists and view lag behind the cluster (`Lagging`) and that
the map mirrors what is known (`Mirroring`), from the direct List on and not only once the informer has a view, as
`MapMirrorsView` has it. `OnlyStragglersOverlap` needs `AscendIn`: of two tailers, the one of the earlier
incarnation was stopped, and reads a later one than its own.

*LogPositions.* Assumed (`PositionsAssumption`): a second has at least one tick, the tailer starts after the first second, and first logs are sorted and older than its start.
`Gapless` says that nothing is owed before a line that was shown or is next; `Asked`, of the time between two streams, that
what the request leaves out is settled and what it repeats is recent; `Recent` the same of what a stream has still to
deliver; `Beginning` that a log is asked for from its start until a stream has been opened. The last three carry the argument from a
break to the next stream through any number of retries. The refinement maps `top` to the last line shown; `LogReader` may
excuse a line when a stream is asked for. The only induction in it, that a set of numbers has a least
member, is taken from the library (`WFMin`).

*Registry.* Assumed: answers and bodies are distinct from what they stand beside. `TypeOK` says of the mutex that
whoever has it is at a statement between `Lock` and `Unlock`, which a handler that returns without letting go breaks. `Exclusive` says that the mutex is held by the one request
that is inside, and `Sound` what a handler has found out and may rely on while it is: that the map is not there (`Making`), or
that a list has gathered what it has gone past (`Ranging`). With it each step maps to one of `RegistrySpec` or to a
stutter (`NextImplements`): a request takes effect when its handler writes the map or, if it only reads, when it returns. The
refinement does not hold without the mutex (the mutant `LockNothing`). `MutualExclusion` (one handler inside at a time, and none panics) follows at once, and no run checks it by itself.

*Containers.* Assumed: commands are well typed. `Commanded`: the command that a process waits for is of its own
spec, and a container that was started is accounted for before the wait is over. `History` and `Owned` say who can have made
a container. For `CleansUp` the deletion has a front (`Cleaning`): what it has still to find starts at
its next spec, with no gap and no name twice. It is there when the deletion begins, because
deploys go through the specs in the same order; each removal moves it on; and when a container is missing there is nothing behind it.

*Server.* Assumed (`ServerAssumption`): flags are well typed. The invariant follows main: what `Listen` has still to open (`Listening`), what
`Serve` has still to start (`Serving`), and what both have done (`Waiting`, `Opened`, `Inherited`); of each connection, that one in
work is with a goroutine that has not ended (`Known`); of each listener, its limit (`Bounded`), for which
only finitely many connections have been made. `OkMeansAnswered` follows from `Known`: a process that ended well has no
goroutine left for a request to be with.

*FrontEnd.* Assumed (`FrontEndAssumption`): flags and writes name documents and names of the
instance, and `Nil`, `Absent` and the empty string are distinct from what they stand beside.
`TypeOK` has one part that is not about types, `WaitsForOwn`: a process that waits for a PUT has a
PUT under way, one that waits for a GET a GET, and GETs are of real names. Without it an answer could
be taken for that of another call. `EnactsRegistered` is strengthened by the answer in flight: a 200 to
a process that waits for its PUT means the PUT has been stored (`Registered`). `FetchedIsValid` is
strengthened on the whole way from the map to `obj`: the registry holds no invalid document
(`StoreValid`), and a 200 on its way to a process that waits for a GET carries a valid one
(`Fetched`). None of the three depends on how many crashes, losses and writes there are.
`NoNilFollowed` rests on a lemma about `Documents` (`CompleteIsSafe`): what conforms and is complete has none of the nil pointers that
`Execute` and `Logs` of the kubernetes executor meet. What a run enacts does not change once it is planned.

*Only model-checked.* Liveness: `Terminates` of `KubePlan` and `FrontEnd`, `GoneMeansEnded`, `SeenIsTailed`, `EveryLineShown`,
`AllServed` and `SignalEnds` need fairness, which is about ENABLED, out of reach of this prover. So is induction over
data, which nothing here needs: sequences are short or are taken one element at a time. That the mutants and the five
findings violate their properties is of course shown by TLC alone.

## Not modelled

- What `kubernetesPlan.output` writes: copies of the manifests in `.metaparticle` of the working directory, which nothing reads
  back. That it panics when it cannot open a file is modelled, in `Dies` of `KubePlan` and as `broken` in `FrontEnd`, as are the panics over the
  directory. Which names make a file that cannot be opened is not: the model lets any of them fail.
- The embedded Swagger document, URL builders, `api.yaml`: generated data and accessors. Content negotiation
  and parse errors of the HTTP layer.
- Of `restapi/server.go`: write timeouts, keep-alives, header limits, and the exported getters.
- The client library's calls to delete and to list, which no program of the repository makes; the
  handlers that would serve them are in `Registry`.
- `cmd/client`, which does not compile (it calls `GetServices`, and the client library has `GetService`).
- Packaging, the examples beyond the shapes of their documents, `Dockerfile`s.

## Plan

Done, in this order: `KubePlan`, its proofs, `Ktail`, `Registry` with `RegistrySpec`, `Documents` and
`FrontEnd`, its proofs, `Containers`, `Server`, `LogPositions` with `LogReader`, the routing of Services as a
part of `KubePlan`, and the proofs of every safety property. Left:

1. `TailSet`, an abstract set of tailed containers which `Ktail` implements while no watch is lost, with the
   proof of its refinement.
2. What the modules take from each other, proved: that a process of `FrontEnd` which executes a plan is a process of
   `KubePlan` that begins.

----------------------------- MODULE Documents ------------------------------
(***************************************************************************)
(* models/*.go and the executors of compiler/*.go: which documents the      *)
(* validation of the registry lets pass, and which of them the executors    *)
(* can go through without following a nil pointer or a missing element.     *)
(* (Panics over files, such as that of `output`, are another matter: see    *)
(* Outputs, and "broken" in FrontEnd.)                                      *)
(*                                                                         *)
(* A document is the tree of the Go structs, a nil pointer (a field that is *)
(* null or missing in the JSON, which both ways of the conversion keep) is  *)
(* Nil.  Values are kept where the code looks at them and are otherwise     *)
(* just there.                                                              *)
(***************************************************************************)
EXTENDS Naturals, Sequences

CONSTANT Nil

Each(s, P(_)) == \A i \in 1..Len(s) : P(s[i])

-----------------------------------------------------------------------------
(* Validation                                                                *)

Required(x) == x # Nil

ValidEnvVar(e)      == Required(e.name) /\ Required(e.value)
ValidContainer(c)   == Required(c.image)
ValidServicePort(p) == Required(p.number)
ValidSpec(s)        == Required(s.name)
ValidJob(j)         == Required(j.name)
ValidServe(v)       == Required(v.name)

\* Service.Validate: the services and the jobs of the model are not looked at.
ValidService(m) ==
  /\ Required(m.guid)
  /\ Required(m.name) /\ m.name # ""
  /\ m.serve # Nil => ValidServe(m.serve)

\* What api.yaml requires of a service, all the way down: the validator of every
\* part holds of every part, and no element of an array is null.
ConformingContainers(cs) ==
  Each(cs, LAMBDA c : /\ c # Nil /\ ValidContainer(c)
                      /\ Each(c.env, LAMBDA e : e # Nil /\ ValidEnvVar(e)))

Conforms(m) ==
  /\ ValidService(m)
  /\ Each(m.services, LAMBDA s :
       /\ s # Nil /\ ValidSpec(s)
       /\ ConformingContainers(s.containers)
       /\ Each(s.ports, LAMBDA p : p # Nil /\ ValidServicePort(p)))
  /\ Each(m.jobs, LAMBDA j : j # Nil /\ ValidJob(j) /\ ConformingContainers(j.containers))

-----------------------------------------------------------------------------
(* The pointers an executor follows.                                         *)

\* envvars
EnvSafe(c) == Each(c.env, LAMBDA e : e # Nil /\ e.name # Nil /\ e.value # Nil)

\* containers and containersForJob
ContainersSafe(cs) == Each(cs, LAMBDA c : c # Nil /\ c.image # Nil /\ EnvSafe(c))

\* getPorts
PortsSafe(ps) == Each(ps, LAMBDA p : p # Nil /\ p.number # Nil)

\* *service.Serve.Name == *service.Services[ix].Name
NamesSafe(m, s) == m.serve # Nil /\ m.serve.name # Nil /\ s.name # Nil

HasWorkload(s) == s.replicas > 0 \/ (s.shards # Nil /\ s.shards > 0)

\* Mutant: the address of the first port is looked up for every spec, not for the
\* shards only.
KubernetesSafePorts(m, s) ==
  /\ NamesSafe(m, s)
  /\ HasWorkload(s) =>
       ContainersSafe(s.containers) /\ s.ports # <<>> /\ PortsSafe(s.ports)

\* Execute once it has not refused the spec: deploy and createLoadBalancedService,
\* or deployStateful, with its shard addresses, and createStatefulService
KubernetesSafe(m, s) ==
  /\ NamesSafe(m, s)
  /\ s.replicas > 0 => ContainersSafe(s.containers) /\ PortsSafe(s.ports)
  /\ s.shards # Nil /\ s.shards > 0 =>
       ContainersSafe(s.containers) /\ s.ports # <<>> /\ PortsSafe(s.ports)

\* spec.Containers[0]
FirstContainerSafe(s) ==
  s.containers # <<>> /\ s.containers[1] # Nil /\ s.containers[1].image # Nil

\* dockerPlan.runService
DockerSafe(s) ==
  FirstContainerSafe(s) /\ s.name # Nil /\ PortsSafe(s.ports) /\ EnvSafe(s.containers[1])

\* aciPlan.runService, which ends in an error once it meets a second port
AciSafe(m, s) ==
  /\ FirstContainerSafe(s) /\ m.name # Nil
  /\ \/ Len(s.ports) > 1
     \/ /\ PortsSafe(s.ports) /\ EnvSafe(s.containers[1])
        /\ m.serve # Nil => m.serve.name # Nil /\ s.name # Nil

\* What each executor refuses before it follows any pointer of the spec.
Unsupported(x, s) ==
  IF x = "kubernetes" THEN s.replicas > 0 /\ s.shards # Nil
  ELSE s.replicas > 1 \/ s.shards # Nil

\* The executor returns an error at the spec, and goes no further.
Refuses(x, s) == Unsupported(x, s) \/ (x = "aci" /\ Len(s.ports) > 1)

CreationSafe(x, m, s) ==
  /\ s # Nil
  /\ \/ Unsupported(x, s)
     \/ x = "kubernetes" /\ KubernetesSafe(m, s)
     \/ x = "docker" /\ DockerSafe(s)
     \/ x = "aci" /\ AciSafe(m, s)

\* the deletions: aci follows the name of the model and nothing of the spec
DeletionSafe(x, m, s) == IF x = "aci" THEN m.name # Nil ELSE s # Nil /\ s.name # Nil

SpecSafe(x, d, m, s) == IF d THEN DeletionSafe(x, m, s) ELSE CreationSafe(x, m, s)

\* createJob and deleteJob; the other executors know no jobs
JobSafe(x, d, j) ==
  x = "kubernetes" => j # Nil /\ j.name # Nil /\ (d \/ ContainersSafe(j.containers))

\* x executes m, deletes it if d: the i-th spec is refused
RefusedAt(x, d, m, i) == ~d /\ m.services[i] # Nil /\ Refuses(x, m.services[i])

Refused(x, d, m) == \E i \in 1..Len(m.services) : RefusedAt(x, d, m, i)

\* Execute follows no nil pointer as far as it goes.
ExecuteSafe(x, d, m) ==
  /\ \A i \in 1..Len(m.services) :
       (\E k \in 1..(i - 1) : RefusedAt(x, d, m, k)) \/ SpecSafe(x, d, m, m.services[i])
  /\ Refused(x, d, m) \/ Each(m.jobs, LAMBDA j : JobSafe(x, d, j))

\* A deployment by the kubernetes executor gets as far as `output`, which writes the
\* manifest of a workload into a plan file: at a spec that has one, before any spec that
\* is refused or stops it.
Outputs(m) ==
  \E i \in 1..Len(m.services) :
    LET s == m.services[i] IN
    /\ \A k \in 1..(i - 1) :
         ~RefusedAt("kubernetes", FALSE, m, k) /\ SpecSafe("kubernetes", FALSE, m, m.services[k])
    /\ ~RefusedAt("kubernetes", FALSE, m, i)
    /\ s # Nil /\ NamesSafe(m, s) /\ HasWorkload(s) /\ ContainersSafe(s.containers)

\* Logs: the label of the model, or the container of the first spec
LogsSafe(x, m) ==
  IF x = "kubernetes" THEN m.name # Nil
  ELSE m.services # <<>> /\ m.services[1] # Nil /\ m.services[1].name # Nil

-----------------------------------------------------------------------------
(* What Logs asks for, and what there is.                                     *)

Sharder(name) == name \o "-sharder"

Named(m, Test(_)) ==
  {m.services[i].name : i \in {k \in 1..Len(m.services) : Test(m.services[k])}}

\* metadata.labels.app of the pods that the kubernetes executor asks for
PodLabels(m) ==
  LET shards == Named(m, LAMBDA s : s.shards # Nil /\ s.shards > 0)
  IN  Named(m, LAMBDA s : s.replicas > 0) \cup shards \cup {Sharder(n) : n \in shards}
        \cup {m.jobs[i].name : i \in 1..Len(m.jobs)}

\* docker names a container like its spec, aci the one group like the model
Made(x, m) ==
  IF x = "kubernetes" THEN PodLabels(m)
  ELSE IF x = "docker" THEN Named(m, LAMBDA s : TRUE)
  ELSE IF m.services = <<>> THEN {} ELSE {m.name}

\* the selector of kubernetesCompiler.Logs
WatchedLabel(m) == m.name

\* the container, or the group, that the command of the others asks for
Watched(x, m) == IF x = "kubernetes" THEN WatchedLabel(m) ELSE m.services[1].name
=============================================================================

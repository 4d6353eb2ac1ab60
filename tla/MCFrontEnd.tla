----------------------------- MODULE MCFrontEnd -----------------------------
(* Instances of FrontEnd for TLC: documents, the repository's examples and the *)
(* ones that lack something, and the commands of each run.                     *)
EXTENDS FrontEnd, TLC

CONSTANTS r1, r2

Nginx    == [image |-> 1, env |-> <<>>]
Port80   == [number |-> 80]
Spec1(n) == [name |-> n, replicas |-> 1, shards |-> Nil, containers |-> <<Nginx>>, ports |-> <<Port80>>]
Shard(n) == [Spec1(n) EXCEPT !.replicas = 0, !.shards = 2]
Job(n)   == [name |-> n, containers |-> <<Nginx>>]
Doc(n, ss, js, serve) == [guid |-> 1, name |-> n, services |-> ss, jobs |-> js, serve |-> serve]
Of(n)    == [name |-> n]

Server   == Doc("a", <<Spec1("a")>>, <<>>, Of("a"))           \* service-example.json
Sharded  == Doc("b", <<Shard("a")>>, <<>>, Of("a"))           \* sharded-example.json
Single   == Doc("b", <<Spec1("a")>>, <<>>, Of("a"))           \* singleton-example.json
JobOnly  == Doc("a", <<>>, <<Job("b")>>, Nil)                 \* job-example.json
Unserved == [Server EXCEPT !.serve = Nil]                     \* replicated-example/compute.json
Portless == Doc("b", <<[Shard("a") EXCEPT !.ports = <<>>]>>, <<>>, Of("a"))
Bare     == Doc("b", <<[Spec1("b") EXCEPT !.containers = <<>>, !.ports = <<>>]>>, <<>>, Of("b"))
Pair     == Doc("b", <<[Spec1("a") EXCEPT !.ports = <<Port80, Port80>>], Spec1("b")>>, <<Job("a")>>, Of("b"))
Both     == Doc("a", <<[Shard("a") EXCEPT !.replicas = 2], Spec1("b")>>, <<>>, Of("b"))
NoEnvVal == Doc("a", <<[Spec1("a") EXCEPT !.containers = <<[image |-> 1, env |-> <<[name |-> 1, value |-> Nil]>>]>>]>>,
                <<>>, Of("a"))
NullSpec == Doc("b", <<Nil>>, <<>>, Of("a"))
NullJob  == Doc("b", <<>>, <<Nil>>, Nil)
NoName   == [Server EXCEPT !.name = Nil]
Blank    == [Server EXCEPT !.name = ""]
NoGuid   == [Sharded EXCEPT !.guid = Nil]

MCNames == {"a", "b"}
MCDocs  == {Server, Sharded, Single, JobOnly, Unserved, Portless, Bare, Pair, Both, NoEnvVal, NullSpec,
            NullJob, NoName, Blank, NoGuid}

Up(f, x) == [file |-> f, name |-> Nil, host |-> TRUE, exec |-> x, dryrun |-> FALSE, del |-> FALSE,
             deploy |-> TRUE, attach |-> FALSE]
By(n, x) == [Up(Nil, x) EXCEPT !.name = n]
Down(c)     == [c EXCEPT !.del = TRUE]
Dry(c)      == [c EXCEPT !.dryrun = TRUE]
Follow(c)   == [c EXCEPT !.attach = TRUE]
Only(c)     == [Follow(c) EXCEPT !.deploy = FALSE]
Offline(c)  == [c EXCEPT !.host = FALSE]

OneCommands ==
  {Follow(Up(f, "kubernetes")) : f \in MCDocs}
  \cup {Follow(Up(f, "docker")) : f \in {Server, Pair, Bare, NoEnvVal}}
  \cup {Follow(Up(f, "aci")) : f \in {Server, Pair, NullSpec}}
  \cup {Dry(Down(Up(f, "kubernetes"))) : f \in {Server, NullJob, Pair}}
  \cup {Offline(Up(f, "kubernetes")) : f \in {NoName, Server}}
  \cup {Follow(By(n, "kubernetes")) : n \in MCNames}
  \cup {Down(By("a", "aci")), Down(By("b", "docker")), Only(By("b", "kubernetes")),
        Offline(By("a", "kubernetes")), By(Nil, "docker"), By("b", "other")}
  \cup {[Up(Server, "docker") EXCEPT !.name = "b"]}

\* one process is asked anything, the other shares the registry with it
MCCommands ==
  r1 :> OneCommands @@
  r2 :> {Up(Sharded, "kubernetes"), Up(NoGuid, "docker"), Down(By("a", "kubernetes")),
         [Up(Server, "kubernetes") EXCEPT !.name = "a"]}

\* what other clients ask for
Puts(n, ds) == {[op |-> "put", name |-> n, doc |-> d] : d \in ds}
MCWrites ==
  Puts("a", {Nil, NoName, Sharded, NullSpec}) \cup Puts("b", {Server, NoGuid})
  \cup {[op |-> "delete", name |-> "a", doc |-> Nil]}

\* the command lines of README.md
ReadmeTearDown == r1 :> {[Down(Up(f, "kubernetes")) EXCEPT !.host = FALSE, !.deploy = FALSE] : f \in {Server, Sharded}}
ReadmeAttach   ==
  r1 :> ({Offline(Follow(Up(f, "kubernetes"))) : f \in {Server, Sharded}}
         \cup {Offline(Follow(Up(f, x))) : f \in {Server, Single}, x \in {"docker", "aci"}})
=============================================================================

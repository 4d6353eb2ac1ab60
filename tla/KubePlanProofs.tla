--------------------------- MODULE KubePlanProofs ---------------------------
(* Theorems about KubePlan, for every set of runs, of commands and of names.  *)
EXTENDS KubePlan, SequenceTheorems, TLAPS

-----------------------------------------------------------------------------
(* The plan of an item: its calls are well typed, a deployment only creates   *)
(* and a deletion only deletes.                                               *)

LEMMA ModelTyped ==
  ASSUME NEW c \in Commands
  PROVE  /\ c.model \in Models
         /\ c.delete \in BOOLEAN /\ c.dryrun \in BOOLEAN
         /\ Len(c.model.services) \in Nat /\ Len(c.model.jobs) \in Nat
         /\ Items(c) \in Nat
         /\ \A i \in 1..Len(c.model.services) : c.model.services[i] \in Specs
         /\ \A i \in 1..Len(c.model.jobs) : c.model.jobs[i] \in Names
<1>2. c.model.services \in Seq(Specs) /\ c.model.jobs \in Seq(Names)
  BY DEF Commands, Models
<1>3. c.model \in Models /\ c.delete \in BOOLEAN /\ c.dryrun \in BOOLEAN
  BY DEF Commands
<1>4. Len(c.model.services) \in Nat /\ Len(c.model.jobs) \in Nat
  BY <1>2
<1>5. \A i \in 1..Len(c.model.services) : c.model.services[i] \in Specs
  BY <1>2, ElementOfSeq
<1>6. \A i \in 1..Len(c.model.jobs) : c.model.jobs[i] \in Names
  BY <1>2, ElementOfSeq
<1>7. Items(c) \in Nat
  <2> DEFINE n == Len(c.model.services)
             j == Len(c.model.jobs)
  <2>1. n \in Nat /\ j \in Nat /\ Items(c) = n + j
    BY <1>4 DEF Items
  <2> HIDE DEF n, j
  <2> QED
    BY <2>1
<1> QED
  BY <1>3, <1>4, <1>5, <1>6, <1>7

\* Sequences of up to four given elements, the longest list of calls of an item.
LEMMA ShortSeqs ==
  ASSUME NEW S, NEW w \in S, NEW x \in S, NEW y \in S, NEW z \in S
  PROVE  /\ <<w>> \in Seq(S) /\ <<w, x>> \in Seq(S) /\ <<w, x, y, z>> \in Seq(S)
         /\ \A k \in 1..4 : <<w, x, y, z>>[k] \in {w, x, y, z}
         /\ \A k \in 1..2 : <<w, x>>[k] \in {w, x}
         /\ Len(<<w, x, y, z>>) = 4 /\ Len(<<w, x>>) = 2 /\ Len(<<w>>) = 1
OBVIOUS

LEMMA NamesTyped ==
  ASSUME NEW s \in Specs
  PROVE  s.name \in Names /\ s.name \in SpecNames /\ Sharder[s.name] \in Names
BY ConstantsAssumption DEF Specs

\* A call is well typed when its name is.
LEMMA CallTyping ==
  ASSUME NEW n \in Names, NEW flag \in BOOLEAN
  PROVE  /\ \A kind \in Kinds : Create(kind, n, flag) \in Calls /\ Delete(kind, n, flag) \in Calls
         /\ "Deployment" \in Kinds /\ "StatefulSet" \in Kinds /\ "Service" \in Kinds
         /\ "Job" \in Kinds
BY DEF Create, Delete, Calls, Objects, Kinds

\* Sequences put together.
LEMMA Joined ==
  ASSUME NEW w, NEW x
  PROVE  /\ <<>> \o <<>> = <<>> /\ <<w>> \o <<>> = <<w>> /\ <<w>> \o <<x>> = <<w, x>>
<1> DEFINE S == {w, x}
<1>1. /\ <<>> \in Seq(S) /\ <<w>> \in Seq(S) /\ <<x>> \in Seq(S) /\ <<w, x>> \in Seq(S)
  OBVIOUS
<1> HIDE DEF S
<1>2. <<>> \o <<>> = <<>> /\ <<w>> \o <<>> = <<w>>
  BY <1>1, ConcatEmptySeq
<1>3. <<w>> \o <<x>> = <<w, x>>
  <2> DEFINE c == <<w>> \o <<x>>
             d == <<w, x>>
  <2>1. c \in Seq(S) /\ Len(c) = 2 /\ c[1] = w /\ c[2] = x
    BY <1>1, ConcatProperties
  <2>2. d \in Seq(S) /\ Len(d) = 2 /\ d[1] = w /\ d[2] = x
    BY <1>1
  <2> HIDE DEF c, d
  <2>3. \A i \in 1..Len(c) : c[i] = d[i]
    BY <2>1, <2>2
  <2>4. c = d
    BY <2>1, <2>2, <2>3, SeqEqual
  <2> QED
    BY <2>4 DEF c, d
<1> QED
  BY <1>2, <1>3

\* The same for two pairs.
LEMMA JoinedPairs ==
  ASSUME NEW w, NEW x, NEW y, NEW z
  PROVE  <<w, x>> \o <<y, z>> = <<w, x, y, z>>
<1> DEFINE S == {w, x, y, z}
<1>0. <<w, x>> \in Seq(S) /\ <<y, z>> \in Seq(S) /\ <<w, x, y, z>> \in Seq(S)
  OBVIOUS
<1> HIDE DEF S
<1> DEFINE c == <<w, x>> \o <<y, z>>
           d == <<w, x, y, z>>
<1>1. c \in Seq(S) /\ Len(c) = 4 /\ c[1] = w /\ c[2] = x /\ c[3] = y /\ c[4] = z
  BY <1>0, ConcatProperties
<1>2. d \in Seq(S) /\ Len(d) = 4 /\ d[1] = w /\ d[2] = x /\ d[3] = y /\ d[4] = z
  BY <1>0
<1> HIDE DEF c, d
<1>3. \A i \in 1..Len(c) : c[i] = d[i]
  BY <1>1, <1>2
<1>4. c = d
  BY <1>1, <1>2, <1>3, SeqEqual
<1> QED
  BY <1>4 DEF c, d

\* The plans of real runs.
WetReplicated(s, public) == DeployReplicated(s, public, FALSE)
WetSharded(s, public) == DeploySharded(s, public, FALSE)
WetDeploy(m, s) == DeployCalls(m, s, FALSE)
WetDelete(s) == DeleteCalls(s, FALSE)

\* What they are, written out.
LEMMA WetPlans ==
  ASSUME NEW s, NEW public
  PROVE  /\ WetReplicated(s, public) =
              IF HasPorts(s)
              THEN <<Create("Deployment", s.name, FALSE), Create("Service", s.name, public)>>
              ELSE <<Create("Deployment", s.name, FALSE)>>
         /\ WetSharded(s, public) =
              IF HasPorts(s)
              THEN <<Create("StatefulSet", s.name, FALSE), Create("Deployment", Sharder[s.name], FALSE),
                     Create("Service", s.name, FALSE), Create("Service", Sharder[s.name], public)>>
              ELSE <<Create("StatefulSet", s.name, FALSE)>>
<1> DEFINE workload == Create("Deployment", s.name, FALSE)
           front    == Create("Service", s.name, public)
           set      == Create("StatefulSet", s.name, FALSE)
           router   == Create("Deployment", Sharder[s.name], FALSE)
           headless == Create("Service", s.name, FALSE)
           way      == Create("Service", Sharder[s.name], public)
<1>1. /\ WetReplicated(s, public) = <<workload>> \o (IF HasPorts(s) THEN <<front>> ELSE <<>>)
      /\ WetSharded(s, public) =
           (<<set>> \o (IF HasPorts(s) THEN <<router>> ELSE <<>>))
           \o (IF HasPorts(s) THEN <<headless>> \o <<way>> ELSE <<>>)
  BY DEF WetReplicated, WetSharded, DeployReplicated, DeploySharded, deploy, createLoadBalancedService, deployStateful,
         createStatefulService, UnlessDry
<1> HIDE DEF workload, front, set, router, headless, way
<1>2. CASE HasPorts(s)
  <2>1. WetReplicated(s, public) = <<workload, front>>
    BY <1>1, <1>2, Joined
  <2>2. WetSharded(s, public) = <<set, router>> \o <<headless, way>>
    BY <1>1, <1>2, Joined
  <2>3. WetSharded(s, public) = <<set, router, headless, way>>
    BY <2>2, JoinedPairs
  <2>4. WetReplicated(s, public) = <<Create("Deployment", s.name, FALSE), Create("Service", s.name, public)>>
    BY <2>1, Zenon DEF workload, front
  <2>5. WetSharded(s, public) =
          <<Create("StatefulSet", s.name, FALSE), Create("Deployment", Sharder[s.name], FALSE),
            Create("Service", s.name, FALSE), Create("Service", Sharder[s.name], public)>>
    BY <2>3, Zenon DEF set, router, headless, way
  <2> QED
    BY <1>2, <2>4, <2>5, Zenon
<1>3. CASE ~HasPorts(s)
  BY <1>1, <1>3, Joined DEF workload, set
<1> QED
  BY <1>2, <1>3

\* The plans of dry runs: of workloads and Services there is nothing in them.
LEMMA DryPlans ==
  ASSUME NEW m, NEW s, NEW public
  PROVE  /\ DeployReplicated(s, public, TRUE) = <<>> /\ DeploySharded(s, public, TRUE) = <<>>
         /\ DeployCalls(m, s, TRUE) = <<>> /\ DeleteCalls(s, TRUE) = <<>>
<1>1. /\ DeployReplicated(s, public, TRUE) = <<>> \o (IF HasPorts(s) THEN <<>> ELSE <<>>)
      /\ DeploySharded(s, public, TRUE) =
           (<<>> \o (IF HasPorts(s) THEN <<>> ELSE <<>>))
           \o (IF HasPorts(s) THEN <<>> \o <<>> ELSE <<>>)
  BY DEF DeployReplicated, DeploySharded, deploy, createLoadBalancedService, deployStateful,
         createStatefulService, UnlessDry
<1>2. /\ DeployReplicated(s, IsPublic(m, s), TRUE) = <<>> \o (IF HasPorts(s) THEN <<>> ELSE <<>>)
      /\ DeploySharded(s, IsPublic(m, s), TRUE) =
           (<<>> \o (IF HasPorts(s) THEN <<>> ELSE <<>>))
           \o (IF HasPorts(s) THEN <<>> \o <<>> ELSE <<>>)
  BY DEF DeployReplicated, DeploySharded, deploy, createLoadBalancedService, deployStateful,
         createStatefulService, UnlessDry
<1>3. DeployCalls(m, s, TRUE) = <<>>
  BY <1>2, Joined DEF DeployCalls
<1>4. DeleteCalls(s, TRUE) = <<>>
  BY DEF DeleteCalls, DeleteSharded, DeleteReplicated
<1> QED
  BY <1>1, <1>3, <1>4, Joined

LEMMA DeployCallsTyped ==
  ASSUME NEW c \in Commands, NEW s \in Specs
  PROVE  DeployCalls(c.model, s, c.dryrun) \in Seq(Calls)
<1> DEFINE public == IsPublic(c.model, s)
           workload == Create("Deployment", s.name, FALSE)
           set      == Create("StatefulSet", s.name, FALSE)
           router   == Create("Deployment", Sharder[s.name], FALSE)
           headless == Create("Service", s.name, FALSE)
           front    == Create("Service", s.name, public)
           way      == Create("Service", Sharder[s.name], public)
<1>1. public \in BOOLEAN
  BY ModelTyped DEF IsPublic, Models
<1>2. /\ workload \in Calls /\ set \in Calls /\ router \in Calls
      /\ headless \in Calls /\ front \in Calls /\ way \in Calls
  <2> HIDE DEF public
  <2> QED
    BY <1>1, NamesTyped, CallTyping
<1>3. WetReplicated(s, public) \in {<<workload>>, <<workload, front>>}
  BY WetPlans
<1>4. WetSharded(s, public) \in {<<set>>, <<set, router, headless, way>>}
  BY WetPlans
<1>5. /\ <<workload>> \in Seq(Calls) /\ <<workload, front>> \in Seq(Calls)
      /\ <<set>> \in Seq(Calls) /\ <<set, router, headless, way>> \in Seq(Calls)
  <2> HIDE DEF workload, set, router, headless, front, way
  <2> QED
    BY <1>2, ShortSeqs
<1>6. /\ WetReplicated(s, public) \in Seq(Calls)
      /\ WetSharded(s, public) \in Seq(Calls)
  BY <1>3, <1>4, <1>5
<1>7. WetDeploy(c.model, s) \in
        {<<>>, WetReplicated(s, public), WetSharded(s, public)}
  BY DEF WetDeploy, WetReplicated, WetSharded, DeployCalls
<1>8. DeployCalls(c.model, s, c.dryrun) \in {<<>>, WetDeploy(c.model, s)}
  BY ModelTyped, DryPlans DEF WetDeploy
<1> QED
  BY <1>6, <1>7, <1>8, EmptySeq

LEMMA DeleteCallsTyped ==
  ASSUME NEW s \in Specs, NEW dry
  PROVE  DeleteCalls(s, dry) \in Seq(Calls)
<1> DEFINE router   == Delete("Deployment", Sharder[s.name], TRUE)
           set      == Delete("StatefulSet", s.name, TRUE)
           way      == Delete("Service", Sharder[s.name], TRUE)
           headless == Delete("Service", s.name, TRUE)
           workload == Delete("Deployment", s.name, TRUE)
           front    == Delete("Service", s.name, FALSE)
<1>1. /\ router \in Calls /\ set \in Calls /\ way \in Calls
      /\ headless \in Calls /\ workload \in Calls /\ front \in Calls
  BY NamesTyped, CallTyping
<1>2. DeleteCalls(s, dry) \in
        {<<>>, <<router, set, way, headless>>, <<workload>>, <<workload, front>>}
  BY DEF DeleteCalls, DeleteSharded, DeleteReplicated
<1>3. /\ <<router, set, way, headless>> \in Seq(Calls)
      /\ <<workload>> \in Seq(Calls) /\ <<workload, front>> \in Seq(Calls)
  <2> HIDE DEF router, set, way, headless, workload, front
  <2> QED
    BY <1>1, ShortSeqs
<1> QED
  BY <1>2, <1>3, EmptySeq

LEMMA JobCallsTyped ==
  ASSUME NEW c \in Commands, NEW j \in Names
  PROVE  JobCalls(c, j) \in Seq(Calls)
<1> DEFINE make == Create("Job", j, FALSE)
           drop == Delete("Job", j, FALSE)
<1>1. make \in Calls /\ drop \in Calls
  BY CallTyping
<1>2. JobCalls(c, j) \in {<<make>>, <<drop>>}
  BY DEF JobCalls
<1>3. <<make>> \in Seq(Calls) /\ <<drop>> \in Seq(Calls)
  <2> HIDE DEF make, drop
  <2> QED
    BY <1>1, ShortSeqs
<1> QED
  BY <1>2, <1>3

LEMMA CallsTyped ==
  ASSUME NEW c \in Commands, NEW i \in 1..Items(c)
  PROVE  ItemCalls(c, i) \in Seq(Calls)
<1>1. CASE IsService(c, i)
  <2>1. c.model.services[i] \in Specs
    BY <1>1, ModelTyped DEF IsService
  <2> QED
    BY <1>1, <2>1, DeployCallsTyped, DeleteCallsTyped DEF ItemCalls
<1>2. CASE ~IsService(c, i)
  <2> DEFINE n == Len(c.model.services)
             j == Len(c.model.jobs)
  <2>1. i - n \in 1..j
    <3>1. n \in Nat /\ j \in Nat /\ Items(c) = n + j
      BY ModelTyped DEF Items
    <3>2. ~(i <= n)
      BY <1>2 DEF IsService
    <3> HIDE DEF n, j
    <3> QED
      BY <3>1, <3>2
  <2>2. c.model.jobs[i - Len(c.model.services)] \in Names
    BY <2>1, ModelTyped
  <2> QED
    BY <1>2, <2>2, JobCallsTyped DEF ItemCalls
<1> QED
  BY <1>1, <1>2

\* ItemEnd is one of the three ways an item can end.
LEMMA EndTyped ==
  ASSUME NEW c, NEW i
  PROVE  ItemEnd(c, i) \in {"next", "error", "panic"}
BY DEF ItemEnd, DeployEnd

\* The elements of the sequences of which plans are made.
LEMMA ShortRange ==
  ASSUME NEW a, NEW b, NEW c, NEW d, NEW k
  PROVE  /\ k \in 1..Len(<<a>>) => <<a>>[k] = a
         /\ k \in 1..Len(<<a, b>>) => <<a, b>>[k] \in {a, b}
         /\ k \in 1..Len(<<a, b, c, d>>) => <<a, b, c, d>>[k] \in {a, b, c, d}
OBVIOUS

LEMMA DeletionsDelete ==
  ASSUME NEW s, NEW k \in 1..Len(WetDelete(s))
  PROVE  WetDelete(s)[k].op = "delete"
<1> DEFINE w == Delete("Deployment", Sharder[s.name], TRUE)
           x == Delete("StatefulSet", s.name, TRUE)
           y == Delete("Service", Sharder[s.name], TRUE)
           z == Delete("Service", s.name, TRUE)
           a == Delete("Deployment", s.name, TRUE)
           b == Delete("Service", s.name, FALSE)
<1>1. \A call \in {w, x, y, z, a, b} : call.op = "delete"
  BY DEF Delete
<1>2. \/ WetDelete(s) = <<w, x, y, z>>
      \/ WetDelete(s) = <<a, b>>
      \/ WetDelete(s) = <<a>>
  BY DEF WetDelete, DeleteCalls, DeleteSharded, DeleteReplicated
<1> PICK calls : calls = WetDelete(s)
  OBVIOUS
<1>0. k \in 1..Len(calls)
  OBVIOUS
<1> HIDE DEF w, x, y, z, a, b
<1>3. calls[k] \in {w, x, y, z, a, b}
  <2>1. CASE calls = <<w, x, y, z>>
    BY <1>0, <2>1, ShortRange
  <2>2. CASE calls = <<a, b>>
    BY <1>0, <2>2, ShortRange
  <2>3. CASE calls = <<a>>
    BY <1>0, <2>3, ShortRange
  <2> QED
    BY <1>2, <2>1, <2>2, <2>3
<1> QED
  BY <1>1, <1>3

LEMMA DeployReplicatedMeans ==
  ASSUME NEW s, NEW public \in BOOLEAN, NEW k \in 1..Len(WetReplicated(s, public))
  PROVE  /\ WetReplicated(s, public)[k].op = "create"
         /\ WetReplicated(s, public)[k].flag =>
              public /\ WetReplicated(s, public)[k].obj = <<"Service", s.name>>
<1> DEFINE a == Create("Deployment", s.name, FALSE)
           b == Create("Service", s.name, public)
<1>1. /\ a.op = "create" /\ b.op = "create" /\ a.flag = FALSE /\ b.flag = public
      /\ b.obj = <<"Service", s.name>>
  BY DEF Create
<1>2. WetReplicated(s, public) = <<a, b>> \/ WetReplicated(s, public) = <<a>>
  BY WetPlans
<1> HIDE DEF a, b
<1>3. WetReplicated(s, public)[k] \in {a, b}
  <2>1. CASE WetReplicated(s, public) = <<a, b>>
    BY <2>1, ShortRange
  <2>2. CASE WetReplicated(s, public) = <<a>>
    BY <2>2, ShortRange
  <2> QED
    BY <1>2, <2>1, <2>2
<1> QED
  BY <1>1, <1>3

\* The plan of a spec, by the flags of the command line.
LEMMA ItemPlans ==
  ASSUME NEW c \in Commands, NEW i, IsService(c, i)
  PROVE  /\ c.dryrun => ItemCalls(c, i) = <<>>
         /\ ~c.dryrun /\ c.delete => ItemCalls(c, i) = WetDelete(c.model.services[i])
         /\ ~c.dryrun /\ ~c.delete =>
              ItemCalls(c, i) = WetDeploy(c.model, c.model.services[i])
<1>1. c.dryrun = TRUE \/ c.dryrun = FALSE
  BY ModelTyped
<1>2. ItemCalls(c, i) = IF c.delete THEN DeleteCalls(c.model.services[i], c.dryrun)
                        ELSE DeployCalls(c.model, c.model.services[i], c.dryrun)
  BY DEF ItemCalls
<1> QED
  BY <1>1, <1>2, DryPlans DEF WetDelete, WetDeploy

\* A plan that deploys only creates, a plan that deletes only deletes, and what
\* a deployment exposes is the front door of its model.
LEMMA CallsMeaning ==
  ASSUME NEW c \in Commands, NEW i \in 1..Items(c), NEW k \in 1..Len(ItemCalls(c, i))
  PROVE  /\ ItemCalls(c, i)[k].op = "create" => ~c.delete
         /\ ItemCalls(c, i)[k].op = "delete" => c.delete
         /\ ItemCalls(c, i)[k].op = "create" /\ ItemCalls(c, i)[k].flag
              => FrontDoor(c.model, ItemCalls(c, i)[k].obj)
<1> DEFINE m == c.model
           s == m.services[i]
           call == ItemCalls(c, i)[k]
<1>1. CASE ~IsService(c, i)
  BY <1>1 DEF ItemCalls, JobCalls, Create, Delete
<1>2. CASE IsService(c, i) /\ c.dryrun
  BY <1>2, ItemPlans
<1>3. CASE IsService(c, i) /\ ~c.dryrun /\ c.delete
  <2>1. ItemCalls(c, i) = WetDelete(s)
    BY <1>3, ItemPlans
  <2>2. call.op = "delete"
    BY <2>1, DeletionsDelete
  <2> QED
    BY <2>2, <1>3
<1>4. CASE IsService(c, i) /\ ~c.dryrun /\ ~c.delete
  <2>1. ItemCalls(c, i) = WetDeploy(m, s)
    BY <1>4, ItemPlans
  <2>2. i \in 1..Len(m.services)
    BY <1>4, ModelTyped DEF IsService
  <2>3. CASE ItemCalls(c, i) = <<>>
    BY <2>3
  <2>4. CASE ~Contradicts(s) /\ s.replicated
                /\ ItemCalls(c, i) = WetReplicated(s, IsPublic(m, s))
    <3>1. /\ call.op = "create"
          /\ call.flag => IsPublic(m, s) /\ call.obj = <<"Service", s.name>>
      <4>1. IsPublic(m, s) \in BOOLEAN
        BY <2>2, ModelTyped DEF IsPublic, Models
      <4> QED
        BY <2>4, <4>1, DeployReplicatedMeans
    <3>2. s.shard # "some"
      BY <2>4 DEF Contradicts
    <3> QED
      BY <3>1, <3>2, <2>2, <1>4 DEF FrontDoor, Door, IsPublic
  <2>5. CASE s.shard = "some" /\ ItemCalls(c, i) = WetSharded(s, IsPublic(m, s))
    <3>1. /\ call.op = "create"
          /\ call.flag => IsPublic(m, s) /\ call.obj = <<"Service", Sharder[s.name]>>
      <4> DEFINE n == s.name
                 sn == Sharder[s.name]
                 p == IsPublic(m, s)
      <4>1. CASE HasPorts(s)
        <5> DEFINE w == Create("StatefulSet", n, FALSE)
                   x == Create("Deployment", sn, FALSE)
                   y == Create("Service", n, FALSE)
                   z == Create("Service", sn, p)
        <5>1. ItemCalls(c, i) = <<w, x, y, z>>
          BY <2>5, <4>1, WetPlans
        <5> HIDE DEF w, x, y, z, n, sn, p
        <5>2. k \in 1..4
          BY <5>1
        <5>3. call \in {w, x, y, z}
          BY <5>1, <5>2
        <5> QED
          BY <5>3 DEF Create, n, sn, p, w, x, y, z
      <4>2. CASE ~HasPorts(s)
        <5>1. ItemCalls(c, i) = <<Create("StatefulSet", n, FALSE)>>
          BY <2>5, <4>2, WetPlans
        <5> QED
          BY <5>1 DEF Create
      <4> QED
        BY <4>1, <4>2
    <3> QED
      BY <3>1, <2>2, <2>5, <1>4 DEF FrontDoor, Door, IsPublic
  <2> QED
    BY <2>1, <2>3, <2>4, <2>5 DEF WetDeploy, WetReplicated, WetSharded, DeployCalls
<1> QED
  BY <1>1, <1>2, <1>3, <1>4
-----------------------------------------------------------------------------
(* Type correctness                                                           *)

\* The next call of a run is a call of the item its index names.
LEMMA CallTyped ==
  ASSUME TypeOK, NEW r \in Runs, HasCall(r)
  PROVE  /\ cmd[r] \in Commands
         /\ ix[r] \in 1..Items(cmd[r])
         /\ step[r] \in 1..Len(ItemCalls(cmd[r], ix[r]))
         /\ Call(r) \in Calls
         /\ Call(r).obj \in Objects
<1>1. cmd[r] \in Commands /\ ix[r] \in Nat \ {0} /\ step[r] \in Nat \ {0}
  BY DEF TypeOK
<1>2. ix[r] \in 1..Items(cmd[r])
  BY <1>1, ModelTyped DEF HasCall, Running
<1>3. ItemCalls(cmd[r], ix[r]) \in Seq(Calls)
  BY <1>1, <1>2, CallsTyped
<1>4. Len(ItemCalls(cmd[r], ix[r])) \in Nat
  BY <1>3, LenProperties
<1>5. step[r] \in 1..Len(ItemCalls(cmd[r], ix[r]))
  BY <1>1, <1>4 DEF HasCall
<1>6. Call(r) \in Calls
  BY <1>3, <1>5, ElementOfSeq DEF Call
<1> QED
  BY <1>1, <1>2, <1>5, <1>6 DEF Calls

LEMMA EffectTyped ==
  ASSUME TypeOK, NEW r \in Runs, HasCall(r), Effect(r)
  PROVE  /\ cluster' \in [Objects -> {"absent", "live", "terminating"}]
         /\ maker' \in [Objects -> Runs \cup {NoRun}]
         /\ exposed' \in SUBSET Objects
<1> DEFINE o == Call(r).obj
<1>1. o \in Objects
  BY CallTyped
<1> HIDE DEF o
<1>2. CASE APICreate(r, o, Call(r).flag)
  BY <1>1, <1>2 DEF APICreate, Takes, TypeOK
<1>3. CASE APIDelete(o, Call(r).flag)
  BY <1>3 DEF APIDelete, TypeOK
<1> QED
  BY <1>2, <1>3 DEF Effect, o

LEMMA TypeInit == Init => TypeOK
BY ConstantsAssumption DEF Init, TypeOK, Stages

LEMMA TypeStep == TypeOK /\ [Next]_vars => TypeOK'
<1> SUFFICES ASSUME TypeOK, [Next]_vars PROVE TypeOK'
  OBVIOUS
<1>1. ASSUME NEW r \in Runs, Begin(r) PROVE TypeOK'
  BY <1>1 DEF Begin, TypeOK, Stages, objVars
<1>2. ASSUME NEW r \in Runs, Succeeds(r) PROVE TypeOK'
  <2>1. step' \in [Runs -> Nat \ {0}] /\ UNCHANGED <<cmd, status, ix>>
    BY <1>2 DEF Succeeds, NextCall, TypeOK
  <2> QED
    BY <1>2, <2>1, EffectTyped DEF Succeeds, TypeOK
<1>3. ASSUME NEW r \in Runs, Conflicts(r) PROVE TypeOK'
  BY <1>3 DEF Conflicts, End, TypeOK, Stages, objVars
<1>4. ASSUME NEW r \in Runs, Misses(r) PROVE TypeOK'
  BY <1>4 DEF Misses, End, TypeOK, Stages, objVars
<1>5. ASSUME NEW r \in Runs, NextItem(r) PROVE TypeOK'
  BY <1>5 DEF NextItem, TypeOK, objVars
<1>6. ASSUME NEW r \in Runs, Stops(r) PROVE TypeOK'
  <2>1. ItemEnd(cmd[r], ix[r]) \in Stages
    BY <1>6, EndTyped DEF Stops, Stages
  <2> QED
    BY <1>6, <2>1 DEF Stops, End, TypeOK, objVars
<1>7. ASSUME NEW r \in Runs, Finishes(r) PROVE TypeOK'
  BY <1>7 DEF Finishes, End, TypeOK, Stages, objVars
<1>8. ASSUME NEW r \in Runs, Dies(r) PROVE TypeOK'
  BY <1>8 DEF Dies, End, TypeOK, Stages, objVars
<1>9. ASSUME NEW r \in Runs, LosesAnswer(r) PROVE TypeOK'
  <2>1. status' \in [Runs -> Stages] /\ UNCHANGED <<cmd, ix, step>>
    BY <1>9 DEF LosesAnswer, End, TypeOK, Stages
  <2> QED
    BY <1>9, <2>1, EffectTyped DEF LosesAnswer, TypeOK
<1>10. ASSUME NEW o \in Objects, Collect(o) PROVE TypeOK'
  BY <1>10 DEF Collect, TypeOK, runVars
<1>11. CASE UNCHANGED vars
  BY <1>11 DEF vars, TypeOK
<1> QED
  BY <1>1, <1>2, <1>3, <1>4, <1>5, <1>6, <1>7, <1>8, <1>9, <1>10, <1>11 DEF Next, Execute

\* Every reachable state of the plans and of the cluster is well typed.
THEOREM TypeCorrect == Spec => []TypeOK
BY TypeInit, TypeStep, PTL DEF Spec
-----------------------------------------------------------------------------
(* Accounted is inductive together with TypeOK: what a run has issued or      *)
(* reached only grows, a successful Create finds its name free, and every     *)
(* Delete is the work of a delete run that has reached the object.            *)

\* Runs only go forward: a run stays where it is, has a call answered, or goes
\* on to the next item.
Forward(d) ==
  /\ cmd' = cmd
  /\ status[d] # "idle" => status'[d] # "idle"
  /\ \/ ix'[d] = ix[d] /\ step'[d] = step[d]
     \/ ix'[d] = ix[d] /\ step'[d] = step[d] + 1 /\ Succeeds(d)
     \/ ix'[d] = ix[d] + 1 /\ step'[d] = 1 /\ NextItem(d)

LEMMA Progress ==
  ASSUME TypeOK, [Next]_vars, NEW d \in Runs
  PROVE  Forward(d)
<1>1. ASSUME NEW r \in Runs, Begin(r) PROVE Forward(d)
  BY <1>1 DEF Begin, Forward, TypeOK
<1>2. ASSUME NEW r \in Runs, Succeeds(r) PROVE Forward(d)
  <2>1. CASE d = r
    BY <1>2, <2>1 DEF Succeeds, NextCall, Forward, TypeOK
  <2>2. CASE d # r
    BY <1>2, <2>2 DEF Succeeds, NextCall, Forward, TypeOK
  <2> QED
    BY <2>1, <2>2
<1>3. ASSUME NEW r \in Runs, NEW how \in Stages \ {"idle"}, End(r, how) PROVE Forward(d)
  BY <1>3 DEF End, Forward, TypeOK
<1>4. ASSUME NEW r \in Runs, NextItem(r) PROVE Forward(d)
  <2>1. CASE d = r
    BY <1>4, <2>1 DEF NextItem, Forward, TypeOK
  <2>2. CASE d # r
    BY <1>4, <2>2 DEF NextItem, Forward, TypeOK
  <2> QED
    BY <2>1, <2>2
<1>5. ASSUME NEW o \in Objects, Collect(o) PROVE Forward(d)
  BY <1>5 DEF Collect, runVars, Forward
<1>6. CASE UNCHANGED vars
  BY <1>6 DEF vars, Forward
<1>7. ASSUME NEW r \in Runs,
             Conflicts(r) \/ Misses(r) \/ Stops(r) \/ Finishes(r) \/ Dies(r) \/ LosesAnswer(r)
      PROVE  \E how \in Stages \ {"idle"} : End(r, how)
  <2>1. Stops(r) => ItemEnd(cmd[r], ix[r]) \in Stages \ {"idle"}
    BY EndTyped DEF Stops, Stages
  <2> QED
    BY <1>7, <2>1 DEF Conflicts, Misses, Stops, Finishes, Dies, LosesAnswer, Stages
<1> QED
  BY <1>1, <1>2, <1>3, <1>4, <1>5, <1>6, <1>7 DEF Next, Execute

LEMMA ReachedGrows ==
  ASSUME TypeOK, [Next]_vars, NEW d \in Runs, NEW o \in Objects, Reached(d, o)
  PROVE  Reached(d, o)'
<1>1. Forward(d) /\ ix[d] \in Nat /\ step[d] \in Nat
  BY Progress DEF TypeOK
<1>2. PICK i \in 1..Items(cmd[d]) : \E k \in 1..Len(ItemCalls(cmd[d], i)) :
        (i < ix[d] \/ (i = ix[d] /\ k <= step[d])) /\ CallOn(d, i, k, o)
  BY DEF Reached
<1>3. PICK k \in 1..Len(ItemCalls(cmd[d], i)) :
        (i < ix[d] \/ (i = ix[d] /\ k <= step[d])) /\ CallOn(d, i, k, o)
  BY <1>2
<1>4. i < ix'[d] \/ (i = ix'[d] /\ k <= step'[d])
  <2> HIDE DEF Forward
  <2>1. i \in Int /\ (i < ix[d] \/ (i = ix[d] /\ k <= step[d]))
    BY <1>3
  <2>2. CASE ix'[d] = ix[d] /\ step'[d] \in {step[d], step[d] + 1}
    <3>1. k <= step[d] => k <= step[d] + 1
      BY <1>1
    <3> QED
      BY <2>1, <2>2, <3>1
  <2>3. CASE ix'[d] = ix[d] + 1
    BY <1>1, <2>1, <2>3
  <2> QED
    BY <1>1, <2>2, <2>3 DEF Forward
<1>5. cmd' = cmd /\ status'[d] # "idle"
  BY <1>1 DEF Forward, Reached
<1>6. CallOn(d, i, k, o)'
  BY <1>3, <1>5 DEF CallOn
<1> QED
  BY <1>3, <1>4, <1>5, <1>6 DEF Reached

\* r has had the call c answered, and went on
IssuedCall(r, c) ==
  \E i \in 1..Items(cmd[r]) : \E k \in 1..Len(ItemCalls(cmd[r], i)) :
    /\ i < ix[r] \/ (i = ix[r] /\ k < step[r])
    /\ ItemCalls(cmd[r], i)[k] = c

\* A run has only issued more than before if a call of its own has succeeded.
LEMMA IssuedCallByCalling ==
  ASSUME TypeOK, [Next]_vars, NEW r \in Runs, NEW c, IssuedCall(r, c)'
  PROVE  IssuedCall(r, c) \/ (Succeeds(r) /\ Call(r) = c)
<1>1. Forward(r) /\ ix[r] \in Nat /\ step[r] \in Nat /\ cmd[r] \in Commands
  BY Progress DEF TypeOK
<1>2. PICK i \in 1..Items(cmd[r]) : \E k \in 1..Len(ItemCalls(cmd[r], i)) :
        (i < ix'[r] \/ (i = ix'[r] /\ k < step'[r])) /\ ItemCalls(cmd[r], i)[k] = c
  BY <1>1 DEF IssuedCall, Forward
<1>3. PICK k \in 1..Len(ItemCalls(cmd[r], i)) :
        (i < ix'[r] \/ (i = ix'[r] /\ k < step'[r])) /\ ItemCalls(cmd[r], i)[k] = c
  BY <1>2
<1>4. i \in Int /\ k \in Int /\ k >= 1 /\ Len(ItemCalls(cmd[r], i)) \in Nat
  BY <1>1, CallsTyped, LenProperties, ModelTyped
<1>5. CASE ix'[r] = ix[r] /\ step'[r] = step[r]
  BY <1>3, <1>5 DEF IssuedCall
<1>6. CASE ix'[r] = ix[r] /\ step'[r] = step[r] + 1 /\ Succeeds(r)
  <2>1. i < ix[r] \/ (i = ix[r] /\ (k < step[r] \/ k = step[r]))
    BY <1>1, <1>3, <1>4, <1>6
  <2>2. CASE i = ix[r] /\ k = step[r]
    BY <1>3, <1>6, <2>2 DEF Call
  <2> QED
    BY <1>3, <2>1, <2>2 DEF IssuedCall
<1>7. CASE ix'[r] = ix[r] + 1 /\ step'[r] = 1 /\ NextItem(r)
  <2>1. i < ix[r] \/ i = ix[r]
    BY <1>1, <1>3, <1>4, <1>7
  <2>2. ~(step[r] <= Len(ItemCalls(cmd[r], ix[r])))
    BY <1>7 DEF NextItem, HasCall
  <2>3. i = ix[r] => k < step[r]
    BY <1>1, <1>3, <1>4, <2>2
  <2> QED
    BY <1>3, <2>1, <2>3 DEF IssuedCall
<1> QED
  BY <1>1, <1>5, <1>6, <1>7 DEF Forward

LEMMA IssuedByCalling ==
  ASSUME TypeOK, [Next]_vars, NEW r \in Runs, NEW o \in Objects, Issued(r, o)'
  PROVE  Issued(r, o) \/ (Succeeds(r) /\ Call(r).obj = o)
<1>1. \E c : IssuedCall(r, c)' /\ c.obj = o
  BY DEF Issued, IssuedCall, CallOn
<1>2. PICK c : IssuedCall(r, c)' /\ c.obj = o
  BY <1>1
<1>3. IssuedCall(r, c) => Issued(r, o)
  BY <1>2 DEF Issued, IssuedCall, CallOn
<1> QED
  BY <1>2, <1>3, IssuedCallByCalling

\* The run that makes a call has reached its object.
LEMMA CallReached ==
  ASSUME TypeOK, NEW q \in Runs, HasCall(q)
  PROVE  Reached(q, Call(q).obj)
<1>1. ix[q] \in 1..Items(cmd[q]) /\ step[q] \in 1..Len(ItemCalls(cmd[q], ix[q]))
  BY CallTyped
<1>2. CallOn(q, ix[q], step[q], Call(q).obj) /\ step[q] <= step[q]
  BY <1>1 DEF CallOn, Call, TypeOK
<1>3. status[q] # "idle"
  BY DEF HasCall, Running
<1> QED
  BY <1>1, <1>2, <1>3 DEF Reached

Held(r, o) == cluster[o] = "live" /\ maker[o] = r
DeletedBySome(o) == \E d \in Runs : cmd[d].delete /\ Reached(d, o)

\* A call of some run leaves an object that is held with its maker, unless the
\* run is a delete run that has reached it.
LEMMA EffectKeeps ==
  ASSUME TypeOK, NEW q \in Runs, HasCall(q), Effect(q),
         NEW r \in Runs, NEW o \in Objects, Held(r, o)
  PROVE  Held(r, o)' \/ DeletedBySome(o)
<1> DEFINE c == Call(q)
<1>1. c \in Calls /\ c.obj \in Objects /\ Reached(q, c.obj)
  BY CallTyped, CallReached
<1>2. c.op = "delete" => cmd[q].delete
  BY CallTyped, CallsMeaning DEF Call
<1>3. CASE c.op = "create" /\ APICreate(q, c.obj, c.flag)
  BY <1>1, <1>3 DEF APICreate, Takes, Held, TypeOK
<1>4. CASE c.op = "delete" /\ APIDelete(c.obj, c.flag) /\ c.obj # o
  BY <1>1, <1>4 DEF APIDelete, Held, TypeOK
<1>5. CASE c.op = "delete" /\ c.obj = o
  BY <1>1, <1>2, <1>5 DEF DeletedBySome
<1> QED
  BY <1>3, <1>4, <1>5 DEF Effect

LEMMA StepKeeps ==
  ASSUME TypeOK, [Next]_vars, NEW r \in Runs, NEW o \in Objects, Held(r, o)
  PROVE  Held(r, o)' \/ DeletedBySome(o)
<1>1. ASSUME NEW q \in Runs, Succeeds(q) \/ LosesAnswer(q)
      PROVE  Held(r, o)' \/ DeletedBySome(o)
  BY <1>1, EffectKeeps DEF Succeeds, LosesAnswer
<1>2. CASE UNCHANGED objVars
  BY <1>2 DEF objVars, Held
<1>3. ASSUME NEW p \in Objects, Collect(p) PROVE Held(r, o)'
  BY <1>3 DEF Collect, Held, TypeOK
<1>4. CASE UNCHANGED vars
  BY <1>4 DEF vars, Held
<1> QED
  BY <1>1, <1>2, <1>3, <1>4
  DEF Next, Execute, Begin, Conflicts, Misses, NextItem, Stops, Finishes, Dies

\* A deploy run holds what its call has just created.
LEMMA CallTakes ==
  ASSUME TypeOK, NEW r \in Runs, Succeeds(r), ~cmd[r].delete,
         NEW o \in Objects, o = Call(r).obj
  PROVE  Held(r, o)'
<1>1. Call(r).op # "delete"
  BY CallTyped, CallsMeaning DEF Succeeds, Call
<1>2. APICreate(r, o, Call(r).flag)
  BY <1>1 DEF Succeeds, Effect
<1> QED
  BY <1>2 DEF APICreate, Takes, Held, TypeOK

\* IssuedBy lists what Issued tests.
Listed == \A r \in Runs : \A o : o \in IssuedBy(r) <=> o \in Objects /\ Issued(r, o)

LEMMA IssuedByMeans == TypeOK => Listed
<1> SUFFICES ASSUME TypeOK, NEW r \in Runs, NEW o
             PROVE  o \in IssuedBy(r) <=> o \in Objects /\ Issued(r, o)
  BY DEF Listed
<1>0. cmd[r] \in Commands
  BY DEF TypeOK
<1> DEFINE Before(i, k) == i < ix[r] \/ (i = ix[r] /\ k < step[r])
<1>1. \A i \in 1..Items(cmd[r]) : \A k \in 1..Len(ItemCalls(cmd[r], i)) :
        ItemCalls(cmd[r], i)[k].obj \in Objects
  <2> SUFFICES ASSUME NEW i \in 1..Items(cmd[r]), NEW k \in 1..Len(ItemCalls(cmd[r], i))
               PROVE  ItemCalls(cmd[r], i)[k].obj \in Objects
    OBVIOUS
  <2>1. ItemCalls(cmd[r], i)[k] \in Calls
    BY <1>0, CallsTyped, ElementOfSeq
  <2> QED
    BY <2>1 DEF Calls
<1>2. o \in IssuedBy(r) <=>
        \E i \in 1..Items(cmd[r]) : \E k \in 1..Len(ItemCalls(cmd[r], i)) :
          Before(i, k) /\ ItemCalls(cmd[r], i)[k].obj = o
  BY DEF IssuedBy
<1> QED
  BY <1>1, <1>2 DEF Issued, CallOn

LEMMA AccountedStep == TypeOK /\ Accounted /\ [Next]_vars => Accounted'
<1> SUFFICES ASSUME TypeOK, Accounted, [Next]_vars,
                    NEW r \in Runs, NEW o \in Objects, ~cmd'[r].delete, Issued(r, o)'
             PROVE  Held(r, o)' \/ DeletedBySome(o)'
  <2>1. (TypeOK => Listed)'
    BY IssuedByMeans, PTL
  <2>2. TypeOK /\ [Next]_vars => Listed'
    BY <2>1, TypeStep
  <2> QED
    BY <2>2 DEF Accounted, Held, DeletedBySome, Listed
<1>1. ~cmd[r].delete
  BY Progress DEF Forward
<1>2. DeletedBySome(o) => DeletedBySome(o)'
  BY Progress, ReachedGrows DEF DeletedBySome, Forward
<1>3. CASE Issued(r, o)
  <2>1. Held(r, o) \/ DeletedBySome(o)
    BY <1>1, <1>3, IssuedByMeans DEF Accounted, Listed, Held, DeletedBySome
  <2> QED
    BY <1>2, <2>1, StepKeeps
<1>4. CASE Succeeds(r) /\ Call(r).obj = o
  BY <1>1, <1>4, CallTakes
<1> QED
  BY <1>3, <1>4, IssuedByCalling

LEMMA AccountedInit == Init => Accounted
<1> SUFFICES ASSUME Init, NEW r \in Runs, NEW o \in Objects, Issued(r, o)
             PROVE  FALSE
  BY TypeInit, IssuedByMeans DEF Accounted, Listed
<1>1. PICK i \in 1..Items(cmd[r]) : \E k \in 1..Len(ItemCalls(cmd[r], i)) :
        i < 1 \/ (i = 1 /\ k < 1)
  BY DEF Init, Issued
<1> QED
  BY <1>1

\* Every object a deploy run has created stays live and its own until a delete
\* run reaches it: for any number of runs, interleaved in any way and dying
\* anywhere.
THEOREM AccountedAlways == Spec => []Accounted
BY TypeCorrect, AccountedInit, AccountedStep, PTL DEF Spec

-----------------------------------------------------------------------------
(* Only the front door is exposed: an object becomes exposed by the call that *)
(* makes it, and that call carries the flag for the front door alone.         *)

LEMMA ExposedStep == TypeOK /\ OnlyServedIsExposed /\ [Next]_vars => OnlyServedIsExposed'
<1> SUFFICES ASSUME TypeOK, OnlyServedIsExposed, [Next]_vars, NEW o \in exposed'
             PROVE  maker'[o] \in Runs /\ FrontDoor(cmd'[maker'[o]].model, o)
  BY DEF OnlyServedIsExposed
<1>1. CASE UNCHANGED <<cmd, maker, exposed>>
  BY <1>1 DEF OnlyServedIsExposed
<1>2. ASSUME NEW r \in Runs, HasCall(r), Effect(r), cmd' = cmd
      PROVE  maker'[o] \in Runs /\ FrontDoor(cmd'[maker'[o]].model, o)
  <2> DEFINE c == Call(r)
  <2>1. c \in Calls /\ c.obj \in Objects
    BY <1>2, CallTyped
  <2>2. c.op = "create" /\ c.flag => FrontDoor(cmd[r].model, c.obj)
    BY <1>2, CallTyped, CallsMeaning DEF Call
  <2>3. CASE c.op = "create" /\ APICreate(r, c.obj, c.flag)
    <3>1. CASE o = c.obj
      BY <1>2, <2>1, <2>2, <2>3, <3>1 DEF APICreate, Takes, TypeOK
    <3>2. CASE o # c.obj
      BY <1>2, <2>1, <2>3, <3>2 DEF APICreate, Takes, TypeOK, OnlyServedIsExposed
    <3> QED
      BY <3>1, <3>2
  <2>4. CASE c.op = "delete" /\ APIDelete(c.obj, c.flag)
    BY <1>1, <1>2, <2>4 DEF APIDelete
  <2> QED
    BY <1>2, <2>3, <2>4 DEF Effect
<1>3. ASSUME NEW r \in Runs, Succeeds(r) \/ LosesAnswer(r)
      PROVE  HasCall(r) /\ Effect(r) /\ cmd' = cmd
  BY <1>3 DEF Succeeds, NextCall, LosesAnswer, End
<1> QED
  BY <1>1, <1>2, <1>3
  DEF Next, Execute, Begin, Conflicts, Misses, NextItem, Stops, Finishes, Dies, Collect,
      End, objVars, runVars, vars

\* Whatever the models and the runs, only the front door of a publicly served
\* spec ever gets a load balancer.
THEOREM ExposedAlways == Spec => []OnlyServedIsExposed
<1>1. Init => OnlyServedIsExposed
  BY DEF Init, OnlyServedIsExposed
<1> QED
  BY <1>1, TypeCorrect, ExposedStep, PTL DEF Spec

-----------------------------------------------------------------------------
(* A deployment that reports success has issued a Create for everything its   *)
(* model promises; with Accounted, that is what OkMeansDeployed needs.        *)

\* The items behind a run ended well, and a run is only "ok" past its last item.
Passed ==
  \A r \in Runs :
    /\ \A i \in 1..Items(cmd[r]) : i < ix[r] => ItemEnd(cmd[r], i) = "next"
    /\ status[r] = "ok" => ix[r] > Items(cmd[r])

LEMMA PassedInit == Init => Passed
<1> SUFFICES ASSUME Init, NEW r \in Runs, NEW i \in 1..Items(cmd[r])
             PROVE  ~(i < ix[r]) /\ status[r] # "ok"
  BY DEF Passed, Init
<1> QED
  BY DEF Init

LEMMA PassedStep == TypeOK /\ Passed /\ [Next]_vars => Passed'
<1> SUFFICES ASSUME TypeOK, Passed, [Next]_vars, NEW r \in Runs
             PROVE  /\ \A i \in 1..Items(cmd[r]) : i < ix'[r] => ItemEnd(cmd[r], i) = "next"
                    /\ status'[r] = "ok" => ix'[r] > Items(cmd[r])
  BY Progress DEF Passed, Forward
<1>1. \A i \in 1..Items(cmd[r]) : i < ix'[r] => ItemEnd(cmd[r], i) = "next"
  <2>1. CASE ix'[r] = ix[r]
    BY <2>1 DEF Passed
  <2>2. CASE ix'[r] = ix[r] + 1 /\ NextItem(r)
    <3>1. ASSUME NEW i \in 1..Items(cmd[r]), i < ix'[r]
          PROVE  i < ix[r] \/ i = ix[r]
      BY <2>2, <3>1 DEF TypeOK
    <3>2. ItemEnd(cmd[r], ix[r]) = "next"
      BY <2>2 DEF NextItem
    <3> QED
      BY <3>1, <3>2 DEF Passed
  <2> QED
    BY <2>1, <2>2, Progress DEF Forward
<1>2. ASSUME status'[r] = "ok" PROVE ix'[r] > Items(cmd[r])
  <2>1. CASE status[r] = "ok"
    <3>1. ix'[r] = ix[r]
      BY <2>1, Progress DEF Forward, Succeeds, NextItem, HasCall, Running
    <3> QED
      BY <2>1, <3>1 DEF Passed
  <2>2. CASE status[r] # "ok"
    <3>1. ASSUME NEW q \in Runs, End(q, ItemEnd(cmd[q], ix[q])) PROVE FALSE
      BY <1>2, <2>2, <3>1, EndTyped DEF End, TypeOK
    <3>2. Finishes(r)
      BY <1>2, <2>2, <3>1
      DEF Next, Execute, Begin, Succeeds, NextCall, Conflicts, Misses, NextItem, Stops,
          Finishes, Dies, LosesAnswer, Collect, End, runVars, vars, TypeOK
    <3> QED
      BY <3>2 DEF Finishes, End
  <2> QED
    BY <2>1, <2>2
<1> QED
  BY <1>1, <1>2

Plans(c, o) ==
  \E i \in 1..Items(c) : \E k \in 1..Len(ItemCalls(c, i)) : ItemCalls(c, i)[k].obj = o

LEMMA ServicePlanned ==
  ASSUME NEW c \in Commands, ~c.delete, ~c.dryrun,
         NEW i \in 1..Len(c.model.services), ItemEnd(c, i) = "next"
  PROVE  LET s == c.model.services[i] IN
         /\ s.replicated => Plans(c, <<"Deployment", s.name>>)
         /\ s.replicated /\ HasPorts(s) => Plans(c, <<"Service", s.name>>)
         /\ s.shard = "some" => /\ Plans(c, <<"StatefulSet", s.name>>)
                                /\ Plans(c, <<"Deployment", Sharder[s.name]>>)
                                /\ Plans(c, <<"Service", s.name>>)
                                /\ Plans(c, <<"Service", Sharder[s.name]>>)
<1> DEFINE m == c.model
           s == m.services[i]
           public == IsPublic(m, s)
           calls == ItemCalls(c, i)
<1>1. i \in 1..Items(c) /\ IsService(c, i)
  <2> DEFINE n == Len(m.services)
             j == Len(m.jobs)
  <2>1. n \in Nat /\ j \in Nat /\ Items(c) = n + j /\ (IsService(c, i) <=> i <= n) /\ i \in 1..n
    BY ModelTyped DEF Items, IsService
  <2> HIDE DEF n, j
  <2> QED
    BY <2>1
<1>2. ~Contradicts(s) /\ m.serve # NoServe /\ ~(s.shard = "some" /\ ~HasPorts(s))
  BY <1>1 DEF ItemEnd, DeployEnd
<1>3. calls = WetDeploy(m, s)
  BY <1>1, ItemPlans
<1>4. \A k \in 1..Len(calls) : Plans(c, calls[k].obj)
  BY <1>1 DEF Plans
<1>5. ASSUME s.replicated
      PROVE  /\ Plans(c, <<"Deployment", s.name>>)
             /\ HasPorts(s) => Plans(c, <<"Service", s.name>>)
  <2>1. calls = WetReplicated(s, public)
    BY <1>2, <1>3, <1>5 DEF WetDeploy, WetReplicated, DeployCalls
  <2>2. Len(calls) >= 1 /\ calls[1].obj = <<"Deployment", s.name>>
    BY <2>1, WetPlans DEF Create
  <2>3. HasPorts(s) => Len(calls) = 2 /\ calls[2].obj = <<"Service", s.name>>
    BY <2>1, WetPlans DEF Create
  <2>4. Len(calls) \in Nat
    BY <1>1, CallsTyped, LenProperties
  <2> HIDE DEF calls, s
  <2>5. 1 \in 1..Len(calls) /\ (HasPorts(s) => 2 \in 1..Len(calls))
    BY <2>2, <2>3, <2>4
  <2> QED
    BY <1>4, <2>2, <2>3, <2>5
<1>6. ASSUME s.shard = "some"
      PROVE  /\ Plans(c, <<"StatefulSet", s.name>>)
             /\ Plans(c, <<"Deployment", Sharder[s.name]>>)
             /\ Plans(c, <<"Service", s.name>>)
             /\ Plans(c, <<"Service", Sharder[s.name]>>)
  <2>1. calls = <<Create("StatefulSet", s.name, FALSE), Create("Deployment", Sharder[s.name], FALSE),
                  Create("Service", s.name, FALSE), Create("Service", Sharder[s.name], public)>>
    <3>1. ~s.replicated /\ HasPorts(s)
      BY <1>2, <1>6 DEF Contradicts
    <3> QED
      BY <1>2, <1>3, <1>6, <3>1, WetPlans DEF WetDeploy, WetSharded, DeployCalls
  <2>2. /\ Len(calls) = 4
        /\ calls[1] = Create("StatefulSet", s.name, FALSE)
        /\ calls[2] = Create("Deployment", Sharder[s.name], FALSE)
        /\ calls[3] = Create("Service", s.name, FALSE)
        /\ calls[4] = Create("Service", Sharder[s.name], public)
    BY <2>1
  <2> HIDE DEF calls, s
  <2>3. \A k \in 1..4 : Plans(c, calls[k].obj)
    BY <1>4, <2>2
  <2> QED
    BY <2>2, <2>3 DEF Create
<1> QED
  BY <1>5, <1>6

LEMMA JobPlanned ==
  ASSUME NEW c \in Commands, ~c.delete, NEW j \in 1..Len(c.model.jobs)
  PROVE  Plans(c, <<"Job", c.model.jobs[j]>>)
<1> DEFINE n == Len(c.model.services)
           i == n + j
           name == c.model.jobs[j]
<1>1. i \in 1..Items(c) /\ ~(i <= n) /\ i - n = j
  <2> DEFINE l == Len(c.model.jobs)
  <2>1. n \in Nat /\ l \in Nat /\ Items(c) = n + l /\ j \in 1..l
    BY ModelTyped DEF Items
  <2> HIDE DEF n, l
  <2> QED
    BY <2>1
<1> HIDE DEF i
<1>2. ItemCalls(c, i) = <<Create("Job", name, FALSE)>>
  BY <1>1 DEF ItemCalls, IsService, JobCalls
<1>3. Len(ItemCalls(c, i)) = 1 /\ ItemCalls(c, i)[1].obj = <<"Job", name>>
  BY <1>2 DEF Create
<1>4. 1 \in 1..Len(ItemCalls(c, i))
  BY <1>3
<1> QED
  BY <1>1, <1>3, <1>4 DEF Plans

LEMMA PromisedPlanned ==
  ASSUME NEW c \in Commands, ~c.delete, ~c.dryrun,
         \A i \in 1..Items(c) : ItemEnd(c, i) = "next",
         NEW o \in Promised(c.model)
  PROVE  Plans(c, o)
<1> DEFINE m == c.model
<1>1. ASSUME NEW i \in 1..Len(m.services), o \in PromisedBy(m.services[i])
      PROVE  Plans(c, o)
  <2>1. ItemEnd(c, i) = "next"
    <3> DEFINE n == Len(m.services)
               l == Len(m.jobs)
    <3>1. n \in Nat /\ l \in Nat /\ Items(c) = n + l /\ i \in 1..n
      BY ModelTyped DEF Items
    <3> HIDE DEF n, l
    <3> QED
      BY <3>1
  <2> QED
    BY <1>1, <2>1, ServicePlanned DEF PromisedBy
<1>2. ASSUME NEW j \in 1..Len(m.jobs), o = <<"Job", m.jobs[j]>>
      PROVE  Plans(c, o)
  BY <1>2, JobPlanned
<1>3. \/ \E i \in 1..Len(m.services) : o \in PromisedBy(m.services[i])
      \/ \E j \in 1..Len(m.jobs) : o = <<"Job", m.jobs[j]>>
  <2> DEFINE some == {PromisedBy(m.services[i]) : i \in 1..Len(m.services)}
             jobs == {<<"Job", m.jobs[i]>> : i \in 1..Len(m.jobs)}
  <2>1. Promised(m) = (UNION some) \cup jobs
    BY DEF Promised
  <2>2. (\E S \in some : o \in S) \/ o \in jobs
    <3> HIDE DEF some, jobs
    <3> QED
      BY <2>1
  <2> QED
    BY <2>2
<1> QED
  BY <1>1, <1>2, <1>3

LEMMA OkImplied == TypeOK /\ Accounted /\ Passed => OkMeansDeployed
<1> SUFFICES ASSUME TypeOK, Accounted, Passed, NEW r \in Runs, Deploys(r), status[r] = "ok",
                    NEW o \in Promised(cmd[r].model)
             PROVE  Held(r, o) \/ DeletedBySome(o)
  BY DEF OkMeansDeployed, Held, DeletedBySome
<1>1. /\ cmd[r] \in Commands /\ ~cmd[r].delete /\ ~cmd[r].dryrun
      /\ ix[r] \in Nat /\ ix[r] > Items(cmd[r]) /\ Items(cmd[r]) \in Nat
  BY ModelTyped DEF TypeOK, Deploys, Passed
<1>2. \A i \in 1..Items(cmd[r]) : i < ix[r] /\ ItemEnd(cmd[r], i) = "next"
  BY <1>1 DEF Passed
<1>3. PICK i \in 1..Items(cmd[r]) : \E k \in 1..Len(ItemCalls(cmd[r], i)) :
        ItemCalls(cmd[r], i)[k].obj = o
  BY <1>1, <1>2, PromisedPlanned DEF Plans
<1>4. Issued(r, o)
  BY <1>2, <1>3 DEF Issued, CallOn
<1>5. o \in Objects
  <2>1. PICK k \in 1..Len(ItemCalls(cmd[r], i)) : ItemCalls(cmd[r], i)[k].obj = o
    BY <1>3
  <2>2. ItemCalls(cmd[r], i)[k] \in Calls
    BY <1>1, <2>1, CallsTyped, ElementOfSeq
  <2> QED
    BY <2>1, <2>2 DEF Calls
<1> QED
  BY <1>1, <1>4, <1>5, IssuedByMeans DEF Accounted, Listed, Held, DeletedBySome

\* A deploy run that reports success has put up everything its model promises,
\* and only a delete run can have taken any of it away since.
THEOREM OkMeansDeployedAlways == Spec => []OkMeansDeployed
BY TypeCorrect, AccountedAlways, PassedInit, PassedStep, OkImplied, PTL DEF Spec
-----------------------------------------------------------------------------
(* What is served can be reached: a load balancer that a run has created is   *)
(* exposed for as long as the run holds it, and the front door of what is     *)
(* served is created as one.                                                  *)

HeldOpen(r, o) == Held(r, o) /\ o \in exposed

\* what a deploy run has asked to expose is exposed, until a deletion reaches it
Opened ==
  \A r \in Runs, c \in Calls :
    ~cmd[r].delete /\ IssuedCall(r, c) /\ c.flag => HeldOpen(r, c.obj) \/ DeletedBySome(c.obj)

LEMMA OpenedInit == Init => Opened
<1> SUFFICES ASSUME Init, NEW r \in Runs, NEW c \in Calls, IssuedCall(r, c)
             PROVE  FALSE
  BY DEF Opened
<1>1. PICK i \in 1..Items(cmd[r]) : \E k \in 1..Len(ItemCalls(cmd[r], i)) :
        i < 1 \/ (i = 1 /\ k < 1)
  BY DEF Init, IssuedCall
<1> QED
  BY <1>1

\* A call that is not the deletion of an object that is held leaves it exposed.
LEMMA EffectKeepsOpen ==
  ASSUME TypeOK, NEW q \in Runs, HasCall(q), Effect(q),
         NEW r \in Runs, NEW o \in Objects, HeldOpen(r, o)
  PROVE  o \in exposed'
<1> DEFINE c == Call(q)
<1>1. c.obj \in Objects
  BY CallTyped
<1>2. CASE APICreate(q, c.obj, c.flag)
  BY <1>1, <1>2 DEF APICreate, Takes, HeldOpen, Held
<1>3. CASE APIDelete(c.obj, c.flag)
  BY <1>3 DEF APIDelete, HeldOpen
<1> QED
  BY <1>2, <1>3 DEF Effect

LEMMA StepKeepsOpen ==
  ASSUME TypeOK, [Next]_vars, NEW r \in Runs, NEW o \in Objects, HeldOpen(r, o)
  PROVE  HeldOpen(r, o)' \/ DeletedBySome(o)
<1>1. Held(r, o)' \/ DeletedBySome(o)
  BY StepKeeps DEF HeldOpen
<1>2. ASSUME NEW q \in Runs, Succeeds(q) \/ LosesAnswer(q) PROVE o \in exposed'
  BY <1>2, EffectKeepsOpen DEF Succeeds, LosesAnswer
<1>3. CASE UNCHANGED exposed
  BY <1>1, <1>3 DEF HeldOpen
<1> QED
  BY <1>1, <1>2, <1>3
  DEF HeldOpen, Next, Execute, Begin, Conflicts, Misses, NextItem, Stops, Finishes, Dies,
      Collect, objVars, vars

LEMMA OpenedStep == TypeOK /\ Opened /\ [Next]_vars => Opened'
<1> SUFFICES ASSUME TypeOK, Opened, [Next]_vars, NEW r \in Runs, NEW c \in Calls,
                    ~cmd'[r].delete, IssuedCall(r, c)', c.flag
             PROVE  HeldOpen(r, c.obj)' \/ DeletedBySome(c.obj)'
  BY DEF Opened
<1> DEFINE o == c.obj
<1>1. ~cmd[r].delete /\ o \in Objects
  BY Progress DEF Forward, Calls
<1>2. DeletedBySome(o) => DeletedBySome(o)'
  BY <1>1, Progress, ReachedGrows DEF DeletedBySome, Forward
<1>3. CASE IssuedCall(r, c)
  <2>1. HeldOpen(r, o) \/ DeletedBySome(o)
    BY <1>1, <1>3 DEF Opened
  <2> QED
    BY <1>1, <1>2, <2>1, StepKeepsOpen
<1>4. CASE Succeeds(r) /\ Call(r) = c
  <2>1. Held(r, o)'
    BY <1>1, <1>4, CallTakes
  <2>2. c.op # "delete"
    BY <1>1, <1>4, CallTyped, CallsMeaning DEF Succeeds, Call
  <2>3. o \in exposed'
    BY <1>4, <2>2 DEF Succeeds, Effect, APICreate, Takes
  <2> QED
    BY <2>1, <2>3 DEF HeldOpen
<1> QED
  BY <1>3, <1>4, IssuedCallByCalling

\* The front door of what is served to the public is created as a load balancer.
LEMMA DoorPlanned ==
  ASSUME NEW c \in Commands, ~c.delete, ~c.dryrun,
         NEW i \in 1..Len(c.model.services), ItemEnd(c, i) = "next",
         IsPublic(c.model, c.model.services[i]), HasPorts(c.model.services[i]),
         PromisedBy(c.model.services[i]) # {}
  PROVE  LET s == c.model.services[i] IN
         /\ Door(s) \in PromisedBy(s) /\ (s.shard = "some" <=> ~s.replicated)
         /\ i \in 1..Items(c)
         /\ \E k \in 1..Len(ItemCalls(c, i)) :
              ItemCalls(c, i)[k].obj = Door(s) /\ ItemCalls(c, i)[k].flag
<1> DEFINE m == c.model
           s == m.services[i]
           calls == ItemCalls(c, i)
<1>1. i \in 1..Items(c) /\ IsService(c, i)
  <2> DEFINE n == Len(m.services)
             j == Len(m.jobs)
  <2>1. n \in Nat /\ j \in Nat /\ Items(c) = n + j /\ (IsService(c, i) <=> i <= n) /\ i \in 1..n
    BY ModelTyped DEF Items, IsService
  <2> HIDE DEF n, j
  <2> QED
    BY <2>1
<1>2. ~Contradicts(s) /\ m.serve # NoServe
  BY <1>1 DEF ItemEnd, DeployEnd
<1>3. calls = WetDeploy(m, s)
  BY <1>1, ItemPlans
<1>4. s.replicated \/ s.shard = "some"
  BY DEF PromisedBy
<1>5. CASE s.replicated
  <2>1. s.shard # "some"
    BY <1>2, <1>5 DEF Contradicts
  <2>2. calls = <<Create("Deployment", s.name, FALSE), Create("Service", s.name, TRUE)>>
    BY <1>2, <1>3, <1>5, WetPlans DEF WetDeploy, WetReplicated, DeployCalls, IsPublic
  <2>3. Len(calls) = 2 /\ calls[2].obj = Door(s) /\ calls[2].flag
    BY <2>1, <2>2 DEF Create, Door
  <2>4. Door(s) \in PromisedBy(s)
    BY <1>5, <2>1 DEF Door, PromisedBy
  <2> HIDE DEF calls, s
  <2>5. 2 \in 1..Len(calls)
    BY <2>3
  <2> QED
    BY <1>1, <1>5, <2>1, <2>3, <2>4, <2>5 DEF calls, s
<1>6. CASE s.shard = "some" /\ ~s.replicated
  <2>1. calls = <<Create("StatefulSet", s.name, FALSE), Create("Deployment", Sharder[s.name], FALSE),
                  Create("Service", s.name, FALSE), Create("Service", Sharder[s.name], TRUE)>>
    BY <1>2, <1>3, <1>6, WetPlans DEF WetDeploy, WetSharded, DeployCalls, IsPublic
  <2>2. Len(calls) = 4 /\ calls[4] = Create("Service", Sharder[s.name], TRUE)
    BY <2>1
  <2>3. calls[4].obj = Door(s) /\ calls[4].flag
    BY <1>6, <2>2 DEF Create, Door
  <2>4. Door(s) \in PromisedBy(s)
    BY <1>6 DEF Door, PromisedBy
  <2> HIDE DEF calls, s
  <2>5. 4 \in 1..Len(calls)
    BY <2>2
  <2> QED
    BY <1>1, <1>6, <2>3, <2>4, <2>5 DEF calls, s
<1> QED
  BY <1>4, <1>5, <1>6, <1>2 DEF Contradicts

\* Objects that a run holds lead to one another as their names and ports say.
LEMMA HeldReaches ==
  ASSUME TypeOK, NEW r \in Runs, NEW s \in Specs, NEW n \in Names, NEW kind \in Workloads,
         <<"Service", n>> \in Objects, <<kind, n>> \in Objects,
         Held(r, <<"Service", n>>), Held(r, <<kind, n>>),
         NEW p \in ServicePorts(s) \cap ListensOn(s, <<kind, n>>)
  PROVE  Reaches(s, <<"Service", n>>, p, <<kind, n>>)
BY DEF Held, Reaches, Selected, PodLabel, Selector, Workloads

LEMMA ReachableImplied ==
  TypeOK /\ Passed /\ Opened /\ OkMeansDeployed => ServedIsReachable
<1> SUFFICES ASSUME TypeOK, Passed, Opened, OkMeansDeployed,
                    NEW r \in Runs, Deploys(r), status[r] = "ok", cmd[r].model.public,
                    NEW i \in 1..Len(cmd[r].model.services),
                    cmd[r].model.services[i].name = cmd[r].model.serve,
                    HasPorts(cmd[r].model.services[i]),
                    PromisedBy(cmd[r].model.services[i]) # {},
                    ~(\E o \in PromisedBy(cmd[r].model.services[i]) : DeletedBySome(o))
             PROVE  LET s == cmd[r].model.services[i] IN
                    /\ Door(s) \in exposed /\ maker[Door(s)] = r
                    /\ \A p \in ServicePorts(s) : (s.shard = "some" => p = SharderPort) =>
                         Reaches(s, Door(s), p, <<"Deployment", Door(s)[2]>>)
                    /\ s.shard = "some" => ShardsResolve(s)
  BY DEF ServedIsReachable, DeletedBySome
<1> DEFINE c == cmd[r]
           s == c.model.services[i]
<1>1. /\ c \in Commands /\ ~c.delete /\ ~c.dryrun
      /\ ix[r] \in Nat /\ ix[r] > Items(c) /\ Items(c) \in Nat
  BY ModelTyped DEF TypeOK, Deploys, Passed
<1>2. \A j \in 1..Items(c) : j < ix[r] /\ ItemEnd(c, j) = "next"
  BY <1>1 DEF Passed
<1>3. i \in 1..Items(c) /\ s \in Specs
  <2> DEFINE n == Len(c.model.services)
             j == Len(c.model.jobs)
  <2>1. n \in Nat /\ j \in Nat /\ Items(c) = n + j /\ i \in 1..n /\ s \in Specs
    BY <1>1, ModelTyped DEF Items
  <2> HIDE DEF n, j, s
  <2> QED
    BY <2>1
<1>4. IsPublic(c.model, s)
  BY DEF IsPublic
<1>5. /\ Door(s) \in PromisedBy(s) /\ (s.shard = "some" <=> ~s.replicated)
      /\ \E k \in 1..Len(ItemCalls(c, i)) :
           ItemCalls(c, i)[k].obj = Door(s) /\ ItemCalls(c, i)[k].flag
  BY <1>1, <1>2, <1>3, <1>4, DoorPlanned
<1>6. \A o \in PromisedBy(s) : Held(r, o)
  <2>1. PromisedBy(s) \subseteq Promised(c.model)
    BY DEF Promised
  <2> QED
    BY <2>1 DEF OkMeansDeployed, Held, DeletedBySome
<1>7. Door(s) \in exposed /\ maker[Door(s)] = r
  <2>1. PICK k \in 1..Len(ItemCalls(c, i)) :
          ItemCalls(c, i)[k].obj = Door(s) /\ ItemCalls(c, i)[k].flag
    BY <1>5
  <2>2. ItemCalls(c, i)[k] \in Calls
    BY <1>1, <1>3, CallsTyped, ElementOfSeq
  <2>3. IssuedCall(r, ItemCalls(c, i)[k])
    BY <1>2, <1>3 DEF IssuedCall
  <2>4. HeldOpen(r, Door(s)) \/ DeletedBySome(Door(s))
    BY <1>1, <2>1, <2>2, <2>3 DEF Opened
  <2> QED
    BY <1>5, <2>4 DEF HeldOpen, Held
<1> DEFINE sharder == Sharder[s.name]
<1>8. /\ s.name \in Names /\ sharder \in Names /\ sharder # s.name
      /\ \A kind \in Kinds, n \in Names : <<kind, n>> \in Objects
      /\ {"Deployment", "StatefulSet", "Service"} \subseteq Kinds
      /\ {"Deployment", "StatefulSet"} \subseteq Workloads
  BY <1>3, NamesTyped, ConstantsAssumption DEF Objects, Kinds, Workloads
<1>9. CASE s.replicated
  <2>1. Door(s) = <<"Service", s.name>> /\ s.shard # "some"
    BY <1>5, <1>9 DEF Door
  <2>2. Held(r, <<"Service", s.name>>) /\ Held(r, <<"Deployment", s.name>>)
    BY <1>5, <1>6, <1>9, <2>1 DEF PromisedBy
  <2>3. ListensOn(s, <<"Deployment", s.name>>) = ServicePorts(s)
    BY <1>8 DEF ListensOn
  <2>4. \A p \in ServicePorts(s) : Reaches(s, <<"Service", s.name>>, p, <<"Deployment", s.name>>)
    BY <1>3, <1>8, <2>2, <2>3, HeldReaches
  <2> QED
    BY <1>7, <2>1, <2>4
<1>10. CASE s.shard = "some"
  <2>1. Door(s) = <<"Service", sharder>> /\ Door(s)[2] = sharder
    BY <1>10 DEF Door
  <2>2. /\ Held(r, <<"Service", sharder>>) /\ Held(r, <<"Deployment", sharder>>)
        /\ Held(r, <<"Service", s.name>>) /\ Held(r, <<"StatefulSet", s.name>>)
    BY <1>6, <1>10 DEF PromisedBy
  <2>3. ASSUME NEW p \in ServicePorts(s), p = SharderPort
        PROVE  Reaches(s, <<"Service", sharder>>, p, <<"Deployment", sharder>>)
    <3>1. p \in ServicePorts(s) \cap ListensOn(s, <<"Deployment", sharder>>)
      BY <2>3 DEF ListensOn
    <3> QED
      BY <1>3, <1>8, <2>2, <3>1, HeldReaches
  <2>4. ShardsResolve(s)
    <3>1. s.ports[1] \in ServicePorts(s)
      <4>1. s.ports \in Seq(Nat) /\ s.ports # <<>>
        BY <1>3 DEF Specs, HasPorts
      <4>2. 1 \in 1..Len(s.ports)
        BY <4>1, LenProperties, EmptySeq
      <4> QED
        BY <4>2 DEF ServicePorts
    <3>2. ListensOn(s, <<"StatefulSet", s.name>>) = ServicePorts(s)
      BY DEF ListensOn
    <3> QED
      BY <1>3, <1>8, <2>2, <3>1, <3>2, HeldReaches DEF ShardsResolve
  <2>5. \A p \in ServicePorts(s) : (s.shard = "some" => p = SharderPort) =>
          Reaches(s, Door(s), p, <<"Deployment", Door(s)[2]>>)
    BY <1>10, <2>1, <2>3
  <2> QED
    BY <1>7, <2>4, <2>5
<1> QED
  BY <1>5, <1>9, <1>10

\* The spec that a public serve names can be reached through its load balancer
\* once a deploy run reports success, until a delete run gets to it.
THEOREM ServedIsReachableAlways == Spec => []ServedIsReachable
BY TypeCorrect, PassedInit, PassedStep, OpenedInit, OpenedStep, OkMeansDeployedAlways,
   ReachableImplied, PTL DEF Spec
-----------------------------------------------------------------------------
(* How a run ends by itself is settled by its model, and by whether it deletes. *)

\* A run that an item has ended still stands at that item.
Judged ==
  \A r \in Runs :
    status[r] \in {"error", "panic"} =>
      ix[r] \in 1..Items(cmd[r]) /\ ItemEnd(cmd[r], ix[r]) = status[r]

LEMMA JudgedInit == Init => Judged
BY DEF Init, Judged

LEMMA JudgedStep == TypeOK /\ Judged /\ [Next]_vars => Judged'
<1> SUFFICES ASSUME TypeOK, Judged, [Next]_vars, NEW r \in Runs, status'[r] \in {"error", "panic"}
             PROVE  /\ ix'[r] \in 1..Items(cmd[r])
                    /\ ItemEnd(cmd[r], ix'[r]) = status'[r]
  BY Progress DEF Judged, Forward
<1>1. CASE status[r] \in {"error", "panic"}
  <2>1. ix'[r] = ix[r] /\ status'[r] = status[r]
    BY <1>1
    DEF Next, Execute, Begin, Succeeds, NextCall, Conflicts, Misses, NextItem, Stops, HasCall,
        Running, Finishes, Dies, LosesAnswer, Collect, End, runVars, vars, TypeOK
  <2> QED
    BY <1>1, <2>1 DEF Judged
<1>2. CASE status[r] \notin {"error", "panic"}
  <2>1. Stops(r)
    BY <1>2
    DEF Next, Execute, Begin, Succeeds, NextCall, Conflicts, Misses, NextItem, Stops,
        Finishes, Dies, LosesAnswer, Collect, End, runVars, vars, TypeOK
  <2>2. cmd[r] \in Commands /\ ix[r] \in Nat \ {0} /\ ix[r] <= Items(cmd[r])
    BY <2>1 DEF Stops, Running, TypeOK
  <2>3. ix'[r] = ix[r] /\ status'[r] = ItemEnd(cmd[r], ix[r])
    BY <2>1 DEF Stops, End, TypeOK
  <2> QED
    BY <2>2, <2>3, ModelTyped
<1> QED
  BY <1>1, <1>2

\* Two commands that agree on the model and on what to do with it have the same items,
\* and each item ends both in the same way: dryrun has no part in it.
LEMMA SameEnds ==
  ASSUME NEW c, NEW e, c.model = e.model, c.delete = e.delete
  PROVE  Items(c) = Items(e) /\ \A i : ItemEnd(c, i) = ItemEnd(e, i)
BY DEF Items, ItemEnd, IsService

\* A run does not get past an item that ends another one of the same model.
LEMMA NotPast ==
  ASSUME TypeOK, Passed, Judged, NEW d \in Runs, NEW r \in Runs,
         cmd[d].model = cmd[r].model, cmd[d].delete = cmd[r].delete,
         status[r] \in {"error", "panic"}
  PROVE  ix[d] <= ix[r] /\ ix[r] <= Items(cmd[d]) /\ status[d] # "ok"
<1>1. /\ ix[r] \in 1..Items(cmd[d]) /\ ItemEnd(cmd[d], ix[r]) # "next"
  BY SameEnds DEF Judged
<1>2. ~(ix[r] < ix[d])
  BY <1>1 DEF Passed
<1>3. ix[d] \in Nat /\ ix[r] \in Nat /\ Items(cmd[d]) \in Nat /\ ix[r] <= Items(cmd[d])
  BY <1>1, ModelTyped DEF TypeOK
<1>4. status[d] = "ok" => ix[d] > Items(cmd[d])
  BY DEF Passed
<1> QED
  BY <1>2, <1>3, <1>4

\* A dry run and a real run of the same model never end by themselves in different ways:
\* the tests for --dry-run stand after the checks that end a run, never before one, and
\* a run that ends in one of them has met the very item that would end the other.
THEOREM DryRunForetellsAlways == Spec => []DryRunForetells
<1>1. TypeOK /\ Passed /\ Judged => DryRunForetells
  <2> SUFFICES ASSUME TypeOK, Passed, Judged, NEW d \in Runs, NEW r \in Runs,
                      cmd[d].model = cmd[r].model, cmd[d].delete = cmd[r].delete,
                      status[d] \in Verdicts, status[r] \in Verdicts
               PROVE  status[d] = status[r]
    BY DEF DryRunForetells
  <2>1. CASE status[d] = "ok" /\ status[r] = "ok"
    BY <2>1
  <2>2. CASE status[d] \in {"error", "panic"} /\ status[r] \in {"error", "panic"}
    <3>1. ix[d] <= ix[r] /\ ix[r] <= ix[d]
      BY <2>2, NotPast
    <3>2. ix[d] = ix[r]
      BY <3>1 DEF TypeOK
    <3> QED
      BY <2>2, <3>2, SameEnds DEF Judged
  <2>3. CASE status[d] = "ok" /\ status[r] \in {"error", "panic"}
    BY <2>3, NotPast
  <2>4. CASE status[r] = "ok" /\ status[d] \in {"error", "panic"}
    BY <2>4, NotPast
  <2> QED
    BY <2>1, <2>2, <2>3, <2>4 DEF Verdicts
<1> QED
  BY <1>1, TypeCorrect, PassedInit, PassedStep, JudgedInit, JudgedStep, PTL DEF Spec
-----------------------------------------------------------------------------
(* A dry run asks the cluster of nothing but jobs.                           *)

LEMMA DryCalls ==
  ASSUME NEW c \in Commands, c.dryrun, NEW i \in 1..Items(c), NEW k \in 1..Len(ItemCalls(c, i))
  PROVE  ItemCalls(c, i)[k].obj[1] = "Job"
<1>1. CASE IsService(c, i)
  <2>1. ItemCalls(c, i) = <<>>
    BY <1>1, ItemPlans
  <2> QED
    BY <2>1
<1>2. CASE ~IsService(c, i)
  BY <1>2 DEF ItemCalls, JobCalls, Create, Delete
<1> QED
  BY <1>1, <1>2

\* An object that a step of the cluster changes is the one that the call is on.
LEMMA EffectLocal ==
  ASSUME TypeOK, NEW q \in Runs, Effect(q), NEW o \in Objects, o # Call(q).obj
  PROVE  cluster'[o] = cluster[o] /\ maker'[o] = maker[o]
BY DEF Effect, APICreate, Takes, APIDelete, TypeOK

\* No step of a dry run touches a workload or a Service, however far the run gets: each
\* of the tests that the plan makes call by call leaves its call out (DryPlans), for every
\* model, also of specs that are refused or have no ports.
THEOREM DryRunKeepsServicesAlways == Spec => DryRunKeepsServices
<1>1. ASSUME TypeOK, [Next]_vars, NEW r \in Runs, cmd[r].dryrun, step'[r] # step[r],
             NEW o \in Objects, o[1] # "Job"
      PROVE  cluster'[o] = cluster[o]
  <2>1. Succeeds(r) \/ NextItem(r)
    BY <1>1, Progress DEF Forward
  <2>2. CASE Succeeds(r)
    <3>1. Call(r).obj[1] = "Job"
      BY <1>1, <2>2, CallTyped, DryCalls DEF Succeeds, Call
    <3> QED
      BY <1>1, <2>2, <3>1, EffectLocal DEF Succeeds
  <2>3. CASE NextItem(r)
    BY <2>3 DEF NextItem, objVars
  <2> QED
    BY <2>1, <2>2, <2>3
<1>2. TypeOK /\ [Next]_vars =>
        [\A r \in Runs : cmd[r].dryrun /\ step'[r] # step[r] =>
           \A o \in Objects : o[1] # "Job" => cluster'[o] = cluster[o]]_vars
  BY <1>1
<1> QED
  BY <1>2, TypeCorrect, PTL DEF Spec, DryRunKeepsServices
-----------------------------------------------------------------------------
(* Runs one after another: while a run that is Apart is running, no other is. *)

\* A run has done nothing before it begins, and begins when those it is behind are over.
Waited ==
  \A d \in Runs :
    /\ status[d] = "idle" => ix[d] = 1 /\ step[d] = 1
    /\ status[d] # "idle" => \A q \in cmd[d].behind : status[q] \notin {"idle", "running"}

Moves(d) ==
  \/ status'[d] = status[d]
  \/ Begin(d) /\ status'[d] = "running"
  \/ status[d] = "running" /\ status'[d] \notin {"idle", "running"}

LEMMA StatusMoves ==
  ASSUME TypeOK, [Next]_vars, NEW d \in Runs
  PROVE  Moves(d)
<1>1. ASSUME NEW r \in Runs, Begin(r) PROVE Moves(d)
  <2>1. status'[r] = "running" /\ (d # r => status'[d] = status[d])
    BY <1>1 DEF Begin, TypeOK
  <2> QED
    BY <1>1, <2>1 DEF Moves
<1>2. ASSUME NEW r \in Runs, Succeeds(r) \/ NextItem(r) PROVE Moves(d)
  BY <1>2 DEF Succeeds, NextCall, NextItem, Moves
<1>3. ASSUME NEW r \in Runs, NEW how \in Stages \ {"idle", "running"}, End(r, how), status[r] = "running"
      PROVE  Moves(d)
  BY <1>3 DEF End, TypeOK, Moves
<1>4. ASSUME NEW r \in Runs,
             Conflicts(r) \/ Misses(r) \/ Stops(r) \/ Finishes(r) \/ Dies(r) \/ LosesAnswer(r)
      PROVE  Moves(d)
  <2>1. Stops(r) => ItemEnd(cmd[r], ix[r]) \in Stages \ {"idle", "running"}
    BY EndTyped DEF Stops, Stages
  <2>2. status[r] = "running" /\ \E how \in Stages \ {"idle", "running"} : End(r, how)
    BY <1>4, <2>1 DEF Conflicts, Misses, Stops, Finishes, Dies, LosesAnswer, Stages, HasCall, Running
  <2> QED
    BY <1>3, <2>2
<1>5. CASE UNCHANGED status
  BY <1>5 DEF Moves
<1>6. ASSUME NEW o \in Objects, Collect(o) PROVE Moves(d)
  BY <1>6 DEF Collect, runVars, Moves
<1> QED
  BY <1>1, <1>2, <1>4, <1>5, <1>6 DEF Next, Execute, vars

LEMMA WaitedInit == Init => Waited
BY DEF Init, Waited

LEMMA WaitedStep == TypeOK /\ Waited /\ [Next]_vars => Waited'
<1> SUFFICES ASSUME TypeOK, Waited, [Next]_vars, NEW d \in Runs
             PROVE  /\ status'[d] = "idle" => ix'[d] = 1 /\ step'[d] = 1
                    /\ status'[d] # "idle" =>
                         \A q \in cmd[d].behind : status'[q] \notin {"idle", "running"}
  BY Progress DEF Waited, Forward
<1>1. status'[d] = "idle" => ix'[d] = 1 /\ step'[d] = 1
  <2> SUFFICES ASSUME status'[d] = "idle" PROVE ix'[d] = 1 /\ step'[d] = 1
    OBVIOUS
  <2>1. status[d] = "idle"
    BY StatusMoves DEF Moves
  <2>2. ix'[d] = ix[d] /\ step'[d] = step[d]
    BY <2>1, Progress DEF Forward, Succeeds, NextItem, HasCall, Running
  <2> QED
    BY <2>1, <2>2 DEF Waited
<1>2. ASSUME status'[d] # "idle", NEW q \in cmd[d].behind
      PROVE  status'[q] \notin {"idle", "running"}
  <2>1. q \in Runs
    BY DEF TypeOK, Commands
  <2>2. status[q] \notin {"idle", "running"}
    BY <1>2, StatusMoves DEF Waited, Begin, Moves
  <2> QED
    BY <2>1, <2>2, StatusMoves DEF Begin, Moves
<1> QED
  BY <1>1, <1>2

LEMMA Alone ==
  ASSUME TypeOK, Waited, NEW d \in Runs, Apart(d), status[d] = "running", NEW q \in Runs \ {d}
  PROVE  status[q] # "running"
BY DEF Waited, Apart

\* the k-th call of item i of r has been answered, and r went on
Answered(r, i, k) ==
  /\ i \in 1..Items(cmd[r]) /\ k \in 1..Len(ItemCalls(cmd[r], i))
  /\ i < ix[r] \/ (i = ix[r] /\ k < step[r])

LEMMA IssuedAnswered ==
  ASSUME NEW r \in Runs, NEW o
  PROVE  Issued(r, o) <=> \E i, k : Answered(r, i, k) /\ CallOn(r, i, k, o)
BY DEF Issued, Answered

LEMMA AnsweredMoves ==
  ASSUME TypeOK, [Next]_vars, NEW r \in Runs, NEW i, NEW k
  PROVE  /\ Answered(r, i, k)' => Answered(r, i, k) \/ (Succeeds(r) /\ i = ix[r] /\ k = step[r])
         /\ Answered(r, i, k) => Answered(r, i, k)'
<1>1. Forward(r) /\ ix[r] \in Nat /\ step[r] \in Nat /\ cmd[r] \in Commands /\ cmd' = cmd
  BY Progress DEF TypeOK, Forward
<1> DEFINE There == i \in 1..Items(cmd[r]) /\ k \in 1..Len(ItemCalls(cmd[r], i))
<1>2. There => i \in Int /\ k \in Int /\ k >= 1 /\ Len(ItemCalls(cmd[r], i)) \in Nat
  BY <1>1, CallsTyped, LenProperties, ModelTyped
<1>3. Answered(r, i, k) <=> There /\ (i < ix[r] \/ (i = ix[r] /\ k < step[r]))
  BY DEF Answered
<1>4. Answered(r, i, k)' <=> There /\ (i < ix'[r] \/ (i = ix'[r] /\ k < step'[r]))
  BY <1>1 DEF Answered
<1>5. CASE ix'[r] = ix[r] /\ step'[r] = step[r]
  BY <1>3, <1>4, <1>5
<1>6. CASE ix'[r] = ix[r] /\ step'[r] = step[r] + 1 /\ Succeeds(r)
  <2>1. There => (k < step[r] + 1 <=> k < step[r] \/ k = step[r])
    BY <1>1, <1>2
  <2> HIDE DEF There
  <2> QED
    BY <1>3, <1>4, <1>6, <2>1
<1>7. CASE ix'[r] = ix[r] + 1 /\ step'[r] = 1 /\ NextItem(r)
  <2>1. ~(step[r] <= Len(ItemCalls(cmd[r], ix[r])))
    BY <1>7 DEF NextItem, HasCall
  <2>2. There /\ i = ix[r] => k < step[r]
    BY <1>1, <1>2, <2>1
  <2>3. There => (i < ix[r] + 1 <=> i < ix[r] \/ i = ix[r])
    BY <1>1, <1>2
  <2>4. There => ~(k < 1)
    BY <1>2
  <2>5. i < ix[r] => ~(i = ix[r] + 1)
    BY <1>1
  <2> HIDE DEF There
  <2> QED
    BY <1>3, <1>4, <1>7, <2>2, <2>3, <2>4
<1> QED
  BY <1>1, <1>5, <1>6, <1>7 DEF Forward

LEMMA IssuedGrows ==
  ASSUME TypeOK, [Next]_vars, NEW r \in Runs, NEW o, Issued(r, o)
  PROVE  Issued(r, o)'
<1>1. PICK i, k : Answered(r, i, k) /\ CallOn(r, i, k, o)
  BY IssuedAnswered
<1>2. Answered(r, i, k)' /\ CallOn(r, i, k, o)'
  BY <1>1, AnsweredMoves, Progress DEF CallOn, Forward
<1> QED
  BY <1>2 DEF Issued, Answered

\* A run that has not begun has issued nothing.
LEMMA IdleIssuedNothing ==
  ASSUME TypeOK, Waited, NEW r \in Runs, status[r] = "idle", NEW o, Issued(r, o)
  PROVE  FALSE
<1>1. PICK i, k : Answered(r, i, k)
  BY IssuedAnswered
<1>2. ix[r] = 1 /\ step[r] = 1
  BY DEF Waited
<1>3. cmd[r] \in Commands
  BY DEF TypeOK
<1>4. i \in 1..Items(cmd[r]) /\ k \in 1..Len(ItemCalls(cmd[r], i)) /\ (i < 1 \/ k < 1)
  BY <1>1, <1>2 DEF Answered
<1>5. Items(cmd[r]) \in Nat /\ Len(ItemCalls(cmd[r], i)) \in Nat
  BY <1>3, <1>4, ModelTyped, CallsTyped, LenProperties
<1> QED
  BY <1>4, <1>5
-----------------------------------------------------------------------------
(* What becomes of an object: one call, or the garbage collector, at a time.  *)

Called(q) == Succeeds(q) \/ LosesAnswer(q)

Creates(q, o) ==
  /\ Called(q) /\ HasCall(q) /\ Call(q).obj = o /\ Call(q).op = "create"
  /\ cluster[o] = "absent" /\ cluster'[o] = "live" /\ maker'[o] = q

Removes(q, o) ==
  /\ Called(q) /\ HasCall(q) /\ Call(q).obj = o /\ Call(q).op = "delete"
  /\ cluster[o] # "absent" /\ cluster'[o] # "live" /\ maker'[o] = maker[o]

Collected(o) == cluster[o] = "terminating" /\ cluster'[o] = "absent" /\ maker'[o] = maker[o]

LEMMA ObjectMoves ==
  ASSUME TypeOK, [Next]_vars, NEW o \in Objects
  PROVE  \/ cluster'[o] = cluster[o] /\ maker'[o] = maker[o]
         \/ Collected(o)
         \/ \E q \in Runs : Creates(q, o) \/ Removes(q, o)
<1>1. ASSUME NEW q \in Runs, Called(q), Call(q).obj = o PROVE Creates(q, o) \/ Removes(q, o)
  <2>1. HasCall(q) /\ Effect(q)
    BY <1>1 DEF Called, Succeeds, LosesAnswer
  <2>2. CASE Call(q).op = "create" /\ APICreate(q, o, Call(q).flag)
    BY <1>1, <2>1, <2>2 DEF Creates, APICreate, Takes, TypeOK
  <2>3. CASE Call(q).op = "delete" /\ APIDelete(o, Call(q).flag)
    BY <1>1, <2>1, <2>3 DEF Removes, APIDelete, TypeOK
  <2> QED
    BY <1>1, <2>1, <2>2, <2>3 DEF Effect
<1>2. ASSUME NEW q \in Runs, Called(q), Call(q).obj # o
      PROVE  cluster'[o] = cluster[o] /\ maker'[o] = maker[o]
  BY <1>2, EffectLocal DEF Called, Succeeds, LosesAnswer
<1>3. ASSUME NEW p \in Objects, Collect(p)
      PROVE  (cluster'[o] = cluster[o] /\ maker'[o] = maker[o]) \/ Collected(o)
  BY <1>3 DEF Collect, Collected, TypeOK
<1>4. CASE UNCHANGED <<cluster, maker>>
  BY <1>4
<1> QED
  BY <1>1, <1>2, <1>3, <1>4
  DEF Next, Execute, Begin, Conflicts, Misses, NextItem, Stops, Finishes, Dies, Called, objVars, vars

\* Whatever is in the cluster was made by a run that got as far as it.
Made ==
  \A o \in Objects :
    cluster[o] # "absent" =>
      maker[o] \in Runs /\ ~cmd[maker[o]].delete /\ Reached(maker[o], o)

LEMMA MadeInit == Init => Made
BY DEF Init, Made

LEMMA MadeStep == TypeOK /\ Made /\ [Next]_vars => Made'
<1> SUFFICES ASSUME TypeOK, Made, [Next]_vars, NEW o \in Objects, cluster'[o] # "absent"
             PROVE  \E q \in Runs : maker'[o] = q /\ ~cmd'[q].delete /\ Reached(q, o)'
  <2>1. ASSUME NEW p \in Objects, NEW q \in Runs, maker'[p] = q, Reached(q, p)'
        PROVE  Reached(maker[p], p)'
    BY <2>1 DEF Reached, CallOn
  <2> QED
    BY <2>1 DEF Made
<1>1. CASE cluster[o] # "absent" /\ maker'[o] = maker[o]
  <2>1. maker[o] \in Runs /\ ~cmd[maker[o]].delete /\ Reached(maker[o], o)
    BY <1>1 DEF Made
  <2> PICK q : q = maker[o]
    OBVIOUS
  <2>2. q \in Runs /\ maker'[o] = q /\ ~cmd'[q].delete
    BY <1>1, <2>1, Progress DEF Forward
  <2>3. Reached(q, o)
    BY <2>1
  <2> QED
    BY <2>2, <2>3, ReachedGrows
<1>2. ASSUME NEW q \in Runs, Creates(q, o)
      PROVE  maker'[o] = q /\ ~cmd'[q].delete /\ Reached(q, o)'
  <2>1. Reached(q, o) /\ ~cmd[q].delete
    BY <1>2, CallReached, CallTyped, CallsMeaning DEF Creates, Call
  <2> QED
    BY <1>2, <2>1, ReachedGrows, Progress DEF Creates, Forward
<1> QED
  BY <1>1, <1>2, ObjectMoves DEF Collected, Removes
-----------------------------------------------------------------------------
(* A deletion that no other run overlaps with leaves nothing of what it has   *)
(* asked for live.                                                            *)

Torn ==
  \A d \in Runs : cmd[d].delete /\ Apart(d) /\ status[d] = "running" =>
    \A o \in Objects : Issued(d, o) => cluster[o] # "live"

\* Who is before whom is given with the commands.
LEMMA ApartStays ==
  ASSUME cmd' = cmd, NEW d \in Runs
  PROVE  Apart(d)' <=> Apart(d)
BY DEF Apart

LEMMA TornStep == TypeOK /\ Waited /\ Torn /\ [Next]_vars => Torn'
<1> SUFFICES ASSUME TypeOK, Waited, Torn, [Next]_vars,
                    NEW d \in Runs, cmd'[d].delete, Apart(d)', status'[d] = "running",
                    NEW o \in Objects, Issued(d, o)'
             PROVE  cluster'[o] # "live"
  BY DEF Torn
<1>1. cmd[d].delete /\ Apart(d) /\ cmd' = cmd
  BY Progress, ApartStays DEF Forward
<1>2. CASE Succeeds(d) /\ Call(d).obj = o
  <2>1. Call(d).op # "create"
    BY <1>1, <1>2, CallTyped, CallsMeaning DEF Succeeds, Call
  <2>2. APIDelete(o, Call(d).flag)
    BY <1>2, <2>1 DEF Succeeds, Effect
  <2> QED
    BY <2>2 DEF APIDelete, TypeOK
<1>3. CASE Issued(d, o)
  <2>1. status[d] = "running"
    BY <1>3, StatusMoves, IdleIssuedNothing DEF Begin, Moves
  <2>2. cluster[o] # "live"
    BY <1>1, <1>3, <2>1 DEF Torn
  <2>3. ASSUME NEW q \in Runs, Creates(q, o) PROVE FALSE
    <3>1. ~cmd[q].delete /\ status[q] = "running"
      BY <2>3, CallTyped, CallsMeaning DEF Creates, Call, HasCall, Running
    <3> QED
      BY <1>1, <2>1, <3>1, Alone
  <2> QED
    BY <2>2, <2>3, ObjectMoves DEF Collected, Removes
<1> QED
  BY <1>2, <1>3, IssuedByCalling

\* What the deploys of its model have made stands until a deletion that nothing else has
\* preceded has asked for it, and no deploy has made the same object twice.
Standing ==
  \A d \in Runs :
    cmd[d].delete /\ Apart(d) /\ OnlyDeploysBefore(d) /\ status[d] \in {"idle", "running"} =>
      \A q \in Runs \ {d} :
        /\ \A o \in Objects : Issued(q, o) => cluster[o] = "live" \/ Issued(d, o)
        /\ \A i, k, j, l, o : /\ Answered(q, i, k) /\ CallOn(q, i, k, o)
                              /\ Answered(q, j, l) /\ CallOn(q, j, l, o)
                              => i = j /\ k = l

LEMMA ObjectOfAnswered ==
  ASSUME TypeOK, NEW r \in Runs, NEW i, NEW k, NEW o, Answered(r, i, k), CallOn(r, i, k, o)
  PROVE  o \in Objects /\ Issued(r, o)
<1>1. cmd[r] \in Commands /\ i \in 1..Items(cmd[r]) /\ k \in 1..Len(ItemCalls(cmd[r], i))
  BY DEF TypeOK, Answered
<1>2. ItemCalls(cmd[r], i)[k] \in Calls
  BY <1>1, CallsTyped, ElementOfSeq
<1> QED
  BY <1>2, IssuedAnswered DEF CallOn, Calls

LEMMA StandingStep == TypeOK /\ Waited /\ Standing /\ [Next]_vars => Standing'
<1> SUFFICES ASSUME TypeOK, Waited, Standing, [Next]_vars,
                    NEW d \in Runs, cmd'[d].delete, Apart(d)', OnlyDeploysBefore(d)',
                    status'[d] \in {"idle", "running"}, NEW q \in Runs \ {d}
             PROVE  /\ \A o \in Objects : Issued(q, o)' => cluster'[o] = "live" \/ Issued(d, o)'
                    /\ \A i, k, j, l, o : /\ Answered(q, i, k)' /\ CallOn(q, i, k, o)'
                                          /\ Answered(q, j, l)' /\ CallOn(q, j, l, o)'
                                          => i = j /\ k = l
  BY DEF Standing
<1>1. cmd' = cmd /\ cmd[d].delete /\ Apart(d)
  BY Progress, ApartStays DEF Forward
<1>2. status[d] \in {"idle", "running"}
  BY StatusMoves DEF Begin, Moves
<1>3. OnlyDeploysBefore(d)
  <2>1. ASSUME NEW p \in Runs \ {d}
        PROVE  status[p] = "idle" \/ (Deploys(p) /\ cmd[p].model = cmd[d].model)
    <3>1. status'[p] = "idle" => status[p] = "idle"
      BY StatusMoves DEF Moves
    <3> QED
      BY <1>1, <3>1 DEF OnlyDeploysBefore, Deploys
  <2> QED
    BY <2>1 DEF OnlyDeploysBefore
<1>4. /\ \A o \in Objects : Issued(q, o) => cluster[o] = "live" \/ Issued(d, o)
      /\ \A i, k, j, l, o : /\ Answered(q, i, k) /\ CallOn(q, i, k, o)
                            /\ Answered(q, j, l) /\ CallOn(q, j, l, o)
                            => i = j /\ k = l
  BY <1>1, <1>2, <1>3 DEF Standing
\* a run that has a call is a deploy of the same model, or the deletion
<1>5. ASSUME NEW p \in Runs \ {d}, HasCall(p)
      PROVE  ~cmd[p].delete /\ status[d] = "idle" /\ Call(p).op = "create"
  <2>1. status[p] = "running"
    BY <1>5 DEF HasCall, Running
  <2>2. ~cmd[p].delete
    BY <1>3, <2>1 DEF OnlyDeploysBefore, Deploys
  <2>3. status[d] # "running"
    BY <1>1, <2>1, Alone
  <2>4. Call(p) \in Calls /\ Call(p).op # "delete"
    BY <1>5, <2>2, CallTyped, CallsMeaning DEF Call
  <2> QED
    BY <1>2, <2>2, <2>3, <2>4 DEF Calls
<1>6. ASSUME NEW o \in Objects, Issued(q, o)'
      PROVE  cluster'[o] = "live" \/ Issued(d, o)'
  <2>1. CASE Succeeds(q) /\ Call(q).obj = o
    BY <1>5, <2>1, CallTakes DEF Succeeds, Held
  <2>2. CASE Issued(q, o) /\ Issued(d, o)
    BY <2>2, IssuedGrows
  <2>3. CASE Issued(q, o) /\ cluster[o] = "live"
    <3>1. ASSUME NEW p \in Runs, Removes(p, o) PROVE Issued(d, o)'
      <4>1. p = d
        BY <1>5, <3>1 DEF Removes
      <4>2. Succeeds(d) /\ Call(d).obj = o
        BY <3>1, <4>1 DEF Removes, Called, LosesAnswer, End, TypeOK
      <4>3. /\ ix[d] \in 1..Items(cmd[d]) /\ step[d] \in 1..Len(ItemCalls(cmd[d], ix[d]))
            /\ ix'[d] = ix[d] /\ step'[d] = step[d] + 1 /\ step[d] < step[d] + 1
        BY <4>2, CallTyped DEF Succeeds, NextCall, TypeOK
      <4>4. CallOn(d, ix[d], step[d], o)
        BY <4>2 DEF CallOn, Call
      <4> QED
        BY <1>1, <4>3, <4>4 DEF Issued, CallOn
    <3>2. cluster'[o] = cluster[o] \/ \E p \in Runs : Removes(p, o)
      BY <2>3, ObjectMoves DEF Collected, Creates
    <3> QED
      BY <2>3, <3>1, <3>2
  <2> QED
    BY <1>4, <1>6, <2>1, <2>2, <2>3, IssuedByCalling
<1>7. ASSUME NEW i, NEW k, NEW j, NEW l, NEW o,
             Answered(q, i, k)', CallOn(q, i, k, o), Answered(q, j, l)', CallOn(q, j, l, o)
      PROVE  i = j /\ k = l
  <2>1. CASE Answered(q, i, k) /\ Answered(q, j, l)
    BY <1>4, <1>7, <2>1
  \* the object of a call that succeeds was not there, and was not made before
  <2>2. ASSUME Succeeds(q), Call(q).obj = o, Issued(q, o), o \in Objects PROVE FALSE
    <3>1. HasCall(q) /\ Call(q).op = "create" /\ status[d] = "idle"
      BY <1>5, <2>2 DEF Succeeds
    <3>2. cluster[o] = "absent"
      BY <2>2, <3>1 DEF Succeeds, Effect, APICreate, Takes
    <3>3. ~Issued(d, o)
      BY <3>1, IdleIssuedNothing
    <3> QED
      BY <1>4, <2>2, <3>2, <3>3
  <2>3. CASE Succeeds(q) /\ i = ix[q] /\ k = step[q] /\ Answered(q, j, l)
    <3>1. Call(q).obj = o
      BY <1>7, <2>3 DEF CallOn, Call
    <3> QED
      BY <1>7, <2>2, <2>3, <3>1, ObjectOfAnswered
  <2>4. CASE Succeeds(q) /\ j = ix[q] /\ l = step[q] /\ Answered(q, i, k)
    <3>1. Call(q).obj = o
      BY <1>7, <2>4 DEF CallOn, Call
    <3> QED
      BY <1>7, <2>2, <2>4, <3>1, ObjectOfAnswered
  <2> QED
    BY <1>7, <2>1, <2>3, <2>4, AnsweredMoves
<1> QED
  BY <1>1, <1>6, <1>7 DEF CallOn

LEMMA OrderInit == Init => Waited /\ Torn /\ Made /\ Standing
<1> SUFFICES ASSUME Init PROVE Waited /\ Torn /\ Made /\ Standing
  OBVIOUS
<1>1. TypeOK /\ Waited /\ Made
  BY TypeInit, WaitedInit, MadeInit
<1>2. \A r \in Runs : status[r] = "idle"
  BY DEF Init
<1>3. \A r \in Runs : \A o : ~Issued(r, o)
  BY <1>1, <1>2, IdleIssuedNothing
<1>4. \A r \in Runs : \A i, k : ~Answered(r, i, k)
  <2>1. ASSUME NEW r \in Runs, NEW i, NEW k, Answered(r, i, k) PROVE FALSE
    <3>1. CallOn(r, i, k, ItemCalls(cmd[r], i)[k].obj)
      BY DEF CallOn
    <3> QED
      BY <1>1, <1>3, <2>1, <3>1, ObjectOfAnswered
  <2> QED
    BY <2>1
<1> QED
  BY <1>1, <1>2, <1>3, <1>4 DEF Torn, Standing
-----------------------------------------------------------------------------
(* The plan of a deployment and the plan of a deletion of the same model.     *)

LEMMA Positions ==
  ASSUME NEW n, NEW k
  PROVE  /\ n = 1 => (k \in 1..n <=> k = 1)
         /\ n = 2 => (k \in 1..n <=> k = 1 \/ k = 2)
         /\ n = 4 => (k \in 1..n <=> k = 1 \/ k = 2 \/ k = 3 \/ k = 4)
OBVIOUS

\* the objects of the calls of a replicated spec, of the deletion and of the deploy of a sharded one
ReplicatedShape(calls, s) ==
  /\ calls[1].obj = <<"Deployment", s.name>>
  /\ IF HasPorts(s) THEN Len(calls) = 2 /\ calls[2].obj = <<"Service", s.name>>
     ELSE Len(calls) = 1

DeletedShape(calls, s) ==
  /\ Len(calls) = 4
  /\ calls[1].obj = <<"Deployment", Sharder[s.name]>> /\ calls[2].obj = <<"StatefulSet", s.name>>
  /\ calls[3].obj = <<"Service", Sharder[s.name]>> /\ calls[4].obj = <<"Service", s.name>>

DeployedShape(calls, s) ==
  /\ Len(calls) = 4
  /\ calls[1].obj = <<"StatefulSet", s.name>> /\ calls[2].obj = <<"Deployment", Sharder[s.name]>>
  /\ calls[3].obj = <<"Service", s.name>> /\ calls[4].obj = <<"Service", Sharder[s.name]>>

LEMMA DeletePlan ==
  ASSUME NEW s
  PROVE  IF s.shard # "none" THEN DeletedShape(WetDelete(s), s)
         ELSE ReplicatedShape(WetDelete(s), s)
<1>1. s.shard # "none" => DeletedShape(WetDelete(s), s)
  BY DEF WetDelete, DeleteCalls, DeleteSharded, Delete, DeletedShape
<1>2. s.shard = "none" => ReplicatedShape(WetDelete(s), s)
  BY DEF WetDelete, DeleteCalls, DeleteReplicated, Delete, ReplicatedShape
<1> QED
  BY <1>1, <1>2

LEMMA DeployPlan ==
  ASSUME NEW m, NEW s, ~Contradicts(s), m.serve # NoServe
  PROVE  /\ s.replicated => ReplicatedShape(WetDeploy(m, s), s)
         /\ ~s.replicated /\ s.shard = "some" /\ HasPorts(s) => DeployedShape(WetDeploy(m, s), s)
<1> DEFINE public == IsPublic(m, s)
<1>1. s.replicated => WetDeploy(m, s) = WetReplicated(s, public)
  BY DEF WetDeploy, WetReplicated, DeployCalls
<1>2. ~s.replicated /\ s.shard = "some" => WetDeploy(m, s) = WetSharded(s, public)
  BY DEF WetDeploy, WetSharded, DeployCalls
<1> HIDE DEF public
<1>3. ReplicatedShape(WetReplicated(s, public), s)
  BY WetPlans DEF Create, ReplicatedShape
<1>4. HasPorts(s) => DeployedShape(WetSharded(s, public), s)
  BY WetPlans DEF Create, DeployedShape
<1> QED
  BY <1>1, <1>2, <1>3, <1>4

\* The items of a command: the specs of its model, then its jobs.
LEMMA ServiceItem ==
  ASSUME NEW c \in Commands, NEW i \in 1..Len(c.model.services)
  PROVE  i \in 1..Items(c) /\ IsService(c, i) /\ c.model.services[i] \in Specs
<1> DEFINE n == Len(c.model.services)
           j == Len(c.model.jobs)
<1>1. n \in Nat /\ j \in Nat /\ Items(c) = n + j /\ (IsService(c, i) <=> i <= n) /\ i \in 1..n
  BY ModelTyped DEF Items, IsService
<1>2. c.model.services[i] \in Specs
  BY ModelTyped
<1> HIDE DEF n, j
<1> QED
  BY <1>1, <1>2

LEMMA ItemIs ==
  ASSUME NEW c \in Commands, NEW i \in 1..Items(c)
  PROVE  \/ IsService(c, i) /\ i \in 1..Len(c.model.services) /\ c.model.services[i] \in Specs
         \/ ~IsService(c, i)
<1>1. i \in Int /\ i >= 1 /\ Len(c.model.services) \in Nat
  BY ModelTyped
<1>2. IsService(c, i) => i \in 1..Len(c.model.services)
  BY <1>1 DEF IsService
<1> QED
  BY <1>2, ServiceItem

\* A deletion asks for all that the model promises.
LEMMA PromisedDeleted ==
  ASSUME NEW c \in Commands, c.delete, ~c.dryrun, NEW o \in Promised(c.model)
  PROVE  Plans(c, o)
<1> DEFINE m == c.model
<1>1. ASSUME NEW i \in 1..Len(m.services), o \in PromisedBy(m.services[i])
      PROVE  Plans(c, o)
  <2> PICK s : s = m.services[i]
    OBVIOUS
  <2>1. i \in 1..Items(c) /\ ItemCalls(c, i) = WetDelete(s)
    BY <1>1, ServiceItem, ItemPlans
  <2>2. \A k \in 1..Len(WetDelete(s)) : Plans(c, WetDelete(s)[k].obj)
    BY <2>1 DEF Plans
  <2>3. ~Contradicts(s) /\ o \in PromisedBy(s)
    BY <1>1 DEF PromisedBy
  <2>4. CASE s.shard = "none"
    <3>1. o = <<"Deployment", s.name>> \/ (o = <<"Service", s.name>> /\ HasPorts(s))
      BY <2>3, <2>4 DEF PromisedBy
    <3> PICK y : y = WetDelete(s)
      OBVIOUS
    <3>2. ReplicatedShape(y, s)
      BY <2>4, DeletePlan
    <3>3. \A k \in 1..Len(y) : Plans(c, y[k].obj)
      BY <2>2
    <3>4. 1 \in 1..Len(y) /\ (HasPorts(s) => 2 \in 1..Len(y))
      BY <3>2, Positions DEF ReplicatedShape
    <3> QED
      BY <3>1, <3>2, <3>3, <3>4 DEF ReplicatedShape
  <2>5. CASE s.shard # "none"
    <3>1. o \in {<<"StatefulSet", s.name>>, <<"Deployment", Sharder[s.name]>>,
                 <<"Service", s.name>>, <<"Service", Sharder[s.name]>>}
      BY <2>3, <2>5 DEF PromisedBy, Contradicts
    <3> PICK y : y = WetDelete(s)
      OBVIOUS
    <3>2. DeletedShape(y, s)
      BY <2>5, DeletePlan
    <3>3. \A k \in 1..Len(y) : Plans(c, y[k].obj)
      BY <2>2
    <3>4. 1 \in 1..Len(y) /\ 2 \in 1..Len(y) /\ 3 \in 1..Len(y) /\ 4 \in 1..Len(y)
      BY <3>2, Positions DEF DeletedShape
    <3> QED
      BY <3>1, <3>2, <3>3, <3>4 DEF DeletedShape
  <2> QED
    BY <2>4, <2>5
<1>2. ASSUME NEW j \in 1..Len(m.jobs), o = <<"Job", m.jobs[j]>>
      PROVE  Plans(c, o)
  <2> DEFINE n == Len(m.services)
             i == n + j
  <2>1. i \in 1..Items(c) /\ ~(i <= n) /\ i - n = j
    <3> DEFINE l == Len(m.jobs)
    <3>1. n \in Nat /\ l \in Nat /\ Items(c) = n + l /\ j \in 1..l
      BY ModelTyped DEF Items
    <3> HIDE DEF n, l
    <3> QED
      BY <3>1
  <2> HIDE DEF i
  <2>2. ItemCalls(c, i) = <<Delete("Job", m.jobs[j], FALSE)>>
    BY <2>1 DEF ItemCalls, IsService, JobCalls
  <2>3. Len(ItemCalls(c, i)) = 1 /\ ItemCalls(c, i)[1].obj = o
    BY <1>2, <2>2 DEF Delete
  <2>4. 1 \in 1..Len(ItemCalls(c, i))
    BY <2>3
  <2> QED
    BY <2>1, <2>3, <2>4 DEF Plans
<1>3. \/ \E i \in 1..Len(m.services) : o \in PromisedBy(m.services[i])
      \/ \E j \in 1..Len(m.jobs) : o = <<"Job", m.jobs[j]>>
  <2> DEFINE some == {PromisedBy(m.services[i]) : i \in 1..Len(m.services)}
             jobs == {<<"Job", m.jobs[i]>> : i \in 1..Len(m.jobs)}
  <2>1. Promised(m) = (UNION some) \cup jobs
    BY DEF Promised
  <2>2. (\E S \in some : o \in S) \/ o \in jobs
    <3> HIDE DEF some, jobs
    <3> QED
      BY <2>1
  <2> QED
    BY <2>2
<1> QED
  BY <1>1, <1>2, <1>3

\* c deploys what e deletes
SameModel(c, e) ==
  c \in Commands /\ e \in Commands /\ c.model = e.model
  /\ ~c.delete /\ ~c.dryrun /\ e.delete /\ ~e.dryrun

LEMMA JobItems ==
  ASSUME NEW c, NEW e, SameModel(c, e), NEW i, ~IsService(c, i)
  PROVE  /\ Len(ItemCalls(c, i)) = 1 /\ Len(ItemCalls(e, i)) = 1
         /\ ItemCalls(c, i)[1].obj = ItemCalls(e, i)[1].obj
<1> DEFINE j == c.model.jobs[i - Len(c.model.services)]
<1>1. ItemCalls(c, i) = <<Create("Job", j, FALSE)>> /\ ItemCalls(e, i) = <<Delete("Job", j, FALSE)>>
  BY DEF SameModel, IsService, ItemCalls, JobCalls
<1> HIDE DEF j
<1> QED
  BY <1>1 DEF Create, Delete

LEMMA ServiceItems ==
  ASSUME NEW c, NEW e, SameModel(c, e), NEW i, IsService(c, i)
  PROVE  /\ ItemCalls(c, i) = WetDeploy(c.model, c.model.services[i])
         /\ ItemCalls(e, i) = WetDelete(c.model.services[i])
         /\ ItemEnd(c, i) = "next" => /\ ~Contradicts(c.model.services[i]) /\ c.model.serve # NoServe
                                      /\ c.model.services[i].shard = "some" => HasPorts(c.model.services[i])
<1>1. IsService(e, i)
  BY DEF SameModel, IsService
<1> QED
  BY <1>1, ItemPlans DEF SameModel, ItemEnd, DeployEnd

LEMMA SameShape ==
  ASSUME NEW x, NEW y, NEW s, ReplicatedShape(x, s), ReplicatedShape(y, s)
  PROVE  Len(y) = Len(x) /\ \A k \in 1..Len(x) : y[k].obj = x[k].obj
<1>1. CASE HasPorts(s)
  <2>1. Len(x) = 2 /\ Len(y) = 2 /\ y[1].obj = x[1].obj /\ y[2].obj = x[2].obj
    BY <1>1 DEF ReplicatedShape
  <2> QED
    BY <2>1, Positions
<1>2. CASE ~HasPorts(s)
  <2>1. Len(x) = 1 /\ Len(y) = 1 /\ y[1].obj = x[1].obj
    BY <1>2 DEF ReplicatedShape
  <2> QED
    BY <2>1, Positions
<1> QED
  BY <1>1, <1>2

\* With replicated specs only, call by call.
LEMMA SamePlan ==
  ASSUME NEW c, NEW e, SameModel(c, e), SameOrder(c.model), NEW i \in 1..Items(c),
         ItemEnd(c, i) = "next" \/ ItemCalls(c, i) # <<>>
  PROVE  /\ Len(ItemCalls(e, i)) = Len(ItemCalls(c, i))
         /\ \A k \in 1..Len(ItemCalls(c, i)) : ItemCalls(e, i)[k].obj = ItemCalls(c, i)[k].obj
<1>1. CASE ~IsService(c, i)
  BY <1>1, JobItems
<1>2. CASE IsService(c, i)
  <2> PICK s : s = c.model.services[i]
    OBVIOUS
  <2>1. s.replicated /\ s.shard = "none" /\ ~Contradicts(s)
    BY <1>2, ItemIs DEF SameOrder, SameModel, Contradicts
  <2>2. c.model.serve # NoServe
    BY <1>2, ServiceItems DEF WetDeploy, DeployCalls
  <2>3. ItemCalls(c, i) = WetDeploy(c.model, s) /\ ItemCalls(e, i) = WetDelete(s)
    BY <1>2, ServiceItems
  <2> PICK x : x = ItemCalls(c, i)
    OBVIOUS
  <2> PICK y : y = ItemCalls(e, i)
    OBVIOUS
  <2>4. ReplicatedShape(x, s) /\ ReplicatedShape(y, s)
    BY <2>1, <2>2, <2>3, DeployPlan, DeletePlan
  <2>5. Len(y) = Len(x) /\ \A k \in 1..Len(x) : y[k].obj = x[k].obj
    BY <2>4, SameShape
  <2> QED
    BY <2>5
<1> QED
  BY <1>1, <1>2

\* With specs that all ask for something, item by item.
LEMMA SameObjects ==
  ASSUME NEW c, NEW e, SameModel(c, e), NoneDormant(c.model), NEW i \in 1..Items(c),
         ItemEnd(c, i) = "next", NEW k \in 1..Len(ItemCalls(e, i))
  PROVE  \E l \in 1..Len(ItemCalls(c, i)) : ItemCalls(c, i)[l].obj = ItemCalls(e, i)[k].obj
<1>1. CASE ~IsService(c, i)
  <2>1. Len(ItemCalls(c, i)) = 1 /\ Len(ItemCalls(e, i)) = 1
    BY <1>1, JobItems
  <2>2. k = 1 /\ 1 \in 1..Len(ItemCalls(c, i))
    BY <2>1, Positions
  <2> QED
    BY <1>1, <2>2, JobItems
<1>2. CASE IsService(c, i)
  <2> PICK s : s = c.model.services[i]
    OBVIOUS
  <2> PICK x : x = ItemCalls(c, i)
    OBVIOUS
  <2> PICK y : y = ItemCalls(e, i)
    OBVIOUS
  <2>1. /\ ~Contradicts(s) /\ c.model.serve # NoServe /\ (s.shard = "some" => HasPorts(s))
        /\ x = WetDeploy(c.model, s) /\ y = WetDelete(s)
    BY <1>2, ServiceItems
  <2>2. PromisedBy(s) # {}
    BY <1>2, ItemIs DEF NoneDormant, SameModel
  <2>3. (s.replicated /\ s.shard = "none") \/ (~s.replicated /\ s.shard = "some" /\ HasPorts(s))
    BY <2>1, <2>2 DEF PromisedBy, Contradicts
  <2>4. CASE s.replicated /\ s.shard = "none"
    <3>1. ReplicatedShape(x, s) /\ ReplicatedShape(y, s)
      BY <2>1, <2>4, DeployPlan, DeletePlan
    <3>2. Len(y) = Len(x) /\ k \in 1..Len(y) /\ \A l \in 1..Len(x) : y[l].obj = x[l].obj
      BY <3>1, SameShape
    <3> QED
      BY <3>2
  <2>5. CASE ~s.replicated /\ s.shard = "some" /\ HasPorts(s)
    <3>0. DeployedShape(x, s) /\ DeletedShape(y, s)
      BY <2>1, <2>5, DeployPlan, DeletePlan
    <3>1. /\ Len(x) = 4 /\ Len(y) = 4
          /\ x[1].obj = y[2].obj /\ x[2].obj = y[1].obj
          /\ x[3].obj = y[4].obj /\ x[4].obj = y[3].obj
      BY <3>0 DEF DeployedShape, DeletedShape
    <3>2. /\ k = 1 \/ k = 2 \/ k = 3 \/ k = 4
          /\ 1 \in 1..Len(x) /\ 2 \in 1..Len(x) /\ 3 \in 1..Len(x) /\ 4 \in 1..Len(x)
      BY <3>1, Positions
    <3> QED
      BY <3>1, <3>2
  <2> QED
    BY <2>3, <2>4, <2>5
<1> QED
  BY <1>1, <1>2

\* No item of a deletion asks for the same object twice.
LEMMA DeletionsDistinct ==
  ASSUME NEW c, NEW e, SameModel(c, e), NEW i \in 1..Items(c),
         NEW k \in 1..Len(ItemCalls(e, i)), NEW l \in 1..Len(ItemCalls(e, i)),
         ItemCalls(e, i)[k].obj = ItemCalls(e, i)[l].obj
  PROVE  k = l
<1>1. CASE ~IsService(c, i)
  BY <1>1, JobItems, Positions
<1>2. CASE IsService(c, i)
  <2> PICK s : s = c.model.services[i]
    OBVIOUS
  <2> PICK y : y = ItemCalls(e, i)
    OBVIOUS
  <2>1. s \in Specs /\ y = WetDelete(s)
    BY <1>2, ServiceItems, ItemIs DEF SameModel
  <2>2. Sharder[s.name] # s.name
    BY <2>1, NamesTyped, ConstantsAssumption
  <2>3. CASE s.shard = "none"
    <3>1. ReplicatedShape(y, s)
      BY <2>1, <2>3, DeletePlan
    <3>2. (k = 1 \/ k = 2) /\ (l = 1 \/ l = 2) /\ (~HasPorts(s) => k = l)
      BY <3>1, Positions DEF ReplicatedShape
    <3> QED
      BY <3>1, <3>2 DEF ReplicatedShape
  <2>4. CASE s.shard # "none"
    <3>1. DeletedShape(y, s)
      BY <2>1, <2>4, DeletePlan
    <3>2. (k = 1 \/ k = 2 \/ k = 3 \/ k = 4) /\ (l = 1 \/ l = 2 \/ l = 3 \/ l = 4)
      BY <3>1, Positions DEF DeletedShape
    <3> QED
      BY <2>2, <3>1, <3>2 DEF DeletedShape
  <2> QED
    BY <2>3, <2>4
<1> QED
  BY <1>1, <1>2
-----------------------------------------------------------------------------
(* What a deletion leaves behind when it ends.                               *)

LEMMA HowItEnds ==
  ASSUME TypeOK, [Next]_vars, NEW d \in Runs, status[d] = "running"
  PROVE  /\ status'[d] = "ok" => Finishes(d)
         /\ status'[d] = "notfound" => Misses(d)
<1>1. ASSUME NEW q \in Runs, End(q, ItemEnd(cmd[q], ix[q]))
      PROVE  status'[d] \notin {"ok", "notfound"}
  BY <1>1, EndTyped DEF End, TypeOK
<1>2. ASSUME status'[d] \in {"ok", "notfound"}
      PROVE  (status'[d] = "ok" /\ Finishes(d)) \/ (status'[d] = "notfound" /\ Misses(d))
  BY <1>1, <1>2
  DEF Next, Execute, Begin, Succeeds, NextCall, Conflicts, Misses, NextItem, Stops,
      Finishes, Dies, LosesAnswer, Collect, End, runVars, vars, TypeOK
<1> QED
  BY <1>2

\* Calls are answered in the order of the plan.
LEMMA AnsweredDown ==
  ASSUME TypeOK, NEW r \in Runs, NEW i, NEW k, Answered(r, i, k),
         NEW j \in 1..Items(cmd[r]), NEW l \in 1..Len(ItemCalls(cmd[r], j)),
         j < i \/ (j = i /\ l < k)
  PROVE  Answered(r, j, l)
<1>1. /\ cmd[r] \in Commands /\ i \in 1..Items(cmd[r]) /\ k \in 1..Len(ItemCalls(cmd[r], i))
      /\ ix[r] \in Nat /\ step[r] \in Nat
  BY DEF TypeOK, Answered
<1>2. i \in Int /\ j \in Int /\ k \in Int /\ l \in Int
  BY <1>1, ModelTyped, CallsTyped, LenProperties
<1>3. i < ix[r] \/ (i = ix[r] /\ k < step[r])
  BY DEF Answered
<1>4. j < ix[r] \/ (j = ix[r] /\ l < step[r])
  BY <1>1, <1>2, <1>3
<1> QED
  BY <1>4 DEF Answered

\* All that the plan of a run that is past its last item asks for has been answered.
LEMMA AllAnswered ==
  ASSUME NEW r \in Runs, \A i \in 1..Items(cmd[r]) : i < ix[r],
         NEW j \in 1..Items(cmd[r]), NEW l \in 1..Len(ItemCalls(cmd[r], j))
  PROVE  Answered(r, j, l)
BY DEF Answered

LEMMA OkTornDown ==
  ASSUME TypeOK, Torn, NEW d \in Runs, Deletes(d), Apart(d), Finishes(d),
         NEW o \in Promised(cmd[d].model)
  PROVE  cluster[o] # "live"
<1>1. cmd[d] \in Commands /\ cmd[d].delete /\ ~cmd[d].dryrun /\ status[d] = "running"
  BY DEF TypeOK, Deletes, Finishes
<1>2. PICK i \in 1..Items(cmd[d]) : \E k \in 1..Len(ItemCalls(cmd[d], i)) :
        ItemCalls(cmd[d], i)[k].obj = o
  BY <1>1, PromisedDeleted DEF Plans
<1>3. PICK k \in 1..Len(ItemCalls(cmd[d], i)) : ItemCalls(cmd[d], i)[k].obj = o
  BY <1>2
<1>4. \A j \in 1..Items(cmd[d]) : j < ix[d]
  <2>1. ix[d] > Items(cmd[d]) /\ Items(cmd[d]) \in Nat /\ ix[d] \in Nat
    BY <1>1, ModelTyped DEF Finishes, TypeOK
  <2> QED
    BY <2>1
<1>5. Answered(d, i, k) /\ CallOn(d, i, k, o)
  BY <1>3, <1>4, AllAnswered DEF CallOn
<1> QED
  BY <1>1, <1>5, ObjectOfAnswered DEF Torn

\* The plan of a cut short deploy of replicated specs is that of the deletion, as far as
\* the deploy has got.
LEMMA SameSoFar ==
  ASSUME TypeOK, Passed, NEW q \in Runs, NEW d \in Runs, SameModel(cmd[q], cmd[d]),
         SameOrder(cmd[q].model),
         NEW i \in 1..Items(cmd[q]), i < ix[q] \/ ItemCalls(cmd[q], i) # <<>>
  PROVE  /\ Items(cmd[d]) = Items(cmd[q])
         /\ Len(ItemCalls(cmd[d], i)) = Len(ItemCalls(cmd[q], i))
         /\ \A k \in 1..Len(ItemCalls(cmd[q], i)) :
              ItemCalls(cmd[d], i)[k].obj = ItemCalls(cmd[q], i)[k].obj
<1>1. Items(cmd[d]) = Items(cmd[q])
  BY DEF SameModel, Items
<1>2. ItemEnd(cmd[q], i) = "next" \/ ItemCalls(cmd[q], i) # <<>>
  BY DEF Passed
<1> QED
  BY <1>1, <1>2, SamePlan

\* A deletion that ends in NotFound has met all that cut short deploys of its replicated
\* specs left behind: it asks for the objects in the order in which they are made.
LEMMA NotFoundTornDown ==
  ASSUME TypeOK, Passed, Made, Torn, Standing,
         NEW d \in Runs, Deletes(d), Apart(d), Misses(d), OnlyDeploysBefore(d),
         SameOrder(cmd[d].model),
         NEW o \in Promised(cmd[d].model), o \in Objects, cluster[o] = "live"
  PROVE  FALSE
<1>1. /\ cmd[d] \in Commands /\ cmd[d].delete /\ ~cmd[d].dryrun
      /\ HasCall(d) /\ status[d] = "running"
  BY DEF TypeOK, Deletes, Misses, HasCall, Running
<1> PICK i0 : i0 = ix[d]
  OBVIOUS
<1> PICK k0 : k0 = step[d]
  OBVIOUS
<1> PICK p : p = Call(d).obj
  OBVIOUS
<1>2. /\ i0 \in 1..Items(cmd[d]) /\ k0 \in 1..Len(ItemCalls(cmd[d], i0))
      /\ p \in Objects /\ cluster[p] = "absent" /\ CallOn(d, i0, k0, p)
  BY <1>1, CallTyped DEF Misses, CallOn, Call
<1> PICK q : q = maker[o]
  OBVIOUS
<1>3. q \in Runs /\ ~cmd[q].delete /\ Reached(q, o)
  BY DEF Made
<1>4. q \in Runs \ {d} /\ cmd[q] \in Commands /\ Deploys(q) /\ cmd[q].model = cmd[d].model
  BY <1>1, <1>3 DEF Reached, OnlyDeploysBefore, TypeOK
<1>5. SameModel(cmd[q], cmd[d]) /\ SameOrder(cmd[q].model) /\ Items(cmd[q]) = Items(cmd[d])
  BY <1>1, <1>4 DEF SameModel, Deploys, Items
<1>6. PICK i1 \in 1..Items(cmd[q]) : \E k \in 1..Len(ItemCalls(cmd[q], i1)) :
        (i1 < ix[q] \/ (i1 = ix[q] /\ k <= step[q])) /\ CallOn(q, i1, k, o)
  BY <1>3 DEF Reached
<1>7. PICK k1 \in 1..Len(ItemCalls(cmd[q], i1)) :
        (i1 < ix[q] \/ (i1 = ix[q] /\ k1 <= step[q])) /\ CallOn(q, i1, k1, o)
  BY <1>6
<1>8. /\ ix[q] \in Nat /\ step[q] \in Nat /\ Len(ItemCalls(cmd[q], i1)) \in Nat
      /\ i0 \in Int /\ i1 \in Int /\ k0 \in Int /\ k1 \in Int
  BY <1>1, <1>2, <1>4, <1>7, ModelTyped, CallsTyped, LenProperties DEF TypeOK
<1>9. \A i \in 1..Items(cmd[q]) : i < i1 \/ i = i1 =>
        /\ Len(ItemCalls(cmd[d], i)) = Len(ItemCalls(cmd[q], i))
        /\ \A k \in 1..Len(ItemCalls(cmd[q], i)) :
             ItemCalls(cmd[d], i)[k].obj = ItemCalls(cmd[q], i)[k].obj
  <2>1. ItemCalls(cmd[q], i1) # <<>>
    BY <1>7
  <2>2. ASSUME NEW i \in 1..Items(cmd[q]), i < i1 \/ i = i1
        PROVE  /\ Len(ItemCalls(cmd[d], i)) = Len(ItemCalls(cmd[q], i))
               /\ \A k \in 1..Len(ItemCalls(cmd[q], i)) :
                    ItemCalls(cmd[d], i)[k].obj = ItemCalls(cmd[q], i)[k].obj
    <3>1. i < ix[q] \/ ItemCalls(cmd[q], i) # <<>>
      BY <1>7, <1>8, <2>1, <2>2
    <3>2. q \in Runs
      BY <1>4
    <3> QED
      BY <1>5, <3>1, <3>2, SameSoFar
  <2> QED
    BY <2>2
<1>10. k1 \in 1..Len(ItemCalls(cmd[d], i1)) /\ CallOn(d, i1, k1, o) /\ i1 \in 1..Items(cmd[d])
  BY <1>5, <1>7, <1>9 DEF CallOn
\* the deletion has passed o
<1>11. CASE i1 < i0 \/ (i1 = i0 /\ k1 < k0)
  <2>1. Answered(d, i1, k1)
    BY <1>10, <1>11 DEF Answered
  <2> QED
    BY <1>1, <1>10, <2>1, ObjectOfAnswered DEF Torn
\* the deletion asks for o now
<1>12. CASE i1 = i0 /\ k1 = k0
  BY <1>2, <1>10, <1>12 DEF CallOn
\* the deploy has made what the deletion has not found
<1>13. CASE i0 < i1 \/ (i0 = i1 /\ k0 < k1)
  <2>1. k0 \in 1..Len(ItemCalls(cmd[q], i0)) /\ CallOn(q, i0, k0, p) /\ i0 \in 1..Items(cmd[q])
    BY <1>2, <1>5, <1>9, <1>13 DEF CallOn
  <2>2. Answered(q, i0, k0)
    <3>1. i0 < ix[q] \/ (i0 = ix[q] /\ k0 < step[q])
      BY <1>7, <1>8, <1>13
    <3> QED
      BY <2>1, <3>1 DEF Answered
  <2>3. Issued(q, p)
    BY <1>4, <2>1, <2>2, ObjectOfAnswered
  <2>4. Issued(d, p)
    BY <1>1, <1>2, <1>4, <2>3 DEF Standing
  <2>5. PICK i2, k2 : Answered(d, i2, k2) /\ CallOn(d, i2, k2, p)
    BY <2>4, IssuedAnswered
  <2>6. /\ i2 \in 1..Items(cmd[d]) /\ k2 \in 1..Len(ItemCalls(cmd[d], i2))
        /\ i2 < i0 \/ (i2 = i0 /\ k2 < k0)
    BY <2>5 DEF Answered
  <2>7. i2 < i1 \/ i2 = i1
    BY <1>8, <1>13, <2>6
  <2>8. i2 \in 1..Items(cmd[q]) /\ k2 \in 1..Len(ItemCalls(cmd[q], i2)) /\ CallOn(q, i2, k2, p)
    BY <1>5, <1>9, <2>5, <2>6, <2>7 DEF CallOn
  <2>9. Answered(q, i2, k2)
    BY <1>4, <2>2, <2>6, <2>8, AnsweredDown
  <2>10. i2 = i0 /\ k2 = k0
    BY <1>1, <1>4, <2>1, <2>2, <2>8, <2>9 DEF Standing
  <2> QED
    BY <1>8, <2>6, <2>10
<1> QED
  BY <1>8, <1>11, <1>12, <1>13

\* The deletion of what a complete deploy has made, and nothing else has touched, does not
\* miss anything.
LEMMA NothingMissed ==
  ASSUME TypeOK, Passed, Standing, NEW d \in Runs, NEW r \in Runs,
         Deletes(d), Follows(d, r), NoneDormant(cmd[d].model), Misses(d)
  PROVE  FALSE
<1>1. /\ cmd[d] \in Commands /\ cmd[r] \in Commands /\ r \in Runs \ {d}
      /\ HasCall(d) /\ status[d] = "running" /\ cmd[d].delete /\ Apart(d)
  BY DEF TypeOK, Deletes, Follows, Misses, HasCall, Running
<1>2. SameModel(cmd[r], cmd[d]) /\ NoneDormant(cmd[r].model) /\ Items(cmd[r]) = Items(cmd[d])
  BY <1>1 DEF SameModel, Follows, Deploys, Deletes, Items
<1>3. OnlyDeploysBefore(d)
  BY DEF OnlyDeploysBefore, Follows
<1>4. \A i \in 1..Items(cmd[r]) : i < ix[r] /\ ItemEnd(cmd[r], i) = "next"
  <2>1. ix[r] > Items(cmd[r]) /\ Items(cmd[r]) \in Nat /\ ix[r] \in Nat
    BY <1>1, ModelTyped DEF Passed, Follows, TypeOK
  <2>2. \A i \in 1..Items(cmd[r]) : i < ix[r]
    BY <2>1
  <2> QED
    BY <2>2 DEF Passed
\* what the deletion asks for, the deploy has made
<1>5. ASSUME NEW i \in 1..Items(cmd[d]), NEW k \in 1..Len(ItemCalls(cmd[d], i)), NEW p,
             CallOn(d, i, k, p)
      PROVE  \E l : Answered(r, i, l) /\ CallOn(r, i, l, p)
  <2>1. i \in 1..Items(cmd[r]) /\ ItemEnd(cmd[r], i) = "next"
    BY <1>2, <1>4
  <2>2. PICK l \in 1..Len(ItemCalls(cmd[r], i)) :
          ItemCalls(cmd[r], i)[l].obj = ItemCalls(cmd[d], i)[k].obj
    BY <1>2, <2>1, SameObjects
  <2>3. Answered(r, i, l)
    BY <1>4, <2>1, <2>2, AllAnswered
  <2> QED
    BY <1>5, <2>2, <2>3 DEF CallOn
<1> PICK i0 : i0 = ix[d]
  OBVIOUS
<1> PICK k0 : k0 = step[d]
  OBVIOUS
<1> PICK p : p = Call(d).obj
  OBVIOUS
<1>6. /\ i0 \in 1..Items(cmd[d]) /\ k0 \in 1..Len(ItemCalls(cmd[d], i0)) /\ k0 \in Nat
      /\ p \in Objects /\ cluster[p] = "absent" /\ CallOn(d, i0, k0, p)
  BY <1>1, CallTyped DEF Misses, CallOn, Call, TypeOK
<1>7. PICK l0 : Answered(r, i0, l0) /\ CallOn(r, i0, l0, p)
  BY <1>5, <1>6
<1>8. Issued(r, p)
  BY <1>7, ObjectOfAnswered
<1>9. Issued(d, p)
  BY <1>1, <1>3, <1>6, <1>8 DEF Standing
<1>10. PICK i2, k2 : Answered(d, i2, k2) /\ CallOn(d, i2, k2, p)
  BY <1>9, IssuedAnswered
<1>11. /\ i2 \in 1..Items(cmd[d]) /\ k2 \in 1..Len(ItemCalls(cmd[d], i2))
       /\ i2 < i0 \/ (i2 = i0 /\ k2 < k0)
  BY <1>10 DEF Answered
<1>12. PICK l2 : Answered(r, i2, l2) /\ CallOn(r, i2, l2, p)
  BY <1>5, <1>10, <1>11
<1>13. i0 = i2
  BY <1>1, <1>3, <1>7, <1>12 DEF Standing
<1>14. k2 = k0
  BY <1>2, <1>6, <1>10, <1>11, <1>13, DeletionsDistinct DEF CallOn
<1>15. i0 \in Int
  BY <1>6
<1> QED
  BY <1>6, <1>11, <1>13, <1>14, <1>15

\* A delete run that reports success has left nothing of what its model promises live,
\* and one of replicated specs that ends in NotFound after cut short deploys neither: it
\* asks for all that deploy and deployStateful put up, in the order of deploy.
THEOREM TornDownAlways == Spec => TornDown
<1>1. ASSUME TypeOK, Passed, Made, Torn, Standing, [Next]_vars,
             NEW d \in Runs, Deletes(d), Apart(d), status[d] = "running",
             \/ status'[d] = "ok"
             \/ status'[d] = "notfound" /\ OnlyDeploysBefore(d) /\ SameOrder(cmd[d].model),
             NEW o \in Promised(cmd[d].model)
      PROVE  cluster[o] # "live"
  <2>1. o \in Objects
    <3>1. cmd[d] \in Commands /\ cmd[d].delete /\ ~cmd[d].dryrun
      BY <1>1 DEF TypeOK, Deletes
    <3>2. PICK i \in 1..Items(cmd[d]) : \E k \in 1..Len(ItemCalls(cmd[d], i)) :
            ItemCalls(cmd[d], i)[k].obj = o
      BY <1>1, <3>1, PromisedDeleted DEF Plans
    <3>3. PICK k \in 1..Len(ItemCalls(cmd[d], i)) : ItemCalls(cmd[d], i)[k].obj = o
      BY <3>2
    <3>4. ItemCalls(cmd[d], i)[k] \in Calls
      BY <3>1, CallsTyped, ElementOfSeq
    <3> QED
      BY <3>3, <3>4 DEF Calls
  <2>2. CASE status'[d] = "ok"
    BY <1>1, <2>2, HowItEnds, OkTornDown
  <2>3. CASE status'[d] = "notfound" /\ OnlyDeploysBefore(d) /\ SameOrder(cmd[d].model)
    BY <1>1, <2>1, <2>3, HowItEnds, NotFoundTornDown
  <2> QED
    BY <1>1, <2>2, <2>3
<1>2. TypeOK /\ Passed /\ Made /\ Torn /\ Standing /\ [Next]_vars =>
        [\A d \in Runs :
           /\ Deletes(d) /\ Apart(d) /\ status[d] = "running"
           /\ \/ status'[d] = "ok"
              \/ status'[d] = "notfound" /\ OnlyDeploysBefore(d) /\ SameOrder(cmd[d].model)
           => \A o \in Promised(cmd[d].model) : cluster[o] # "live"]_vars
  BY <1>1
<1> QED
  BY <1>2, TypeCorrect, PassedInit, PassedStep, OrderInit, WaitedStep, MadeStep, TornStep,
     StandingStep, PTL DEF Spec, TornDown

\* The deletion of a model that was just deployed finds every object it asks for: the
\* calls of deleteService are on the objects of deploy and deployStateful, each once.
THEOREM RoundTripAlways == Spec => RoundTrip
<1>1. ASSUME TypeOK, Passed, Standing, [Next]_vars, NEW d \in Runs, NEW r \in Runs,
             Deletes(d), Follows(d, r), NoneDormant(cmd[d].model)
      PROVE  status'[d] # "notfound"
  BY <1>1, HowItEnds, NothingMissed DEF Follows
<1>2. TypeOK /\ Passed /\ Standing /\ [Next]_vars =>
        [\A d, r \in Runs :
           Deletes(d) /\ Follows(d, r) /\ NoneDormant(cmd[d].model) => status'[d] # "notfound"]_vars
  BY <1>1
<1> QED
  BY <1>2, TypeCorrect, PassedInit, PassedStep, OrderInit, WaitedStep, StandingStep, PTL
  DEF Spec, RoundTrip
=============================================================================

----------------------------- MODULE MCKubePlan -----------------------------
(* Instances of KubePlan for TLC: the models of the repository's examples and *)
(* the corner cases of Execute, and the commands of each run.                 *)
EXTENDS KubePlan, TLC

\* every name may be a spec name except the last: its sharder is not needed
MCNames == {"a", "b", "a-sharder", "b-sharder", "a-sharder-sharder"}
MCSharder == "a" :> "a-sharder" @@ "b" :> "b-sharder" @@ "a-sharder" :> "a-sharder-sharder"

Http == <<8080>>
Replicated(n, p) == [name |-> n, replicated |-> TRUE, shard |-> "none", ports |-> p]
Sharded(n, p)    == [name |-> n, replicated |-> FALSE, shard |-> "some", ports |-> p]
Model(ss, js, serve, public) ==
  [services |-> ss, jobs |-> js, serve |-> serve, public |-> public]

Web       == Model(<<Replicated("a", Http)>>, <<>>, "a", TRUE)    \* singleton-example.json
Shards    == Model(<<Sharded("a", Http)>>, <<>>, "a", TRUE)       \* sharded-example.json
Others    == Model(<<Sharded("a", <<9090>>)>>, <<>>, "a", TRUE)   \* a port the sharder ignores
Jobs      == Model(<<>>, <<"a">>, NoServe, FALSE)                 \* job-example.json
Pair      == Model(<<Replicated("a", <<>>), Replicated("b", Http)>>, <<"a">>, "b", TRUE)
PairBack  == Model(<<Replicated("b", Http), Replicated("a", <<>>)>>, <<>>, "a", TRUE)
Collides  == Model(<<Replicated("a-sharder", Http)>>, <<>>, "a", TRUE)
Unserved  == Model(<<Replicated("a", Http)>>, <<>>, NoServe, FALSE)
Portless  == Model(<<Sharded("a", <<>>)>>, <<>>, "a", TRUE)
Both      == Model(<<Replicated("b", Http), [Replicated("a", Http) EXCEPT !.shard = "some"]>>,
                   <<>>, "b", FALSE)
Dormant   == Model(<<[Replicated("a", Http) EXCEPT !.replicated = FALSE], Replicated("b", Http)>>,
                   <<>>, "b", FALSE)
ZeroShard == Model(<<[Sharded("a", Http) EXCEPT !.shard = "zero"]>>, <<"b">>, "a", FALSE)
Contrary  == Model(<<[Replicated("a", Http) EXCEPT !.shard = "some"]>>, <<>>, "a", TRUE)

Up(m)   == [model |-> m, delete |-> FALSE, dryrun |-> FALSE, behind |-> {}]
Down(m) == [Up(m) EXCEPT !.delete = TRUE]
Dry(c)  == [c EXCEPT !.dryrun = TRUE]
After(rs, c) == [c EXCEPT !.behind = rs]

MCRuns  == {"r1", "r2", "r3"}
Started(c1, c2, c3) == "r1" :> c1 @@ "r2" :> c2 @@ "r3" :> c3

\* clashing names, and the corner cases
OverlapCommands ==
  {Up(m) : m \in {Shards, Others, Pair, PairBack, Collides, Unserved, Portless, Both, Dormant,
                  ZeroShard, Web}}
  \cup {Down(m) : m \in {Shards, Pair, Portless, Both, Dormant, ZeroShard}}
  \cup {Dry(Up(m)) : m \in {Portless, Both, Web, Jobs}}

\* a run that waits for itself is never started
Never(r) == After({r}, Up(Web))

\* two runs at once
Overlapping == {Started(c1, c2, Never("r3")) : c1, c2 \in OverlapCommands}

\* two runs at once, and a tear-down of the first one's model when both are over
ThenTornDown ==
  {Started(c1, c2, After({"r1", "r2"}, Down(c1.model))) :
     c1 \in {Up(Shards), Up(Pair)}, c2 \in {Up(Web), Up(Shards), Up(Collides), Down(Shards), Down(Pair)}}

FirstCommands == {Up(m) : m \in {Web, Shards, Pair, Jobs}} \cup {Dry(Up(Pair))}
LastCommands ==
  {Up(m) : m \in {Web, Shards, Pair, Jobs}} \cup {Down(m) : m \in {Web, Shards, Pair, Jobs}}
NextCommands ==
  LastCommands \cup {Dry(Up(Pair)), Dry(Down(Pair)), Dry(Up(Shards)), Dry(Down(Shards))}

\* three runs one after another; they differ in their commands only, so one order will do
Sequential ==
  {Started(c1, After({"r1"}, c2), After({"r1", "r2"}, c3)) :
     c1 \in FirstCommands, c2 \in NextCommands, c3 \in LastCommands}

\* the deletion of a spec that is never deployed, among the objects of others or alone
NeverDeployed ==
  {Started(Up(Shards), After({"r1"}, Up(Web)), After({"r1", "r2"}, Down(Contrary)))}
  \cup {Started(Up(m), After({"r1"}, Down(m)), Never("r3")) : m \in {Dormant, ZeroShard}}

MCScenarios == Overlapping \cup ThenTornDown \cup Sequential \cup NeverDeployed

\* one run
JobScenarios ==
  {Started(c, Never("r2"), Never("r3")) : c \in {Up(Jobs), Dry(Up(Jobs)), Dry(Down(Jobs))}}

UpdateScenarios ==
  {Started(c1, After({"r1"}, c2), Never("r3")) : c1, c2 \in {Up(Web), Up(Shards), Down(Web)}}
=============================================================================

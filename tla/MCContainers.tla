---------------------------- MODULE MCContainers ----------------------------
(* Instances of Containers for TLC: the commands of each run.                *)
EXTENDS Containers

Of(n, p)    == [name |-> n, scaled |-> FALSE, ports |-> p]
Scaled(n)   == [Of(n, 1) EXCEPT !.scaled = TRUE]
Up(x, n, ss) == [exec |-> x, del |-> FALSE, dryrun |-> FALSE, name |-> n, services |-> ss]
Down(c)     == [c EXCEPT !.del = TRUE]
Dry(c)      == [c EXCEPT !.dryrun = TRUE]

Pair   == <<Of("a", 0), Of("b", 1)>>
Mixed  == <<Of("b", 1), Scaled("a")>>       \* the second is refused
Ports  == <<Of("b", 1), Of("a", 2)>>        \* aci refuses the second
Twins  == <<Of("a", 1), Of("a", 1)>>

Deploys == {Up("docker", "a", ss) : ss \in {Pair, Mixed, Ports, Twins}}
           \cup {Up("aci", n, ss) : n \in {"a", "b"}, ss \in {Pair, Mixed, Ports}}

MCCommands ==
  UNION {{c, Down(c)} : c \in Deploys} \cup {Dry(Up("docker", "a", Pair)), Dry(Down(Up("aci", "a", Pair)))}
=============================================================================

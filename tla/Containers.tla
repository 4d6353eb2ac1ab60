----------------------------- MODULE Containers -----------------------------
(***************************************************************************)
(* compiler/docker-compiler.go, compiler/aci-compiler.go, compiler/exec.go:  *)
(* the executors that work through one command line per spec, when several   *)
(* mp-compiler processes ("runs") use one docker daemon and one resource     *)
(* group.                                                                    *)
(*                                                                         *)
(* A command is a process of its own.  mp-compiler waits for it; when         *)
(* mp-compiler is killed the command is not, and does what it was asked for. *)
(***************************************************************************)
EXTENDS Integers, Sequences

CONSTANTS
  Runs,      \* mp-compiler processes
  Commands,  \* what each may be asked: [exec, del, dryrun, name, services]
  Names,     \* names of containers and of container groups
  NoOne      \* the maker of what does not exist

Executors == {"docker", "aci"}

\* scaled: more than one replica, or a shard specification
Specs == [name : Names, scaled : BOOLEAN, ports : Nat]

ASSUME ContainersAssumption ==
  /\ NoOne \notin Runs
  /\ Commands \subseteq [exec : Executors, del : BOOLEAN, dryrun : BOOLEAN,
                         name : Names, services : Seq(Specs)]

VARIABLES
  cmd,     \* the flags and the model of each run
  status,  \* how each run stands
  ix,      \* the loop index of Execute
  child,   \* the command a run has started: none, busy, or how it has ended
  box,     \* for each executor and name: who made what is there, of which spec
  after    \* history: the runs that were over, with their commands, when each began

vars == <<cmd, status, ix, child, box, after>>

Results == {"ok", "missing", "failed"}
Nothing == [by |-> NoOne, spec |-> 0]

TypeOK ==
  /\ cmd \in [Runs -> Commands]
  /\ status \in [Runs -> {"idle", "running", "waiting", "refused", "killed"} \cup Results]
  /\ ix \in [Runs -> Nat]
  /\ \A r \in Runs : ix[r] \in 1..(Len(cmd[r].services) + 1)
  /\ child \in [Runs -> {"none", "busy"} \cup Results]
  /\ \A r \in Runs : /\ status[r] = "waiting" => child[r] # "none"
                     /\ status[r] \in {"idle", "running"} => child[r] = "none"
  /\ box \in [Executors -> [Names -> [by : Runs \cup {NoOne}, spec : Nat]]]
  /\ after \in [Runs -> SUBSET Runs]

Init ==
  /\ cmd \in [Runs -> Commands]
  /\ status = [r \in Runs |-> "idle"]
  /\ ix = [r \in Runs |-> 1]
  /\ child = [r \in Runs |-> "none"]
  /\ box = [x \in Executors |-> [n \in Names |-> Nothing]]
  /\ after = [r \in Runs |-> {}]

-----------------------------------------------------------------------------
(* Execute                                                                   *)

Spec1(r) == cmd[r].services[ix[r]]

\* Mutant: the last spec is deleted first.
TargetBackwards(c, i) ==
  LET k == IF c.del THEN Len(c.services) + 1 - i ELSE i IN
  IF c.exec = "docker" THEN c.services[k].name ELSE c.name

\* Every docker container is called like its spec, every group like the model.
Target(c, i) == IF c.exec = "docker" THEN c.services[i].name ELSE c.name

Goes(r, to) == status' = [status EXCEPT ![r] = to]

Over(r) == status[r] \notin {"idle", "running", "waiting"} /\ child[r] # "busy"

Begin(r) ==
  /\ status[r] = "idle"
  /\ Goes(r, "running")
  /\ after' = [after EXCEPT ![r] = {q \in Runs : Over(q)}]
  /\ UNCHANGED <<cmd, ix, child, box>>

InLoop(r) == status[r] = "running" /\ ix[r] <= Len(cmd[r].services)

\* executeCommand
Start(r) ==
  \/ /\ cmd[r].dryrun
     /\ ix' = [ix EXCEPT ![r] = @ + 1]
     /\ UNCHANGED <<status, child>>
  \/ /\ ~cmd[r].dryrun
     /\ child' = [child EXCEPT ![r] = "busy"]
     /\ Goes(r, "waiting")
     /\ UNCHANGED ix

\* neither supports replication or sharding, aci no second port
Refuses(x, s) == s.scaled \/ (x = "aci" /\ s.ports > 1)

runService(r) ==
  /\ InLoop(r) /\ ~cmd[r].del
  /\ LET refused == Refuses(cmd[r].exec, Spec1(r)) IN
     \/ refused /\ Goes(r, "refused") /\ UNCHANGED <<ix, child>>
     \/ ~refused /\ Start(r)
  /\ UNCHANGED <<cmd, box, after>>

\* a deletion refuses nothing
deleteService(r) ==
  /\ InLoop(r) /\ cmd[r].del
  /\ Start(r)
  /\ UNCHANGED <<cmd, box, after>>

\* Mutant: the error of a command is not looked at.
ReturnBlind(r) ==
  /\ status[r] = "waiting" /\ child[r] \in Results
  /\ child' = [child EXCEPT ![r] = "none"]
  /\ Goes(r, "running") /\ ix' = [ix EXCEPT ![r] = @ + 1]
  /\ UNCHANGED <<cmd, box, after>>

\* Mutant: the command is not waited for to the end.
ReturnEarly(r) ==
  /\ status[r] = "waiting" /\ child[r] # "none"
  /\ IF child[r] \in {"ok", "busy"} THEN Goes(r, "running") /\ ix' = [ix EXCEPT ![r] = @ + 1]
                          ELSE Goes(r, child[r]) /\ UNCHANGED ix
  /\ UNCHANGED <<cmd, box, child, after>>

\* CombinedOutput returns: the loop goes on, or ends with the error.
Return(r) ==
  /\ status[r] = "waiting" /\ child[r] \in Results
  /\ child' = [child EXCEPT ![r] = "none"]
  /\ IF child[r] = "ok" THEN Goes(r, "running") /\ ix' = [ix EXCEPT ![r] = @ + 1]
                        ELSE Goes(r, child[r]) /\ UNCHANGED ix
  /\ UNCHANGED <<cmd, box, after>>

Finish(r) ==
  /\ status[r] = "running" /\ ix[r] > Len(cmd[r].services)
  /\ Goes(r, "ok")
  /\ UNCHANGED <<cmd, ix, child, box, after>>

\* mp-compiler is killed; its command goes on.
Kill(r) ==
  /\ status[r] \in {"running", "waiting"}
  /\ Goes(r, "killed")
  /\ UNCHANGED <<cmd, ix, child, box, after>>

-----------------------------------------------------------------------------
(* docker and az (external)                                                  *)

Here(r)   == box[cmd[r].exec][Target(cmd[r], ix[r])]
Put(r, b) == box' = [box EXCEPT ![cmd[r].exec][Target(cmd[r], ix[r])] = b]
Ends(r, how) == child' = [child EXCEPT ![r] = how]

\* docker run --name, -d: a name that is taken is an error; a container that
\* cannot be started (its port is taken) is there all the same.
\* az container create: what is there under the name is replaced.
MakeCommand(r) ==
  /\ child[r] = "busy" /\ ~cmd[r].del
  /\ \/ Ends(r, "failed") /\ UNCHANGED box
     \/ /\ cmd[r].exec = "docker" => Here(r) = Nothing
        /\ Put(r, [by |-> r, spec |-> ix[r]])
        /\ \E how \in {"ok", "failed"} : Ends(r, how)
  /\ UNCHANGED <<cmd, status, ix, after>>

\* docker rm -f, az container delete: to remove what is not there is an error or
\* not, depending on the version.
RemoveCommand(r) ==
  /\ child[r] = "busy" /\ cmd[r].del
  /\ \/ Ends(r, "failed") /\ UNCHANGED box
     \/ Here(r) = Nothing /\ UNCHANGED box /\ \E how \in {"ok", "missing"} : Ends(r, how)
     \/ Here(r) # Nothing /\ Put(r, Nothing) /\ Ends(r, "ok")
  /\ UNCHANGED <<cmd, status, ix, after>>

-----------------------------------------------------------------------------

Execute(r) == runService(r) \/ deleteService(r) \/ Return(r) \/ Finish(r)

Next == \E r \in Runs : Begin(r) \/ Execute(r) \/ Kill(r) \/ MakeCommand(r) \/ RemoveCommand(r)

Spec == Init /\ [][Next]_vars
-----------------------------------------------------------------------------
(* Properties *)

Changes(c) == ~c.dryrun

\* r has started a command for its i-th spec
Started(r, i) ==
  /\ Changes(cmd[r]) /\ i \in 1..Len(cmd[r].services)
  /\ \/ i < ix[r]
     \/ i = ix[r] /\ (child[r] # "none" \/ status[r] \in {"missing", "failed"})

\* q has got to the same container or group as r for its i-th spec, and may have
\* removed it; or, where a create replaces, have put its own there since
Supersedes(q, r, i) ==
  \E j \in 1..Len(cmd[q].services) :
    /\ Started(q, j)
    /\ cmd[q].exec = cmd[r].exec /\ Target(cmd[q], j) = Target(cmd[r], i)
    /\ \/ cmd[q].del
       \/ cmd[r].exec = "aci" /\ (q = r => j > i)

\* What a deploy has gone past is up and its own, of that very spec, until a
\* deletion gets to it: with docker no other deploy takes it over; with aci one under
\* the same name does, the next spec of the same model too.
Accounted ==
  \A r \in Runs : \A i \in 1..(ix[r] - 1) :
    Changes(cmd[r]) /\ ~cmd[r].del
    => \/ box[cmd[r].exec][Target(cmd[r], i)] = [by |-> r, spec |-> i]
       \/ \E q \in Runs : Supersedes(q, r, i)

\* d deletes, and nobody does anything else: every other run was over when d began,
\* and is a deploy of the same model, or has not begun
DeletesAlone(d) ==
  /\ cmd[d].del /\ Changes(cmd[d])
  /\ \A q \in Runs \ {d} :
       status[q] = "idle" \/ (q \in after[d] /\ cmd[q] = [cmd[d] EXCEPT !.del = FALSE])

\* A deletion takes down what a deploy of the same model has put up, wherever that
\* deploy was refused, failed or killed: also when it ends in the error that the next
\* one is missing, nothing of the model is left.
CleansUp ==
  [][\A d \in Runs :
       /\ DeletesAlone(d)
       /\ status[d] \in {"running", "waiting"} /\ status'[d] \in {"ok", "missing"}
       => \A n \in Names : box'[cmd[d].exec][n] = Nothing]_vars
=============================================================================

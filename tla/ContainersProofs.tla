-------------------------- MODULE ContainersProofs --------------------------
(***************************************************************************)
(* Proofs about Containers: for any number of mp-compiler processes, models  *)
(* and names, however their commands interleave and whenever they are        *)
(* killed.                                                                    *)
(***************************************************************************)
EXTENDS Containers, TLAPS

-----------------------------------------------------------------------------
(* The inductive invariant                                                   *)

Deploys(r) == Changes(cmd[r]) /\ ~cmd[r].del

\* What r has put up for its i-th spec is there, or was superseded.
Stands(r, i) ==
  \/ box[cmd[r].exec][Target(cmd[r], i)] = [by |-> r, spec |-> i]
  \/ \E q \in Runs : Supersedes(q, r, i)

\* A command is for a spec of the model, and of a run that changes something; one
\* that has put something up is accounted for before it is waited for.
Commanded(r) ==
  /\ child[r] # "none" => ix[r] <= Len(cmd[r].services) /\ Changes(cmd[r])
  /\ child[r] = "ok" /\ Deploys(r) => Stands(r, ix[r])

\* What is there was put there by a deploy that had got to that spec.
Owned(x, n) ==
  \/ box[x][n] = Nothing
  \/ \E r \in Runs : /\ box[x][n].by = r /\ box[x][n].spec \in 1..Len(cmd[r].services)
                     /\ Deploys(r) /\ cmd[r].exec = x
                     /\ Target(cmd[r], box[x][n].spec) = n
                     /\ box[x][n].spec < ix[r] \/ (box[x][n].spec = ix[r] /\ status[r] # "idle")

\* A run that has not begun has done nothing; one that was over is over.
History(r) ==
  /\ status[r] = "idle" => ix[r] = 1 /\ child[r] = "none"
  /\ \A q \in after[r] : Over(q)

\* What a deletion has still to find, from its k-th spec on, begins there, has no
\* gap and no name twice: whatever else is missing, the k-th is not.
Leads(d, k, n) ==
  \E i \in k..Len(cmd[d].services) :
    /\ Target(cmd[d], i) = n
    /\ \A j \in k..i : box[cmd[d].exec][Target(cmd[d], j)] # Nothing
    /\ \A j, l \in k..i : Target(cmd[d], j) = Target(cmd[d], l) => j = l

Found(d, k) == \A n \in Names : box[cmd[d].exec][n] = Nothing \/ Leads(d, k, n)

Cleaning(d) ==
  DeletesAlone(d) /\ status[d] \in {"running", "waiting"} =>
    /\ child[d] \in {"none", "busy", "failed"} => Found(d, ix[d])
    /\ child[d] = "ok" => Found(d, ix[d] + 1)
    /\ child[d] = "missing" => \A n \in Names : box[cmd[d].exec][n] = Nothing

IInv ==
  /\ TypeOK /\ Accounted
  /\ \A r \in Runs : Commanded(r) /\ History(r) /\ Cleaning(r)
  /\ \A x \in Executors : \A n \in Names : Owned(x, n)
-----------------------------------------------------------------------------
(* The types                                                                 *)

Boxes == [by : Runs \cup {NoOne}, spec : Nat]

LEMMA CommandTyped ==
  ASSUME TypeOK, NEW r \in Runs
  PROVE  /\ cmd[r].exec \in Executors /\ cmd[r].del \in BOOLEAN /\ cmd[r].dryrun \in BOOLEAN
         /\ cmd[r].name \in Names /\ cmd[r].services \in Seq(Specs)
         /\ Len(cmd[r].services) \in Nat
         /\ ix[r] \in Nat /\ 1 <= ix[r] /\ ix[r] <= Len(cmd[r].services) + 1
<1>1. cmd[r] \in [exec : Executors, del : BOOLEAN, dryrun : BOOLEAN, name : Names, services : Seq(Specs)]
  BY ContainersAssumption DEF TypeOK
<1>2. ix[r] \in Nat /\ ix[r] \in 1..(Len(cmd[r].services) + 1)
  BY DEF TypeOK
<1>3. cmd[r].services \in Seq(Specs) /\ Len(cmd[r].services) \in Nat
  BY <1>1
<1> QED
  BY <1>1, <1>2, <1>3

LEMMA TargetTyped ==
  ASSUME TypeOK, NEW r \in Runs, NEW i \in 1..Len(cmd[r].services)
  PROVE  Target(cmd[r], i) \in Names
<1>1. cmd[r].services[i] \in Specs
  BY CommandTyped
<1> QED
  BY <1>1, CommandTyped DEF Target, Specs

-----------------------------------------------------------------------------
(* What a step of one run does, and what it leaves alone                     *)

Step(r) == Begin(r) \/ Execute(r) \/ Kill(r) \/ MakeCommand(r) \/ RemoveCommand(r)

OnlyOf(r) ==
  /\ cmd' = cmd
  /\ \A q \in Runs \ {r} : /\ status'[q] = status[q] /\ ix'[q] = ix[q]
                           /\ child'[q] = child[q] /\ after'[q] = after[q]

\* How the status, the loop index and the command of a run can change in one step:
\* it begins, starts a command, is refused, goes past a spec without or with a
\* command, ends, is killed, or its command ends.
Turns(r) ==
  \/ /\ status[r] = "idle" /\ status'[r] = "running" /\ ix'[r] = ix[r] /\ child'[r] = child[r]
     /\ after'[r] = {q \in Runs : Over(q)} /\ box' = box
  \/ /\ status[r] # "idle" /\ after'[r] = after[r]
     /\ \/ /\ InLoop(r) /\ ix'[r] = ix[r] /\ box' = box /\ ~cmd[r].dryrun
           /\ status'[r] = "waiting" /\ child'[r] = "busy"
        \/ /\ InLoop(r) /\ ix'[r] = ix[r] /\ box' = box
           /\ status'[r] = "refused" /\ child'[r] = child[r] /\ ~cmd[r].del
        \/ /\ InLoop(r) /\ ix'[r] = ix[r] + 1 /\ box' = box /\ cmd[r].dryrun
           /\ status'[r] = status[r] /\ child'[r] = child[r]
        \/ /\ status[r] = "waiting" /\ child[r] = "ok" /\ box' = box
           /\ status'[r] = "running" /\ child'[r] = "none" /\ ix'[r] = ix[r] + 1
        \/ /\ status[r] = "waiting" /\ child[r] \in {"missing", "failed"} /\ box' = box
           /\ status'[r] = child[r] /\ child'[r] = "none" /\ ix'[r] = ix[r]
        \/ /\ status[r] = "running" /\ ix[r] > Len(cmd[r].services) /\ box' = box
           /\ status'[r] = "ok" /\ child'[r] = child[r] /\ ix'[r] = ix[r]
        \/ /\ status[r] \in {"running", "waiting"} /\ box' = box
           /\ status'[r] = "killed" /\ child'[r] = child[r] /\ ix'[r] = ix[r]
        \/ /\ child[r] = "busy" /\ child'[r] \in Results
           /\ status'[r] = status[r] /\ ix'[r] = ix[r]

LEMMA Turning ==
  ASSUME IInv, NEW r \in Runs, Step(r)
  PROVE  OnlyOf(r) /\ Turns(r)
<1>1. /\ DOMAIN status = Runs /\ DOMAIN ix = Runs /\ DOMAIN child = Runs /\ DOMAIN after = Runs
      /\ child[r] = "busy" => status[r] # "idle"
  BY DEF IInv, TypeOK, History
<1>2. CASE Begin(r)
  BY <1>1, <1>2 DEF Begin, Goes, OnlyOf, Turns
<1>3. CASE runService(r)
  BY <1>1, <1>3 DEF runService, InLoop, Start, Goes, OnlyOf, Turns
<1>4. CASE deleteService(r)
  BY <1>1, <1>4 DEF deleteService, InLoop, Start, Goes, OnlyOf, Turns
<1>5. CASE Return(r)
  BY <1>1, <1>5 DEF Return, Results, Goes, OnlyOf, Turns
<1>6. CASE Finish(r)
  BY <1>1, <1>6 DEF Finish, Goes, OnlyOf, Turns
<1>7. CASE Kill(r)
  BY <1>1, <1>7 DEF Kill, Goes, OnlyOf, Turns
<1>8. CASE MakeCommand(r)
  BY <1>1, <1>8 DEF MakeCommand, Ends, Results, OnlyOf, Turns
<1>9. CASE RemoveCommand(r)
  BY <1>1, <1>9 DEF RemoveCommand, Ends, Results, OnlyOf, Turns
<1> QED
  BY <1>2, <1>3, <1>4, <1>5, <1>6, <1>7, <1>8, <1>9 DEF Step, Execute

\* A command that has been started stays started.
LEMMA StartedStays ==
  ASSUME IInv, NEW r \in Runs, Step(r), NEW q \in Runs, NEW i, Started(q, i)
  PROVE  Started(q, i)'
<1>1. OnlyOf(r) /\ Turns(r)
  BY Turning
<1>2. CASE q # r
  BY <1>1, <1>2 DEF OnlyOf, Started
<1>3. CASE q = r
  <2>1. /\ cmd' = cmd /\ ix[r] \in Nat /\ i \in 1..Len(cmd[r].services) /\ Changes(cmd[r])
        /\ i < ix[r] \/ (i = ix[r] /\ (child[r] # "none" \/ status[r] \in {"missing", "failed"}))
        /\ status[r] = "idle" => child[r] = "none"
        /\ Len(cmd[r].services) \in Nat
        /\ status[r] = "running" => child[r] = "none"
    BY <1>1, <1>3, CommandTyped DEF IInv, TypeOK, OnlyOf, Started, History
  <2>2. i < ix'[r] \/ (i = ix'[r] /\ (child'[r] # "none" \/ status'[r] \in {"missing", "failed"}))
    BY <1>1, <2>1 DEF Turns, InLoop, Results
  <2> QED
    BY <1>3, <2>1, <2>2 DEF Started
<1> QED
  BY <1>2, <1>3

LEMMA SupersedesStays ==
  ASSUME IInv, NEW r \in Runs, Step(r), NEW q \in Runs, NEW p \in Runs, NEW i, Supersedes(q, p, i)
  PROVE  Supersedes(q, p, i)'
<1>1. cmd' = cmd
  BY Turning DEF OnlyOf
<1> QED
  BY <1>1, StartedStays DEF Supersedes

\* The command of r, when it ends, touches one container or group: it is r's own
\* then, or nobody's, and whoever had it is superseded.
Touches(r, b) ==
  /\ child[r] = "busy" /\ Put(r, b)
  /\ \/ b = Nothing /\ cmd[r].del
     \/ /\ b = [by |-> r, spec |-> ix[r]] /\ ~cmd[r].del
        /\ cmd[r].exec = "docker" => Here(r) = Nothing

LEMMA BoxTouched ==
  ASSUME NEW r \in Runs, Step(r)
  PROVE  box' = box \/ \E b : Touches(r, b)
  BY DEF Step, Execute, Begin, runService, deleteService, Return, Finish, Kill, MakeCommand,
     RemoveCommand, Touches, Here
\* What is touched is the box of r's command, and its new content one of two.
LEMMA TouchedAt ==
  ASSUME IInv, NEW r \in Runs, NEW b, Touches(r, b)
  PROVE  /\ cmd[r].exec \in Executors /\ ix[r] \in 1..Len(cmd[r].services)
         /\ Target(cmd[r], ix[r]) \in Names /\ b \in Boxes /\ Changes(cmd[r])
         /\ box' \in [Executors -> [Names -> Boxes]]
         /\ box'[cmd[r].exec][Target(cmd[r], ix[r])] = b
         /\ \A x \in Executors : \A n \in Names :
              (x # cmd[r].exec \/ n # Target(cmd[r], ix[r])) => box'[x][n] = box[x][n]
<1>1. ix[r] \in 1..Len(cmd[r].services) /\ cmd[r].exec \in Executors /\ Changes(cmd[r])
  BY CommandTyped DEF IInv, Commanded, Touches
<1>2. Target(cmd[r], ix[r]) \in Names
  BY <1>1, TargetTyped DEF IInv
<1>3. b \in Boxes
  BY <1>1 DEF Touches, Nothing, Boxes
<1>4. box \in [Executors -> [Names -> Boxes]] /\ box' = [box EXCEPT ![cmd[r].exec][Target(cmd[r], ix[r])] = b]
  BY DEF IInv, TypeOK, Boxes, Touches, Put
<1> QED
  BY <1>1, <1>2, <1>3, <1>4

-----------------------------------------------------------------------------
(* Every step keeps the invariant                                            *)

LEMMA TypesKept ==
  ASSUME IInv, NEW r \in Runs, Step(r)
  PROVE  TypeOK'
<1>1. TypeOK /\ OnlyOf(r) /\ Turns(r) /\ Commanded(r) /\ cmd' = cmd
  BY Turning DEF IInv, OnlyOf
<1>2. /\ ix'[r] \in 1..(Len(cmd[r].services) + 1)
      /\ status'[r] \in {"idle", "running", "waiting", "refused", "killed"} \cup Results
      /\ child'[r] \in {"none", "busy"} \cup Results /\ after'[r] \in SUBSET Runs
      /\ status'[r] = "waiting" => child'[r] # "none"
      /\ status'[r] \in {"idle", "running"} => child'[r] = "none"
  <2>1. /\ ix[r] \in Nat /\ 1 <= ix[r] /\ ix[r] <= Len(cmd[r].services) + 1
        /\ Len(cmd[r].services) \in Nat
        /\ child[r] # "none" => ix[r] <= Len(cmd[r].services)
        /\ status[r] \in {"idle", "running", "waiting", "refused", "killed"} \cup Results
        /\ child[r] \in {"none", "busy"} \cup Results /\ after[r] \in SUBSET Runs
        /\ status[r] = "waiting" => child[r] # "none"
        /\ status[r] \in {"idle", "running"} => child[r] = "none"
    BY <1>1, CommandTyped DEF TypeOK, Commanded
  <2> QED
    BY <1>1, <2>1 DEF Turns, InLoop, Results
<1>3. box' \in [Executors -> [Names -> Boxes]]
  BY <1>1, BoxTouched, TouchedAt DEF TypeOK, Boxes
<1>4. /\ DOMAIN status' = Runs /\ DOMAIN ix' = Runs /\ DOMAIN child' = Runs /\ DOMAIN after' = Runs
      /\ status' = [q \in Runs |-> status'[q]] /\ ix' = [q \in Runs |-> ix'[q]]
      /\ child' = [q \in Runs |-> child'[q]] /\ after' = [q \in Runs |-> after'[q]]
  BY <1>1 DEF TypeOK, Step, Execute, Begin, runService, deleteService, Start, Return, Finish, Kill,
     MakeCommand, RemoveCommand, Goes, Ends
<1>5. \A q \in Runs :
        /\ ix'[q] \in 1..(Len(cmd[q].services) + 1)
        /\ status'[q] \in {"idle", "running", "waiting", "refused", "killed"} \cup Results
        /\ child'[q] \in {"none", "busy"} \cup Results /\ after'[q] \in SUBSET Runs
        /\ status'[q] = "waiting" => child'[q] # "none"
        /\ status'[q] \in {"idle", "running"} => child'[q] = "none"
  BY <1>1, <1>2 DEF TypeOK, OnlyOf
<1>6. \A q \in Runs : ix'[q] \in Nat
  BY <1>1, <1>5, CommandTyped
<1> QED
  BY <1>1, <1>3, <1>4, <1>5, <1>6 DEF TypeOK, Boxes

LEMMA HistoryKept ==
  ASSUME IInv, NEW r \in Runs, Step(r)
  PROVE  /\ ~Over(r) /\ status'[r] # "idle" /\ \A q \in Runs : Over(q) => Over(q)'
         /\ \A q \in Runs : History(q)'
<1>1. TypeOK /\ OnlyOf(r) /\ Turns(r)
  BY Turning DEF IInv
<1>2. status[r] \in {"idle", "running", "waiting"} \/ child[r] = "busy"
  BY <1>1 DEF Turns, InLoop
<1>3. ~Over(r)
  BY <1>2 DEF Over
<1>4. status'[r] # "idle"
  BY <1>1 DEF Turns, InLoop, Results
<1>5. \A q \in Runs : Over(q) => Over(q)'
  BY <1>1, <1>3 DEF OnlyOf, Over
<1>6. ASSUME NEW q \in Runs PROVE History(q)'
  <2>1. History(q)
    BY DEF IInv
  <2>2. CASE q # r
    BY <1>1, <1>5, <2>1, <2>2 DEF History, OnlyOf, TypeOK
  <2>3. CASE q = r
    <3>1. \A p \in after'[r] : Over(p) /\ p \in Runs
      BY <1>1, <2>1, <2>3 DEF Turns, History, TypeOK
    <3> QED
      BY <1>4, <1>5, <2>3, <3>1 DEF History
  <2> QED
    BY <2>2, <2>3
<1> QED
  BY <1>3, <1>4, <1>5, <1>6

\* What stands goes on standing, or is superseded by the command that ends.
LEMMA StandsStays ==
  ASSUME IInv, NEW r \in Runs, Step(r), NEW p \in Runs, NEW i \in 1..Len(cmd[p].services),
         Deploys(p), Stands(p, i),
         p = r /\ child[r] = "busy" => i < ix[r]
  PROVE  Stands(p, i)'
<1>1. TypeOK /\ OnlyOf(r) /\ Turns(r) /\ cmd' = cmd
  BY Turning DEF IInv, OnlyOf
<1>2. CASE \E q \in Runs : Supersedes(q, p, i)
  BY <1>2, SupersedesStays DEF Stands
<1>3. CASE box' = box \/ box'[cmd[p].exec][Target(cmd[p], i)] = box[cmd[p].exec][Target(cmd[p], i)]
  BY <1>1, <1>2, <1>3 DEF Stands
<1>4. ASSUME NEW b, Touches(r, b), ~(\E q \in Runs : Supersedes(q, p, i)),
             box'[cmd[p].exec][Target(cmd[p], i)] # box[cmd[p].exec][Target(cmd[p], i)]
      PROVE  Supersedes(r, p, i)'
  <2>1. /\ cmd[p].exec \in Executors /\ Target(cmd[p], i) \in Names
    BY <1>1, CommandTyped, TargetTyped
  <2>2. /\ cmd[r].exec = cmd[p].exec /\ Target(cmd[r], ix[r]) = Target(cmd[p], i)
        /\ ix[r] \in 1..Len(cmd[r].services) /\ Changes(cmd[r])
    BY <1>4, <2>1, TouchedAt
  <2>3. box[cmd[p].exec][Target(cmd[p], i)] = [by |-> p, spec |-> i] /\ p # NoOne
    BY <1>4, ContainersAssumption DEF Stands
  <2>4. [by |-> p, spec |-> i] # Nothing
    BY <2>3 DEF Nothing
  <2>5. cmd[r].del \/ cmd[r].exec = "aci"
    BY <1>4, <2>2, <2>3, <2>4, <1>1, CommandTyped DEF Touches, Here, Executors
  <2>6. child[r] = "busy" /\ child'[r] \in Results /\ ix'[r] = ix[r]
    <3>1. child[r] = "busy" /\ box' # box
      BY <1>4 DEF Touches
    <3> QED
      BY <1>1, <3>1 DEF Turns, InLoop, TypeOK, IInv
  <2> PICK k : k = ix[r]
    OBVIOUS
  <2>7. Started(r, k)'
    BY <1>1, <2>2, <2>6 DEF Started, Results
  <2>8. cmd[r].exec = "aci" /\ ~cmd[r].del => (r = p => ix[r] > i)
    BY <2>6
  <2> QED
    BY <1>1, <2>2, <2>5, <2>7, <2>8 DEF Supersedes
<1> QED
  BY <1>2, <1>3, <1>4, BoxTouched DEF Stands
\* What a command has put up stands when the command ends.
LEMMA MadeStands ==
  ASSUME IInv, NEW r \in Runs, Step(r), Deploys(r), child[r] = "busy", child'[r] = "ok"
  PROVE  Stands(r, ix[r])'
<1>1. MakeCommand(r) /\ UNCHANGED <<cmd, ix>>
  BY DEF IInv, TypeOK, Step, Begin, Execute, runService, deleteService, Return, Finish, Kill,
     MakeCommand, RemoveCommand, InLoop, Results, Deploys
<1>2. Put(r, [by |-> r, spec |-> ix[r]])
  BY <1>1 DEF MakeCommand, Ends, IInv, TypeOK
<1>3. box' = [box EXCEPT ![cmd[r].exec][Target(cmd[r], ix[r])] = [by |-> r, spec |-> ix[r]]]
  BY <1>2 DEF Put
<1>4. cmd[r].exec \in Executors /\ Target(cmd[r], ix[r]) \in Names
  BY CommandTyped, TargetTyped DEF IInv, Commanded
<1>5. box'[cmd[r].exec][Target(cmd[r], ix[r])] = [by |-> r, spec |-> ix[r]]
  BY <1>3, <1>4 DEF IInv, TypeOK
<1> QED
  BY <1>1, <1>5 DEF Stands

LEMMA CommandedKept ==
  ASSUME IInv, NEW r \in Runs, Step(r), NEW p \in Runs
  PROVE  Commanded(p)'
<1>1. TypeOK /\ OnlyOf(r) /\ Turns(r) /\ Commanded(p) /\ cmd' = cmd
  BY Turning DEF IInv, OnlyOf
<1>2. child'[p] # "none" => ix'[p] <= Len(cmd[p].services) /\ Changes(cmd[p])
  <2>1. CASE p # r
    BY <1>1, <2>1 DEF OnlyOf, Commanded
  <2>2. CASE p = r
    BY <1>1, <2>2, CommandTyped DEF Turns, Commanded, InLoop, Changes, Results
  <2> QED
    BY <2>1, <2>2
<1>3. ASSUME child'[p] = "ok", Deploys(p)
      PROVE  Stands(p, ix[p])'
  <2>1. CASE child[p] = "ok" /\ ix'[p] = ix[p]
    <3>1. ix[p] \in 1..Len(cmd[p].services) /\ Stands(p, ix[p])
      BY <1>1, <1>3, <2>1, CommandTyped DEF Commanded
    <3> PICK k : k = ix[p]
      OBVIOUS
    <3>2. Stands(p, k)'
      BY <1>3, <2>1, <3>1, StandsStays
    <3> QED
      BY <2>1, <3>2 DEF Stands, Supersedes
  <2>2. CASE p = r /\ child[p] = "busy"
    BY <1>3, <2>2, MadeStands
  <2>3. p # r => child[p] = child'[p] /\ ix[p] = ix'[p]
    BY <1>1 DEF OnlyOf
  <2>4. p = r => child[p] = "busy" \/ (child[p] = "ok" /\ ix'[p] = ix[p])
    BY <1>1, <1>3 DEF Turns, InLoop, TypeOK
  <2> QED
    BY <1>3, <2>1, <2>2, <2>3, <2>4
<1>4. Deploys(p)' <=> Deploys(p)
  BY <1>1 DEF Deploys
<1> QED
  BY <1>1, <1>2, <1>3, <1>4 DEF Commanded

LEMMA AccountedKept ==
  ASSUME IInv, NEW r \in Runs, Step(r)
  PROVE  Accounted'
<1>1. TypeOK /\ OnlyOf(r) /\ Turns(r) /\ cmd' = cmd
  BY Turning DEF IInv, OnlyOf
<1>2. ASSUME NEW p \in Runs, NEW i \in 1..(ix'[p] - 1), Deploys(p)
      PROVE  Stands(p, i)'
  <2>1. ix[p] \in Nat /\ Len(cmd[p].services) \in Nat /\ ix[p] <= Len(cmd[p].services) + 1
    BY <1>1, CommandTyped
  <2>2. CASE i \in 1..(ix[p] - 1)
    <3>1. Stands(p, i) /\ i \in 1..Len(cmd[p].services) /\ i < ix[p]
      BY <1>2, <2>1, <2>2 DEF IInv, Accounted, Stands, Deploys
    <3> QED
      BY <1>2, <3>1, StandsStays
  <2>3. CASE i = ix[p] /\ ix'[p] = ix[p] + 1 /\ p = r /\ child[r] = "ok"
    <3>1. Stands(p, i) /\ i \in 1..Len(cmd[p].services)
      BY <1>2, <2>1, <2>3 DEF IInv, Commanded
    <3> QED
      BY <1>2, <2>3, <3>1, StandsStays
  <2>4. p # r => ix'[p] = ix[p]
    BY <1>1 DEF OnlyOf
  <2>5. p = r => ix'[p] = ix[p] \/ (ix'[p] = ix[p] + 1 /\ child[r] = "ok")
    BY <1>1, <1>2 DEF Turns, Deploys, Changes
  <2> QED
    BY <1>2, <2>1, <2>2, <2>3, <2>4, <2>5
<1> QED
  BY <1>1, <1>2 DEF Accounted, Stands, Deploys

LEMMA OwnedKept ==
  ASSUME IInv, NEW r \in Runs, Step(r), NEW x \in Executors, NEW n \in Names
  PROVE  Owned(x, n)'
<1>1. TypeOK /\ OnlyOf(r) /\ Turns(r) /\ cmd' = cmd /\ Owned(x, n) /\ status'[r] # "idle"
  BY Turning, HistoryKept DEF IInv, OnlyOf
<1>2. \A q \in Runs : /\ ix[q] \in Nat /\ (ix'[q] = ix[q] \/ ix'[q] = ix[q] + 1)
                      /\ status[q] # "idle" => status'[q] # "idle"
  BY <1>1, CommandTyped DEF OnlyOf, Turns
<1>3. CASE box'[x][n] = box[x][n]
  <2>1. CASE box[x][n] = Nothing
    BY <1>3, <2>1 DEF Owned, Nothing
  <2>2. ASSUME NEW q \in Runs, box[x][n].by = q, box[x][n].spec \in 1..Len(cmd[q].services),
               Deploys(q), cmd[q].exec = x, Target(cmd[q], box[x][n].spec) = n,
               box[x][n].spec < ix[q] \/ (box[x][n].spec = ix[q] /\ status[q] # "idle")
        PROVE  Owned(x, n)'
    <3>1. box[x][n].spec < ix'[q] \/ (box[x][n].spec = ix'[q] /\ status'[q] # "idle")
      BY <1>2, <2>2
    <3> QED
      BY <1>1, <1>3, <2>2, <3>1 DEF Owned, Deploys
  <2> QED
    BY <1>1, <2>1, <2>2 DEF Owned
<1>4. ASSUME NEW b, Touches(r, b), x = cmd[r].exec, n = Target(cmd[r], ix[r])
      PROVE  Owned(x, n)'
  <2>1. box'[x][n] = b /\ ix[r] \in 1..Len(cmd[r].services) /\ Changes(cmd[r])
    BY <1>4, TouchedAt
  <2>2. CASE b = Nothing
    BY <2>1, <2>2 DEF Owned, Nothing
  <2>3. CASE b = [by |-> r, spec |-> ix[r]] /\ ~cmd[r].del
    <3>1. ix[r] < ix'[r] \/ ix[r] = ix'[r]
      BY <1>2
    <3>2. /\ box'[x][n].by = r /\ box'[x][n].spec = ix[r] /\ cmd'[r].exec = x
          /\ Target(cmd'[r], ix[r]) = n /\ Deploys(r)'
      BY <1>1, <1>4, <2>1, <2>3 DEF Deploys
    <3> QED
      BY <1>1, <2>1, <3>1, <3>2 DEF Owned
  <2> QED
    BY <1>4, <2>2, <2>3 DEF Touches
<1> QED
  BY <1>3, <1>4, BoxTouched, TouchedAt
-----------------------------------------------------------------------------
(* A deletion finds everything                                               *)

\* When d begins, what is there was put up by deploys of the same model, from its
\* first spec on.
LEMMA BeginFinds ==
  ASSUME IInv, NEW d \in Runs, cmd[d].del, Changes(cmd[d]), ix[d] = 1, child[d] = "none",
         status[d] = "idle",
         \A q \in Runs \ {d} : status[q] = "idle" \/ cmd[q] = [cmd[d] EXCEPT !.del = FALSE]
  PROVE  Found(d, 1)
<1> DEFINE x == cmd[d].exec
<1>1. TypeOK /\ Accounted /\ x \in Executors /\ Len(cmd[d].services) \in Nat
  BY CommandTyped DEF IInv
<1>2. SUFFICES ASSUME NEW n \in Names, box[x][n] # Nothing
               PROVE  Leads(d, 1, n)
  BY DEF Found
<1>3. PICK r \in Runs :
        /\ box[x][n].by = r /\ box[x][n].spec \in 1..Len(cmd[r].services)
        /\ Deploys(r) /\ cmd[r].exec = x /\ Target(cmd[r], box[x][n].spec) = n
        /\ box[x][n].spec < ix[r] \/ (box[x][n].spec = ix[r] /\ status[r] # "idle")
  BY <1>1, <1>2 DEF IInv, Owned
<1> DEFINE i == box[x][n].spec
<1>4. ix[r] \in Nat /\ i \in Nat /\ i <= ix[r] /\ status[r] # "idle"
  BY <1>1, <1>3, CommandTyped DEF IInv, History
<1>5. r # d /\ cmd[r] = [cmd[d] EXCEPT !.del = FALSE]
  BY <1>3, <1>4 DEF Deploys
<1>6. /\ cmd[r].services = cmd[d].services /\ cmd[r].name = cmd[d].name
      /\ \A j : Target(cmd[r], j) = Target(cmd[d], j)
  <2>1. cmd[d] \in [exec : Executors, del : BOOLEAN, dryrun : BOOLEAN, name : Names, services : Seq(Specs)]
    BY <1>1, ContainersAssumption DEF TypeOK
  <2> QED
    BY <1>5, <2>1 DEF Target
<1>7. i \in 1..Len(cmd[d].services) /\ Target(cmd[d], i) = n
  BY <1>3, <1>6
<1>8. box[x][n] = [by |-> r, spec |-> i]
  BY <1>1, <1>3 DEF TypeOK
<1> HIDE DEF i, x
<1>9. CASE x = "aci"
  <2>1. \A j : Target(cmd[d], j) = n
    BY <1>7, <1>9 DEF Target, x
  <2>2. 1 \in 1..Len(cmd[d].services) /\ 1..1 = {1}
    BY <1>1, <1>7
  <2> QED
    BY <1>2, <2>1, <2>2 DEF Leads, x
<1>10. CASE x = "docker"
  <2>1. ASSUME NEW j \in 1..i
        PROVE  box[x][Target(cmd[d], j)] = [by |-> r, spec |-> j]
    <3>1. CASE j = i
      BY <1>7, <1>8, <3>1
    <3>2. CASE j # i
      <4>1. j \in 1..(ix[r] - 1)
        BY <1>4, <3>2
      <4>2. \/ box[x][Target(cmd[d], j)] = [by |-> r, spec |-> j]
            \/ \E q \in Runs : Supersedes(q, r, j)
        BY <1>1, <1>3, <1>6, <4>1 DEF Accounted, Deploys
      <4>3. ASSUME NEW q \in Runs, Supersedes(q, r, j)
            PROVE  FALSE
        <5>1. cmd[q].del /\ \E k \in 1..Len(cmd[q].services) : Started(q, k)
          BY <1>3, <1>10, <4>3 DEF Supersedes
        <5>2. status[q] = "idle"
          <6>1. q # d => [cmd[d] EXCEPT !.del = FALSE].del = FALSE
            BY <1>1, ContainersAssumption DEF TypeOK
          <6> QED
            BY <5>1, <6>1
        <5>3. ix[q] = 1 /\ child[q] = "none"
          BY <5>2 DEF IInv, History
        <5> QED
          BY <5>1, <5>2, <5>3 DEF Started
      <4> QED
        BY <4>2, <4>3
    <3> QED
      BY <3>1, <3>2
  <2>2. \A j \in 1..i : [by |-> r, spec |-> j] # Nothing
    BY ContainersAssumption DEF Nothing
  <2>3. \A j, l \in 1..i : Target(cmd[d], j) = Target(cmd[d], l) => j = l
    <3>1. \A j, l : [by |-> r, spec |-> j] = [by |-> r, spec |-> l] => j = l
      <4> TAKE j, l
      <4>1. [by |-> r, spec |-> j].spec = j /\ [by |-> r, spec |-> l].spec = l
        OBVIOUS
      <4> QED
        BY <4>1
    <3> TAKE j, l \in 1..i
    <3>2. /\ box[x][Target(cmd[d], j)] = [by |-> r, spec |-> j]
          /\ box[x][Target(cmd[d], l)] = [by |-> r, spec |-> l]
      BY <2>1
    <3> QED
      BY <3>1, <3>2
  <2>4. \A j \in 1..i : box[cmd[d].exec][Target(cmd[d], j)] # Nothing
    BY <2>1, <2>2 DEF x
  <2> QED
    BY <1>7, <2>3, <2>4 DEF Leads
<1> QED
  BY <1>1, <1>9, <1>10 DEF Executors

\* If the next one is missing, nothing is left.
LEMMA MissingIsLast ==
  ASSUME IInv, NEW d \in Runs, Found(d, ix[d]), ix[d] \in 1..Len(cmd[d].services), Here(d) = Nothing,
         NEW n \in Names
  PROVE  box[cmd[d].exec][n] = Nothing
<1> SUFFICES ASSUME box[cmd[d].exec][n] # Nothing PROVE FALSE
  OBVIOUS
<1>1. PICK i \in ix[d]..Len(cmd[d].services) :
        \A j \in ix[d]..i : box[cmd[d].exec][Target(cmd[d], j)] # Nothing
  BY DEF Found, Leads
<1>2. ix[d] \in ix[d]..i
  BY <1>1, CommandTyped DEF IInv
<1> QED
  BY <1>1, <1>2 DEF Here

\* Removing the next one leaves what comes after it.
LEMMA RemovedNext ==
  ASSUME IInv, NEW d \in Runs, Found(d, ix[d]), ix[d] \in 1..Len(cmd[d].services),
         cmd' = cmd, Touches(d, Nothing), NEW k, k = ix[d] + 1
  PROVE  Found(d, k)'
<1> DEFINE x == cmd[d].exec
<1>1. /\ x \in Executors /\ Target(cmd[d], ix[d]) \in Names /\ ix[d] \in Nat
      /\ box'[x][Target(cmd[d], ix[d])] = Nothing
      /\ \A n \in Names : n # Target(cmd[d], ix[d]) => box'[x][n] = box[x][n]
      /\ Len(cmd[d].services) \in Nat
  BY TouchedAt, CommandTyped DEF IInv
<1>2. SUFFICES ASSUME NEW n \in Names, box'[x][n] # Nothing PROVE Leads(d, k, n)'
  BY DEF Found, Nothing
<1>3. n # Target(cmd[d], ix[d]) /\ box[x][n] # Nothing
  BY <1>1, <1>2
<1>4. PICK i \in ix[d]..Len(cmd[d].services) :
        /\ Target(cmd[d], i) = n
        /\ \A j \in ix[d]..i : box[x][Target(cmd[d], j)] # Nothing
        /\ \A j, l \in ix[d]..i : Target(cmd[d], j) = Target(cmd[d], l) => j = l
  BY <1>3 DEF Found, Leads
<1>5. i \in k..Len(cmd[d].services) /\ k..i \subseteq ix[d]..i /\ ix[d] \in ix[d]..i /\ ix[d] \notin k..i
  BY <1>1, <1>3, <1>4
<1>6. \A j \in k..i : box'[x][Target(cmd[d], j)] # Nothing
  <2>1. \A j \in k..i : Target(cmd[d], j) # Target(cmd[d], ix[d])
    BY <1>4, <1>5
  <2>2. \A j \in k..i : Target(cmd[d], j) \in Names
    BY <1>1, <1>4, <1>5, TargetTyped DEF IInv
  <2> QED
    BY <1>1, <1>4, <1>5, <2>1, <2>2
<1> QED
  BY <1>4, <1>5, <1>6 DEF Leads, Nothing

\* While d deletes alone no other run takes a step.
LEMMA Alone ==
  ASSUME IInv, NEW r \in Runs, Step(r), NEW d \in Runs, DeletesAlone(d)', status'[d] # "idle"
  PROVE  r = d
<1> SUFFICES ASSUME r # d PROVE FALSE
  OBVIOUS
<1>1. OnlyOf(r) /\ status'[r] # "idle" /\ ~Over(r)
  BY Turning, HistoryKept
<1>2. r \in after[d]
  BY <1>1 DEF DeletesAlone, OnlyOf
<1> QED
  BY <1>1, <1>2 DEF IInv, History

LEMMA CleaningKept ==
  ASSUME IInv, NEW r \in Runs, Step(r), NEW d \in Runs
  PROVE  Cleaning(d)'
<1> SUFFICES ASSUME DeletesAlone(d)', status'[d] \in {"running", "waiting"}
             PROVE  /\ child'[d] \in {"none", "busy", "failed"} => Found(d, ix[d])'
                    /\ child'[d] = "ok" => Found(d, ix[d] + 1)'
                    /\ child'[d] = "missing" => \A n \in Names : box'[cmd'[d].exec][n] = Nothing
  BY DEF Cleaning, Nothing
<1>1. r = d
  BY Alone
<1>2. /\ TypeOK /\ OnlyOf(d) /\ Turns(d) /\ cmd' = cmd /\ cmd[d].del /\ Changes(cmd[d]) /\ ~cmd[d].dryrun
      /\ ix[d] \in Nat /\ Commanded(d)
  BY <1>1, Turning, CommandTyped DEF IInv, OnlyOf, DeletesAlone, Changes
<1>3. \A k : box' = box => (Found(d, k)' <=> Found(d, k))
  BY <1>2 DEF Found, Leads, Nothing
<1>4. CASE status[d] = "idle"
  <2>1. ix[d] = 1 /\ child[d] = "none" /\ ix'[d] = 1 /\ child'[d] = "none" /\ box' = box
    BY <1>2, <1>4 DEF Turns, IInv, History
  <2>2. \A q \in Runs \ {d} : status[q] = "idle" \/ cmd[q] = [cmd[d] EXCEPT !.del = FALSE]
    BY <1>2 DEF DeletesAlone, OnlyOf
  <2>3. Found(d, 1)
    BY <1>2, <1>4, <2>1, <2>2, BeginFinds
  <2> QED
    BY <1>3, <2>1, <2>3
<1>5. ASSUME status[d] # "idle"
      PROVE  DeletesAlone(d) /\ status[d] \in {"running", "waiting"} /\ Cleaning(d)
  <2>1. status[d] \in {"running", "waiting"}
    BY <1>2, <1>5 DEF Turns, InLoop
  <2>2. after'[d] = after[d] /\ \A q \in Runs \ {d} : status'[q] = status[q] /\ cmd'[q] = cmd[q]
    BY <1>2, <1>5 DEF Turns, OnlyOf
  <2> QED
    BY <1>2, <2>1, <2>2 DEF DeletesAlone, IInv
<1>6. CASE status[d] # "idle" /\ ~(child[d] = "busy" /\ child'[d] \in Results)
  <2>1. \/ box' = box /\ child'[d] = "busy" /\ ix'[d] = ix[d] /\ child[d] = "none"
        \/ box' = box /\ child'[d] = "none" /\ ix'[d] = ix[d] + 1 /\ child[d] = "ok"
    BY <1>2, <1>6 DEF Turns, InLoop, TypeOK
  <2> PICK k : k = ix'[d]
    OBVIOUS
  <2>2. Found(d, k)
    BY <1>5, <1>6, <2>1 DEF Cleaning
  <2>3. Found(d, k)'
    BY <1>3, <2>1, <2>2
  <2>4. Found(d, ix[d])'
    BY <2>3 DEF Found, Leads
  <2> QED
    BY <2>1, <2>4
<1>7. CASE child[d] = "busy" /\ child'[d] \in Results
  <2>1. status[d] # "idle" /\ ix'[d] = ix[d] /\ ix[d] \in 1..Len(cmd[d].services)
    BY <1>2, <1>7, CommandTyped DEF Turns, InLoop, Results, IInv, History, Commanded
  <2>2. Found(d, ix[d])
    BY <1>5, <1>7, <2>1 DEF Cleaning
  <2>3. RemoveCommand(d)
    BY <1>1, <1>2, <1>7 DEF Step, Begin, Execute, runService, deleteService, Return, Finish, Kill,
       MakeCommand, InLoop, Results, TypeOK
  <2>4. CASE box' = box /\ child'[d] = "failed"
    <3> PICK k : k = ix[d]
      OBVIOUS
    <3>1. Found(d, k)'
      BY <1>3, <2>2, <2>4
    <3>2. Found(d, ix[d])'
      BY <2>1, <3>1 DEF Found, Leads
    <3> QED
      BY <2>4, <3>2
  <2>5. CASE Here(d) = Nothing /\ box' = box
    <3>1. \A n \in Names : box[cmd[d].exec][n] = Nothing
      BY <2>1, <2>2, <2>5, MissingIsLast
    <3>2. \A n \in Names : box'[cmd'[d].exec][n] = Nothing
      BY <1>2, <2>5, <3>1
    <3>3. Found(d, ix[d])' /\ Found(d, ix[d] + 1)'
      BY <3>2 DEF Found, Nothing
    <3> QED
      BY <3>2, <3>3
  <2>6. CASE Put(d, Nothing) /\ child'[d] = "ok"
    <3>1. Touches(d, Nothing)
      BY <1>2, <1>7, <2>6 DEF Touches
    <3> PICK k : k = ix[d] + 1
      OBVIOUS
    <3>2. Found(d, k)'
      BY <1>2, <2>1, <2>2, <3>1, RemovedNext
    <3>3. Found(d, ix[d] + 1)'
      BY <2>1, <3>2 DEF Found, Leads
    <3> QED
      BY <2>6, <3>3
  <2>7. child'[d] = "failed" => box' = box
    BY <1>2, <2>3 DEF RemoveCommand, Ends, TypeOK
  <2>8. \/ child'[d] = "failed" /\ box' = box
        \/ Here(d) = Nothing /\ box' = box
        \/ Put(d, Nothing) /\ child'[d] = "ok"
    BY <1>2, <2>3 DEF RemoveCommand, Ends, TypeOK
  <2> QED
    BY <2>4, <2>5, <2>6, <2>8
<1> QED
  BY <1>4, <1>6, <1>7

-----------------------------------------------------------------------------
(* The theorems                                                              *)

LEMMA InitInvariant == Init => IInv
<1> SUFFICES ASSUME Init PROVE IInv
  OBVIOUS
<1>1. ASSUME NEW r \in Runs
      PROVE  cmd[r].services \in Seq(Specs) /\ Len(cmd[r].services) \in Nat
  <2>1. cmd[r] \in [exec : Executors, del : BOOLEAN, dryrun : BOOLEAN, name : Names, services : Seq(Specs)]
    BY ContainersAssumption DEF Init
  <2>2. cmd[r].services \in Seq(Specs)
    BY <2>1
  <2> QED
    BY <2>2
<1>2. TypeOK
  <2>1. ASSUME NEW r \in Runs PROVE 1 \in 1..(Len(cmd[r].services) + 1)
    <3>1. Len(cmd[r].services) \in Nat
      BY <1>1
    <3> QED
      BY <3>1
  <2>2. Nothing \in [by : Runs \cup {NoOne}, spec : Nat]
    BY DEF Nothing
  <2> QED
    BY <2>1, <2>2 DEF Init, TypeOK, Results
<1>3. Accounted
  BY DEF Init, Accounted
<1>4. \A r \in Runs : Commanded(r) /\ History(r) /\ Cleaning(r)
  BY DEF Init, Commanded, History, Cleaning
<1>5. \A x \in Executors : \A n \in Names : Owned(x, n)
  BY DEF Init, Owned
<1> QED
  BY <1>2, <1>3, <1>4, <1>5 DEF IInv

LEMMA NextKeeps == IInv /\ [Next]_vars => IInv'
<1> SUFFICES ASSUME IInv, [Next]_vars PROVE IInv'
  OBVIOUS
<1>1. CASE Next
  <2>1. PICK r \in Runs : Step(r)
    BY <1>1 DEF Next, Step
  <2> QED
    BY <2>1, TypesKept, AccountedKept, CommandedKept, HistoryKept, CleaningKept, OwnedKept DEF IInv
<1>2. CASE UNCHANGED vars
  <2>1. cmd' = cmd /\ status' = status /\ ix' = ix /\ child' = child /\ box' = box /\ after' = after
    BY <1>2 DEF vars
  <2>2. TypeOK' /\ Accounted'
    BY <2>1 DEF IInv, TypeOK, Accounted, Supersedes, Started
  <2>3. \A r \in Runs : Commanded(r)' /\ History(r)'
    BY <2>1 DEF IInv, Commanded, Stands, Supersedes, Started, Deploys, History, Over
  <2>4. \A r \in Runs : Cleaning(r)'
    BY <2>1 DEF IInv, Cleaning, DeletesAlone, Found, Leads, Nothing
  <2>5. \A x \in Executors : \A n \in Names : Owned(x, n)'
    BY <2>1 DEF IInv, Owned, Deploys, Nothing
  <2> QED
    BY <2>2, <2>3, <2>4, <2>5 DEF IInv
<1> QED
  BY <1>1, <1>2

\* The inductive invariant holds of every reachable state of docker-compiler.go and
\* aci-compiler.go under any interleaving of runs and their commands.
THEOREM Invariant == Spec => []IInv
  BY InitInvariant, NextKeeps, PTL DEF Spec

\* The types: the loop index of Execute stays within the services or one past them,
\* and a run that is in its loop and not in executeCommand has no command under way.
THEOREM TypeCorrect == Spec => []TypeOK
<1>1. IInv => TypeOK
  BY DEF IInv
<1> QED
  BY <1>1, Invariant, PTL

\* What Execute has gone past is up and its own, of that very spec, unless a deletion
\* (or, with aci, a deploy under the same name) has got to it.
THEOREM AccountedAlways == Spec => []Accounted
<1>1. IInv => Accounted
  BY DEF IInv
<1> QED
  BY <1>1, Invariant, PTL

\* The step: the deletion goes past its last spec, or returns the error that the next
\* is missing, and either way nothing is left.
LEMMA StepCleansUp ==
  ASSUME IInv, [Next]_vars, NEW d \in Runs, DeletesAlone(d),
         status[d] \in {"running", "waiting"}, status'[d] \in {"ok", "missing"}, NEW n \in Names
  PROVE  box'[cmd[d].exec][n] = Nothing
<1>1. UNCHANGED vars => status'[d] = status[d]
  BY DEF vars
<1>2. PICK r \in Runs : Step(r)
  BY <1>1 DEF Next, Step
<1>3. r = d
  BY <1>1, <1>2, Turning DEF OnlyOf
<1>4. TypeOK /\ Turns(d) /\ Cleaning(d)
  BY <1>2, <1>3, Turning DEF IInv
<1>5. CASE status'[d] = "ok"
  <2>1. box' = box /\ status[d] = "running" /\ ix[d] > Len(cmd[d].services) /\ child[d] = "none"
    BY <1>4, <1>5 DEF Turns, TypeOK
  <2>2. Found(d, ix[d])
    BY <1>4, <2>1 DEF Cleaning
  <2>3. ix[d]..Len(cmd[d].services) = {}
    BY <1>4, <2>1, CommandTyped
  <2> QED
    BY <2>1, <2>2, <2>3 DEF Found, Leads
<1>6. CASE status'[d] = "missing"
  BY <1>4, <1>6 DEF Turns, Cleaning
<1> QED
  BY <1>5, <1>6

\* A deletion that is alone and ends well, or ends because the next one is missing,
\* leaves nothing of the model: wherever the deploys before it were refused, failed or
\* killed, what they left has no gap that would end deleteService's loop too early.
THEOREM CleansUpAlways == Spec => CleansUp
<1>1. IInv /\ [Next]_vars =>
      [\A d \in Runs :
         /\ DeletesAlone(d)
         /\ status[d] \in {"running", "waiting"} /\ status'[d] \in {"ok", "missing"}
         => \A n \in Names : box'[cmd[d].exec][n] = Nothing]_vars
  BY StepCleansUp
<1> QED
  BY <1>1, Invariant, PTL DEF Spec, CleansUp
=============================================================================

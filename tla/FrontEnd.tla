------------------------------ MODULE FrontEnd ------------------------------
(***************************************************************************)
(* cmd/compiler/mp-compiler.go: processes of mp-compiler from their flags to *)
(* their exit, against one registry over HTTP, with the client library of   *)
(* client/ on one side and the generated server of restapi/operations on    *)
(* the other.  A call may be answered late, or never; the five seconds that *)
(* mp-compiler allows it may be over before the registry has served it.     *)
(*                                                                         *)
(* The handlers of the registry are the one step that Registry shows them   *)
(* to be.  What an executor does to its cluster is in KubePlan; here it is  *)
(* whether Execute and Logs are reached, with which document, and whether   *)
(* they can go through it.                                                  *)
(***************************************************************************)
EXTENDS Documents, FiniteSets

CONSTANTS
  Runs,
  Commands,   \* what each run may be asked: [file, name, host, exec, dryrun, del, deploy, attach]
  Names,      \* the names under which the registry may hold a service
  Docs,       \* the documents: those of the files, those of other clients
  Writes,     \* what other clients may ask for: [op, name, doc]
  MaxWrites,  \* bound: how often they do
  MaxCrashes, \* bound: how often the registry ends and is started again
  Absent      \* no entry in the registry

ASSUME FrontEndAssumption ==
  /\ Nil \notin Docs /\ Absent \notin Docs \cup {Nil}
  /\ "" # Nil /\ MaxWrites \in Nat /\ MaxCrashes \in Nat
  /\ \A d \in Docs : d.name \in Names \cup {Nil, ""}
  /\ DOMAIN Commands = Runs
  /\ \A r \in Runs : \A c \in Commands[r] :
       c.file \in Docs \cup {Nil} /\ c.name \in Names \cup {Nil}
  /\ \A w \in Writes :
       w.op \in {"put", "delete"} /\ w.name \in Names /\ w.doc \in Docs \cup {Nil}

VARIABLES
  cmd,      \* the flags of each run
  pc,       \* where its main is
  obj,      \* its variable obj
  call,     \* its last call to the registry
  store,    \* the services of the registry: a document, Nil or Absent for each name
  applied,  \* history: the runs whose PUT the registry has stored
  writes, crashes

vars == <<cmd, pc, obj, call, store, applied, writes, crashes>>

\* panic: a nil pointer or a missing element of the document, or the client that is not
\* there; broken: a panic over a directory, a plan file or the first List of ktail
Ended == {"attached", "ok", "fatal", "panic", "broken"}

\* the zero Service that main starts from
EmptyDoc == [guid |-> Nil, name |-> Nil, services |-> <<>>, jobs |-> <<>>, serve |-> Nil]

NoCall == [stage |-> "none", op |-> "none", name |-> Nil, doc |-> Nil, code |-> 0]

PCs       == {"start", "putting", "named", "getting", "compile", "execute", "executed"} \cup Ended
Stages    == {"none", "sent", "answered", "lost"}
Ops       == {"none", "put", "get"}
CallNames == Names \cup {Nil, ""}
Bodies    == Docs \cup {Nil}
Codes     == {0, 200, 404, 405, 422}
Calls     == [stage : Stages, op : Ops, name : CallNames, doc : Bodies, code : Codes]

\* a process waits for an answer to the call it has made
WaitsForOwn(r) == /\ pc[r] = "putting" => call[r].op = "put"
                  /\ pc[r] = "getting" => call[r].op = "get"
                  /\ call[r].op = "get" => call[r].name \in Names

TypeOK ==
  /\ DOMAIN cmd = Runs /\ \A r \in Runs : cmd[r] \in Commands[r]
  /\ pc \in [Runs -> PCs]
  /\ obj \in [Runs -> Docs \cup {EmptyDoc}]
  /\ call \in [Runs -> Calls] /\ \A r \in Runs : WaitsForOwn(r)
  /\ store \in [Names -> Bodies \cup {Absent}] /\ applied \subseteq Runs
  /\ writes \in 0..MaxWrites /\ crashes \in 0..MaxCrashes

Init ==
  /\ cmd \in {f \in [Runs -> UNION {Commands[r] : r \in Runs}] : \A r \in Runs : f[r] \in Commands[r]}
  /\ pc = [r \in Runs |-> "start"]
  /\ obj = [r \in Runs |-> EmptyDoc]
  /\ call = [r \in Runs |-> NoCall]
  /\ store = [n \in Names |-> Absent]
  /\ applied = {}
  /\ writes = 0 /\ crashes = 0

-----------------------------------------------------------------------------
(* mp-compiler                                                               *)

Goes(r, to) == pc' = [pc EXCEPT ![r] = to]
Registry == <<store, applied, writes, crashes>>

\* WriteToRequest: the body, if there is one, and the name in the path
Send(r, op, name, doc) ==
  call' = [call EXCEPT ![r] = [stage |-> "sent", op |-> op, name |-> name, doc |-> doc, code |-> 0]]

\* The calls of the client library: nothing is validated before it is sent, and a
\* GET has no body.
CreateOrUpdateService(r, name, doc) == Send(r, "put", name, doc)
GetService(r, name) == Send(r, "get", name, Nil)

\* main as far as its first call: no file and no name, no file that can be read
\* and parsed, or a file and then its PUT, of which the name is followed before it
\* is checked
LoadFile(r) ==
  /\ pc[r] = "start"
  /\ LET f == cmd[r].file IN
     \/ f = Nil /\ Goes(r, IF cmd[r].name = Nil THEN "fatal" ELSE "named") /\ UNCHANGED <<obj, call>>
     \/ f # Nil /\ Goes(r, "fatal") /\ UNCHANGED <<obj, call>>
     \/ /\ f # Nil /\ ~cmd[r].host
        /\ obj' = [obj EXCEPT ![r] = f] /\ Goes(r, "named") /\ UNCHANGED call
     \/ /\ f # Nil /\ cmd[r].host /\ f.name = Nil
        /\ obj' = [obj EXCEPT ![r] = f] /\ Goes(r, "panic") /\ UNCHANGED call
     \/ /\ f # Nil /\ cmd[r].host /\ f.name # Nil
        /\ obj' = [obj EXCEPT ![r] = f] /\ Goes(r, "putting") /\ CreateOrUpdateService(r, f.name, f)
  /\ UNCHANGED <<cmd, Registry>>

\* Mutant: the error of the PUT is not looked at.
ReceivePutBlind(r) ==
  /\ pc[r] = "putting" /\ call[r].stage = "answered"
  /\ Goes(r, "named")
  /\ UNCHANGED <<cmd, obj, call, Registry>>

\* CreateOrUpdateService returns: anything but a 200 is an error
ReceivePut(r) ==
  /\ pc[r] = "putting" /\ call[r].stage = "answered"
  /\ Goes(r, IF call[r].code = 200 THEN "named" ELSE "fatal")
  /\ UNCHANGED <<cmd, obj, call, Registry>>

\* Mutant: --name calls CreateOrUpdateService.
SendGetAsPut(r) ==
  /\ pc[r] = "named"
  /\ \/ cmd[r].name = Nil /\ Goes(r, "compile") /\ UNCHANGED call
     \/ cmd[r].name # Nil /\ ~cmd[r].host /\ Goes(r, "panic") /\ UNCHANGED call
     \/ cmd[r].name # Nil /\ cmd[r].host /\ Goes(r, "getting") /\ CreateOrUpdateService(r, cmd[r].name, Nil)
  /\ UNCHANGED <<cmd, obj, Registry>>

\* --name: the GET, through the client that only --host makes
SendGet(r) ==
  /\ pc[r] = "named"
  /\ \/ cmd[r].name = Nil /\ Goes(r, "compile") /\ UNCHANGED call
     \/ cmd[r].name # Nil /\ ~cmd[r].host /\ Goes(r, "panic") /\ UNCHANGED call
     \/ cmd[r].name # Nil /\ cmd[r].host /\ Goes(r, "getting") /\ GetService(r, cmd[r].name)
  /\ UNCHANGED <<cmd, obj, Registry>>

\* GetService returns: the payload of a 200, an error for the rest.  A 200 without
\* a body, or with null, would be the zero Service.
ReceiveGet(r) ==
  /\ pc[r] = "getting" /\ call[r].stage = "answered"
  /\ \/ /\ call[r].code = 200
        /\ obj' = [obj EXCEPT ![r] = IF call[r].doc = Nil THEN EmptyDoc ELSE call[r].doc]
        /\ Goes(r, "compile")
     \/ call[r].code # 200 /\ Goes(r, "fatal") /\ UNCHANGED obj
  /\ UNCHANGED <<cmd, call, Registry>>

\* Mutant: no timeout on the GET (params.WithTimeout is left out).
GiveUpPut(r) ==
  /\ pc[r] = "putting"
  /\ Goes(r, "fatal")
  /\ UNCHANGED <<cmd, obj, call, Registry>>

\* The five seconds are over, or the connection fails: the process ends, and what
\* it has sent may still be served.
GiveUp(r) ==
  /\ pc[r] \in {"putting", "getting"}
  /\ Goes(r, "fatal")
  /\ UNCHANGED <<cmd, obj, call, Registry>>

\* NewKubernetesCompiler reads the kubeconfig in the home directory (its flag is declared
\* when the command line has been parsed), which may be missing or wrong; nothing can
\* go wrong with the other two, and there is no other executor.
NewCompiler(x) ==
  (IF x # "other" THEN {"made"} ELSE {}) \cup (IF x \in {"kubernetes", "other"} THEN {"error"} ELSE {})

\* The executor is made and, under --deploy, a plan, which creates or deletes.  But for
\* a dry run, there may be no working directory, or none that .metaparticle can be made in.
MakePlan(r) ==
  /\ pc[r] = "compile"
  /\ \/ "error" \in NewCompiler(cmd[r].exec) /\ Goes(r, "fatal")
     \/ "made" \in NewCompiler(cmd[r].exec) /\ ~cmd[r].dryrun /\ Goes(r, "broken")
     \/ /\ "made" \in NewCompiler(cmd[r].exec)
        /\ Goes(r, IF cmd[r].deploy THEN "execute" ELSE "executed")
  /\ UNCHANGED <<cmd, obj, call, Registry>>

\* plan.Execute: it panics on a document it cannot go through, and when `output` cannot
\* open a plan file (as for a name with a slash); it fails on a document that it refuses,
\* and may fail on what the cluster says.  A dry run writes to its standard output, and
\* asks the cluster of nothing but jobs.
Execute(r) ==
  /\ pc[r] = "execute"
  /\ LET x == cmd[r].exec   d == cmd[r].del   m == obj[r]
         safe == ExecuteSafe(x, d, m)
     IN \/ ~safe /\ Goes(r, "panic")
        \/ x = "kubernetes" /\ ~d /\ ~cmd[r].dryrun /\ Outputs(m) /\ Goes(r, "broken")
        \/ safe /\ Refused(x, d, m) /\ Goes(r, "fatal")
        \/ (~cmd[r].dryrun \/ (x = "kubernetes" /\ m.jobs # <<>>)) /\ Goes(r, "fatal")
        \/ safe /\ ~Refused(x, d, m) /\ Goes(r, "executed")
  /\ UNCHANGED <<cmd, obj, call, Registry>>

\* cmp.Logs under --attach: kubernetes tails for ever, docker prints the logs once,
\* aci again and again.  The first command may fail, which is an error; a first List
\* that fails is a panic of ktail.
Attach(r) ==
  /\ pc[r] = "executed"
  /\ LET x == cmd[r].exec   safe == LogsSafe(x, obj[r]) IN
     \/ ~cmd[r].attach /\ Goes(r, "ok")
     \/ cmd[r].attach /\ ~safe /\ Goes(r, "panic")
     \/ cmd[r].attach /\ safe /\ Goes(r, IF x = "docker" THEN "ok" ELSE "attached")
     \/ cmd[r].attach /\ safe /\ Goes(r, IF x = "kubernetes" THEN "broken" ELSE "fatal")
  /\ UNCHANGED <<cmd, obj, call, Registry>>

\* az has printed the logs, and fails the next time
LogsFail(r) ==
  /\ pc[r] = "attached" /\ cmd[r].exec = "aci"
  /\ Goes(r, "fatal")
  /\ UNCHANGED <<cmd, obj, call, Registry>>

-----------------------------------------------------------------------------
(* The registry                                                              *)

\* initHandlerCache: an empty name leaves the path of the list, which takes no PUT
Routes(name) == name # ""

\* Mutant: BindRequest leaves out the validation.
AcceptsAll(name, doc) == Routes(name)

\* BindRequest: a body is validated, none is bound to nil
Accepts(name, doc) == Routes(name) /\ (doc # Nil => ValidService(doc))

\* HandleGetOne
GetCode(n) == IF store[n] \in {Absent, Nil} THEN 404 ELSE 200

\* GetServiceOK and GetServiceDefault: the payload, if the answer has one
GetBody(n) == IF GetCode(n) = 200 THEN store[n] ELSE Nil

Answer(r, code, doc) ==
  call' = [call EXCEPT ![r].stage = "answered", ![r].code = code, ![r].doc = doc]

\* CreateOrUpdateService.ServeHTTP, for a run that may have given up
ServePut(r) ==
  /\ call[r].stage = "sent" /\ call[r].op = "put"
  /\ LET n == call[r].name   d == call[r].doc IN
     \/ /\ Accepts(n, d)
        /\ store' = [store EXCEPT ![n] = d] /\ applied' = applied \cup {r}
        /\ Answer(r, 200, d)
     \/ /\ ~Accepts(n, d)
        /\ Answer(r, IF Routes(n) THEN 422 ELSE 405, Nil)
        /\ UNCHANGED <<store, applied>>
  /\ UNCHANGED <<cmd, pc, obj, writes, crashes>>

\* GetService.ServeHTTP
ServeGet(r) ==
  /\ call[r].stage = "sent" /\ call[r].op = "get"
  /\ LET n == call[r].name IN Answer(r, GetCode(n), GetBody(n))
  /\ UNCHANGED <<cmd, pc, obj, Registry>>

\* Another client of the API puts a service, under a name that need not be the one
\* in it, puts none, or deletes.
OtherWrites ==
  /\ writes < MaxWrites
  /\ \E w \in Writes :
       \/ w.op = "put" /\ Accepts(w.name, w.doc) /\ store' = [store EXCEPT ![w.name] = w.doc]
       \/ w.op = "delete" /\ store' = [store EXCEPT ![w.name] = Absent]
  /\ writes' = writes + 1
  /\ UNCHANGED <<cmd, pc, obj, call, applied, crashes>>

\* The registry ends and is started again: its services were in memory only.
Crash ==
  /\ crashes < MaxCrashes
  /\ crashes' = crashes + 1
  /\ store' = [n \in Names |-> Absent]
  /\ UNCHANGED <<cmd, pc, obj, call, applied, writes>>

\* A request is lost before it is served, or its answer after.
Lose(r) ==
  /\ call[r].stage \in {"sent", "answered"} /\ pc[r] \in {"putting", "getting"}
  /\ call' = [call EXCEPT ![r].stage = "lost"]
  /\ UNCHANGED <<cmd, pc, obj, Registry>>

-----------------------------------------------------------------------------

Main(r) ==
  \/ LoadFile(r) \/ ReceivePut(r) \/ SendGet(r) \/ ReceiveGet(r) \/ GiveUp(r)
  \/ MakePlan(r) \/ Execute(r) \/ Attach(r)

Next ==
  \/ \E r \in Runs : Main(r) \/ LogsFail(r) \/ ServePut(r) \/ ServeGet(r) \/ Lose(r)
  \/ OtherWrites \/ Crash

Spec == Init /\ [][Next]_vars

\* A process runs, and its timers fire; nothing is assumed of the registry or of
\* the network.
FairSpec == Spec /\ \A r \in Runs : WF_vars(Main(r))
-----------------------------------------------------------------------------
(* Properties *)

\* A run that is given a registry and a file has the registry store the file before
\* it makes a plan of it or of what it then fetches: whatever is refused, lost, or
\* served after the timeout, the cluster does not get what the registry never had.
EnactsRegistered ==
  \A r \in Runs :
    /\ cmd[r].host /\ cmd[r].file # Nil
    /\ pc[r] \in {"compile", "execute", "executed", "attached", "ok"}
    => r \in applied

\* What --name fetches is what the registry has validated, whoever put it there, and
\* never the empty service that stands for a null.
FetchedIsValid ==
  \A r \in Runs :
    cmd[r].name # Nil /\ pc[r] \in {"compile", "execute", "executed", "attached", "ok"}
    => ValidService(obj[r])

\* What a document needs beyond api.yaml for the kubernetes executor: a serve, and a
\* port for every sharded spec.
Complete(m) ==
  /\ m.serve # Nil
  /\ \A i \in 1..Len(m.services) : m.services[i].shards # Nil => m.services[i].ports # <<>>

\* A run with a registry never follows a nil pointer, or looks for an element that is not
\* there, with a document that has all that api.yaml requires and is complete: not while
\* it registers it, with what it fetches, in a plan, in a deletion or when it attaches.
\* The other panics of the code, over directories, plan files and the first List, are
\* "broken", and no document rules them out.
NoNilFollowed ==
  \A r \in Runs :
    pc[r] = "panic" => \/ ~cmd[r].host
                       \/ cmd[r].exec # "kubernetes"
                       \/ ~Conforms(obj[r])
                       \/ ~Complete(obj[r])

\* Every process ends or is attached, also when the registry never answers.
Terminates == \A r \in Runs : <>(pc[r] \in Ended)

\* README.md: "Tear down an existing service: mp-compiler -f ... --deploy=false
\* --delete=true".  A run that is asked to delete, not as a dry run, and ends well
\* has executed its deletion.
TearDownDeletes ==
  [][\A r \in Runs :
       cmd[r].del /\ ~cmd[r].dryrun /\ pc[r] \notin {"execute", "executed"}
       => pc'[r] # "executed"]_vars

\* compiler.go: "Tail the logs for an existing service".  A run that has deployed a
\* document and attaches to it asks for the logs of something the document made.
AttachFollows ==
  [][\A r \in Runs :
       LET x == cmd[r].exec   m == obj[r] IN
       /\ cmd[r].attach /\ cmd[r].deploy /\ ~cmd[r].del /\ ~cmd[r].dryrun
       /\ pc[r] = "executed" /\ pc'[r] \in {"attached", "ok", "fatal", "broken"}
       /\ Made(x, m) # {}
       => Watched(x, m) \in Made(x, m)]_vars
=============================================================================

--------------------------- MODULE FrontEndProofs ---------------------------
(***************************************************************************)
(* Proofs about FrontEnd: for any number of processes, any command lines,   *)
(* any documents and any names, however the calls are delayed and lost.     *)
(***************************************************************************)
EXTENDS FrontEnd, TLAPS

-----------------------------------------------------------------------------
(* The types, in parts of which each action disturbs few.                    *)

CmdTyped   == DOMAIN cmd = Runs /\ \A r \in Runs : cmd[r] \in Commands[r]
PcTyped    == pc \in [Runs -> PCs]
ObjTyped   == obj \in [Runs -> Docs \cup {EmptyDoc}]
CallTyped  == call \in [Runs -> Calls]
Waiting    == \A r \in Runs : WaitsForOwn(r)
StoreTyped == store \in [Names -> Bodies \cup {Absent}] /\ applied \subseteq Runs
Bounded    == writes \in 0..MaxWrites /\ crashes \in 0..MaxCrashes

Parts == CmdTyped /\ PcTyped /\ ObjTyped /\ CallTyped /\ Waiting /\ StoreTyped /\ Bounded

\* A step of a process.
Process(r) == Main(r) \/ LogsFail(r)

LEMMA PartsOfTypeOK == TypeOK <=> Parts
  BY DEF TypeOK, Parts, CmdTyped, PcTyped, ObjTyped, CallTyped, Waiting, StoreTyped, Bounded

\* The sets of the types are constants.
LEMMA Constants ==
  PCs' = PCs /\ Calls' = Calls /\ EmptyDoc' = EmptyDoc /\ Bodies' = Bodies
  BY DEF PCs, Ended, Calls, Stages, Ops, CallNames, Codes, EmptyDoc, Bodies

LEMMA Members ==
  /\ \A s \in {"none", "sent", "answered", "lost"} : s \in Stages
  /\ \A o \in {"none", "put", "get"} : o \in Ops
  /\ \A c \in {0, 200, 404, 405, 422} : c \in Codes
  /\ \A p \in {"start", "putting", "named", "getting", "compile", "execute", "executed",
               "attached", "ok", "fatal", "panic", "broken"} : p \in PCs
  /\ Names \subseteq CallNames /\ Nil \in CallNames /\ Docs \subseteq Bodies /\ Nil \in Bodies
  BY DEF Stages, Ops, Codes, PCs, Ended, CallNames, Bodies

LEMMA Bounds == MaxWrites \in Nat /\ MaxCrashes \in Nat
  BY FrontEndAssumption

LEMMA InitTyped == Init => Parts
<1> SUFFICES ASSUME Init PROVE Parts
  OBVIOUS
<1>1. CmdTyped
  BY DEF Init, CmdTyped
<1>2. PcTyped /\ Waiting
  BY Members DEF Init, PcTyped, Waiting, WaitsForOwn, NoCall
<1>3. ObjTyped
  BY DEF Init, ObjTyped
<1>4. NoCall \in Calls
  BY Members DEF NoCall, Calls
<1>5. CallTyped
  BY <1>4 DEF Init, CallTyped
<1>6. StoreTyped
  BY DEF Init, StoreTyped
<1>7. Bounded
  BY Bounds DEF Init, Bounded
<1> QED
  BY <1>1, <1>2, <1>3, <1>5, <1>6, <1>7 DEF Parts

-----------------------------------------------------------------------------
(* What happens to a call: it is sent, it is answered or it is lost.         *)

LEMMA CallReplaced ==
  ASSUME CallTyped, NEW r \in Runs, NEW c \in Calls, call' = [call EXCEPT ![r] = c]
  PROVE  CallTyped' /\ call'[r] = c /\ \A q \in Runs \ {r} : call'[q] = call[q]
  BY Constants DEF CallTyped

LEMMA Sent ==
  ASSUME CallTyped, NEW r \in Runs, NEW op \in Ops, NEW n \in CallNames, NEW d \in Bodies,
         Send(r, op, n, d)
  PROVE  /\ CallTyped' /\ call'[r].op = op /\ call'[r].stage = "sent" /\ call'[r].name = n
         /\ \A q \in Runs \ {r} : call'[q] = call[q]
<1> DEFINE c == [stage |-> "sent", op |-> op, name |-> n, doc |-> d, code |-> 0]
<1>1. c \in Calls /\ c.op = op /\ c.stage = "sent" /\ c.name = n
  BY Members DEF Calls
<1>2. call' = [call EXCEPT ![r] = c]
  BY DEF Send
<1> HIDE DEF c
<1> QED
  BY <1>1, <1>2, CallReplaced

LEMMA Answered ==
  ASSUME CallTyped, NEW r \in Runs, NEW code \in Codes, NEW d \in Bodies, Answer(r, code, d)
  PROVE  /\ CallTyped' /\ call'[r].op = call[r].op /\ call'[r].name = call[r].name
         /\ call'[r].code = code /\ call'[r].doc = d
         /\ \A q \in Runs \ {r} : call'[q] = call[q]
<1> DEFINE c == [call[r] EXCEPT !.stage = "answered", !.code = code, !.doc = d]
<1>1. call[r] \in Calls
  BY DEF CallTyped
<1>2. c \in Calls
  <2>1. "answered" \in Stages
    BY Members
  <2> QED
    BY <1>1, <2>1 DEF Calls
<1>3. c.op = call[r].op /\ c.code = code
  BY <1>1 DEF Calls
<1>4. c.doc = d /\ c.name = call[r].name
  BY <1>1 DEF Calls
<1>5. call' = [call EXCEPT ![r] = c]
  BY DEF Answer, CallTyped
<1> HIDE DEF c
<1> QED
  BY <1>2, <1>3, <1>4, <1>5, CallReplaced

LEMMA Lost ==
  ASSUME CallTyped, NEW r \in Runs, Lose(r)
  PROVE  /\ CallTyped' /\ call'[r].op = call[r].op /\ call'[r].name = call[r].name
         /\ call'[r].stage = "lost"
         /\ \A q \in Runs \ {r} : call'[q] = call[q]
<1> DEFINE c == [call[r] EXCEPT !.stage = "lost"]
<1>1. call[r] \in Calls
  BY DEF CallTyped
<1>2. c \in Calls /\ c.op = call[r].op /\ c.name = call[r].name /\ c.stage = "lost"
  BY <1>1, Members DEF Calls
<1>3. call' = [call EXCEPT ![r] = c]
  BY DEF Lose, CallTyped
<1> HIDE DEF c
<1> QED
  BY <1>2, <1>3, CallReplaced

\* A process moves, or stays.
LEMMA Gone ==
  ASSUME PcTyped, NEW r \in Runs, NEW to \in PCs, Goes(r, to)
  PROVE  PcTyped' /\ pc'[r] = to /\ \A q \in Runs \ {r} : pc'[q] = pc[q]
  BY Constants DEF PcTyped, Goes
-----------------------------------------------------------------------------
(* Every step keeps the types.                                               *)

LEMMA Settled ==
  ASSUME PcTyped, CallTyped, Waiting, NEW r \in Runs, NEW to \in PCs \ {"putting", "getting"},
         Goes(r, to), UNCHANGED call
  PROVE  PcTyped' /\ CallTyped' /\ Waiting'
<1>1. PcTyped' /\ pc'[r] = to /\ \A q \in Runs \ {r} : pc'[q] = pc[q]
  BY Gone
<1>2. CallTyped'
  BY Constants DEF CallTyped
<1>3. Waiting'
  BY <1>1 DEF Waiting, WaitsForOwn
<1> QED
  BY <1>1, <1>2, <1>3

LEMMA StartsCall ==
  ASSUME PcTyped, CallTyped, Waiting, NEW r \in Runs, NEW op \in Ops, NEW to \in PCs,
         NEW n \in CallNames, NEW d \in Bodies, Send(r, op, n, d), Goes(r, to),
         \/ to = "putting" /\ op = "put"
         \/ to = "getting" /\ op = "get" /\ n \in Names
  PROVE  PcTyped' /\ CallTyped' /\ Waiting'
<1>1. PcTyped' /\ pc'[r] = to /\ \A q \in Runs \ {r} : pc'[q] = pc[q]
  BY Gone
<1>2. CallTyped' /\ call'[r].op = op /\ call'[r].name = n /\ \A q \in Runs \ {r} : call'[q] = call[q]
  BY Sent
<1>3. Waiting'
  BY <1>1, <1>2 DEF Waiting, WaitsForOwn
<1> QED
  BY <1>1, <1>2, <1>3

LEMMA Keeps ==
  ASSUME Parts
  PROVE  /\ UNCHANGED cmd => CmdTyped'
         /\ UNCHANGED obj => ObjTyped'
         /\ UNCHANGED Registry => StoreTyped' /\ Bounded'
         /\ UNCHANGED <<pc, call>> => PcTyped' /\ CallTyped' /\ Waiting'
<1>1. UNCHANGED cmd => CmdTyped'
  BY DEF Parts, CmdTyped
<1>2. UNCHANGED obj => ObjTyped'
  BY Constants DEF Parts, ObjTyped
<1>3. UNCHANGED Registry => StoreTyped' /\ Bounded'
  BY Constants DEF Parts, StoreTyped, Bounded, Registry
<1>4. UNCHANGED <<pc, call>> => PcTyped' /\ CallTyped' /\ Waiting'
  BY Constants DEF Parts, PcTyped, CallTyped, Waiting, WaitsForOwn
<1> QED
  BY <1>1, <1>2, <1>3, <1>4

LEMMA ObjSet ==
  ASSUME ObjTyped, NEW r \in Runs, NEW d \in Docs \cup {EmptyDoc}, obj' = [obj EXCEPT ![r] = d]
  PROVE  ObjTyped' /\ obj'[r] = d /\ \A q \in Runs \ {r} : obj'[q] = obj[q]
  BY Constants DEF ObjTyped

\* What main does with the flags of a run, and what they name.
LEMMA FlagsTyped ==
  ASSUME CmdTyped, NEW r \in Runs
  PROVE  /\ cmd[r].file \in Docs \cup {Nil} /\ cmd[r].name \in Names \cup {Nil}
         /\ cmd[r].file # Nil => cmd[r].file.name \in CallNames
  BY FrontEndAssumption DEF CmdTyped, CallNames

LEMMA LoadFileTyped == ASSUME Parts, NEW r \in Runs, LoadFile(r) PROVE Parts'
<1> DEFINE f == cmd[r].file
<1>1. f \in Docs \cup {Nil} /\ (f # Nil => f.name \in CallNames)
  BY FlagsTyped DEF Parts
<1>2. CmdTyped' /\ StoreTyped' /\ Bounded'
  BY Keeps DEF LoadFile
<1>3. ObjTyped'
  <2>1. CASE UNCHANGED obj
    BY <2>1, Keeps
  <2>2. CASE f # Nil /\ obj' = [obj EXCEPT ![r] = f]
    BY <1>1, <2>2, ObjSet DEF Parts
  <2> QED
    BY <2>1, <2>2 DEF LoadFile
<1>4. PcTyped' /\ CallTyped' /\ Waiting'
  <2>1. CASE \E to \in {"fatal", "named", "panic"} : Goes(r, to) /\ UNCHANGED call
    BY <2>1, Settled, Members DEF Parts
  <2>2. CASE f # Nil /\ Goes(r, "putting") /\ Send(r, "put", f.name, f)
    BY <1>1, <2>2, StartsCall, Members DEF Parts
  <2> QED
    BY <2>1, <2>2 DEF LoadFile, CreateOrUpdateService
<1> QED
  BY <1>2, <1>3, <1>4 DEF Parts

LEMMA SendGetTyped == ASSUME Parts, NEW r \in Runs, SendGet(r) PROVE Parts'
<1>1. cmd[r].name \in Names \cup {Nil}
  BY FlagsTyped DEF Parts
<1>2. CmdTyped' /\ ObjTyped' /\ StoreTyped' /\ Bounded'
  BY Keeps DEF SendGet
<1>3. PcTyped' /\ CallTyped' /\ Waiting'
  <2>1. CASE \E to \in {"compile", "panic"} : Goes(r, to) /\ UNCHANGED call
    BY <2>1, Settled, Members DEF Parts
  <2>2. CASE cmd[r].name # Nil /\ Goes(r, "getting") /\ Send(r, "get", cmd[r].name, Nil)
    BY <1>1, <2>2, StartsCall, Members DEF Parts
  <2> QED
    BY <2>1, <2>2 DEF SendGet, GetService
<1> QED
  BY <1>2, <1>3 DEF Parts

LEMMA ReceiveGetTyped == ASSUME Parts, NEW r \in Runs, ReceiveGet(r) PROVE Parts'
<1>1. CmdTyped' /\ StoreTyped' /\ Bounded'
  BY Keeps DEF ReceiveGet
<1>2. call[r] \in Calls
  BY DEF Parts, CallTyped
<1>3. call[r].doc \in Docs \cup {Nil}
  BY <1>2 DEF Calls, Bodies
<1>4. ObjTyped'
  <2>1. CASE UNCHANGED obj
    BY <2>1, Keeps
  <2>2. CASE obj' = [obj EXCEPT ![r] = IF call[r].doc = Nil THEN EmptyDoc ELSE call[r].doc]
    BY <1>3, <2>2, ObjSet DEF Parts
  <2> QED
    BY <2>1, <2>2 DEF ReceiveGet
<1>5. PcTyped' /\ CallTyped' /\ Waiting'
  <2>1. \E to \in {"compile", "fatal"} : Goes(r, to) /\ UNCHANGED call
    BY DEF ReceiveGet
  <2> QED
    BY <2>1, Settled, Members DEF Parts
<1> QED
  BY <1>1, <1>4, <1>5 DEF Parts

\* the steps of a process that only go on, or end
LEMMA OtherStepTyped ==
  ASSUME Parts, NEW r \in Runs,
         \/ ReceivePut(r) \/ GiveUp(r) \/ MakePlan(r) \/ Execute(r) \/ Attach(r)
         \/ LogsFail(r)
  PROVE  Parts'
<1>1. /\ UNCHANGED <<cmd, obj, call, Registry>>
      /\ \E to \in {"named", "fatal", "execute", "executed", "panic", "ok", "attached", "broken"} : Goes(r, to)
  <2>1. CASE ReceivePut(r) \/ GiveUp(r) \/ MakePlan(r) \/ LogsFail(r)
    BY <2>1 DEF ReceivePut, GiveUp, MakePlan, LogsFail
  <2>2. CASE Execute(r)
    BY <2>2 DEF Execute
  <2>3. CASE Attach(r)
    BY <2>3 DEF Attach
  <2> QED
    BY <2>1, <2>2, <2>3
<1>2. CmdTyped' /\ ObjTyped' /\ StoreTyped' /\ Bounded'
  BY <1>1, Keeps
<1>3. PcTyped' /\ CallTyped' /\ Waiting'
  BY <1>1, Settled, Members DEF Parts
<1> QED
  BY <1>2, <1>3 DEF Parts

\* A step of the registry or the network leaves the processes where they are, and of
\* a call that is answered or lost at most the outcome changes.
LEMMA StillWaits ==
  ASSUME Waiting, NEW r \in Runs, UNCHANGED pc,
         call'[r].op = call[r].op, call'[r].name = call[r].name,
         \A q \in Runs \ {r} : call'[q] = call[q]
  PROVE  Waiting'
  BY DEF Waiting, WaitsForOwn

LEMMA NameOfCall ==
  ASSUME Parts, NEW r \in Runs
  PROVE  call[r].name \in CallNames /\ call[r].doc \in Bodies
<1>1. call[r] \in Calls
  BY DEF Parts, CallTyped
<1> QED
  BY <1>1 DEF Calls

LEMMA ServePutTyped == ASSUME Parts, NEW r \in Runs, ServePut(r) PROVE Parts'
<1>1. CmdTyped' /\ ObjTyped' /\ UNCHANGED <<pc, writes, crashes>>
  BY Keeps DEF ServePut
<1>2. PcTyped' /\ Bounded'
  BY <1>1, Constants DEF Parts, PcTyped, Bounded
<1>3. call[r].doc \in Bodies
  BY NameOfCall
<1>4. \E code \in Codes, d \in Bodies : Answer(r, code, d)
  BY <1>3, Members DEF ServePut
<1>5. CallTyped' /\ Waiting'
  BY <1>1, <1>4, Answered, StillWaits DEF Parts
<1>6. StoreTyped'
  BY <1>3, Constants DEF ServePut, Parts, StoreTyped
<1> QED
  BY <1>1, <1>2, <1>5, <1>6 DEF Parts

LEMMA ServeGetTyped == ASSUME Parts, NEW r \in Runs, ServeGet(r) PROVE Parts'
<1> DEFINE n == call[r].name
<1>1. CmdTyped' /\ ObjTyped' /\ StoreTyped' /\ Bounded' /\ UNCHANGED pc
  BY Keeps DEF ServeGet
<1>2. PcTyped'
  BY <1>1, Constants DEF Parts, PcTyped
<1>3. n \in Names
  BY DEF ServeGet, Parts, Waiting, WaitsForOwn
<1>4. \E code \in Codes, d \in Bodies : Answer(r, code, d)
  <2>1. store[n] \in Bodies \cup {Absent}
    BY <1>3 DEF Parts, StoreTyped
  <2>2. GetCode(n) \in Codes /\ (GetCode(n) = 200 => store[n] \in Bodies)
    BY <2>1, Members DEF GetCode
  <2> QED
    BY <2>2, Members DEF ServeGet, GetBody
<1>5. CallTyped' /\ Waiting'
  BY <1>1, <1>4, Answered, StillWaits DEF Parts
<1> QED
  BY <1>1, <1>2, <1>5 DEF Parts

LEMMA LoseTyped == ASSUME Parts, NEW r \in Runs, Lose(r) PROVE Parts'
<1>1. CmdTyped' /\ ObjTyped' /\ StoreTyped' /\ Bounded' /\ UNCHANGED pc
  BY Keeps DEF Lose
<1>2. PcTyped'
  BY <1>1, Constants DEF Parts, PcTyped
<1>3. CallTyped' /\ Waiting'
  BY <1>1, Lost, StillWaits DEF Parts
<1> QED
  BY <1>1, <1>2, <1>3 DEF Parts

LEMMA ElsewhereTyped == ASSUME Parts, OtherWrites \/ Crash PROVE Parts'
<1>1. UNCHANGED <<cmd, pc, obj, call>>
  BY DEF OtherWrites, Crash
<1>2. CmdTyped' /\ ObjTyped' /\ PcTyped' /\ CallTyped' /\ Waiting'
  BY <1>1, Keeps
<1>3. StoreTyped'
  <2>1. CASE OtherWrites
    <3>1. \A w \in Writes : w.name \in Names /\ w.doc \in Bodies
      BY FrontEndAssumption DEF Bodies
    <3> QED
      BY <2>1, <3>1, Constants DEF OtherWrites, Parts, StoreTyped
  <2>2. CASE Crash
    BY <2>2, Constants DEF Crash, Parts, StoreTyped
  <2> QED
    BY <2>1, <2>2
<1>4. Bounded'
  <2>1. \/ writes < MaxWrites /\ writes' = writes + 1 /\ crashes' = crashes
        \/ crashes < MaxCrashes /\ crashes' = crashes + 1 /\ writes' = writes
    BY DEF OtherWrites, Crash
  <2> QED
    BY <2>1, Bounds DEF Parts, Bounded
<1> QED
  BY <1>2, <1>3, <1>4 DEF Parts

LEMMA StepTyped == Parts /\ [Next]_vars => Parts'
<1> SUFFICES ASSUME Parts, [Next]_vars PROVE Parts'
  OBVIOUS
<1>1. ASSUME NEW r \in Runs, Process(r) PROVE Parts'
  BY <1>1, LoadFileTyped, SendGetTyped, ReceiveGetTyped, OtherStepTyped DEF Process, Main
<1>2. ASSUME NEW r \in Runs, ServePut(r) \/ ServeGet(r) \/ Lose(r) PROVE Parts'
  BY <1>2, ServePutTyped, ServeGetTyped, LoseTyped
<1>3. CASE OtherWrites \/ Crash
  BY <1>3, ElsewhereTyped
<1>4. CASE UNCHANGED vars
  <2>1. UNCHANGED <<cmd, pc, obj, call, Registry>>
    BY <1>4 DEF vars, Registry
  <2> QED
    BY <2>1, Keeps DEF Parts
<1> QED
  BY <1>1, <1>2, <1>3, <1>4 DEF Next, Process

\* In every state the processes, their calls and the registry are well typed, and a
\* process waits for the answer to the very call that its main has reached.
THEOREM TypeCorrect == Spec => []TypeOK
<1>1. Init => Parts
  BY InitTyped
<1>2. Parts /\ [Next]_vars => Parts'
  BY StepTyped
<1>3. Parts => TypeOK
  BY PartsOfTypeOK
<1> QED
  BY <1>1, <1>2, <1>3, PTL DEF Spec
-----------------------------------------------------------------------------
(* What is enacted was registered.  The invariant follows the answer to a PUT: a  *)
(* 200 on its way to its process is that of a PUT which the registry has stored.  *)

Enacting == {"compile", "execute", "executed", "attached", "ok"}

Registered(r) ==
  /\ pc[r] = "putting" /\ call[r].stage = "answered" /\ call[r].code = 200 => r \in applied
  /\ cmd[r].host /\ cmd[r].file # Nil /\ pc[r] \in {"named", "getting"} \cup Enacting => r \in applied

\* A run to which nothing happens, but that its PUT may be stored.
LEMMA RegisteredStays ==
  ASSUME NEW r \in Runs, Registered(r), cmd'[r] = cmd[r], pc'[r] = pc[r], applied \subseteq applied',
         call'[r] = call[r] \/ call'[r].stage = "lost"
  PROVE  Registered(r)'
  BY DEF Registered, Enacting

LEMMA ProcessRegistered ==
  ASSUME Parts, NEW r \in Runs, Registered(r), Process(r)
  PROVE  Registered(r)'
<1> USE DEF Registered, Enacting
<1>1. UNCHANGED <<cmd, applied>>
  BY DEF Process, Main, LoadFile, ReceivePut, SendGet, ReceiveGet, GiveUp, MakePlan, Execute, Attach,
         LogsFail, Registry
<1>2. ASSUME NEW to \in PCs, Goes(r, to) PROVE pc'[r] = to
  BY <1>2, Gone DEF Parts
<1>3. CASE LoadFile(r)
  <2>1. CASE \E to \in {"fatal", "panic"} : Goes(r, to)
    BY <2>1, <1>2, Members
  <2>2. CASE Goes(r, "named") /\ (cmd[r].file = Nil \/ ~cmd[r].host)
    BY <2>2, <1>1, <1>2, Members
  <2>3. CASE \E n \in CallNames, d \in Bodies : Goes(r, "putting") /\ Send(r, "put", n, d)
    <3>1. pc'[r] = "putting" /\ call'[r].stage = "sent"
      BY <2>3, <1>2, Sent, Members DEF Parts
    <3> QED
      BY <3>1
  <2>4. cmd[r].file # Nil => cmd[r].file \in Bodies /\ cmd[r].file.name \in CallNames
    BY FlagsTyped, Members DEF Parts
  <2> QED
    BY <1>3, <2>1, <2>2, <2>3, <2>4 DEF LoadFile, CreateOrUpdateService
<1>4. CASE ReceivePut(r)
  <2>1. pc'[r] = IF call[r].code = 200 THEN "named" ELSE "fatal"
    BY <1>4, <1>2, Members DEF ReceivePut
  <2> QED
    BY <1>1, <1>4, <2>1 DEF ReceivePut
<1>5. CASE GiveUp(r)
  BY <1>5, <1>2, Members DEF GiveUp
\* from here on a run that has reached "named" only goes on
<1>6. CASE SendGet(r) \/ ReceiveGet(r) \/ MakePlan(r) \/ Execute(r) \/ Attach(r) \/ LogsFail(r)
  <2>1. pc[r] \in {"named", "getting"} \cup Enacting
    BY <1>6 DEF SendGet, ReceiveGet, MakePlan, Execute, Attach, LogsFail
  <2>2. \E to \in {"getting", "fatal", "panic", "broken"} \cup Enacting : Goes(r, to)
    <3>1. CASE SendGet(r) \/ ReceiveGet(r) \/ MakePlan(r) \/ LogsFail(r)
      BY <3>1 DEF SendGet, ReceiveGet, MakePlan, LogsFail
    <3>2. CASE Execute(r)
      BY <3>2 DEF Execute
    <3>3. CASE Attach(r)
      BY <3>3 DEF Attach
    <3> QED
      BY <1>6, <3>1, <3>2, <3>3
  <2> QED
    BY <1>1, <1>2, <2>1, <2>2, Members
<1> QED
  BY <1>3, <1>4, <1>5, <1>6 DEF Process, Main

\* A step of one run leaves the others where they are.
LEMMA ProcessLocal ==
  ASSUME Parts, NEW r \in Runs, Process(r)
  PROVE  /\ UNCHANGED <<cmd, Registry>>
         /\ \A q \in Runs \ {r} : pc'[q] = pc[q] /\ call'[q] = call[q] /\ obj'[q] = obj[q]
<1>1. UNCHANGED <<cmd, Registry>>
  BY DEF Process, Main, LoadFile, ReceivePut, SendGet, ReceiveGet, GiveUp, MakePlan, Execute, Attach,
         LogsFail
<1>2. \A q \in Runs \ {r} : pc'[q] = pc[q]
  <2>1. \E to : Goes(r, to)
    <3>1. CASE Execute(r) \/ Attach(r)
      BY <3>1 DEF Execute, Attach
    <3> QED
      BY <3>1 DEF Process, Main, LoadFile, ReceivePut, SendGet, ReceiveGet, GiveUp, MakePlan, LogsFail
  <2> QED
    BY <2>1 DEF Goes, Parts, PcTyped
<1>3. \A q \in Runs \ {r} : call'[q] = call[q]
  BY DEF Process, Main, LoadFile, ReceivePut, SendGet, ReceiveGet, GiveUp, MakePlan, Execute, Attach,
         LogsFail, CreateOrUpdateService, GetService, Send, Parts, CallTyped
<1>4. \A q \in Runs \ {r} : obj'[q] = obj[q]
  BY DEF Process, Main, LoadFile, ReceivePut, SendGet, ReceiveGet, GiveUp, MakePlan, Execute, Attach,
         LogsFail, Parts, ObjTyped
<1> QED
  BY <1>1, <1>2, <1>3, <1>4

LEMMA ServePutRegistered ==
  ASSUME Parts, NEW r \in Runs, Registered(r), ServePut(r)
  PROVE  Registered(r)'
<1>1. cmd' = cmd /\ pc' = pc
  BY DEF ServePut
<1>2. CASE r \in applied'
  BY <1>2 DEF Registered
<1>3. CASE UNCHANGED applied /\ \E code \in {405, 422} : Answer(r, code, Nil)
  <2>1. call'[r].code # 200
    BY <1>3, Answered, Members DEF Parts
  <2> QED
    BY <1>1, <1>3, <2>1 DEF Registered
<1> QED
  BY <1>2, <1>3 DEF ServePut

LEMMA StepRegistered ==
  ASSUME Parts, \A r \in Runs : Registered(r), [Next]_vars, NEW q \in Runs
  PROVE  Registered(q)'
<1>1. ASSUME NEW r \in Runs, Process(r) PROVE Registered(q)'
  <2>1. CASE q = r
    BY <1>1, <2>1, ProcessRegistered
  <2>2. CASE q # r
    BY <1>1, <2>2, ProcessLocal, RegisteredStays DEF Registry
  <2> QED
    BY <2>1, <2>2
<1>2. ASSUME NEW r \in Runs, ServePut(r) PROVE Registered(q)'
  <2>1. CASE q = r
    BY <1>2, <2>1, ServePutRegistered
  <2>2. CASE q # r
    <3>1. call'[q] = call[q]
      BY <1>2, <2>2 DEF ServePut, Answer, Parts, CallTyped
    <3> QED
      BY <1>2, <3>1, RegisteredStays DEF ServePut
  <2> QED
    BY <2>1, <2>2
<1>3. ASSUME NEW r \in Runs, ServeGet(r) PROVE Registered(q)'
  <2>1. CASE q = r
    BY <1>3, <2>1 DEF ServeGet, Registered, Registry, Parts, Waiting, WaitsForOwn
  <2>2. CASE q # r
    <3>1. call'[q] = call[q]
      BY <1>3, <2>2 DEF ServeGet, Answer, Parts, CallTyped
    <3> QED
      BY <1>3, <3>1, RegisteredStays DEF ServeGet, Registry
  <2> QED
    BY <2>1, <2>2
<1>4. ASSUME NEW r \in Runs, Lose(r) PROVE Registered(q)'
  <2>1. call'[q] = call[q] \/ call'[q].stage = "lost"
    BY <1>4, Lost DEF Parts
  <2> QED
    BY <1>4, <2>1, RegisteredStays DEF Lose, Registry
<1>5. CASE OtherWrites \/ Crash \/ UNCHANGED vars
  BY <1>5, RegisteredStays DEF OtherWrites, Crash, vars
<1> QED
  BY <1>1, <1>2, <1>3, <1>4, <1>5 DEF Next, Process

\* A run with a registry and a file only goes on to a plan after the registry has
\* stored that file.
THEOREM EnactsRegisteredAlways == Spec => []EnactsRegistered
<1> DEFINE IInv == Parts /\ \A r \in Runs : Registered(r)
<1>1. Init => IInv
  BY InitTyped DEF Init, Registered, Enacting
<1>2. IInv /\ [Next]_vars => IInv'
  BY StepTyped, StepRegistered
<1>3. IInv => EnactsRegistered
  BY DEF EnactsRegistered, Registered, Enacting
<1> QED
  BY <1>1, <1>2, <1>3, PTL DEF Spec
-----------------------------------------------------------------------------
(* What is fetched is valid.  The invariant follows a document from the registry, *)
(* which holds no invalid one, through the answer to the GET into obj.            *)

StoreValid == \A n \in Names : store[n] \in {Absent, Nil} \/ ValidService(store[n])

Fetched(r) ==
  /\ pc[r] = "getting" /\ call[r].stage = "answered" /\ call[r].code = 200
     => call[r].doc # Nil /\ ValidService(call[r].doc)
  /\ cmd[r].name # Nil /\ pc[r] \in Enacting => ValidService(obj[r])

\* Whether a document is valid depends on nothing but the document.
LEMMA ValidIsConstant ==
  /\ \A n \in Names : ValidService(store[n])' <=> ValidService(store'[n])
  /\ \A r \in Runs : /\ ValidService(obj[r])' <=> ValidService(obj'[r])
                     /\ ValidService(call[r].doc)' <=> ValidService(call'[r].doc)
  BY DEF ValidService, Required, ValidServe

LEMMA StoreStaysValid == ASSUME Parts, StoreValid, [Next]_vars PROVE StoreValid'
<1> SUFFICES ASSUME NEW n \in Names PROVE store'[n] \in {Absent, Nil} \/ ValidService(store'[n])
  BY ValidIsConstant DEF StoreValid
<1>1. store \in [Names -> Bodies \cup {Absent}]
  BY DEF Parts, StoreTyped
<1>2. CASE UNCHANGED store
  BY <1>2 DEF StoreValid
<1>3. ASSUME NEW m, NEW d, Accepts(m, d), store' = [store EXCEPT ![m] = d]
      PROVE  store'[n] \in {Absent, Nil} \/ ValidService(store'[n])
  <2>1. store'[n] = store[n] \/ store'[n] = d
    BY <1>1, <1>3
  <2> QED
    BY <1>3, <2>1 DEF StoreValid, Accepts
<1>4. CASE \E m : store' = [store EXCEPT ![m] = Absent]
  <2>1. store'[n] = store[n] \/ store'[n] = Absent
    BY <1>1, <1>4
  <2> QED
    BY <2>1 DEF StoreValid
<1>5. CASE store' = [m \in Names |-> Absent]
  BY <1>5
<1>6. CASE \E r \in Runs : Process(r)
  <2>1. UNCHANGED store
    BY <1>6, ProcessLocal DEF Registry
  <2> QED
    BY <1>2, <2>1
<1>7. CASE \E r \in Runs : ServePut(r)
  BY <1>2, <1>3, <1>7 DEF ServePut
<1>8. CASE OtherWrites
  BY <1>3, <1>4, <1>8 DEF OtherWrites
<1>9. CASE (\E r \in Runs : ServeGet(r) \/ Lose(r)) \/ UNCHANGED vars
  BY <1>2, <1>9 DEF ServeGet, Lose, Registry, vars
<1> QED
  BY <1>5, <1>6, <1>7, <1>8, <1>9 DEF Next, Process, Crash

LEMMA FetchedStays ==
  ASSUME NEW r \in Runs, Fetched(r), cmd'[r] = cmd[r], pc'[r] = pc[r], obj'[r] = obj[r],
         call'[r] = call[r] \/ call'[r].stage = "lost"
  PROVE  Fetched(r)'
  BY ValidIsConstant DEF Fetched, Enacting

LEMMA ProcessFetched ==
  ASSUME Parts, NEW r \in Runs, Fetched(r), Process(r)
  PROVE  Fetched(r)'
<1> USE DEF Enacting
<1>1. cmd'[r] = cmd[r]
  BY ProcessLocal
<1>2. ASSUME NEW to \in PCs, Goes(r, to) PROVE pc'[r] = to
  BY <1>2, Gone DEF Parts
<1>3. CASE LoadFile(r) \/ ReceivePut(r) \/ GiveUp(r)
  <2>1. \E to \in {"fatal", "named", "panic", "putting"} : Goes(r, to)
    BY <1>3 DEF LoadFile, ReceivePut, GiveUp
  <2>2. pc'[r] \in {"fatal", "named", "panic", "putting"}
    BY <2>1, <1>2, Members
  <2> QED
    BY <2>2 DEF Fetched
<1>4. CASE SendGet(r)
  <2>1. CASE cmd[r].name = Nil /\ Goes(r, "compile")
    BY <2>1, <1>1, <1>2, Members DEF Fetched
  <2>2. CASE Goes(r, "panic")
    BY <2>2, <1>2, Members DEF Fetched
  <2>3. CASE cmd[r].name # Nil /\ Goes(r, "getting") /\ Send(r, "get", cmd[r].name, Nil)
    <3>1. cmd[r].name \in CallNames
      BY <2>3, FlagsTyped, Members DEF Parts
    <3>2. pc'[r] = "getting" /\ call'[r].stage = "sent"
      BY <2>3, <3>1, <1>2, Sent, Members DEF Parts
    <3> QED
      BY <3>2 DEF Fetched
  <2> QED
    BY <1>4, <2>1, <2>2, <2>3 DEF SendGet, GetService
<1>5. CASE ReceiveGet(r)
  <2>1. CASE Goes(r, "fatal")
    BY <2>1, <1>2, Members DEF Fetched
  <2>2. CASE call[r].code = 200 /\ Goes(r, "compile")
             /\ obj' = [obj EXCEPT ![r] = IF call[r].doc = Nil THEN EmptyDoc ELSE call[r].doc]
    <3>1. call[r].doc # Nil /\ ValidService(call[r].doc)
      BY <1>5, <2>2 DEF ReceiveGet, Fetched
    <3>2. obj'[r] = call[r].doc
      BY <2>2, <3>1 DEF Parts, ObjTyped
    <3>3. pc'[r] = "compile"
      BY <2>2, <1>2, Members
    <3> QED
      BY <3>1, <3>2, <3>3, ValidIsConstant DEF Fetched
  <2> QED
    BY <1>5, <2>1, <2>2 DEF ReceiveGet
<1>6. CASE MakePlan(r) \/ Execute(r) \/ Attach(r) \/ LogsFail(r)
  <2>1. pc[r] \in Enacting /\ obj'[r] = obj[r]
    BY <1>6 DEF MakePlan, Execute, Attach, LogsFail
  <2>2. \E to \in {"fatal", "panic", "broken"} \cup Enacting : Goes(r, to)
    <3>1. CASE Execute(r)
      BY <3>1 DEF Execute
    <3>2. CASE Attach(r)
      BY <3>2 DEF Attach
    <3> QED
      BY <1>6, <3>1, <3>2 DEF MakePlan, LogsFail
  <2>3. pc'[r] \in {"fatal", "panic", "broken"} \cup Enacting
    BY <2>2, <1>2, Members
  <2> QED
    BY <1>1, <2>1, <2>3, ValidIsConstant DEF Fetched
<1> QED
  BY <1>3, <1>4, <1>5, <1>6 DEF Process, Main

LEMMA ServeGetFetched ==
  ASSUME Parts, StoreValid, NEW r \in Runs, Fetched(r), ServeGet(r)
  PROVE  Fetched(r)'
<1> DEFINE n == call[r].name   code == GetCode(n)
<1>1. n \in Names
  BY DEF ServeGet, Parts, Waiting, WaitsForOwn
<1>2. store[n] \in Bodies \cup {Absent}
  BY <1>1 DEF Parts, StoreTyped
<1>3. code \in Codes /\ (code = 200 => store[n] \in Bodies \ {Nil} /\ ValidService(store[n]))
  BY <1>1, <1>2, Members DEF GetCode, StoreValid
<1>4. cmd' = cmd /\ pc' = pc /\ obj' = obj /\ Answer(r, code, GetBody(n))
  BY DEF ServeGet
<1>5. GetBody(n) \in Bodies /\ (code = 200 => GetBody(n) = store[n])
  BY <1>3, Members DEF GetBody
<1> HIDE DEF code, n
<1>6. call'[r].code = code /\ (code = 200 => call'[r].doc = store[n])
  BY <1>3, <1>4, <1>5, Answered DEF Parts
<1> QED
  BY <1>3, <1>4, <1>6, ValidIsConstant DEF Fetched, Enacting

LEMMA StepFetched ==
  ASSUME Parts, StoreValid, \A r \in Runs : Fetched(r), [Next]_vars, NEW q \in Runs
  PROVE  Fetched(q)'
<1>1. ASSUME NEW r \in Runs, Process(r) PROVE Fetched(q)'
  <2>1. CASE q = r
    BY <1>1, <2>1, ProcessFetched
  <2>2. CASE q # r
    BY <1>1, <2>2, ProcessLocal, FetchedStays
  <2> QED
    BY <2>1, <2>2
\* a PUT is not what a process that has sent a GET waits for
<1>2. ASSUME NEW r \in Runs, ServePut(r) PROVE Fetched(q)'
  <2>1. cmd' = cmd /\ pc' = pc /\ obj' = obj
    BY <1>2 DEF ServePut
  <2>2. CASE q = r
    <3>1. pc[q] # "getting"
      BY <1>2, <2>2 DEF ServePut, Parts, Waiting, WaitsForOwn
    <3> QED
      BY <2>1, <3>1, ValidIsConstant DEF Fetched, Enacting
  <2>3. CASE q # r
    <3>1. call'[q] = call[q]
      BY <1>2, <2>3 DEF ServePut, Answer, Parts, CallTyped
    <3> QED
      BY <2>1, <3>1, FetchedStays
  <2> QED
    BY <2>2, <2>3
<1>3. ASSUME NEW r \in Runs, ServeGet(r) PROVE Fetched(q)'
  <2>1. CASE q = r
    BY <1>3, <2>1, ServeGetFetched
  <2>2. CASE q # r
    <3>1. call'[q] = call[q]
      BY <1>3, <2>2 DEF ServeGet, Answer, Parts, CallTyped
    <3> QED
      BY <1>3, <3>1, FetchedStays DEF ServeGet
  <2> QED
    BY <2>1, <2>2
<1>4. ASSUME NEW r \in Runs, Lose(r) PROVE Fetched(q)'
  <2>1. call'[q] = call[q] \/ call'[q].stage = "lost"
    BY <1>4, Lost DEF Parts
  <2> QED
    BY <1>4, <2>1, FetchedStays DEF Lose
<1>5. CASE OtherWrites \/ Crash \/ UNCHANGED vars
  BY <1>5, FetchedStays DEF OtherWrites, Crash, vars
<1> QED
  BY <1>1, <1>2, <1>3, <1>4, <1>5 DEF Next, Process

\* Whatever other clients put, and whenever the registry crashes, a run that enacts
\* what it has fetched enacts a document that the registry has validated.
THEOREM FetchedIsValidAlways == Spec => []FetchedIsValid
<1> DEFINE IInv == Parts /\ StoreValid /\ \A r \in Runs : Fetched(r)
<1>1. Init => IInv
  BY InitTyped DEF Init, StoreValid, Fetched, Enacting
<1>2. IInv /\ [Next]_vars => IInv'
  BY StepTyped, StoreStaysValid, StepFetched
<1>3. IInv => FetchedIsValid
  BY DEF FetchedIsValid, Fetched, Enacting
<1> QED
  BY <1>1, <1>2, <1>3, PTL DEF Spec
-----------------------------------------------------------------------------
(* In a complete document the kubernetes executor follows no nil pointer.    *)

\* The validators of all parts find what the executor follows in containers and ports.
LEMMA PartsSafe ==
  /\ \A cs : ConformingContainers(cs) => ContainersSafe(cs)
  /\ \A ps : Each(ps, LAMBDA p : p # Nil /\ ValidServicePort(p)) => PortsSafe(ps)
<1>1. \A cs : ConformingContainers(cs) => ContainersSafe(cs)
  BY DEF ConformingContainers, ContainersSafe, Each, ValidContainer, ValidEnvVar, Required, EnvSafe
<1>2. \A ps : Each(ps, LAMBDA p : p # Nil /\ ValidServicePort(p)) => PortsSafe(ps)
  BY DEF PortsSafe, Each, ValidServicePort, Required
<1> QED
  BY <1>1, <1>2

\* What api.yaml requires, a serve, and a port for what is sharded are enough for every
\* pointer that Execute and Logs follow.
LEMMA CompleteIsSafe ==
  ASSUME NEW m, Conforms(m), Complete(m), NEW d
  PROVE  ExecuteSafe("kubernetes", d, m) /\ LogsSafe("kubernetes", m)
<1>1. m.name # Nil /\ m.serve # Nil /\ m.serve.name # Nil
  BY DEF Conforms, Complete, ValidService, ValidServe, Required
<1>2. ASSUME NEW i \in 1..Len(m.services)
      PROVE  SpecSafe("kubernetes", d, m, m.services[i])
  <2> DEFINE s == m.services[i]
  <2>1. /\ s # Nil /\ s.name # Nil /\ ConformingContainers(s.containers)
        /\ Each(s.ports, LAMBDA p : p # Nil /\ ValidServicePort(p))
    BY DEF Conforms, Each, ValidSpec, Required
  <2>2. ContainersSafe(s.containers) /\ PortsSafe(s.ports)
    BY <2>1, PartsSafe
  <2>3. s.shards # Nil => s.ports # <<>>
    BY DEF Complete
  <2>4. KubernetesSafe(m, s)
    BY <1>1, <2>1, <2>2, <2>3 DEF KubernetesSafe, NamesSafe
  <2> QED
    BY <2>1, <2>4 DEF SpecSafe, DeletionSafe, CreationSafe
<1>3. Each(m.jobs, LAMBDA j : JobSafe("kubernetes", d, j))
  <2>1. ASSUME NEW i \in 1..Len(m.jobs)
        PROVE  JobSafe("kubernetes", d, m.jobs[i])
    <3>1. m.jobs[i] # Nil /\ m.jobs[i].name # Nil /\ ConformingContainers(m.jobs[i].containers)
      BY <2>1 DEF Conforms, Each, ValidJob, Required
    <3> QED
      BY <3>1, PartsSafe DEF JobSafe
  <2> QED
    BY <2>1 DEF Each
<1> QED
  BY <1>1, <1>2, <1>3 DEF ExecuteSafe, LogsSafe

\* Whether a document is all there depends on nothing but the document.
LEMMA CompleteIsConstant ==
  \A r \in Runs : /\ Conforms(obj[r])' <=> Conforms(obj'[r])
                  /\ Complete(obj[r])' <=> Complete(obj'[r])
  BY DEF Conforms, Complete, ConformingContainers, Each, ValidService, ValidServe, ValidSpec, ValidJob,
         ValidServicePort, ValidContainer, ValidEnvVar, Required

Panicked(r) ==
  pc[r] = "panic" => ~cmd[r].host \/ cmd[r].exec # "kubernetes" \/ ~Conforms(obj[r]) \/ ~Complete(obj[r])

LEMMA PanickedStays ==
  ASSUME NEW r \in Runs, Panicked(r), cmd'[r] = cmd[r], obj'[r] = obj[r],
         pc'[r] = pc[r] \/ pc'[r] # "panic"
  PROVE  Panicked(r)'
  BY CompleteIsConstant DEF Panicked

\* The four places at which main follows a pointer that may be nil: the name of the file's
\* document, the client that only --host makes, the plan and the logs.
LEMMA ProcessPanicked ==
  ASSUME Parts, NEW r \in Runs, Panicked(r), Process(r)
  PROVE  Panicked(r)'
<1>1. cmd'[r] = cmd[r]
  BY ProcessLocal
<1>2. ASSUME NEW to \in PCs, Goes(r, to) PROVE pc'[r] = to
  BY <1>2, Gone DEF Parts
<1>3. CASE \E to \in PCs \ {"panic"} : Goes(r, to)
  BY <1>2, <1>3 DEF Panicked
<1>4. CASE LoadFile(r) /\ cmd[r].file.name = Nil /\ obj' = [obj EXCEPT ![r] = cmd[r].file]
  <2>1. obj'[r].name = Nil
    BY <1>4 DEF Parts, ObjTyped
  <2>2. ~Conforms(obj'[r])
    BY <2>1 DEF Conforms, ValidService, Required
  <2> QED
    BY <2>2, CompleteIsConstant DEF Panicked
<1>5. CASE SendGet(r) /\ ~cmd[r].host
  BY <1>1, <1>5 DEF Panicked
<1>6. CASE Execute(r) /\ ~ExecuteSafe(cmd[r].exec, cmd[r].del, obj[r])
  <2>1. obj'[r] = obj[r]
    BY <1>6 DEF Execute
  <2> QED
    BY <1>1, <1>6, <2>1, CompleteIsSafe, CompleteIsConstant DEF Panicked
<1>7. CASE Attach(r) /\ ~LogsSafe(cmd[r].exec, obj[r])
  <2>1. obj'[r] = obj[r]
    BY <1>7 DEF Attach
  <2> QED
    BY <1>1, <1>7, <2>1, CompleteIsSafe, CompleteIsConstant DEF Panicked
<1>8. CASE LoadFile(r)
  BY <1>3, <1>4, <1>8, Members DEF LoadFile
<1>9. CASE SendGet(r)
  BY <1>3, <1>5, <1>9, Members DEF SendGet
<1>10. CASE Execute(r)
  BY <1>3, <1>6, <1>10, Members DEF Execute
<1>11. CASE Attach(r)
  BY <1>3, <1>7, <1>11, Members DEF Attach
<1>12. CASE ReceivePut(r) \/ ReceiveGet(r) \/ GiveUp(r) \/ MakePlan(r) \/ LogsFail(r)
  <2>1. \E to \in {"named", "fatal", "compile", "execute", "executed", "broken"} : Goes(r, to)
    BY <1>12 DEF ReceivePut, ReceiveGet, GiveUp, MakePlan, LogsFail
  <2> QED
    BY <1>3, <2>1, Members
<1> QED
  BY <1>8, <1>9, <1>10, <1>11, <1>12 DEF Process, Main

LEMMA StepPanicked ==
  ASSUME Parts, \A r \in Runs : Panicked(r), [Next]_vars, NEW q \in Runs
  PROVE  Panicked(q)'
<1>1. ASSUME NEW r \in Runs, Process(r) PROVE Panicked(q)'
  <2>1. CASE q = r
    BY <1>1, <2>1, ProcessPanicked
  <2>2. CASE q # r
    BY <1>1, <2>2, ProcessLocal, PanickedStays
  <2> QED
    BY <2>1, <2>2
<1>2. CASE ~\E r \in Runs : Process(r)
  <2>1. UNCHANGED <<cmd, pc, obj>>
    BY <1>2 DEF Next, Process, ServePut, ServeGet, Lose, OtherWrites, Crash, vars
  <2> QED
    BY <2>1, PanickedStays
<1> QED
  BY <1>1, <1>2

\* When a run with a registry and the kubernetes executor follows a nil pointer, or looks
\* for an element that is not there, its document lacks what api.yaml requires, a serve,
\* or the port of a sharded spec.  (Of panics over files and lists it says nothing.)
THEOREM NoNilFollowedAlways == Spec => []NoNilFollowed
<1> DEFINE IInv == Parts /\ \A r \in Runs : Panicked(r)
<1>1. Init => IInv
  BY InitTyped DEF Init, Panicked
<1>2. IInv /\ [Next]_vars => IInv'
  BY StepTyped, StepPanicked
<1>3. IInv => NoNilFollowed
  BY DEF NoNilFollowed, Panicked
<1> QED
  BY <1>1, <1>2, <1>3, PTL DEF Spec
=============================================================================

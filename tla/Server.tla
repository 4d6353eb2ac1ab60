------------------------------- MODULE Server -------------------------------
(***************************************************************************)
(* restapi/server.go and cmd/server/main.go: the registry as a process, from *)
(* its flags to its exit.  It opens a listener per scheme, then starts a     *)
(* goroutine per listener, and main waits for these.  Several processes may  *)
(* want the same ports and the same socket file, at once or in turn.         *)
(*                                                                         *)
(* What a goroutine runs, graceful.Server, is not in this repository: it     *)
(* asks for signals when it starts to serve, and after one it closes its     *)
(* listener and waits for its connections, as long as its Timeout allows.    *)
(***************************************************************************)
EXTENDS Integers, Sequences, FiniteSets

CONSTANTS
  Processes,  \* invocations of the server
  Flags,      \* what they may be started with
  Conns,      \* connections, of one request each
  NoOne       \* who owns a file that is not there

Schemes == {"unix", "http", "https"}

\* A port of 0 is a random one; a limit or a read timeout of 0 is none; pair and
\* ca are the certificate with its key and the file of --tls-ca.
FlagSet ==
  [enabled : SUBSET Schemes, port : Nat, tlsPort : Nat, limit : Nat, tlsLimit : Nat,
   read : Nat, tlsRead : Nat, grace : BOOLEAN,
   pair : {"none", "half", "unreadable", "good"}, ca : {"none", "unreadable", "good"}]

ASSUME ServerAssumption == NoOne \notin Processes /\ Flags \subseteq [Processes -> FlagSet]

VARIABLES
  flags,     \* the Server struct of each process
  phase,     \* how far main is
  todo,      \* the schemes that Listen or Serve has still to look at
  listening, \* the schemes whose listeners are open
  server,    \* the goroutine of each scheme
  wg,        \* the WaitGroup of Serve
  notified,  \* the goroutines with a signal in their channel
  socket,    \* whose file is at SocketPath
  conn,      \* connections: the listener and how far the request is
  overdue    \* history: the goroutines whose Timeout has cut requests

vars == <<flags, phase, todo, listening, server, wg, notified, socket, conn, overdue>>

Live   == {"listen", "serve", "wait"}
Ends   == {"ok", "failed", "killed"}
InWork == {"reading", "handling"}

TypeOK ==
  /\ flags \in [Processes -> FlagSet]
  /\ phase \in [Processes -> {"idle"} \cup Live \cup Ends]
  /\ todo \in [Processes -> Seq(Schemes)]
  /\ listening \in [Processes -> SUBSET Schemes]
  /\ server \in [Processes -> [Schemes -> {"none", "started", "serving", "draining", "failing", "done"}]]
  /\ wg \in [Processes -> Nat]
  \* Serve counts the goroutines that have still to end
  /\ \A p \in Processes : wg[p] = Cardinality({s \in Schemes : server[p][s] \notin {"none", "done"}})
  /\ notified \in [Processes -> SUBSET Schemes]
  /\ socket \in Processes \cup {NoOne}
  /\ conn \in [Conns -> [by : Processes \cup {NoOne}, scheme : Schemes,
                         at : {"new", "queued", "answered", "dropped", "cut"} \cup InWork]]
  /\ overdue \in [Processes -> SUBSET Schemes]

-----------------------------------------------------------------------------
(* Flags                                                                     *)

\* An empty list of schemes is that of the Swagger document.
hasScheme(f, s) == s \in IF f.enabled = {} THEN {"http"} ELSE f.enabled

\* The order of the blocks in Listen and in Serve.
Block(f, s) == IF hasScheme(f, s) THEN <<s>> ELSE <<>>
Blocks(f)   == Block(f, "unix") \o Block(f, "http") \o Block(f, "https")

\* Mutant: the settings of HTTPS are not taken from HTTP.
InheritNothing(f) == f

\* The settings of HTTPS that are not given are those of HTTP.
Inherit(f) ==
  IF hasScheme(f, "https")
  THEN [f EXCEPT !.tlsLimit = IF @ = 0 THEN f.limit ELSE @,
                 !.tlsRead  = IF @ = 0 THEN f.read ELSE @]
  ELSE f

\* The domain socket gets neither a limit nor a timeout.
LimitOf(p, s) == CASE s = "unix" -> 0 [] s = "http" -> flags[p].limit [] s = "https" -> flags[p].tlsLimit
ReadOf(p, s)  == CASE s = "unix" -> 0 [] s = "http" -> flags[p].read  [] s = "https" -> flags[p].tlsRead
PortOf(p, s)  == IF s = "http" THEN flags[p].port ELSE flags[p].tlsPort

\* Serve needs a certificate with its key, and can read what it is given.
TLSReady(f) == f.pair = "good" /\ f.ca # "unreadable"

Init ==
  /\ flags \in Flags
  /\ phase = [p \in Processes |-> "idle"]
  /\ todo = [p \in Processes |-> <<>>]
  /\ listening = [p \in Processes |-> {}]
  /\ server = [p \in Processes |-> [s \in Schemes |-> "none"]]
  /\ wg = [p \in Processes |-> 0]
  /\ notified = [p \in Processes |-> {}]
  /\ socket = NoOne
  /\ conn = [c \in Conns |-> [by |-> NoOne, scheme |-> "http", at |-> "new"]]
  /\ overdue = [p \in Processes |-> {}]

-----------------------------------------------------------------------------
(* main, Listen and Serve                                                    *)

\* The connections of a listener that are in one of some states.
Of(p, s, at) == {c \in Conns : conn[c].by = p /\ conn[c].scheme = s /\ conn[c].at \in at}

\* Whose request was with a handler is cut off, the others have lost nothing but time.
Broken(cs) ==
  [c \in Conns |-> IF c \notin cs THEN conn[c]
                   ELSE [conn[c] EXCEPT !.at = IF @ = "handling" THEN "cut" ELSE "dropped"]]

\* The process is gone, with its goroutines, listeners and connections; a
\* socket file stays.
Exit(p, how) ==
  /\ phase' = [phase EXCEPT ![p] = how]
  /\ listening' = [listening EXCEPT ![p] = {}]
  /\ conn' = Broken(UNION {Of(p, s, {"queued"} \cup InWork) : s \in Schemes})
  /\ server' = [server EXCEPT ![p] = [s \in Schemes |-> "none"]]
  /\ wg' = [wg EXCEPT ![p] = 0]
  /\ todo' = [todo EXCEPT ![p] = <<>>]
  /\ notified' = [notified EXCEPT ![p] = {}]

Begin(p) ==
  /\ phase[p] = "idle"
  /\ phase' = [phase EXCEPT ![p] = "listen"]
  /\ flags' = [flags EXCEPT ![p] = Inherit(@)]
  /\ todo' = [todo EXCEPT ![p] = Blocks(flags[p])]
  /\ UNCHANGED <<listening, server, wg, notified, socket, conn, overdue>>

\* Is the address of a scheme in use?
Taken(p, s) ==
  IF s = "unix" THEN socket # NoOne
  ELSE PortOf(p, s) # 0 /\
       \E q \in Processes : \E t \in listening[q] \ {"unix"} : PortOf(q, t) = PortOf(p, s)

\* Mutant: hasListeners is set with the first listener.
OpenFirst(p, s) ==
  /\ listening' = [listening EXCEPT ![p] = @ \cup {s}]
  /\ socket' = IF s = "unix" THEN p ELSE socket
  /\ phase' = [phase EXCEPT ![p] = "serve"]
  /\ todo' = [todo EXCEPT ![p] = Blocks(flags[p])]

\* With the last listener open, hasListeners holds and Serve goes on.
Open(p, s) ==
  /\ listening' = [listening EXCEPT ![p] = @ \cup {s}]
  /\ socket' = IF s = "unix" THEN p ELSE socket
  /\ IF Len(todo[p]) > 1
     THEN phase' = phase /\ todo' = [todo EXCEPT ![p] = Tail(@)]
     ELSE phase' = [phase EXCEPT ![p] = "serve"] /\ todo' = [todo EXCEPT ![p] = Blocks(flags[p])]

Listen(p) ==
  /\ phase[p] = "listen"
  /\ LET s == Head(todo[p]) IN
     \/ /\ ~Taken(p, s)
        /\ Open(p, s)
        /\ UNCHANGED <<server, wg, notified, conn>>
     \/ /\ Taken(p, s)
        /\ Exit(p, "failed")
        /\ UNCHANGED socket
  /\ UNCHANGED <<flags, overdue>>

\* Mutant: the goroutine of the domain socket is not waited for.
AddForTCP(p, s) == wg' = [wg EXCEPT ![p] = IF s = "unix" THEN @ ELSE @ + 1]

\* wg.Add, before the goroutine is started.
Add(p, s) == wg' = [wg EXCEPT ![p] = @ + 1]

\* One block of Serve.  The earlier goroutines run already.
Serve(p) ==
  /\ phase[p] = "serve"
  /\ LET s == Head(todo[p]) IN
     \/ /\ s = "https" => TLSReady(flags[p])
        /\ server' = [server EXCEPT ![p][s] = "started"]
        /\ Add(p, s)
        /\ todo' = [todo EXCEPT ![p] = Tail(@)]
        /\ phase' = IF Len(todo[p]) > 1 THEN phase ELSE [phase EXCEPT ![p] = "wait"]
        /\ UNCHANGED <<listening, notified, conn>>
     \/ /\ s = "https" /\ ~TLSReady(flags[p])
        /\ Exit(p, "failed")
  /\ UNCHANGED <<flags, socket, overdue>>

\* Mutant: main waits for the first goroutine to end.
OneDone(p) == \E s \in Schemes : server[p][s] = "done"

\* wg.Wait returns.
AllDone(p) == wg[p] = 0

\* And so does main.
Return(p) ==
  /\ phase[p] = "wait" /\ AllDone(p)
  /\ Exit(p, "ok")
  /\ UNCHANGED <<flags, socket, overdue>>

-----------------------------------------------------------------------------
(* The goroutine of a scheme                                                 *)

Turns(p, s, to) == server' = [server EXCEPT ![p][s] = to]

\* graceful: it asks for signals, and serves.
Register(p, s) ==
  /\ phase[p] \in Live /\ server[p][s] = "started"
  /\ Turns(p, s, "serving")
  /\ UNCHANGED <<flags, phase, todo, listening, wg, notified, socket, conn, overdue>>

Registered(p) == {s \in Schemes : server[p][s] \notin {"none", "started"}}

\* SIGINT or SIGTERM: for all who have asked, or the end of a process in
\* which nobody has.
Signal(p) ==
  /\ phase[p] \in Live
  /\ IF Registered(p) = {}
     THEN Exit(p, "killed")
     ELSE /\ notified' = [notified EXCEPT ![p] = @ \cup Registered(p)]
          /\ UNCHANGED <<phase, todo, listening, server, wg, conn>>
  /\ UNCHANGED <<flags, socket, overdue>>

\* The end of a process that has no say in it.
Kill(p) ==
  /\ phase[p] \in Live
  /\ Exit(p, "killed")
  /\ UNCHANGED <<flags, socket, overdue>>

\* graceful: on a signal the listener is closed, with the connections that
\* nobody has accepted and the file of a domain socket.
Interrupt(p, s) ==
  /\ phase[p] \in Live /\ server[p][s] = "serving" /\ s \in notified[p]
  /\ Turns(p, s, "draining")
  /\ listening' = [listening EXCEPT ![p] = @ \ {s}]
  /\ socket' = IF s = "unix" THEN NoOne ELSE socket
  /\ conn' = Broken(Of(p, s, {"queued"}))
  /\ UNCHANGED <<flags, phase, todo, wg, notified, overdue>>

\* graceful: Accept returns an error that is not of its own making.
AcceptFails(p, s) ==
  /\ phase[p] \in Live /\ server[p][s] = "serving"
  /\ Turns(p, s, "failing")
  /\ UNCHANGED <<flags, phase, todo, listening, wg, notified, socket, conn, overdue>>

\* Mutant: Timeout is not set, and 0 is for ever.
GraceNever(p, s) == FALSE

\* CleanupTimeout is the Timeout of every server.
Grace(p, s) == flags[p].grace

\* graceful: no connection is left, or none is waited for any longer.
Drained(p, s) ==
  \/ Of(p, s, InWork) = {} /\ conn' = conn /\ overdue' = overdue
  \/ /\ Grace(p, s) /\ Of(p, s, InWork) # {}
     /\ conn' = Broken(Of(p, s, InWork))
     /\ overdue' = [overdue EXCEPT ![p] = @ \cup {s}]

\* Mutant: the deferred wg.Done is left out.
ReleaseNot(p) == wg' = wg

\* The deferred wg.Done.
Release(p) == wg' = [wg EXCEPT ![p] = @ - 1]

\* Serve of a listener has returned nil.
Done(p, s) ==
  /\ phase[p] \in Live /\ server[p][s] = "draining"
  /\ Drained(p, s)
  /\ Turns(p, s, "done")
  /\ Release(p)
  /\ UNCHANGED <<flags, phase, todo, listening, notified, socket>>

\* Serve of a listener has returned an error: Fatalf, whatever else is served.
Fatalf(p, s) ==
  /\ phase[p] \in Live /\ server[p][s] = "failing"
  /\ Grace(p, s) \/ Of(p, s, InWork) = {}
  /\ Exit(p, "failed")
  /\ UNCHANGED <<flags, socket, overdue>>

-----------------------------------------------------------------------------
(* Connections                                                               *)

Moves(c, to) ==
  /\ conn' = [conn EXCEPT ![c].at = to]
  /\ UNCHANGED <<flags, phase, todo, listening, server, wg, notified, socket, overdue>>

\* The kernel takes connections for every listener that is open.
Connect(c, p, s) ==
  /\ conn[c].at = "new" /\ s \in listening[p]
  /\ conn' = [conn EXCEPT ![c] = [by |-> p, scheme |-> s, at |-> "queued"]]
  /\ UNCHANGED <<flags, phase, todo, listening, server, wg, notified, socket, overdue>>

\* http.Server accepts it, if the limit of the listener allows.
Accept(c) ==
  LET p == conn[c].by  s == conn[c].scheme IN
  /\ conn[c].at = "queued" /\ server[p][s] = "serving"
  /\ LimitOf(p, s) = 0 \/ Cardinality(Of(p, s, InWork)) < LimitOf(p, s)
  /\ Moves(c, "reading")

\* The client has sent its request, or goes away, or is too slow.
SendRequest(c)  == conn[c].at = "reading" /\ Moves(c, "handling")
Leave(c)        == conn[c].at \in {"queued", "reading"} /\ Moves(c, "dropped")
ReadTimesOut(c) ==
  conn[c].at = "reading" /\ ReadOf(conn[c].by, conn[c].scheme) # 0 /\ Moves(c, "dropped")

\* A handler of Registry has run, and its answer is written.
Answer(c) == conn[c].at = "handling" /\ Moves(c, "answered")

\* Whoever keeps the machine removes the file of a process that is over.
Sweep ==
  /\ socket # NoOne /\ phase[socket] \in Ends
  /\ socket' = NoOne
  /\ UNCHANGED <<flags, phase, todo, listening, server, wg, notified, conn, overdue>>

Main(p) == Begin(p) \/ Listen(p) \/ Serve(p) \/ Return(p)
Goroutine(p, s) == Register(p, s) \/ Interrupt(p, s) \/ Done(p, s) \/ Fatalf(p, s)

Next ==
  \/ \E p \in Processes : Main(p) \/ Signal(p) \/ Kill(p)
  \/ \E p \in Processes, s \in Schemes : Goroutine(p, s) \/ AcceptFails(p, s)
  \/ \E c \in Conns : Accept(c) \/ SendRequest(c) \/ Leave(c) \/ ReadTimesOut(c) \/ Answer(c)
  \/ \E c \in Conns, p \in Processes, s \in Schemes : Connect(c, p, s)
  \/ Sweep

\* Go runs its goroutines and the timers fire; nothing makes a client send.
Fairness ==
  /\ \A p \in Processes : WF_vars(Main(p))
  /\ \A p \in Processes, s \in Schemes : WF_vars(Goroutine(p, s))
  /\ \A c \in Conns : WF_vars(ReadTimesOut(c)) /\ WF_vars(Answer(c))

Spec == Init /\ [][Next]_vars /\ Fairness

-----------------------------------------------------------------------------
(* Properties                                                                *)

Accepted(c) == conn[c].at \in InWork \cup {"answered", "cut"}

\* No request gets to a handler before every listener of its process has been
\* opened: Serve calls Listen for all schemes first, so that a registry which
\* cannot have all its addresses never takes a service that it loses at once.
AllListenFirst ==
  \A c \in Conns : LET p == conn[c].by IN
    Accepted(c) /\ phase[p] \in Live =>
      \A s \in Schemes : hasScheme(flags[p], s) =>
        s \in listening[p] \/ server[p][s] \in {"draining", "done"}

\* A process that ends well has not dropped a request that a handler had,
\* unless the grace period of that listener was over: wg.Wait in main outlasts
\* every goroutine.
OkMeansAnswered ==
  \A c \in Conns : conn[c].at = "cut" /\ phase[conn[c].by] = "ok" =>
    conn[c].scheme \in overdue[conn[c].by]

\* The socket file outlives its listener only if its process did not end well,
\* so that a registry which was stopped can be started again.
FileGoesWithServer ==
  socket # NoOne => phase[socket] \in {"failed", "killed"} \/ "unix" \in listening[socket]

\* --listen-limit without --tls-listen-limit bounds both TCP listeners.
LimitKept ==
  \A p \in Processes : flags[p].limit > 0 =>
    /\ Cardinality(Of(p, "http", InWork)) <= flags[p].limit
    /\ flags[p].tlsLimit \in {0, flags[p].limit} =>
         Cardinality(Of(p, "https", InWork)) <= flags[p].limit

AllRegistered(p) == phase[p] = "wait" /\ "started" \notin {server[p][s] : s \in Schemes}
Hangs(p) == ~flags[p].grace /\ \E s \in Schemes : hasScheme(flags[p], s) /\ ReadOf(p, s) = 0

\* A signal that finds every goroutine serving ends the process, if either
\* --cleanup-timeout or the read timeouts put an end to slow clients.  One
\* that comes while Serve is starting them need not: who registers later
\* does not hear of it.
SignalEnds ==
  \A p \in Processes :
    (AllRegistered(p) /\ ~Hangs(p) /\ notified[p] # {}
       /\ \A s \in Schemes : server[p][s] = "serving" => s \in notified[p])
      ~> phase[p] \in Ends
=============================================================================

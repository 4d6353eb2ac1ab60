------------------------------- MODULE Ktail --------------------------------
(***************************************************************************)
(* ktail/controller.go and the control flow of ktail/tailer.go: one         *)
(* Controller, fed by a direct List and then by an informer, starts and     *)
(* stops one tailer goroutine per container of the selected pods.           *)
(*                                                                         *)
(* Pods are the names of the pods the label selector matches.  A pod name   *)
(* is used by one incarnation after another; its history in the cluster is  *)
(* "created, deleted, created, ...", so a position in it (a number) says    *)
(* which incarnation exists.  The handlers loop over the containers of one  *)
(* pod under a lock nobody else holds for long and treat them alike, so the *)
(* model has one container per pod and one step per handler.                *)
(***************************************************************************)
EXTENDS Integers, Sequences

CONSTANTS
  Pods,        \* pod names that match the label selector
  MaxChanges,  \* bound: creations and deletions of one pod name
  StaleLists,  \* may the informer's first List be older than the direct one?
  Errors       \* may the API server answer with other errors than 400 and 404?

ASSUME ConstantsAssumption ==
  MaxChanges \in Nat /\ StaleLists \in BOOLEAN /\ Errors \in BOOLEAN

VARIABLES
  changes,  \* external: how often each pod name was created or deleted
  ready,    \* external: does the pod that exists have a log to read?
  phase,    \* how far Controller.Run has got
  listed,   \* the position of each pod in the direct List (history variable)
  seen,     \* the position of each pod in the informer's view
  unseen,   \* what the view has missed of a pod (history variable)
  tailers,  \* ctl.tailers: the index in tail of each key, 0 if there is none
  tail      \* the tailers created for each key, oldest first

clusterVars == <<changes, ready>>
vars == <<changes, ready, phase, listed, seen, unseen, tailers, tail>>

Positions == 0..MaxChanges

Up(n) == n % 2 = 1                \* the pod exists at position n
Incarnation(n) == (n + 1) \div 2  \* the incarnation last created at n

Incarnations == 0..Incarnation(MaxChanges)

\* pc: in the loop test of Run, before GetLogs, in the backoff of getStream, in
\* runStream, returned from Run without an error or with one
Tailers == [of : Incarnations, pc : {"test", "open", "backoff", "stream", "ended", "failed"},
            stop : BOOLEAN, fromBeginning : BOOLEAN, reading : Incarnations]

TypeOK ==
  /\ changes \in [Pods -> Positions]
  /\ ready \in [Pods -> BOOLEAN]
  /\ phase \in {"start", "listed", "watching", "panic"}
  /\ listed \in [Pods -> Positions]
  /\ seen \in [Pods -> Positions]
  /\ unseen \in [Pods -> {"nothing", "replaced", "past"}]
  /\ tail \in [Pods -> Seq(Tailers)]
  /\ tailers \in [Pods -> Nat]
  /\ \A p \in Pods : tailers[p] \in 0..Len(tail[p])

-----------------------------------------------------------------------------
(* The cluster (external)                                                    *)

\* A pod is created, or deleted; a new pod has nothing to read yet.
Change(p) ==
  /\ changes[p] < MaxChanges
  /\ changes' = [changes EXCEPT ![p] = @ + 1]
  /\ ready' = [ready EXCEPT ![p] = FALSE]
  /\ UNCHANGED <<phase, listed, seen, unseen, tailers, tail>>

\* The container starts: GetLogs no longer answers 400.
BecomeReady(p) ==
  /\ Up(changes[p]) /\ ~ready[p]
  /\ ready' = [ready EXCEPT ![p] = TRUE]
  /\ UNCHANGED <<changes, phase, listed, seen, unseen, tailers, tail>>

-----------------------------------------------------------------------------
(* The controller                                                            *)

\* NewContainerTailer, and the goroutine on its first test of ct.stop
NewTailer(i, newlyCreatedPod) ==
  [of |-> i, pc |-> "test", stop |-> FALSE, fromBeginning |-> newlyCreatedPod, reading |-> 0]

\* Mutant: the key is entered and its tailer is never started.
addContainersForget(added, view, discoveryPhase) ==
  LET new == {p \in added : tailers[p] = 0} IN
  /\ tailers' = [p \in Pods |-> IF p \in new THEN Len(tail[p]) + 1 ELSE tailers[p]]
  /\ UNCHANGED tail

\* Mutant: a tailer that is there is stopped and replaced.
addContainersReplace(added, view, discoveryPhase) ==
  LET Stopped(p) == [k \in 1..Len(tail[p]) |-> [tail[p][k] EXCEPT !.stop = TRUE]] IN
  /\ tailers' = [p \in Pods |-> IF p \in added THEN Len(tail[p]) + 1 ELSE tailers[p]]
  /\ tail' = [p \in Pods |->
       IF p \in added
       THEN Append(Stopped(p), NewTailer(Incarnation(view[p]), ~discoveryPhase))
       ELSE tail[p]]

\* Mutant: the key is not looked up before a tailer is made.
addContainersBlind(added, view, discoveryPhase) ==
  LET new == added IN
  /\ tailers' = [p \in Pods |-> IF p \in new THEN Len(tail[p]) + 1 ELSE tailers[p]]
  /\ tail' = [p \in Pods |->
       IF p \in new THEN Append(tail[p], NewTailer(Incarnation(view[p]), ~discoveryPhase))
                    ELSE tail[p]]

\* Mutant: discoveryPhase is passed on the wrong way round.
addContainersBackwards(added, view, discoveryPhase) ==
  LET new == {p \in added : tailers[p] = 0} IN
  /\ tailers' = [p \in Pods |-> IF p \in new THEN Len(tail[p]) + 1 ELSE tailers[p]]
  /\ tail' = [p \in Pods |->
       IF p \in new THEN Append(tail[p], NewTailer(Incarnation(view[p]), discoveryPhase))
                    ELSE tail[p]]

\* onInitialAdd and onAdd for a set of pods: a key that has a tailer keeps it.
\* OnEnter always agrees (Logs passes no container patterns).
addContainers(added, view, discoveryPhase) ==
  LET new == {p \in added : tailers[p] = 0} IN
  /\ tailers' = [p \in Pods |-> IF p \in new THEN Len(tail[p]) + 1 ELSE tailers[p]]
  /\ tail' = [p \in Pods |->
       IF p \in new THEN Append(tail[p], NewTailer(Incarnation(view[p]), ~discoveryPhase))
                    ELSE tail[p]]

\* Mutant: the tailer is taken out of the map and never told to stop.
deleteContainerSilently(p) ==
  /\ tailers' = [tailers EXCEPT ![p] = 0]
  /\ UNCHANGED tail

\* Mutant: the tailer is stopped and left in the map.
deleteContainerKeeps(p) ==
  /\ tail' = IF tailers[p] = 0 THEN tail ELSE [tail EXCEPT ![p][tailers[p]].stop = TRUE]
  /\ UNCHANGED tailers

\* onDelete
deleteContainer(p) ==
  /\ tailers' = [tailers EXCEPT ![p] = 0]
  /\ tail' = IF tailers[p] = 0 THEN tail ELSE [tail EXCEPT ![p][tailers[p]].stop = TRUE]

\* Run: the direct List and onInitialAdd for every pod in it
List ==
  /\ phase = "start"
  /\ phase' = "listed"
  /\ listed' = changes
  /\ addContainers({p \in Pods : Up(changes[p])}, changes, TRUE)
  /\ UNCHANGED clusterVars
  /\ UNCHANGED <<seen, unseen>>

\* Run: panic(err)
ListFails ==
  /\ phase = "start" /\ Errors
  /\ phase' = "panic"
  /\ UNCHANGED clusterVars
  /\ UNCHANGED <<listed, seen, unseen, tailers, tail>>

\* Of a pod the controller knew at position old, the view goes straight to new.
Missed(old, new) ==
  CASE new < old              -> "past"
    [] new > old /\ Up(old)   -> "replaced"
    [] OTHER                  -> "nothing"

\* informer.Run: its first List, every pod of which is an Add
StartInformer ==
  /\ phase = "listed"
  /\ phase' = "watching"
  /\ \E view \in [Pods -> Positions] :
       /\ \A p \in Pods : view[p] <= changes[p] /\ (StaleLists \/ listed[p] <= view[p])
       /\ seen' = view
       /\ unseen' = [p \in Pods |-> Missed(listed[p], view[p])]
       /\ addContainers({p \in Pods : Up(view[p])}, view, FALSE)
  /\ UNCHANGED clusterVars
  /\ UNCHANGED listed

\* The next watch event of a pod: AddFunc or DeleteFunc
Watch(p) ==
  /\ phase = "watching" /\ seen[p] < changes[p]
  /\ seen' = [seen EXCEPT ![p] = @ + 1]
  /\ IF Up(seen[p] + 1) THEN addContainers({p}, seen', FALSE) ELSE deleteContainer(p)
  /\ UNCHANGED clusterVars
  /\ UNCHANGED <<phase, listed, unseen>>

\* The watch is lost and the informer lists again.  A pod new to the view is an
\* Add; one that is still or again there is an Update, which the handler ignores;
\* one that is gone is a Delete of a DeletedFinalStateUnknown, which is no *v1.Pod
\* and ignored too.
Relist ==
  /\ phase = "watching"
  /\ \E p \in Pods : seen[p] # changes[p]
  /\ seen' = changes
  /\ unseen' = [p \in Pods |->
       IF unseen[p] = "nothing" THEN Missed(seen[p], changes[p]) ELSE unseen[p]]
  /\ addContainers({p \in Pods : ~Up(seen[p]) /\ Up(changes[p])}, changes, FALSE)
  /\ UNCHANGED clusterVars
  /\ UNCHANGED <<phase, listed>>

-----------------------------------------------------------------------------
(* The tailer goroutines                                                     *)

At(p, k, where) == k \in 1..Len(tail[p]) /\ tail[p][k].pc = where

Becomes(p, k, t) ==
  /\ tail' = [tail EXCEPT ![p][k] = t]
  /\ UNCHANGED clusterVars
  /\ UNCHANGED <<phase, listed, seen, unseen, tailers>>

\* for !ct.stop
LoopTest(p, k) ==
  /\ At(p, k, "test")
  /\ Becomes(p, k, [tail[p][k] EXCEPT !.pc = IF tail[p][k].stop THEN "ended" ELSE "open"])

\* Mutant: not ready yet is taken for gone.
GetLogsGivesUp(p, k) ==
  /\ At(p, k, "open")
  /\ LET t == tail[p][k] IN
     Becomes(p, k,
       IF Up(changes[p]) /\ ready[p]
       THEN [t EXCEPT !.pc = "stream", !.fromBeginning = FALSE, !.reading = Incarnation(changes[p])]
       ELSE [t EXCEPT !.pc = "ended"])

\* Mutant: a pod that is gone is waited for.
GetLogsWaits(p, k) ==
  /\ At(p, k, "open")
  /\ LET t == tail[p][k] IN
     Becomes(p, k,
       IF Up(changes[p]) /\ ready[p]
       THEN [t EXCEPT !.pc = "stream", !.fromBeginning = FALSE, !.reading = Incarnation(changes[p])]
       ELSE [t EXCEPT !.pc = "backoff"])

\* getStream asks for the log of the pod's name, whichever incarnation that is
\* now: 404 if there is none, 400 if it is not ready.  ct.stop is not looked at.
GetLogs(p, k) ==
  /\ At(p, k, "open")
  /\ LET t == tail[p][k] IN
     Becomes(p, k,
       IF ~Up(changes[p]) THEN [t EXCEPT !.pc = "ended"]
       ELSE IF ~ready[p] THEN [t EXCEPT !.pc = "backoff"]
       ELSE [t EXCEPT !.pc = "stream", !.fromBeginning = FALSE,
                      !.reading = Incarnation(changes[p])])

\* any other error: Run returns it and OnError reports it
GetLogsFails(p, k) ==
  /\ Errors
  /\ At(p, k, "open")
  /\ Becomes(p, k, [tail[p][k] EXCEPT !.pc = "failed"])

\* time.Sleep(boff.Duration()) is over
WakeUp(p, k) ==
  /\ At(p, k, "backoff")
  /\ Becomes(p, k, [tail[p][k] EXCEPT !.pc = "open"])

\* the incarnation whose log the tailer reads is there no more
LogIsOver(p, k) ==
  At(p, k, "stream") /\ ~(Up(changes[p]) /\ tail[p][k].reading = Incarnation(changes[p]))

\* runStream reads io.EOF: the log is over, or the server has closed the stream
StreamEnds(p, k) ==
  /\ At(p, k, "stream")
  /\ Becomes(p, k, [tail[p][k] EXCEPT !.pc = "test", !.reading = 0])

\* runStream returns an error
StreamFails(p, k) ==
  /\ Errors
  /\ At(p, k, "stream")
  /\ Becomes(p, k, [tail[p][k] EXCEPT !.pc = "failed", !.reading = 0])

-----------------------------------------------------------------------------
Init ==
  /\ changes \in [Pods -> Positions \cap {0, 1}]
  /\ ready \in [Pods -> BOOLEAN] /\ \A p \in Pods : ready[p] => Up(changes[p])
  /\ phase = "start"
  /\ listed = [p \in Pods |-> 0]
  /\ seen = [p \in Pods |-> 0]
  /\ unseen = [p \in Pods |-> "nothing"]
  /\ tailers = [p \in Pods |-> 0]
  /\ tail = [p \in Pods |-> <<>>]

Tailer(p, k) == LoopTest(p, k) \/ GetLogs(p, k) \/ WakeUp(p, k)

Next ==
  \/ List \/ ListFails \/ StartInformer \/ Relist
  \/ \E p \in Pods : Change(p) \/ BecomeReady(p) \/ Watch(p)
  \/ \E p \in Pods : \E k \in 1..Len(tail[p]) :
       Tailer(p, k) \/ GetLogsFails(p, k) \/ StreamEnds(p, k) \/ StreamFails(p, k)

Spec == Init /\ [][Next]_vars

\* at most this many tailers are made for a key
Slots == 1..Incarnation(MaxChanges)

\* The goroutines are scheduled, the watch delivers, and the API server closes
\* the log of a pod that is gone.
Fairness ==
  /\ WF_vars(List) /\ WF_vars(StartInformer)
  /\ \A p \in Pods :
       /\ WF_vars(Watch(p))
       /\ \A k \in Slots : WF_vars(Tailer(p, k)) /\ WF_vars(LogIsOver(p, k) /\ StreamEnds(p, k))

FairSpec == Spec /\ Fairness
-----------------------------------------------------------------------------
(* Properties *)

\* The map and the goroutines agree: the only tailer of a key that has not been
\* told to stop is the one in the map (addContainer, deleteContainer).
OneLiveTailer ==
  \A p \in Pods : \A k \in 1..Len(tail[p]) : ~tail[p][k].stop <=> tailers[p] = k

\* While the view has missed nothing, the map is the view: a key has a tailer,
\* made for the incarnation in the view, exactly when the view has the pod.
MapMirrorsView ==
  phase = "watching" =>
    \A p \in Pods : unseen[p] = "nothing" =>
      IF Up(seen[p]) THEN /\ tailers[p] # 0
                          /\ tail[p][tailers[p]].of = Incarnation(seen[p])
                     ELSE tailers[p] = 0

\* Only tailers of incarnations that are gone are stopped; a pod is not abandoned
\* while it runs.  (Unless the informer's first view was older than the List.)
StopOnlyDead ==
  \A p \in Pods : unseen[p] # "past" =>
    \A k \in 1..Len(tail[p]) :
      tail[p][k].stop => tail[p][k].of < Incarnation(changes[p]) \/ ~Up(changes[p])

\* Two goroutines only read the log of one incarnation when one of them is a
\* straggler of an earlier incarnation, stopped before it came to open a stream.
OnlyStragglersOverlap ==
  \A p \in Pods : unseen[p] # "past" =>
    \A j, k \in 1..Len(tail[p]) :
      /\ j # k
      /\ tail[p][j].pc = "stream" /\ tail[p][k].pc = "stream"
      /\ tail[p][j].reading = tail[p][k].reading
      => \E l \in {j, k} : tail[p][l].stop /\ tail[p][l].of < tail[p][l].reading

\* The history of a pod that was there before the attach is not replayed: reading
\* from the beginning is for incarnations the direct List has not seen.
HistoryOnlyForNewPods ==
  \A p \in Pods : unseen[p] # "past" =>
    \A k \in 1..Len(tail[p]) :
      tail[p][k].fromBeginning => tail[p][k].of > Incarnation(listed[p])

Ended(p) == \A k \in 1..Len(tail[p]) : tail[p][k].pc \in {"ended", "failed"}

\* No goroutine outlives a pod that is gone for good, whatever the view missed.
GoneMeansEnded ==
  \A p \in Pods : <>[]~Up(changes[p]) => <>[]Ended(p)

Read(p) ==
  \E k \in 1..Len(tail[p]) :
    tail[p][k].pc = "stream" /\ tail[p][k].reading = Incarnation(changes[p])

\* an error has ended the tailer that is in the map
Failed(p) == tailers[p] # 0 /\ tail[p][tailers[p]].pc = "failed"

Stays(p) == phase = "watching" /\ Up(changes[p]) /\ ready[p]

\* A pod that is up and ready for good is read again and again, unless the view
\* has missed something of it or an error has ended its tailer.
SeenIsTailed ==
  \A p \in Pods : <>[]Stays(p) => <>[](unseen[p] # "nothing" \/ Failed(p)) \/ []<>Read(p)

\* "Tail the logs for an existing service": a pod of the service that is up and
\* ready for good is read in the end, unless reading fails.
ExistingIsTailed ==
  \A p \in Pods : <>[]Stays(p) => <>[]Failed(p) \/ []<>Read(p)
=============================================================================

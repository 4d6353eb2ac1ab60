---------------------------- MODULE ServerProofs ----------------------------
(***************************************************************************)
(* Proofs about Server: for any number of processes with any flags and any   *)
(* number of connections, whenever signals, errors and kills come.            *)
(***************************************************************************)
EXTENDS Server, FiniteSetTheorems, SequenceTheorems, TLAPS

-----------------------------------------------------------------------------
(* The inductive invariant                                                   *)

\* s is still to come in a sequence of schemes; none comes twice.
In(s, q)    == \E i \in 1..Len(q) : q[i] = s
Distinct(q) == \A i, j \in 1..Len(q) : q[i] = q[j] => i = j

\* A process that is not running has nothing open.
Idle(p) ==
  phase[p] \notin Live => listening[p] = {} /\ \A s \in Schemes : server[p][s] = "none"

\* Listen opens what it has still to open, and starts nothing.
Listening(p) ==
  phase[p] = "listen" =>
    /\ todo[p] # <<>>
    /\ \A s \in Schemes : /\ server[p][s] = "none" /\ (In(s, todo[p]) => hasScheme(flags[p], s))
                          /\ hasScheme(flags[p], s) => s \in listening[p] \/ In(s, todo[p])

\* Serve starts each goroutine once.
Serving(p) ==
  phase[p] = "serve" =>
    /\ todo[p] # <<>> /\ Distinct(todo[p])
    /\ \A s \in Schemes : /\ In(s, todo[p]) => server[p][s] = "none" /\ hasScheme(flags[p], s)
                          /\ hasScheme(flags[p], s) => server[p][s] # "none" \/ In(s, todo[p])

Waiting(p) ==
  phase[p] = "wait" => \A s \in Schemes : hasScheme(flags[p], s) => server[p][s] # "none"

\* From Serve on each listener is open until its own goroutine closes it.
Opened(p) ==
  \A s \in Schemes :
    /\ s \in listening[p] => hasScheme(flags[p], s) /\ server[p][s] \notin {"draining", "done"}
    /\ phase[p] \in {"serve", "wait"} /\ hasScheme(flags[p], s)
       => s \in listening[p] \/ server[p][s] \in {"draining", "done"}
    /\ server[p][s] # "none" => phase[p] \in {"serve", "wait"} /\ hasScheme(flags[p], s)

Inherited(p) ==
  phase[p] # "idle" /\ hasScheme(flags[p], "https") /\ flags[p].limit > 0 => flags[p].tlsLimit > 0

\* A connection is a listener's; a request is with a goroutine that serves or is
\* about to end; one that was cut off was left by a process that failed, or waited
\* for long enough.
Known(c) ==
  LET p == conn[c].by  s == conn[c].scheme IN
  conn[c].at # "new" =>
    /\ p \in Processes /\ phase[p] # "idle" /\ hasScheme(flags[p], s)
    /\ Accepted(c) => phase[p] \in {"serve", "wait"} \cup Ends
    /\ conn[c].at \in InWork => server[p][s] \in {"serving", "draining", "failing"}
    /\ conn[c].at = "cut" => phase[p] \in {"failed", "killed"} \/ s \in overdue[p]

Bounded(p, s) ==
  LimitOf(p, s) > 0 => Cardinality(Of(p, s, InWork)) <= LimitOf(p, s)

\* Only finitely many connections have been made.
Made == {c \in Conns : conn[c].at # "new"}

PInv(p) ==
  /\ Idle(p) /\ Listening(p) /\ Serving(p) /\ Waiting(p) /\ Opened(p) /\ Inherited(p)
  /\ \A s \in Schemes : Bounded(p, s)

IInv ==
  /\ TypeOK /\ FileGoesWithServer /\ IsFiniteSet(Made)
  /\ \A p \in Processes : PInv(p)
  /\ \A c \in Conns : Known(c)
-----------------------------------------------------------------------------
(* Flags and blocks                                                          *)

LEMMA FlagsTyped ==
  ASSUME TypeOK, NEW p \in Processes
  PROVE  /\ flags[p] \in FlagSet /\ flags[p].enabled \in SUBSET Schemes
         /\ flags[p].limit \in Nat /\ flags[p].tlsLimit \in Nat
         /\ flags[p].read \in Nat /\ flags[p].tlsRead \in Nat
         /\ \A s \in Schemes : LimitOf(p, s) \in Nat
<1>1. flags[p] \in FlagSet
  BY DEF TypeOK
<1>2. flags[p].limit \in Nat /\ flags[p].tlsLimit \in Nat
  BY <1>1 DEF FlagSet
<1>3. \A s \in Schemes : LimitOf(p, s) \in Nat
  BY <1>2 DEF LimitOf, Schemes
<1> QED
  BY <1>1, <1>3 DEF FlagSet

\* What Listen fills in are the settings of HTTPS; the schemes stay.
LEMMA InheritFills ==
  ASSUME NEW f \in FlagSet
  PROVE  /\ Inherit(f) \in FlagSet /\ Inherit(f).enabled = f.enabled
         /\ Inherit(f).limit = f.limit
         /\ hasScheme(f, "https") /\ f.limit > 0 => Inherit(f).tlsLimit > 0
         /\ \A s : hasScheme(Inherit(f), s) = hasScheme(f, s)
<1>1. /\ f.limit \in Nat /\ f.tlsLimit \in Nat /\ f.read \in Nat /\ f.tlsRead \in Nat
  BY DEF FlagSet
<1>2. CASE hasScheme(f, "https")
  <2> DEFINE l == IF f.tlsLimit = 0 THEN f.limit ELSE f.tlsLimit
             t == IF f.tlsRead = 0 THEN f.read ELSE f.tlsRead
  <2>1. l \in Nat /\ t \in Nat /\ (f.limit > 0 => l > 0)
    BY <1>1
  <2>2. Inherit(f) = [f EXCEPT !.tlsLimit = l, !.tlsRead = t]
    BY <1>2 DEF Inherit, FlagSet
  <2> HIDE DEF l, t
  <2>3. /\ Inherit(f) \in FlagSet /\ Inherit(f).enabled = f.enabled
        /\ Inherit(f).limit = f.limit /\ Inherit(f).tlsLimit = l
    BY <2>1, <2>2 DEF FlagSet
  <2> QED
    BY <2>1, <2>3 DEF hasScheme
<1>3. CASE ~hasScheme(f, "https")
  BY <1>3 DEF Inherit
<1> QED
  BY <1>2, <1>3

LEMMA HeadAndTail ==
  ASSUME NEW q \in Seq(Schemes), q # <<>>
  PROVE  /\ Head(q) \in Schemes /\ Tail(q) \in Seq(Schemes) /\ In(Head(q), q)
         /\ \A s : In(s, q) <=> s = Head(q) \/ In(s, Tail(q))
         /\ Distinct(q) => Distinct(Tail(q)) /\ ~In(Head(q), Tail(q))
         /\ Len(q) > 1 <=> Tail(q) # <<>>
         /\ Len(q) > 1 \/ \A s : ~In(s, Tail(q))
<1>1. /\ Len(q) \in Nat /\ Len(q) >= 1 /\ Head(q) = q[1] /\ Head(q) \in Schemes
      /\ Tail(q) \in Seq(Schemes) /\ Len(Tail(q)) = Len(q) - 1
      /\ \A i \in 1..Len(Tail(q)) : Tail(q)[i] = q[i + 1]
  BY HeadTailProperties
<1>2. ASSUME NEW s, In(s, q), s # Head(q)
      PROVE  In(s, Tail(q))
  <2>1. PICK i \in 1..Len(q) : q[i] = s
    BY <1>2 DEF In
  <2>2. i # 1 /\ i - 1 \in 1..Len(Tail(q)) /\ (i - 1) + 1 = i
    BY <1>1, <1>2, <2>1
  <2> QED
    BY <1>1, <2>1, <2>2 DEF In
<1>3. ASSUME NEW s, In(s, Tail(q))
      PROVE  In(s, q)
  <2>1. PICK i \in 1..Len(Tail(q)) : Tail(q)[i] = s
    BY <1>3 DEF In
  <2>2. i + 1 \in 1..Len(q) /\ q[i + 1] = s
    BY <1>1, <2>1
  <2> QED
    BY <2>2 DEF In
<1>4. In(Head(q), q)
  <2>1. 1 \in 1..Len(q)
    BY <1>1
  <2> QED
    BY <1>1, <2>1 DEF In
<1>5. ASSUME Distinct(q)
      PROVE  Distinct(Tail(q)) /\ ~In(Head(q), Tail(q))
  <2>1. \A i \in 1..Len(Tail(q)) : i + 1 \in 1..Len(q) /\ i + 1 # 1
    BY <1>1
  <2>2. 1 \in 1..Len(q)
    BY <1>1
  <2>3. Distinct(Tail(q))
    <3>1. ASSUME NEW i \in 1..Len(Tail(q)), NEW j \in 1..Len(Tail(q)), Tail(q)[i] = Tail(q)[j]
          PROVE  i = j
      <4>1. q[i + 1] = q[j + 1]
        BY <1>1, <3>1
      <4>2. i + 1 = j + 1
        BY <1>5, <2>1, <4>1 DEF Distinct
      <4> QED
        BY <4>2
    <3> QED
      BY <3>1 DEF Distinct
  <2>4. ~In(Head(q), Tail(q))
    BY <1>1, <1>5, <2>1, <2>2 DEF In, Distinct
  <2> QED
    BY <2>3, <2>4
<1>6. Len(q) > 1 <=> Tail(q) # <<>>
  <2>1. Tail(q) = <<>> <=> Len(Tail(q)) = 0
    BY <1>1, EmptySeq
  <2> QED
    BY <1>1, <2>1
<1>7. Len(q) > 1 \/ \A s : ~In(s, Tail(q))
  <2>1. Len(q) > 1 \/ 1..Len(Tail(q)) = {}
    BY <1>1
  <2> QED
    BY <2>1 DEF In
<1> QED
  BY <1>1, <1>2, <1>3, <1>4, <1>5, <1>6, <1>7

LEMMA InBoth ==
  ASSUME NEW q \in Seq(Schemes), NEW r \in Seq(Schemes)
  PROVE  /\ q \o r \in Seq(Schemes)
         /\ \A s : In(s, q \o r) <=> In(s, q) \/ In(s, r)
         /\ Distinct(q) /\ Distinct(r) /\ (\A s : ~(In(s, q) /\ In(s, r))) => Distinct(q \o r)
<1>1. /\ q \o r \in Seq(Schemes) /\ Len(q) \in Nat /\ Len(r) \in Nat
      /\ Len(q \o r) = Len(q) + Len(r)
      /\ \A i \in 1..(Len(q) + Len(r)) : (q \o r)[i] = IF i <= Len(q) THEN q[i] ELSE r[i - Len(q)]
  BY ConcatProperties
<1>2. \A i \in 1..Len(q) : i \in 1..Len(q \o r) /\ (q \o r)[i] = q[i]
  BY <1>1
<1>3. \A i \in 1..Len(r) : Len(q) + i \in 1..Len(q \o r) /\ (q \o r)[Len(q) + i] = r[i]
  <2> TAKE i \in 1..Len(r)
  <2>1. Len(q) + i \in 1..(Len(q) + Len(r)) /\ ~(Len(q) + i <= Len(q)) /\ (Len(q) + i) - Len(q) = i
    BY <1>1
  <2> QED
    BY <1>1, <2>1
<1>4. \A i \in 1..Len(q \o r) :
        i \notin 1..Len(q) => i - Len(q) \in 1..Len(r) /\ (q \o r)[i] = r[i - Len(q)]
  <2> TAKE i \in 1..Len(q \o r)
  <2>1. i \notin 1..Len(q) => i - Len(q) \in 1..Len(r) /\ ~(i <= Len(q))
    BY <1>1
  <2> QED
    BY <1>1, <2>1
<1>5. \A s : In(s, q \o r) <=> In(s, q) \/ In(s, r)
  BY <1>2, <1>3, <1>4 DEF In
<1>6. ASSUME Distinct(q), Distinct(r), \A s : ~(In(s, q) /\ In(s, r)),
             NEW i \in 1..Len(q \o r), NEW j \in 1..Len(q \o r), (q \o r)[i] = (q \o r)[j]
      PROVE  i = j
  <2>1. CASE i \in 1..Len(q) /\ j \in 1..Len(q)
    BY <1>2, <1>6, <2>1 DEF Distinct
  <2>2. CASE i \in 1..Len(q) /\ j \notin 1..Len(q)
    BY <1>2, <1>4, <1>6, <2>2 DEF In
  <2>3. CASE i \notin 1..Len(q) /\ j \in 1..Len(q)
    BY <1>2, <1>4, <1>6, <2>3 DEF In
  <2>4. CASE i \notin 1..Len(q) /\ j \notin 1..Len(q)
    <3>1. i - Len(q) = j - Len(q)
      BY <1>4, <1>6, <2>4 DEF Distinct
    <3> QED
      BY <1>1, <3>1
  <2> QED
    BY <2>1, <2>2, <2>3, <2>4
<1> QED
  BY <1>1, <1>5, <1>6 DEF Distinct

LEMMA BlockIs ==
  ASSUME NEW f \in FlagSet, NEW s \in Schemes
  PROVE  /\ Block(f, s) \in Seq(Schemes) /\ Distinct(Block(f, s))
         /\ \A t : In(t, Block(f, s)) <=> t = s /\ hasScheme(f, s)
  BY DEF Block, In, Distinct

\* Listen and Serve have one block for each scheme that is enabled, and there is one.
LEMMA BlocksAre ==
  ASSUME NEW f \in FlagSet
  PROVE  /\ Blocks(f) \in Seq(Schemes) /\ Blocks(f) # <<>> /\ Distinct(Blocks(f))
         /\ \A s \in Schemes : In(s, Blocks(f)) <=> hasScheme(f, s)
<1> DEFINE u == Block(f, "unix")
           h == Block(f, "http")
           t == Block(f, "https")
<1>1. "unix" \in Schemes /\ "http" \in Schemes /\ "https" \in Schemes
  BY DEF Schemes
<1>2. /\ u \in Seq(Schemes) /\ Distinct(u) /\ \A s : In(s, u) <=> s = "unix" /\ hasScheme(f, "unix")
      /\ h \in Seq(Schemes) /\ Distinct(h) /\ \A s : In(s, h) <=> s = "http" /\ hasScheme(f, "http")
      /\ t \in Seq(Schemes) /\ Distinct(t) /\ \A s : In(s, t) <=> s = "https" /\ hasScheme(f, "https")
  BY <1>1, BlockIs
<1>3. Blocks(f) = (u \o h) \o t
  BY DEF Blocks
<1> HIDE DEF u, h, t
<1>4. /\ u \o h \in Seq(Schemes) /\ \A s : In(s, u \o h) <=> In(s, u) \/ In(s, h)
      /\ Distinct(u) /\ Distinct(h) /\ (\A s : ~(In(s, u) /\ In(s, h))) => Distinct(u \o h)
  BY <1>2, InBoth
<1>5. Distinct(u \o h)
  BY <1>2, <1>4
<1> PICK uh : uh = u \o h
  OBVIOUS
<1>6. /\ uh \o t \in Seq(Schemes) /\ \A s : In(s, uh \o t) <=> In(s, uh) \/ In(s, t)
      /\ Distinct(uh) /\ Distinct(t) /\ (\A s : ~(In(s, uh) /\ In(s, t))) => Distinct(uh \o t)
  BY <1>2, <1>4, InBoth
<1>7. Blocks(f) = uh \o t /\ Distinct(uh) /\ \A s : In(s, uh) <=> In(s, u) \/ In(s, h)
  BY <1>3, <1>4, <1>5
<1>8. Distinct(Blocks(f))
  BY <1>2, <1>6, <1>7
<1>9. \A s \in Schemes : In(s, Blocks(f)) <=> hasScheme(f, s)
  BY <1>2, <1>6, <1>7 DEF Schemes
<1>10. \E s \in Schemes : hasScheme(f, s)
  <2>1. f.enabled \in SUBSET Schemes
    BY DEF FlagSet
  <2> QED
    BY <1>1, <2>1 DEF hasScheme
<1>11. Blocks(f) # <<>>
  BY <1>9, <1>10 DEF In
<1> QED
  BY <1>6, <1>7, <1>8, <1>9, <1>11
-----------------------------------------------------------------------------
(* Goroutines and the WaitGroup                                              *)

Stages == {"none", "started", "serving", "draining", "failing", "done"}

\* The goroutines that Serve has still to wait for.
Working(p) == {s \in Schemes : server[p][s] \notin {"none", "done"}}

LEMMA WorkCounted ==
  ASSUME TypeOK, NEW p \in Processes
  PROVE  /\ IsFiniteSet(Working(p)) /\ wg[p] = Cardinality(Working(p)) /\ wg[p] \in Nat
         /\ wg[p] = 0 => Working(p) = {}
         /\ \A s \in Working(p) : Cardinality(Working(p) \ {s}) = wg[p] - 1
         /\ \A s \in Schemes \ Working(p) : Cardinality(Working(p) \cup {s}) = wg[p] + 1
<1>1. IsFiniteSet(Schemes)
  <2>1. Schemes = (({} \cup {"unix"}) \cup {"http"}) \cup {"https"}
    BY DEF Schemes
  <2> QED
    BY <2>1, FS_EmptySet, FS_AddElement
<1>2. IsFiniteSet(Working(p))
  BY <1>1, FS_Subset DEF Working
<1>3. wg[p] = Cardinality(Working(p)) /\ wg[p] \in Nat
  BY DEF TypeOK, Working
<1>4. wg[p] = 0 => Working(p) = {}
  BY <1>2, <1>3, FS_EmptySet
<1>5. ASSUME NEW s \in Working(p)
      PROVE  Cardinality(Working(p) \ {s}) = wg[p] - 1
  BY <1>2, <1>3, FS_RemoveElement
<1>6. ASSUME NEW s \in Schemes \ Working(p)
      PROVE  Cardinality(Working(p) \cup {s}) = wg[p] + 1
  BY <1>2, <1>3, FS_AddElement
<1> QED
  BY <1>2, <1>3, <1>4, <1>5, <1>6

LEMMA Turned ==
  ASSUME TypeOK, NEW p \in Processes, NEW s \in Schemes, NEW to \in Stages, Turns(p, s, to)
  PROVE  /\ server' \in [Processes -> [Schemes -> Stages]] /\ server'[p][s] = to
         /\ \A q \in Processes \ {p} : server'[q] = server[q]
         /\ \A t \in Schemes \ {s} : server'[p][t] = server[p][t]
         /\ \A q \in Processes \ {p} : Working(q)' = Working(q)
         /\ to \notin {"none", "done"} => Working(p)' = Working(p) \cup {s}
         /\ to \in {"none", "done"} => Working(p)' = Working(p) \ {s}
<1>1. server \in [Processes -> [Schemes -> Stages]] /\ server' = [server EXCEPT ![p][s] = to]
  BY DEF TypeOK, Stages, Turns
<1>2. /\ server' \in [Processes -> [Schemes -> Stages]] /\ server'[p][s] = to
      /\ \A q \in Processes \ {p} : server'[q] = server[q]
      /\ \A t \in Schemes \ {s} : server'[p][t] = server[p][t]
  BY <1>1
<1> QED
  BY <1>2 DEF Working

\* What keeps wg in step with the goroutines.
LEMMA WaitGroupKept ==
  ASSUME TypeOK, NEW p \in Processes, NEW s \in Schemes, NEW to \in Stages, Turns(p, s, to),
         \/ to \notin {"none", "done"} /\ s \in Working(p) /\ wg' = wg
         \/ to \notin {"none", "done"} /\ s \notin Working(p) /\ Add(p, s)
         \/ to \in {"none", "done"} /\ s \in Working(p) /\ Release(p)
  PROVE  /\ wg' \in [Processes -> Nat]
         /\ \A q \in Processes : wg'[q] = Cardinality(Working(q)')
<1>1. wg \in [Processes -> Nat] /\ \A q \in Processes : wg[q] = Cardinality(Working(q))
  BY DEF TypeOK, Working
<1> PICK w : w = Working(p)'
  OBVIOUS
<1>2. \A q \in Processes \ {p} : Working(q)' = Working(q)
  BY Turned
<1>3. CASE to \notin {"none", "done"} /\ s \in Working(p) /\ wg' = wg
  <2>1. w = Working(p) \cup {s}
    BY <1>3, Turned
  <2>2. w = Working(p)
    BY <1>3, <2>1
  <2> QED
    BY <1>1, <1>2, <1>3, <2>2
<1>4. CASE to \notin {"none", "done"} /\ s \notin Working(p) /\ Add(p, s)
  <2>1. w = Working(p) \cup {s}
    BY <1>4, Turned
  <2>2. Cardinality(w) = wg[p] + 1 /\ wg[p] \in Nat
    BY <1>4, <2>1, WorkCounted
  <2>3. wg' = [wg EXCEPT ![p] = wg[p] + 1]
    BY <1>4 DEF Add
  <2> QED
    BY <1>1, <1>2, <2>2, <2>3
<1>5. CASE to \in {"none", "done"} /\ s \in Working(p) /\ Release(p)
  <2>1. w = Working(p) \ {s}
    BY <1>5, Turned
  <2>2. Cardinality(w) = wg[p] - 1 /\ wg[p] \in Nat /\ wg[p] # 0 /\ wg[p] - 1 \in Nat
    BY <1>5, <2>1, WorkCounted
  <2>3. wg' = [wg EXCEPT ![p] = wg[p] - 1]
    BY <1>5 DEF Release
  <2> QED
    BY <1>1, <1>2, <2>2, <2>3
<1> QED
  BY <1>3, <1>4, <1>5
-----------------------------------------------------------------------------
(* Connections                                                               *)

ConnStates == {"new", "queued", "answered", "dropped", "cut"} \cup InWork
Links      == [by : Processes \cup {NoOne}, scheme : Schemes, at : ConnStates]

\* A connection stays with its listener, and gets to no handler.
Settles(c) ==
  /\ conn'[c].by = conn[c].by /\ conn'[c].scheme = conn[c].scheme
  /\ conn'[c].at = "new" <=> conn[c].at = "new"
  /\ conn'[c].at \in InWork => conn[c].at \in InWork

LEMMA LinksTyped ==
  ASSUME TypeOK, NEW c \in Conns
  PROVE  /\ conn[c] \in Links /\ conn[c].at \in ConnStates /\ conn[c].scheme \in Schemes
         /\ conn[c].by \in Processes \cup {NoOne} /\ conn \in [Conns -> Links]
<1>1. conn \in [Conns -> Links]
  BY DEF TypeOK, Links, ConnStates
<1> QED
  BY <1>1 DEF Links

\* The requests that a listener of p has with handlers, or may have.
LEMMA WorkFinite ==
  ASSUME IsFiniteSet(Made), NEW p, NEW s, NEW w \in SUBSET Of(p, s, InWork)
  PROVE  /\ IsFiniteSet(w) /\ Cardinality(w) \in Nat /\ Cardinality(Of(p, s, InWork)) \in Nat
         /\ IsFiniteSet(Of(p, s, InWork)) /\ Cardinality(w) <= Cardinality(Of(p, s, InWork))
<1>1. Of(p, s, InWork) \subseteq Made
  BY DEF Of, Made, InWork
<1>2. IsFiniteSet(Of(p, s, InWork))
  BY <1>1, FS_Subset
<1> QED
  BY <1>2, FS_Subset, FS_CardinalityType

LEMMA CountsKept ==
  ASSUME TypeOK, IsFiniteSet(Made), NEW p \in Processes, NEW s \in Schemes, Bounded(p, s),
         \A c \in Conns : Settles(c), flags'[p] = flags[p]
  PROVE  Bounded(p, s)'
<1> PICK w : w = Of(p, s, InWork)'
  OBVIOUS
<1>1. w \in SUBSET Of(p, s, InWork)
  BY DEF Of, Settles
<1>2. /\ Cardinality(w) \in Nat /\ Cardinality(Of(p, s, InWork)) \in Nat
      /\ Cardinality(w) <= Cardinality(Of(p, s, InWork))
  BY <1>1, WorkFinite
<1>3. LimitOf(p, s)' = LimitOf(p, s) /\ LimitOf(p, s) \in Nat
  BY FlagsTyped DEF LimitOf, Schemes
<1>4. LimitOf(p, s) > 0 => Cardinality(Of(p, s, InWork)) <= LimitOf(p, s)
  BY DEF Bounded
<1>5. LimitOf(p, s) > 0 => Cardinality(w) <= LimitOf(p, s)
  BY <1>2, <1>3, <1>4
<1> QED
  BY <1>3, <1>5 DEF Bounded

LEMMA MadeKept ==
  ASSUME IsFiniteSet(Made), \A c \in Conns : Settles(c)
  PROVE  IsFiniteSet(Made)'
<1>1. Made' = Made
  BY DEF Made, Settles
<1> QED
  BY <1>1

LEMMA BrokenOnes ==
  ASSUME TypeOK, NEW cs \in SUBSET Made, conn' = Broken(cs)
  PROVE  /\ conn' \in [Conns -> Links] /\ \A c \in Conns : Settles(c)
         /\ \A c \in Conns \ cs : conn'[c] = conn[c]
         /\ \A c \in cs : /\ conn'[c].at \in {"cut", "dropped"}
                          /\ conn'[c].at = "cut" => conn[c].at = "handling"
<1>1. \A c \in Conns \ cs : conn'[c] = conn[c]
  BY DEF Broken
<1>2. ASSUME NEW c \in cs
      PROVE  /\ conn'[c] \in Links /\ conn'[c].by = conn[c].by /\ conn'[c].scheme = conn[c].scheme
             /\ conn'[c].at = IF conn[c].at = "handling" THEN "cut" ELSE "dropped"
  <2>1. c \in Conns /\ conn[c] \in Links
    BY LinksTyped DEF Made
  <2> DEFINE to == IF conn[c].at = "handling" THEN "cut" ELSE "dropped"
  <2>2. conn'[c] = [conn[c] EXCEPT !.at = to]
    BY <2>1 DEF Broken
  <2>3. to \in ConnStates
    BY DEF ConnStates
  <2> HIDE DEF to
  <2>4. conn'[c] \in Links /\ conn'[c].by = conn[c].by /\ conn'[c].scheme = conn[c].scheme /\ conn'[c].at = to
    BY <2>1, <2>2, <2>3 DEF Links
  <2> QED
    BY <2>4 DEF to
<1>3. conn' \in [Conns -> Links]
  <2>1. \A c \in Conns : conn'[c] \in Links
    BY <1>1, <1>2, LinksTyped
  <2>2. conn' = [c \in Conns |-> conn'[c]]
    BY DEF Broken
  <2> QED
    BY <2>1, <2>2
<1>4. \A c \in cs : conn[c].at # "new" /\ Settles(c)
  BY <1>2 DEF Made, Settles, InWork
<1>5. \A c \in Conns : Settles(c)
  BY <1>1, <1>4 DEF Settles
<1> QED
  BY <1>1, <1>2, <1>3, <1>5
-----------------------------------------------------------------------------
(* The end of a process                                                      *)

\* Every step is one process's, or nobody's.
OnlyOf(p) ==
  \A q \in Processes \ {p} :
    /\ flags'[q] = flags[q] /\ phase'[q] = phase[q] /\ todo'[q] = todo[q]
    /\ listening'[q] = listening[q] /\ server'[q] = server[q] /\ overdue'[q] = overdue[q]

Local(p) == Idle(p) /\ Listening(p) /\ Serving(p) /\ Waiting(p) /\ Opened(p) /\ Inherited(p)

LEMMA OthersLocal ==
  ASSUME IInv, NEW p, OnlyOf(p), NEW q \in Processes, q # p
  PROVE  Local(q)'
<1>1. Local(q)
  BY DEF IInv, PInv, Local
<1>2. /\ flags'[q] = flags[q] /\ phase'[q] = phase[q] /\ todo'[q] = todo[q]
      /\ listening'[q] = listening[q] /\ server'[q] = server[q]
  BY DEF OnlyOf
<1> QED
  BY <1>1, <1>2 DEF Local, Idle, Listening, Serving, Waiting, Opened, Inherited

LEMMA OthersKnown ==
  ASSUME IInv, NEW p, OnlyOf(p), NEW c \in Conns, conn[c].by # p, conn'[c] = conn[c]
  PROVE  Known(c)'
<1>1. Known(c)
  BY DEF IInv
<1>2. conn[c].by \in Processes =>
        /\ flags'[conn[c].by] = flags[conn[c].by] /\ phase'[conn[c].by] = phase[conn[c].by]
        /\ server'[conn[c].by] = server[conn[c].by] /\ overdue'[conn[c].by] = overdue[conn[c].by]
  BY DEF OnlyOf
<1> QED
  BY <1>1, <1>2 DEF Known, Accepted

LEMMA ExitKeeps ==
  ASSUME IInv, NEW p \in Processes, phase[p] \in Live, NEW how \in Ends, Exit(p, how),
         how = "ok" => phase[p] = "wait" /\ AllDone(p),
         flags' = flags, socket' = socket, overdue' = overdue
  PROVE  IInv'
<1> DEFINE cs == UNION {Of(p, s, {"queued"} \cup InWork) : s \in Schemes}
<1>1. TypeOK /\ Local(p) /\ IsFiniteSet(Made)
  BY DEF IInv, PInv, Local
<1>2. /\ cs \in SUBSET Made
      /\ \A c \in Conns : c \in cs <=> conn[c].by = p /\ conn[c].at \in {"queued"} \cup InWork
  BY <1>1, LinksTyped DEF Of, Made, InWork
<1>3. conn' = Broken(cs)
  BY DEF Exit
<1> HIDE DEF cs
<1>4. /\ conn' \in [Conns -> Links] /\ \A c \in Conns : Settles(c)
      /\ \A c \in Conns \ cs : conn'[c] = conn[c]
      /\ \A c \in cs : /\ conn'[c].at \in {"cut", "dropped"}
                       /\ conn'[c].at = "cut" => conn[c].at = "handling"
  BY <1>1, <1>2, <1>3, BrokenOnes
<1>5. OnlyOf(p) /\ phase'[p] = how /\ listening'[p] = {} /\ \A s \in Schemes : server'[p][s] = "none"
  BY <1>1 DEF TypeOK, Exit, OnlyOf
<1>6. Local(p)'
  BY <1>1, <1>5 DEF Local, Idle, Listening, Serving, Waiting, Opened, Inherited, Live, Ends
<1>7. TypeOK'
  <2>1. \A q \in Processes : wg'[q] = Cardinality(Working(q)')
    <3>1. Working(p)' = {} /\ wg'[p] = 0
      BY <1>1, <1>5 DEF Working, TypeOK, Exit
    <3>2. \A q \in Processes \ {p} : Working(q)' = Working(q) /\ wg'[q] = wg[q]
      BY <1>1, <1>5 DEF Working, OnlyOf, TypeOK, Exit
    <3>3. \A q \in Processes : wg[q] = Cardinality(Working(q))
      BY <1>1 DEF TypeOK, Working
    <3> HIDE DEF Working
    <3> QED
      BY <3>1, <3>2, <3>3, FS_EmptySet
  <2>2. <<>> \in Seq(Schemes) /\ {} \in SUBSET Schemes
    OBVIOUS
  <2>3. /\ phase' \in [Processes -> {"idle"} \cup Live \cup Ends]
        /\ todo' \in [Processes -> Seq(Schemes)] /\ wg' \in [Processes -> Nat]
        /\ listening' \in [Processes -> SUBSET Schemes] /\ notified' \in [Processes -> SUBSET Schemes]
        /\ server' \in [Processes -> [Schemes -> Stages]]
    BY <1>1, <2>2 DEF TypeOK, Exit, Stages
  <2> QED
    BY <1>1, <1>4, <2>1, <2>3 DEF TypeOK, Working, Stages, Links, ConnStates
\* a process that ends well has no goroutine left, so no listener and no request
<1>8. how = "ok" => "unix" \notin listening[p] /\ \A c \in Conns : conn[c].by = p => conn[c].at \notin InWork
  <2> SUFFICES ASSUME how = "ok"
               PROVE  "unix" \notin listening[p] /\ \A c \in Conns : conn[c].by = p => conn[c].at \notin InWork
    OBVIOUS
  <2>1. \A s \in Schemes : server[p][s] \in {"none", "done"}
    BY <1>1, WorkCounted DEF AllDone, Working
  <2>2. \A s \in Schemes : hasScheme(flags[p], s) => server[p][s] = "done"
    BY <1>1, <2>1 DEF Local, Waiting
  <2>3. "unix" \notin listening[p]
    BY <1>1, <2>2 DEF Local, Opened, Schemes
  <2>4. ASSUME NEW c \in Conns, conn[c].by = p, conn[c].at \in InWork
        PROVE  FALSE
    BY <1>1, <2>1, <2>4, LinksTyped DEF IInv, Known, InWork
  <2> QED
    BY <2>3, <2>4
<1>9. FileGoesWithServer'
  <2>1. FileGoesWithServer /\ socket \in Processes \cup {NoOne}
    BY <1>1 DEF IInv, TypeOK
  <2>2. CASE socket = p /\ socket # NoOne
    BY <1>5, <1>8, <2>1, <2>2 DEF FileGoesWithServer, Live, Ends
  <2>3. CASE socket # p /\ socket # NoOne
    BY <1>5, <2>1, <2>3 DEF FileGoesWithServer, OnlyOf
  <2> QED
    BY <2>2, <2>3 DEF FileGoesWithServer
<1>10. ASSUME NEW c \in Conns
       PROVE  Known(c)'
  <2>1. Known(c)
    BY DEF IInv
  <2>2. CASE conn[c].by # p
    BY <1>2, <1>4, <1>5, <2>2, OthersKnown
  <2>3. CASE conn[c].by = p /\ c \in cs
    BY <1>2, <1>4, <1>5, <1>8, <2>1, <2>3 DEF Known, Settles, InWork, Ends, Made
  <2>4. CASE conn[c].by = p /\ c \notin cs
    BY <1>2, <1>4, <1>5, <2>1, <2>4 DEF Known, Accepted, InWork, Ends, Live
  <2> QED
    BY <2>2, <2>3, <2>4
<1>11. \A q \in Processes : PInv(q)'
  <2> TAKE q \in Processes
  <2>1. \A s \in Schemes : Bounded(q, s)'
    BY <1>1, <1>4, CountsKept DEF IInv, PInv
  <2>2. Local(q)'
    BY <1>5, <1>6, OthersLocal
  <2> QED
    BY <2>1, <2>2 DEF PInv, Local
<1> QED
  BY <1>1, <1>4, <1>7, <1>9, <1>10, <1>11, MadeKept DEF IInv
-----------------------------------------------------------------------------
(* The steps of one process                                                  *)

\* What there is to show of a step of p that opens no connection.
LEMMA Assembled ==
  ASSUME IInv, NEW p \in Processes, OnlyOf(p), TypeOK', FileGoesWithServer', Local(p)',
         \A c \in Conns : Settles(c) /\ (conn[c].by # p => conn'[c] = conn[c]),
         \A c \in Conns : conn[c].by = p => Known(c)',
         flags'[p] = flags[p] \/ \A s \in Schemes : Bounded(p, s)'
  PROVE  IInv'
<1>1. \A c \in Conns : Known(c)'
  BY OthersKnown
<1>2. ASSUME NEW q \in Processes
      PROVE  PInv(q)'
  <2>1. Local(q)'
    BY OthersLocal
  <2>2. ASSUME NEW s \in Schemes, flags'[q] = flags[q]
        PROVE  Bounded(q, s)'
    BY <2>2, CountsKept DEF IInv, PInv
  <2>3. \A s \in Schemes : Bounded(q, s)'
    BY <2>2 DEF OnlyOf
  <2> QED
    BY <2>1, <2>3 DEF PInv, Local
<1> QED
  BY <1>1, <1>2, MadeKept DEF IInv

\* A connection that nothing happens to, of a process that goes on.
LEMMA SameKnown ==
  ASSUME IInv, NEW p \in Processes, NEW c \in Conns, conn[c].by = p, conn'[c] = conn[c],
         phase[p] \in Live, phase'[p] \in Live,
         phase[p] \in {"serve", "wait"} => phase'[p] \in {"serve", "wait"},
         flags'[p] = flags[p], overdue[p] \subseteq overdue'[p],
         conn[c].at \in InWork /\ server[p][conn[c].scheme] \in {"serving", "draining", "failing"}
           => server'[p][conn[c].scheme] \in {"serving", "draining", "failing"}
  PROVE  Known(c)'
<1>1. Known(c)
  BY DEF IInv
<1> QED
  BY <1>1 DEF Known, Accepted, Live, Ends

LEMMA BeginKeeps ==
  ASSUME IInv, NEW p \in Processes, Begin(p)
  PROVE  IInv'
<1>1. TypeOK /\ Local(p) /\ flags[p] \in FlagSet
  BY FlagsTyped DEF IInv, PInv, Local
<1>2. /\ flags' = [flags EXCEPT ![p] = Inherit(flags[p])] /\ phase' = [phase EXCEPT ![p] = "listen"]
      /\ todo' = [todo EXCEPT ![p] = Blocks(flags[p])]
      /\ phase[p] = "idle" /\ listening' = listening /\ server' = server /\ wg' = wg
      /\ notified' = notified /\ socket' = socket /\ conn' = conn /\ overdue' = overdue
  BY DEF Begin
<1>3. /\ flags'[p] = Inherit(flags[p]) /\ phase'[p] = "listen" /\ todo'[p] = Blocks(flags[p])
  BY <1>1, <1>2 DEF TypeOK
<1>4. OnlyOf(p)
  BY <1>1, <1>2 DEF TypeOK, OnlyOf
<1>5. TypeOK'
  <2>1. Inherit(flags[p]) \in FlagSet /\ Blocks(flags[p]) \in Seq(Schemes)
    BY <1>1, InheritFills, BlocksAre
  <2> QED
    BY <1>1, <1>2, <2>1 DEF TypeOK, Live
<1>6. FileGoesWithServer'
  BY <1>1, <1>2 DEF IInv, TypeOK, FileGoesWithServer
<1>7. Local(p)'
  <2>1. listening[p] = {} /\ \A s \in Schemes : server[p][s] = "none"
    BY <1>1, <1>2 DEF Local, Idle, Live
  <2>2. \A s : hasScheme(flags[p], s)' = hasScheme(flags[p], s)
    BY <1>1, <1>3, InheritFills
  <2>3. Listening(p)'
    BY <1>1, <1>2, <1>3, <2>1, <2>2, BlocksAre DEF Listening
  <2>4. Inherited(p)'
    BY <1>1, <1>3, <2>2, InheritFills DEF Inherited
  <2> QED
    BY <1>2, <1>3, <2>1, <2>3, <2>4 DEF Local, Idle, Serving, Waiting, Opened, Live
\* nobody has connected yet
<1>8. \A c \in Conns : conn[c].by = p => conn[c].at = "new"
  BY <1>2 DEF IInv, Known
<1>9. \A c \in Conns : conn[c].by = p => Known(c)'
  BY <1>2, <1>8 DEF Known
<1>10. ASSUME NEW s \in Schemes
       PROVE  Bounded(p, s)'
  <2>1. Of(p, s, InWork)' = {}
    BY <1>2, <1>8 DEF Of, InWork
  <2>2. LimitOf(p, s)' \in Nat
    <3>1. Inherit(flags[p]) \in FlagSet
      BY <1>1, InheritFills
    <3>2. flags'[p].limit \in Nat /\ flags'[p].tlsLimit \in Nat
      BY <1>3, <3>1 DEF FlagSet
    <3> QED
      BY <3>2 DEF LimitOf, Schemes
  <2> QED
    BY <2>1, <2>2, FS_EmptySet DEF Bounded
<1> QED
  BY <1>2, <1>4, <1>5, <1>6, <1>7, <1>9, <1>10, Assembled DEF Settles

LEMMA OpenKeeps ==
  ASSUME IInv, NEW p \in Processes, phase[p] = "listen", NEW s, s = Head(todo[p]),
         ~Taken(p, s), Open(p, s), UNCHANGED <<flags, server, wg, notified, conn, overdue>>
  PROVE  IInv'
<1>1. TypeOK /\ Local(p) /\ flags[p] \in FlagSet
  BY FlagsTyped DEF IInv, PInv, Local
<1>2. /\ todo[p] \in Seq(Schemes) /\ todo[p] # <<>> /\ s \in Schemes /\ Tail(todo[p]) \in Seq(Schemes)
      /\ In(s, todo[p]) /\ \A t : In(t, todo[p]) <=> t = s \/ In(t, Tail(todo[p]))
      /\ Len(todo[p]) > 1 <=> Tail(todo[p]) # <<>>
      /\ Len(todo[p]) > 1 \/ \A t : ~In(t, Tail(todo[p]))
  <2>1. todo[p] \in Seq(Schemes) /\ todo[p] # <<>>
    BY <1>1 DEF TypeOK, Local, Listening
  <2> QED
    BY <2>1, HeadAndTail
<1>3. /\ Blocks(flags[p]) \in Seq(Schemes) /\ Blocks(flags[p]) # <<>> /\ Distinct(Blocks(flags[p]))
      /\ \A t \in Schemes : In(t, Blocks(flags[p])) <=> hasScheme(flags[p], t)
  BY <1>1, BlocksAre
<1>4. /\ listening' = [listening EXCEPT ![p] = listening[p] \cup {s}]
      /\ listening'[p] = listening[p] \cup {s}
      /\ \/ /\ Len(todo[p]) > 1 /\ phase' = phase /\ todo' = [todo EXCEPT ![p] = Tail(todo[p])]
            /\ todo'[p] = Tail(todo[p])
         \/ /\ ~(Len(todo[p]) > 1) /\ phase' = [phase EXCEPT ![p] = "serve"]
            /\ todo' = [todo EXCEPT ![p] = Blocks(flags[p])]
            /\ phase'[p] = "serve" /\ todo'[p] = Blocks(flags[p])
      /\ flags' = flags /\ server' = server /\ wg' = wg /\ notified' = notified /\ conn' = conn
      /\ overdue' = overdue
  BY <1>1 DEF Open, TypeOK
<1>5. OnlyOf(p)
  BY <1>1, <1>4 DEF TypeOK, OnlyOf
<1>6. TypeOK'
  <2>1. listening' \in [Processes -> SUBSET Schemes] /\ socket' \in Processes \cup {NoOne}
    BY <1>1, <1>2, <1>4 DEF TypeOK, Open
  <2>2. todo' \in [Processes -> Seq(Schemes)]
    BY <1>1, <1>2, <1>3, <1>4 DEF TypeOK
  <2>3. phase' \in [Processes -> {"idle"} \cup Live \cup Ends]
    BY <1>1, <1>4 DEF TypeOK, Live
  <2> QED
    BY <1>1, <1>4, <2>1, <2>2, <2>3 DEF TypeOK
<1>7. FileGoesWithServer'
  <2>1. CASE s = "unix"
    BY <1>4, <2>1 DEF FileGoesWithServer, Open
  <2>2. CASE s # "unix"
    <3>1. socket' = socket /\ socket \in Processes \cup {NoOne} /\ FileGoesWithServer
      BY <1>1, <2>2 DEF Open, TypeOK, IInv
    <3>2. \A q \in Processes : /\ phase[q] \in {"failed", "killed"} => phase'[q] = phase[q]
                               /\ listening[q] \subseteq listening'[q]
      BY <1>1, <1>4 DEF TypeOK
    <3> QED
      BY <3>1, <3>2 DEF FileGoesWithServer
  <2> QED
    BY <2>1, <2>2
<1>8. Local(p)'
  <2>1. /\ \A t \in Schemes : /\ server[p][t] = "none" /\ (In(t, todo[p]) => hasScheme(flags[p], t))
                              /\ hasScheme(flags[p], t) => t \in listening[p] \/ In(t, todo[p])
                              /\ t \in listening[p] => hasScheme(flags[p], t)
    BY <1>1 DEF Local, Listening, Opened
  <2>2. CASE Len(todo[p]) > 1
    BY <1>1, <1>2, <1>4, <2>1, <2>2 DEF Local, Idle, Listening, Serving, Waiting, Opened, Inherited, Live
  <2>3. CASE ~(Len(todo[p]) > 1)
    <3>1. \A t \in Schemes : t \in listening'[p] <=> hasScheme(flags[p], t)
      BY <1>2, <1>4, <2>1, <2>3
    <3> QED
      BY <1>1, <1>3, <1>4, <2>1, <2>3, <3>1
         DEF Local, Idle, Listening, Serving, Waiting, Opened, Inherited, Live
  <2> QED
    BY <2>2, <2>3
<1>9. ASSUME NEW c \in Conns, conn[c].by = p
      PROVE  Known(c)'
  BY <1>4, <1>9, SameKnown DEF Live
<1> QED
  BY <1>4, <1>5, <1>6, <1>7, <1>8, <1>9, Assembled DEF Settles

LEMMA StartKeeps ==
  ASSUME IInv, NEW p \in Processes, phase[p] = "serve", NEW s, s = Head(todo[p]),
         server' = [server EXCEPT ![p][s] = "started"], Add(p, s),
         todo' = [todo EXCEPT ![p] = Tail(@)],
         phase' = IF Len(todo[p]) > 1 THEN phase ELSE [phase EXCEPT ![p] = "wait"],
         UNCHANGED <<flags, listening, notified, socket, conn, overdue>>
  PROVE  IInv'
<1>1. TypeOK /\ Local(p)
  BY DEF IInv, PInv, Local
<1>2. /\ todo[p] \in Seq(Schemes) /\ todo[p] # <<>> /\ s \in Schemes /\ Tail(todo[p]) \in Seq(Schemes)
      /\ In(s, todo[p]) /\ \A t : In(t, todo[p]) <=> t = s \/ In(t, Tail(todo[p]))
      /\ Distinct(Tail(todo[p])) /\ ~In(s, Tail(todo[p]))
      /\ Len(todo[p]) > 1 <=> Tail(todo[p]) # <<>>
      /\ Len(todo[p]) > 1 \/ \A t : ~In(t, Tail(todo[p]))
  <2>1. todo[p] \in Seq(Schemes) /\ todo[p] # <<>> /\ Distinct(todo[p])
    BY <1>1 DEF TypeOK, Local, Serving
  <2> QED
    BY <2>1, HeadAndTail
<1>3. server[p][s] = "none" /\ hasScheme(flags[p], s)
  BY <1>1, <1>2 DEF Local, Serving
<1>4. /\ server' \in [Processes -> [Schemes -> Stages]] /\ server'[p][s] = "started"
      /\ \A q \in Processes \ {p} : server'[q] = server[q]
      /\ \A t \in Schemes \ {s} : server'[p][t] = server[p][t]
      /\ wg' \in [Processes -> Nat] /\ \A q \in Processes : wg'[q] = Cardinality(Working(q)')
  <2>1. "started" \in Stages /\ "started" \notin {"none", "done"} /\ s \notin Working(p)
        /\ Turns(p, s, "started")
    BY <1>3 DEF Stages, Working, Turns
  <2> QED
    BY <1>1, <1>2, <2>1, Turned, WaitGroupKept
<1>5. todo' = [todo EXCEPT ![p] = Tail(todo[p])] /\ todo'[p] = Tail(todo[p])
  BY <1>1 DEF TypeOK
<1>6. /\ phase' \in [Processes -> {"idle"} \cup Live \cup Ends]
      /\ \A q \in Processes \ {p} : phase'[q] = phase[q]
      /\ phase'[p] = IF Len(todo[p]) > 1 THEN "serve" ELSE "wait"
  BY <1>1 DEF TypeOK, Live
<1>7. OnlyOf(p)
  BY <1>1, <1>4, <1>5, <1>6 DEF TypeOK, OnlyOf
<1>8. TypeOK'
  BY <1>1, <1>2, <1>4, <1>5, <1>6 DEF TypeOK, Working, Stages
<1>9. FileGoesWithServer'
  BY <1>1, <1>6 DEF IInv, TypeOK, FileGoesWithServer
<1>10. Local(p)'
  <2>1. \A t \in Schemes : /\ hasScheme(flags[p], t) => server'[p][t] # "none" \/ In(t, Tail(todo[p]))
                           /\ In(t, Tail(todo[p])) => server'[p][t] = "none" /\ hasScheme(flags[p], t)
    BY <1>1, <1>2, <1>4 DEF Local, Serving
  <2>2. Serving(p)' /\ Waiting(p)'
    BY <1>2, <1>5, <1>6, <2>1 DEF Serving, Waiting
  <2>3. Opened(p)'
    BY <1>1, <1>3, <1>4, <1>6 DEF Local, Opened
  <2> QED
    BY <1>1, <1>6, <2>2, <2>3 DEF Local, Idle, Listening, Inherited, Live
<1>11. ASSUME NEW c \in Conns, conn[c].by = p
       PROVE  Known(c)'
  <2>1. conn[c].scheme \in Schemes
    BY <1>1, LinksTyped
  <2>2. server[p][conn[c].scheme] \in {"serving", "draining", "failing"} =>
          server'[p][conn[c].scheme] \in {"serving", "draining", "failing"}
    BY <1>3, <1>4, <2>1
  <2> QED
    BY <1>6, <1>11, <2>2, SameKnown DEF Live
<1> QED
  BY <1>7, <1>8, <1>9, <1>10, <1>11, Assembled DEF Settles

\* A goroutine that goes on with what it serves, or asks for signals.
LEMMA TurnKeeps ==
  ASSUME IInv, NEW p \in Processes, NEW s \in Schemes, phase[p] \in Live, NEW to, Turns(p, s, to),
         \/ server[p][s] = "started" /\ to = "serving"
         \/ server[p][s] = "serving" /\ to = "failing",
         UNCHANGED <<flags, phase, todo, listening, wg, notified, socket, conn, overdue>>
  PROVE  IInv'
<1>1. TypeOK /\ Local(p)
  BY DEF IInv, PInv, Local
<1>2. /\ server' \in [Processes -> [Schemes -> Stages]] /\ server'[p][s] = to
      /\ \A q \in Processes \ {p} : server'[q] = server[q]
      /\ \A t \in Schemes \ {s} : server'[p][t] = server[p][t]
      /\ \A q \in Processes : wg'[q] = Cardinality(Working(q)')
  <2>1. to \in Stages /\ to \notin {"none", "done"} /\ s \in Working(p)
    BY DEF Stages, Working
  <2> QED
    BY <1>1, <2>1, Turned, WaitGroupKept
<1>3. OnlyOf(p)
  BY <1>2 DEF OnlyOf
<1>4. TypeOK'
  BY <1>1, <1>2 DEF TypeOK, Working, Stages
<1>5. FileGoesWithServer'
  BY DEF IInv, FileGoesWithServer
<1>6. \A t \in Schemes : /\ server'[p][t] = "none" <=> server[p][t] = "none"
                         /\ server'[p][t] \in {"draining", "done"} <=> server[p][t] \in {"draining", "done"}
                         /\ server[p][t] \in {"serving", "draining", "failing"}
                            => server'[p][t] \in {"serving", "draining", "failing"}
  BY <1>2
<1>7. Local(p)'
  BY <1>1, <1>6 DEF Local, Idle, Listening, Serving, Waiting, Opened, Inherited
<1>8. ASSUME NEW c \in Conns, conn[c].by = p
      PROVE  Known(c)'
  <2>1. conn[c].scheme \in Schemes
    BY <1>1, LinksTyped
  <2> QED
    BY <1>6, <1>8, <2>1, SameKnown
<1> QED
  BY <1>3, <1>4, <1>5, <1>7, <1>8, Assembled DEF Settles

\* A signal that somebody has asked for, and the file that is swept away.
LEMMA NoticeKeeps ==
  ASSUME IInv, UNCHANGED <<flags, phase, todo, listening, server, wg, conn, overdue>>,
         notified' \in [Processes -> SUBSET Schemes], socket' \in {socket, NoOne}
  PROVE  IInv'
<1>1. TypeOK'
  BY DEF IInv, TypeOK
<1>2. FileGoesWithServer'
  BY DEF IInv, FileGoesWithServer
<1>3. IsFiniteSet(Made)' /\ \A c \in Conns : Known(c)'
  BY DEF IInv, Made, Known, Accepted
<1>4. ASSUME NEW p \in Processes
      PROVE  PInv(p)'
  <2>1. PInv(p)
    BY DEF IInv
  <2>2. Local(p)'
    BY <2>1 DEF PInv, Local, Idle, Listening, Serving, Waiting, Opened, Inherited
  <2>3. \A s \in Schemes : Bounded(p, s)'
    BY <2>1 DEF PInv, Bounded, LimitOf, Of
  <2> QED
    BY <2>2, <2>3 DEF PInv, Local
<1> QED
  BY <1>1, <1>2, <1>3, <1>4 DEF IInv

LEMMA InterruptKeeps ==
  ASSUME IInv, NEW p \in Processes, NEW s \in Schemes, Interrupt(p, s)
  PROVE  IInv'
<1> DEFINE cs == Of(p, s, {"queued"})
<1>1. TypeOK /\ Local(p)
  BY DEF IInv, PInv, Local
<1>2. /\ phase[p] \in Live /\ server[p][s] = "serving" /\ Turns(p, s, "draining")
      /\ listening' = [listening EXCEPT ![p] = listening[p] \ {s}]
      /\ socket' = IF s = "unix" THEN NoOne ELSE socket
      /\ conn' = Broken(cs)
      /\ flags' = flags /\ phase' = phase /\ todo' = todo /\ wg' = wg /\ notified' = notified
      /\ overdue' = overdue
  BY DEF Interrupt
<1>3. cs \in SUBSET Made /\ \A c \in cs : conn[c].by = p /\ conn[c].at = "queued"
  BY DEF Of, Made
<1> HIDE DEF cs
<1>4. /\ conn' \in [Conns -> Links] /\ \A c \in Conns : Settles(c)
      /\ \A c \in Conns \ cs : conn'[c] = conn[c]
      /\ \A c \in cs : /\ conn'[c].at \in {"cut", "dropped"}
                       /\ conn'[c].at = "cut" => conn[c].at = "handling"
  BY <1>1, <1>2, <1>3, BrokenOnes
<1>5. /\ server' \in [Processes -> [Schemes -> Stages]] /\ server'[p][s] = "draining"
      /\ \A q \in Processes \ {p} : server'[q] = server[q]
      /\ \A t \in Schemes \ {s} : server'[p][t] = server[p][t]
      /\ \A q \in Processes : wg'[q] = Cardinality(Working(q)')
  <2>1. "draining" \in Stages /\ "draining" \notin {"none", "done"} /\ s \in Working(p)
    BY <1>2 DEF Stages, Working
  <2> QED
    BY <1>1, <1>2, <2>1, Turned, WaitGroupKept
<1>6. OnlyOf(p) /\ listening'[p] = listening[p] \ {s}
  BY <1>1, <1>2, <1>5 DEF OnlyOf, TypeOK
<1>7. TypeOK'
  <2>1. listening' \in [Processes -> SUBSET Schemes] /\ socket' \in Processes \cup {NoOne}
    BY <1>1, <1>2 DEF TypeOK
  <2> QED
    BY <1>1, <1>2, <1>4, <1>5, <2>1 DEF TypeOK, Working, Stages, Links, ConnStates
<1>8. FileGoesWithServer'
  BY <1>1, <1>2, <1>6 DEF IInv, TypeOK, FileGoesWithServer, OnlyOf
<1>9. Local(p)'
  <2>1. Serving(p)' /\ Listening(p)' /\ Waiting(p)'
    BY <1>1, <1>2, <1>5, <1>6 DEF Local, Listening, Serving, Waiting
  <2>2. Opened(p)'
    BY <1>1, <1>2, <1>5, <1>6 DEF Local, Opened
  <2> QED
    BY <1>1, <1>2, <2>1, <2>2 DEF Local, Idle, Inherited
<1>10. ASSUME NEW c \in Conns, conn[c].by = p
       PROVE  Known(c)'
  <2>1. CASE c \notin cs
    <3>1. conn[c].scheme \in Schemes
      BY <1>1, LinksTyped
    <3>2. server[p][conn[c].scheme] \in {"serving", "draining", "failing"} =>
            server'[p][conn[c].scheme] \in {"serving", "draining", "failing"}
      BY <1>5, <3>1
    <3> QED
      BY <1>2, <1>4, <1>10, <2>1, <3>2, SameKnown
  <2>2. CASE c \in cs
    <3>1. Known(c) /\ conn[c].at = "queued" /\ conn'[c].at = "dropped"
      BY <1>3, <1>4, <2>2 DEF IInv
    <3> QED
      BY <1>2, <1>4, <3>1 DEF Known, Accepted, InWork, Settles
  <2> QED
    BY <2>1, <2>2
<1> QED
  BY <1>2, <1>3, <1>4, <1>6, <1>7, <1>8, <1>9, <1>10, Assembled

LEMMA DoneKeeps ==
  ASSUME IInv, NEW p \in Processes, NEW s \in Schemes, Done(p, s)
  PROVE  IInv'
<1>1. TypeOK /\ Local(p)
  BY DEF IInv, PInv, Local
<1>2. /\ phase[p] \in Live /\ server[p][s] = "draining" /\ Turns(p, s, "done") /\ Release(p) /\ Drained(p, s)
      /\ flags' = flags /\ phase' = phase /\ todo' = todo /\ listening' = listening
      /\ notified' = notified /\ socket' = socket
  BY DEF Done
<1>3. /\ server' \in [Processes -> [Schemes -> Stages]] /\ server'[p][s] = "done"
      /\ \A q \in Processes \ {p} : server'[q] = server[q]
      /\ \A t \in Schemes \ {s} : server'[p][t] = server[p][t]
      /\ wg' \in [Processes -> Nat] /\ \A q \in Processes : wg'[q] = Cardinality(Working(q)')
  <2>1. "done" \in Stages /\ s \in Working(p)
    BY <1>2 DEF Stages, Working
  <2> QED
    BY <1>1, <1>2, <2>1, Turned, WaitGroupKept
\* nothing is left in work, and what was cut off is overdue
<1>4. /\ conn' \in [Conns -> Links] /\ \A c \in Conns : Settles(c)
      /\ \A c \in Conns : conn[c].by # p \/ conn[c].scheme # s => conn'[c] = conn[c]
      /\ \A c \in Conns : conn[c].by = p /\ conn[c].scheme = s => conn'[c].at \notin InWork
      /\ \A c \in Conns : conn'[c].at = "cut" => conn[c] = conn'[c] \/ s \in overdue'[p]
      /\ \A c \in Conns : conn'[c] = conn[c] \/ (conn[c].at \in InWork /\ conn'[c].at \in {"cut", "dropped"})
      /\ \A q \in Processes \ {p} : overdue'[q] = overdue[q]
      /\ overdue[p] \subseteq overdue'[p] /\ overdue' \in [Processes -> SUBSET Schemes]
  <2>1. CASE Of(p, s, InWork) = {} /\ conn' = conn /\ overdue' = overdue
    BY <1>1, <2>1 DEF Of, Settles, TypeOK, Links, ConnStates
  <2>2. CASE conn' = Broken(Of(p, s, InWork)) /\ overdue' = [overdue EXCEPT ![p] = @ \cup {s}]
    <3> PICK cs : cs = Of(p, s, InWork)
      OBVIOUS
    <3>1. /\ cs \in SUBSET Made
          /\ \A c \in Conns : c \in cs <=> conn[c].by = p /\ conn[c].scheme = s /\ conn[c].at \in InWork
      BY DEF Of, Made, InWork
    <3>2. /\ conn' \in [Conns -> Links] /\ \A c \in Conns : Settles(c)
          /\ \A c \in Conns \ cs : conn'[c] = conn[c]
          /\ \A c \in cs : conn'[c].at \in {"cut", "dropped"}
      BY <1>1, <2>2, <3>1, BrokenOnes
    <3>3. /\ \A q \in Processes \ {p} : overdue'[q] = overdue[q]
          /\ overdue'[p] = overdue[p] \cup {s} /\ overdue' \in [Processes -> SUBSET Schemes]
      BY <1>1, <2>2 DEF TypeOK
    <3>4. "cut" \notin InWork /\ "dropped" \notin InWork
      BY DEF InWork
    <3>5. \A c \in Conns : conn'[c] = conn[c] \/ (conn[c].at \in InWork /\ conn'[c].at \in {"cut", "dropped"})
      BY <3>1, <3>2
    <3>6. \A c \in Conns : conn[c].by = p /\ conn[c].scheme = s => conn'[c].at \notin InWork
      BY <3>1, <3>2, <3>4
    <3>7. \A c \in Conns : conn[c].by # p \/ conn[c].scheme # s => conn'[c] = conn[c]
      BY <3>1, <3>2
    <3> QED
      BY <3>2, <3>3, <3>5, <3>6, <3>7
  <2> QED
    BY <1>2, <2>1, <2>2 DEF Drained
<1>5. OnlyOf(p)
  BY <1>2, <1>3, <1>4 DEF OnlyOf
<1>6. TypeOK'
  BY <1>1, <1>2, <1>3, <1>4 DEF TypeOK, Working, Stages, Links, ConnStates
<1>7. FileGoesWithServer'
  BY <1>2 DEF IInv, FileGoesWithServer
<1>8. Local(p)'
  <2>1. \A t \in Schemes : /\ server'[p][t] = "none" <=> server[p][t] = "none"
                           /\ server'[p][t] \in {"draining", "done"} <=> server[p][t] \in {"draining", "done"}
    BY <1>2, <1>3
  <2> QED
    BY <1>1, <1>2, <2>1 DEF Local, Idle, Listening, Serving, Waiting, Opened, Inherited
<1>9. ASSUME NEW c \in Conns, conn[c].by = p
      PROVE  Known(c)'
  <2>1. Known(c) /\ conn[c].scheme \in Schemes /\ Settles(c)
    BY <1>1, <1>4, LinksTyped DEF IInv
  <2>2. conn'[c].at \in InWork => conn[c].scheme # s /\ conn'[c] = conn[c]
    BY <1>4, <1>9
  <2>3. conn'[c].at = "cut" => conn'[c] = conn[c] \/ conn[c].scheme \in overdue'[p]
    BY <1>4, <1>9
  <2>4. conn'[c] = conn[c] \/ conn'[c].at \in {"cut", "dropped"}
    BY <1>4
  <2>5. Accepted(c)' => Accepted(c)
    BY <1>4 DEF Accepted
  <2> QED
    BY <1>2, <1>3, <1>4, <1>9, <2>1, <2>2, <2>3, <2>4, <2>5 DEF Known, Settles
<1> QED
  BY <1>2, <1>4, <1>5, <1>6, <1>7, <1>8, <1>9, Assembled
-----------------------------------------------------------------------------
(* The steps of a connection                                                 *)

\* What there is to show of a step that changes one connection.
LEMMA Linked ==
  ASSUME IInv, NEW c \in Conns, NEW b \in Links, conn' = [conn EXCEPT ![c] = b], b.at # "new",
         UNCHANGED <<flags, phase, todo, listening, server, wg, notified, socket, overdue>>,
         Known(c)', \A p \in Processes : \A s \in Schemes : Bounded(p, s)'
  PROVE  IInv'
<1>1. TypeOK /\ conn \in [Conns -> Links] /\ conn'[c] = b
  BY LinksTyped DEF IInv, TypeOK
<1>2. TypeOK'
  <2>1. conn' \in [Conns -> Links]
    BY <1>1
  <2> QED
    BY <1>1, <2>1 DEF TypeOK, Links, ConnStates
<1>3. FileGoesWithServer'
  BY DEF IInv, FileGoesWithServer
<1>4. IsFiniteSet(Made)'
  <2>1. Made' = Made \cup {c}
    BY <1>1 DEF Made
  <2> QED
    BY <2>1, FS_AddElement DEF IInv
<1>5. ASSUME NEW d \in Conns
      PROVE  Known(d)'
  <2>1. CASE d # c
    BY <1>1, <2>1 DEF IInv, Known, Accepted
  <2> QED
    BY <2>1
<1>6. ASSUME NEW p \in Processes
      PROVE  PInv(p)'
  <2>1. Local(p)'
    BY DEF IInv, PInv, Local, Idle, Listening, Serving, Waiting, Opened, Inherited
  <2> QED
    BY <2>1 DEF PInv, Local
<1> QED
  BY <1>2, <1>3, <1>4, <1>5, <1>6 DEF IInv

\* A connection that goes on, or is left, once it has been accepted or is not to be.
LEMMA MovesKeeps ==
  ASSUME IInv, NEW c \in Conns, NEW to, Moves(c, to), conn[c].at \in {"queued"} \cup InWork,
         to \in {"dropped"} \/ (conn[c].at \in InWork /\ to \in InWork \cup {"answered"})
  PROVE  IInv'
<1>1. TypeOK /\ Known(c) /\ conn \in [Conns -> Links] /\ conn[c] \in Links
  BY LinksTyped DEF IInv
<1>2. to \in ConnStates /\ to # "new" /\ conn[c].at # "new" /\ to # "cut"
  BY DEF ConnStates, InWork
<1> PICK b : b = [conn[c] EXCEPT !.at = to]
  OBVIOUS
<1>3. b \in Links /\ b.by = conn[c].by /\ b.scheme = conn[c].scheme /\ b.at = to
  BY <1>1, <1>2 DEF Links
<1>4. conn' = [conn EXCEPT ![c] = b] /\ conn'[c] = b
  BY <1>1 DEF Moves
<1>5. UNCHANGED <<flags, phase, todo, listening, server, wg, notified, socket, overdue>>
  BY DEF Moves
<1>6. \A d \in Conns : Settles(d)
  <2>1. \A d \in Conns \ {c} : conn'[d] = conn[d]
    BY <1>1, <1>4
  <2>2. Settles(c)
    BY <1>2, <1>3, <1>4 DEF Settles, InWork
  <2> QED
    BY <2>1, <2>2 DEF Settles
<1>7. \A p \in Processes : \A s \in Schemes : Bounded(p, s)'
  BY <1>1, <1>5, <1>6, CountsKept DEF IInv, PInv
<1>8. Known(c)'
  <2>1. Accepted(c)' => Accepted(c)
    BY <1>3, <1>4 DEF Accepted, InWork
  <2> QED
    BY <1>1, <1>2, <1>3, <1>4, <1>5, <2>1 DEF Known, InWork
<1> QED
  BY <1>2, <1>3, <1>4, <1>5, <1>7, <1>8, Linked

LEMMA AcceptKeeps ==
  ASSUME IInv, NEW c \in Conns, Accept(c)
  PROVE  IInv'
<1>1. TypeOK /\ Known(c) /\ conn \in [Conns -> Links] /\ conn[c] \in Links /\ IsFiniteSet(Made)
  BY LinksTyped DEF IInv
<1>2. /\ conn[c].at = "queued" /\ conn[c].by \in Processes /\ conn[c].scheme \in Schemes
      /\ server[conn[c].by][conn[c].scheme] = "serving" /\ Moves(c, "reading")
      /\ \/ LimitOf(conn[c].by, conn[c].scheme) = 0
         \/ Cardinality(Of(conn[c].by, conn[c].scheme, InWork)) < LimitOf(conn[c].by, conn[c].scheme)
  BY <1>1, LinksTyped DEF Accept, Known
<1> PICK b : b = [conn[c] EXCEPT !.at = "reading"]
  OBVIOUS
<1>3. b \in Links /\ b.by = conn[c].by /\ b.scheme = conn[c].scheme /\ b.at = "reading"
  BY <1>1 DEF Links, ConnStates, InWork
<1>4. /\ conn' = [conn EXCEPT ![c] = b] /\ conn'[c] = b
      /\ UNCHANGED <<flags, phase, todo, listening, server, wg, notified, socket, overdue>>
  BY <1>1, <1>2 DEF Moves
<1>5. ASSUME NEW p \in Processes, NEW s \in Schemes
      PROVE  Bounded(p, s)'
  <2> PICK w : w = Of(p, s, InWork)'
    OBVIOUS
  <2>1. Bounded(p, s) /\ LimitOf(p, s)' = LimitOf(p, s) /\ LimitOf(p, s) \in Nat
    BY <1>1, <1>4, FlagsTyped DEF IInv, PInv, LimitOf, Schemes
  <2>2. /\ IsFiniteSet(Of(p, s, InWork)) /\ Cardinality(Of(p, s, InWork)) \in Nat
    BY <1>1, WorkFinite
  <2>3. CASE p = conn[c].by /\ s = conn[c].scheme
    <3>1. w = Of(p, s, InWork) \cup {c} /\ c \notin Of(p, s, InWork)
      BY <1>1, <1>2, <1>3, <1>4, <2>3 DEF Of, InWork
    <3>2. Cardinality(w) = Cardinality(Of(p, s, InWork)) + 1
      BY <2>2, <3>1, FS_AddElement
    <3>3. LimitOf(p, s) > 0 => Cardinality(w) <= LimitOf(p, s)
      BY <1>2, <2>1, <2>2, <2>3, <3>2
    <3> QED
      BY <2>1, <3>3 DEF Bounded
  <2>4. CASE ~(p = conn[c].by /\ s = conn[c].scheme)
    <3>1. w = Of(p, s, InWork)
      BY <1>1, <1>2, <1>3, <1>4, <2>4 DEF Of, InWork
    <3> QED
      BY <2>1, <3>1 DEF Bounded
  <2> QED
    BY <2>3, <2>4
\* the goroutine serves, so every listener of the process was opened before
<1>6. Known(c)'
  <2>1. phase[conn[c].by] \in {"serve", "wait"}
    BY <1>2 DEF IInv, PInv, Opened
  <2> QED
    BY <1>1, <1>2, <1>3, <1>4, <2>1 DEF Known, InWork
<1> QED
  BY <1>3, <1>4, <1>5, <1>6, Linked

LEMMA ConnectKeeps ==
  ASSUME IInv, NEW c \in Conns, NEW p \in Processes, NEW s \in Schemes, Connect(c, p, s)
  PROVE  IInv'
<1> PICK b : b = [by |-> p, scheme |-> s, at |-> "queued"]
  OBVIOUS
<1>1. TypeOK /\ conn \in [Conns -> Links] /\ IsFiniteSet(Made) /\ b \in Links
  BY LinksTyped DEF IInv, Links, ConnStates
<1>2. /\ conn[c].at = "new" /\ s \in listening[p] /\ conn' = [conn EXCEPT ![c] = b] /\ conn'[c] = b
      /\ UNCHANGED <<flags, phase, todo, listening, server, wg, notified, socket, overdue>>
  BY <1>1 DEF Connect
<1>3. ASSUME NEW q \in Processes, NEW t \in Schemes
      PROVE  Bounded(q, t)'
  <2>1. Of(q, t, InWork)' = Of(q, t, InWork)
    BY <1>1, <1>2 DEF Of, InWork
  <2>2. Bounded(q, t) /\ LimitOf(q, t)' = LimitOf(q, t)
    BY <1>2 DEF IInv, PInv, LimitOf
  <2> QED
    BY <2>1, <2>2 DEF Bounded
<1>4. Known(c)'
  <2>1. phase[p] # "idle" /\ hasScheme(flags[p], s)
    BY <1>2 DEF IInv, PInv, Idle, Opened, Live
  <2> QED
    BY <1>2, <2>1 DEF Known, Accepted, InWork
<1> QED
  BY <1>1, <1>2, <1>3, <1>4, Linked

-----------------------------------------------------------------------------
(* Every step keeps the invariant                                            *)

LEMMA MainKeeps ==
  ASSUME IInv, NEW p \in Processes, Main(p) \/ Signal(p) \/ Kill(p)
  PROVE  IInv'
<1>1. TypeOK
  BY DEF IInv
<1>2. CASE Begin(p)
  BY <1>2, BeginKeeps
<1>3. CASE Listen(p)
  <2> PICK s : s = Head(todo[p])
    OBVIOUS
  <2>1. CASE ~Taken(p, s) /\ Open(p, s) /\ UNCHANGED <<server, wg, notified, conn>>
    BY <1>3, <2>1, OpenKeeps DEF Listen
  <2>2. CASE Exit(p, "failed") /\ UNCHANGED socket
    BY <1>3, <2>2, ExitKeeps DEF Listen, Live, Ends
  <2> QED
    BY <1>3, <2>1, <2>2 DEF Listen
<1>4. CASE Serve(p)
  <2> PICK s : s = Head(todo[p])
    OBVIOUS
  <2>1. CASE Exit(p, "failed")
    BY <1>4, <2>1, ExitKeeps DEF Serve, Live, Ends
  <2>2. CASE /\ server' = [server EXCEPT ![p][s] = "started"]
             /\ Add(p, s)
             /\ todo' = [todo EXCEPT ![p] = Tail(@)]
             /\ phase' = IF Len(todo[p]) > 1 THEN phase ELSE [phase EXCEPT ![p] = "wait"]
             /\ UNCHANGED <<listening, notified, conn>>
    BY <1>4, <2>2, StartKeeps DEF Serve
  <2> QED
    BY <1>4, <2>1, <2>2 DEF Serve
<1>5. CASE Return(p)
  BY <1>5, ExitKeeps DEF Return, Live, Ends
<1>6. CASE Signal(p)
  <2>1. CASE Registered(p) = {}
    BY <1>6, <2>1, ExitKeeps DEF Signal, Live, Ends
  <2>2. CASE Registered(p) # {}
    <3>1. notified' = [notified EXCEPT ![p] = @ \cup Registered(p)] /\ Registered(p) \subseteq Schemes
      BY <1>6, <2>2 DEF Signal, Registered
    <3>2. notified' \in [Processes -> SUBSET Schemes]
      BY <1>1, <3>1 DEF TypeOK
    <3> QED
      BY <1>6, <2>2, <3>2, NoticeKeeps DEF Signal
  <2> QED
    BY <2>1, <2>2
<1>7. CASE Kill(p)
  BY <1>7, ExitKeeps DEF Kill, Live, Ends
<1> QED
  BY <1>2, <1>3, <1>4, <1>5, <1>6, <1>7 DEF Main

LEMMA GoroutineKeeps ==
  ASSUME IInv, NEW p \in Processes, NEW s \in Schemes, Goroutine(p, s) \/ AcceptFails(p, s)
  PROVE  IInv'
<1>1. CASE Register(p, s)
  BY <1>1, TurnKeeps DEF Register
<1>2. CASE AcceptFails(p, s)
  BY <1>2, TurnKeeps DEF AcceptFails
<1>3. CASE Fatalf(p, s)
  BY <1>3, ExitKeeps DEF Fatalf, Live, Ends
<1> QED
  BY <1>1, <1>2, <1>3, InterruptKeeps, DoneKeeps DEF Goroutine

LEMMA ConnectionKeeps ==
  ASSUME IInv, NEW c \in Conns, Accept(c) \/ SendRequest(c) \/ Leave(c) \/ ReadTimesOut(c) \/ Answer(c)
  PROVE  IInv'
<1>1. CASE SendRequest(c)
  BY <1>1, MovesKeeps DEF SendRequest, InWork
<1>2. CASE Leave(c)
  BY <1>2, MovesKeeps DEF Leave, InWork
<1>3. CASE ReadTimesOut(c)
  BY <1>3, MovesKeeps DEF ReadTimesOut, InWork
<1>4. CASE Answer(c)
  BY <1>4, MovesKeeps DEF Answer, InWork
<1> QED
  BY <1>1, <1>2, <1>3, <1>4, AcceptKeeps

LEMMA InitInvariant == Init => IInv
<1> SUFFICES ASSUME Init PROVE IInv
  OBVIOUS
<1>1. flags \in [Processes -> FlagSet]
  BY ServerAssumption DEF Init
<1>2. TypeOK
  <2>1. <<>> \in Seq(Schemes) /\ "http" \in Schemes
    BY DEF Schemes
  <2>2. \A p \in Processes : Working(p) = {}
    BY DEF Working, Init
  <2>3. \A p \in Processes : wg[p] = Cardinality(Working(p))
    BY <2>2, FS_EmptySet DEF Init
  <2> QED
    BY <1>1, <2>1, <2>3 DEF Init, TypeOK, Working
<1>3. FileGoesWithServer
  BY DEF Init, FileGoesWithServer
<1>4. IsFiniteSet(Made)
  <2>1. Made = {}
    BY DEF Init, Made
  <2> QED
    BY <2>1, FS_EmptySet
<1>5. \A c \in Conns : Known(c)
  BY DEF Init, Known
<1>6. ASSUME NEW p \in Processes
      PROVE  PInv(p)
  <2>1. ASSUME NEW s \in Schemes
        PROVE  Bounded(p, s)
    <3>1. Of(p, s, InWork) = {}
      BY DEF Of, Init, InWork
    <3> QED
      BY <1>2, <3>1, FlagsTyped, FS_EmptySet DEF Bounded
  <2>2. Local(p)
    BY DEF Init, Local, Idle, Listening, Serving, Waiting, Opened, Inherited
  <2> QED
    BY <2>1, <2>2 DEF PInv, Local
<1> QED
  BY <1>2, <1>3, <1>4, <1>5, <1>6 DEF IInv

LEMMA NextKeeps == IInv /\ [Next]_vars => IInv'
<1> SUFFICES ASSUME IInv, [Next]_vars PROVE IInv'
  OBVIOUS
<1>1. CASE Sweep
  BY <1>1, NoticeKeeps DEF Sweep, IInv, TypeOK
<1>2. CASE UNCHANGED vars
  BY <1>2, NoticeKeeps DEF vars, IInv, TypeOK
<1>3. CASE \E c \in Conns, p \in Processes, s \in Schemes : Connect(c, p, s)
  BY <1>3, ConnectKeeps
<1> QED
  BY <1>1, <1>2, <1>3, MainKeeps, GoroutineKeeps, ConnectionKeeps DEF Next
-----------------------------------------------------------------------------
(* The theorems                                                              *)

\* The inductive invariant holds of every reachable state of server.go, with any flags.
THEOREM Invariant == Spec => []IInv
  BY InitInvariant, NextKeeps, PTL DEF Spec

\* The types, and with them the WaitGroup: wg of Serve is at every moment the number
\* of goroutines that have been added and have still to end, so that it never gets
\* below zero (which would panic).
THEOREM TypeCorrect == Spec => []TypeOK
<1>1. IInv => TypeOK
  BY DEF IInv
<1> QED
  BY <1>1, Invariant, PTL

\* No request gets to a handler before Listen has opened every listener of the
\* process: hasListeners is set last, and only then Serve starts goroutines.
THEOREM AllListenFirstAlways == Spec => []AllListenFirst
<1>1. IInv => AllListenFirst
  <2> SUFFICES ASSUME IInv, NEW c \in Conns, Accepted(c), phase[conn[c].by] \in Live,
                      NEW s \in Schemes, hasScheme(flags[conn[c].by], s)
               PROVE  s \in listening[conn[c].by] \/ server[conn[c].by][s] \in {"draining", "done"}
    BY DEF AllListenFirst
  <2>1. conn[c].by \in Processes /\ phase[conn[c].by] \in {"serve", "wait"}
    BY DEF IInv, Known, Accepted, InWork, Live, Ends
  <2> QED
    BY <2>1 DEF IInv, PInv, Opened
<1> QED
  BY <1>1, Invariant, PTL

\* A process that ends well has answered what its handlers had, unless the grace
\* period was over: wg.Wait outlasts every goroutine.
THEOREM OkMeansAnsweredAlways == Spec => []OkMeansAnswered
<1>1. IInv => OkMeansAnswered
  BY DEF IInv, Known, OkMeansAnswered
<1> QED
  BY <1>1, Invariant, PTL

\* The socket file is left behind only by a process that did not end well.
THEOREM FileGoesWithServerAlways == Spec => []FileGoesWithServer
<1>1. IInv => FileGoesWithServer
  BY DEF IInv
<1> QED
  BY <1>1, Invariant, PTL

\* --listen-limit bounds both TCP listeners if --tls-listen-limit is not given: Listen
\* fills it in before anybody can connect.
THEOREM LimitKeptAlways == Spec => []LimitKept
<1>1. IInv => LimitKept
  <2> SUFFICES ASSUME IInv, NEW p \in Processes, flags[p].limit > 0
               PROVE  /\ Cardinality(Of(p, "http", InWork)) <= flags[p].limit
                      /\ flags[p].tlsLimit \in {0, flags[p].limit} =>
                           Cardinality(Of(p, "https", InWork)) <= flags[p].limit
    BY DEF LimitKept
  <2>1. /\ TypeOK /\ Bounded(p, "http") /\ Bounded(p, "https") /\ Inherited(p)
        /\ flags[p].limit \in Nat /\ flags[p].tlsLimit \in Nat
    BY FlagsTyped DEF IInv, PInv, Schemes
  <2>2. LimitOf(p, "http") = flags[p].limit /\ LimitOf(p, "https") = flags[p].tlsLimit
    BY DEF LimitOf
  <2>3. Cardinality(Of(p, "http", InWork)) <= flags[p].limit
    BY <2>1, <2>2 DEF Bounded
  <2>4. ASSUME flags[p].tlsLimit \in {0, flags[p].limit}
        PROVE  Cardinality(Of(p, "https", InWork)) <= flags[p].limit
    <3>1. CASE Of(p, "https", InWork) = {}
      BY <2>1, <3>1, FS_EmptySet
    <3>2. CASE Of(p, "https", InWork) # {}
      <4>1. phase[p] # "idle" /\ hasScheme(flags[p], "https")
        BY <3>2 DEF IInv, Known, Of, InWork
      <4>2. flags[p].tlsLimit > 0 /\ flags[p].tlsLimit = flags[p].limit
        BY <2>1, <2>4, <4>1 DEF Inherited
      <4> QED
        BY <2>1, <2>2, <4>2 DEF Bounded
    <3> QED
      BY <3>1, <3>2
  <2> QED
    BY <2>3, <2>4
<1> QED
  BY <1>1, Invariant, PTL
=============================================================================

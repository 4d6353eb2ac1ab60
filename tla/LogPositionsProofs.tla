------------------------- MODULE LogPositionsProofs -------------------------
(***************************************************************************)
(* Proofs about LogPositions: for any log, any clock and any number of        *)
(* retries and of streams that end too soon.                                   *)
(***************************************************************************)
EXTENDS LogPositions, SequenceTheorems, WellFoundedInduction, TLAPS

-----------------------------------------------------------------------------
(* The inductive invariant                                                   *)

Settled == seen \cup excused

\* Nothing is owed before a line that has been shown, nor before the one that is
\* delivered next; there is a last line that has been shown.
Gapless ==
  /\ \A i \in Lines, j \in seen : i <= j => i \in Settled
  /\ pc = "read" => \A i \in Lines : i < next => i \in Settled
  /\ \E m \in seen \cup {0} : \A j \in seen : j <= m

\* The log of a new pod is asked for from its beginning until a stream has been opened.
Beginning ==
  /\ fromBeginning <=> newlyCreated /\ ~opened
  /\ ~opened => seen = {}
  /\ pc = "read" => opened

\* What a request leaves out is settled, and what it repeats is recent.
Asked ==
  pc \in {"open", "backoff"} =>
    /\ \A i \in Lines : log[i] < since => i \in Settled
    /\ since + 2 * Second > broke \/ (newlyCreated /\ seen = {})

\* What the stream has still to deliver is recent, or shown for the first time.
Recent ==
  pc = "read" =>
    \A i \in Lines : i >= next => log[i] + 2 * Second > broke \/ (newlyCreated /\ i \notin seen)

\* the bound on the log leaves room for the line that a container ends in
Room == container \in {"waiting", "running"} => Len(log) <= MaxLines

IInv == TypeOK /\ Room /\ Sorted(log) /\ Gapless /\ Beginning /\ Asked /\ Recent
-----------------------------------------------------------------------------
(* Arithmetic and logs                                                       *)

LEMMA Constants ==
  /\ Second \in Nat /\ Second # 0 /\ Start \in Nat /\ Start >= Second
  /\ MaxTime \in Nat /\ MaxTime >= Start /\ MaxLines \in Nat /\ MaxBreaks \in Nat
  BY PositionsAssumption

\* A set of numbers that is not empty has a least one.
LEMMA Least ==
  ASSUME NEW T \in SUBSET Nat, T # {}
  PROVE  \E x \in T : \A y \in T : x <= y
<1>1. PICK x \in T : \A y \in T : ~(<<y, x>> \in OpToRel(<, Nat))
  BY WFMin, NatLessThanWellFounded
<1>2. \A y \in T : x \in Nat /\ y \in Nat /\ ~(y < x)
  BY <1>1 DEF OpToRel
<1>3. \A y \in T : x <= y
  BY <1>2
<1> QED
  BY <1>3

\* Rounding down loses less than a second.
LEMMA Rounded ==
  ASSUME NEW t \in Nat
  PROVE  /\ WholeSeconds(t) \in Nat /\ WholeSeconds(t) <= t /\ WholeSeconds(t) + Second > t
<1>1. ASSUME NEW n \in Nat \ {0}
      PROVE  (t \div n) * n \in Nat /\ (t \div n) * n <= t /\ (t \div n) * n + n > t
  BY SMT
<1> QED
  BY <1>1, Constants DEF WholeSeconds

LEMMA LogTyped ==
  ASSUME TypeOK
  PROVE  /\ now \in Nat /\ Len(log) \in Nat /\ log \in Seq(0..now)
         /\ \A i \in Lines : i \in Nat /\ log[i] \in Nat /\ log[i] <= now
         /\ since \in Nat /\ since <= now /\ broke \in Nat /\ broke <= now /\ next \in Nat
         /\ now >= Second /\ \A i \in seen : i \in Lines
<1>1. now \in Nat /\ now >= Start /\ now >= Second /\ log \in Seq(0..now) /\ Len(log) \in Nat
  BY Constants DEF TypeOK
<1>2. \A i \in Lines : i \in Nat /\ log[i] \in 0..now
  BY <1>1 DEF Lines
<1>3. since \in Nat /\ since <= now /\ broke \in Nat /\ broke <= now /\ next \in Nat
  BY <1>1, Constants DEF TypeOK
<1> QED
  BY <1>1, <1>2, <1>3 DEF TypeOK

\* The stream of a request starts where the log stops being older than it asks for.
LEMMA FirstSinceIs ==
  ASSUME TypeOK, Sorted(log), NEW t \in Nat
  PROVE  /\ FirstSince(t) \in 1..Len(log) + 1
         /\ \A i \in Lines : IF i < FirstSince(t) THEN log[i] < t ELSE log[i] >= t
<1>1. Len(log) \in Nat /\ \A i \in Lines : i \in Nat /\ log[i] \in Nat
  BY LogTyped
<1>2. CASE \A i \in Lines : log[i] < t
  <2>1. FirstSince(t) = Len(log) + 1
    BY <1>2 DEF FirstSince
  <2>2. \A i \in Lines : i < Len(log) + 1
    BY <1>1 DEF Lines
  <2> QED
    BY <1>1, <1>2, <2>1, <2>2
<1>3. CASE ~(\A i \in Lines : log[i] < t)
  <2> DEFINE T == {i \in Lines : log[i] >= t}
  <2>1. T \in SUBSET Nat /\ T # {}
    BY <1>1, <1>3
  <2>2. PICK m \in T : \A y \in T : m <= y
    BY <2>1, Least
  <2>3. m \in Lines /\ log[m] >= t /\ \A j \in 1..m-1 : log[j] < t
    BY <1>1, <2>2 DEF Lines
  <2> PICK k : k = FirstSince(t)
    OBVIOUS
  <2>4. k \in Lines /\ log[k] >= t /\ \A j \in 1..k-1 : log[j] < t
    BY <1>3, <2>3 DEF FirstSince
  <2>5. \A i \in Lines : i < k => i \in 1..k-1
    BY <1>1, <2>4 DEF Lines
  <2>6. \A i \in Lines : ~(i < k) => log[i] >= log[k]
    BY <1>1, <2>4 DEF Lines, Sorted
  <2>7. \A i \in Lines : IF i < k THEN log[i] < t ELSE log[i] >= t
    BY <1>1, <2>4, <2>5, <2>6
  <2>8. k \in 1..Len(log) + 1
    BY <1>1, <2>4 DEF Lines
  <2> QED
    BY <2>7, <2>8
<1> QED
  BY <1>2, <1>3

\* A line is added with the time of day.
LEMMA Appended ==
  ASSUME TypeOK, Sorted(log), log' = Append(log, now), now' = now
  PROVE  /\ Len(log') = Len(log) + 1 /\ log' \in Seq(0..now') /\ log'[Len(log) + 1] = now
         /\ \A i \in Lines : i \in Lines' /\ log'[i] = log[i] /\ i # Len(log) + 1
         /\ \A i \in Lines' : i \in Lines \/ i = Len(log) + 1
         /\ Sorted(log')
<1>1. Len(log) \in Nat /\ log \in Seq(0..now) /\ now \in 0..now /\ \A i \in Lines : log[i] <= now /\ i \in Nat
  BY LogTyped
<1>2. /\ log' \in Seq(0..now) /\ Len(log') = Len(log) + 1 /\ log'[Len(log) + 1] = now
      /\ \A i \in 1..Len(log) : log'[i] = log[i]
  BY <1>1, AppendProperties
<1>3. /\ \A i \in Lines : i \in Lines' /\ log'[i] = log[i] /\ i # Len(log) + 1
      /\ \A i \in Lines' : i \in Lines \/ i = Len(log) + 1
  BY <1>1, <1>2 DEF Lines
<1>4. Sorted(log')
  <2> SUFFICES ASSUME NEW i \in 1..Len(log'), NEW j \in 1..Len(log'), i <= j
               PROVE  log'[i] <= log'[j]
    BY DEF Sorted
  <2>1. CASE j = Len(log) + 1
    BY <1>1, <1>2, <1>3, <2>1 DEF Lines
  <2>2. CASE j # Len(log) + 1
    <3>1. i \in 1..Len(log) /\ j \in 1..Len(log)
      BY <1>1, <1>2, <2>2
    <3> QED
      BY <1>2, <3>1 DEF Sorted
  <2> QED
    BY <2>1, <2>2
<1> QED
  BY <1>2, <1>3, <1>4
-----------------------------------------------------------------------------
(* The clock, the container and the controller                               *)

\* Nothing they do touches what the tailer has to show.
LEMMA WorldKeeps ==
  ASSUME IInv, TypeOK', Room', log' = log \/ (log' = Append(log, now) /\ now' = now),
         UNCHANGED <<newlyCreated, pc, fromBeginning, since, next, breaks, history>>
  PROVE  IInv'
<1>1. /\ Len(log) \in Nat /\ now \in Nat /\ since \in Nat /\ since <= now /\ broke \in Nat /\ broke <= now
      /\ next \in Nat /\ next <= Len(log) + 1 /\ \A i \in seen : i \in Lines
      /\ \A i \in Lines : i \in Nat
      /\ seen' = seen /\ excused' = excused /\ opened' = opened /\ broke' = broke
  BY LogTyped DEF IInv, TypeOK, history
<1>2. CASE log' = log
  BY <1>1, <1>2 DEF IInv, Sorted, Gapless, Beginning, Asked, Recent, Settled, Lines
<1>3. CASE log' = Append(log, now) /\ now' = now
  <2>1. /\ \A i \in Lines : i \in Lines' /\ log'[i] = log[i] /\ i # Len(log) + 1
        /\ \A i \in Lines' : i \in Lines \/ (i = Len(log) + 1 /\ log'[i] = now)
        /\ Sorted(log')
    BY <1>3, Appended DEF IInv
  <2>2. \A i \in Lines', j \in seen : i <= j => i \in Lines
    BY <1>1, <2>1 DEF Lines
  <2>3. \A i \in Lines' : i < next => i \in Lines
    BY <1>1, <2>1
  <2>4. \A i \in Lines' : log'[i] < since => i \in Lines /\ log'[i] = log[i]
    BY <1>1, <2>1
  <2>5. \A i \in Lines' : (i \in Lines /\ log'[i] = log[i]) \/ log'[i] + 2 * Second > broke
    BY <1>1, <2>1, Constants
  <2>6. Gapless'
    BY <1>1, <2>2, <2>3 DEF IInv, Gapless, Settled
  <2>7. Beginning' /\ Asked'
    BY <1>1, <2>4 DEF IInv, Beginning, Asked, Settled
  <2>8. Recent'
    BY <1>1, <2>5 DEF IInv, Recent
  <2> QED
    BY <2>1, <2>6, <2>7, <2>8 DEF IInv
<1> QED
  BY <1>2, <1>3

LEMMA ClockKeeps ==
  ASSUME IInv, Tick
  PROVE  IInv'
<1>1. TypeOK /\ now' = now + 1 /\ now < MaxTime /\ now \in Nat /\ log \in Seq(0..now)
  BY LogTyped DEF IInv, Tick
<1>2. log \in Seq(0..now')
  <2>1. 0..now \subseteq 0..now'
    BY <1>1
  <2> QED
    BY <1>1, <2>1, SeqMonotonic
<1>3. now' \in Start..MaxTime /\ since \in 0..now' /\ broke \in Start..now'
  BY <1>1, Constants DEF TypeOK
<1>4. /\ UNCHANGED <<container, log, torn, newlyCreated, pc, stop, fromBeginning, since, next, breaks>>
      /\ seen' = seen /\ excused' = excused /\ opened' = opened /\ broke' = broke /\ Lines' = Lines
  BY DEF Tick, tailer, history, Lines
<1>5. TypeOK' /\ Room'
  BY <1>1, <1>2, <1>3, <1>4 DEF TypeOK, Room, IInv
<1> QED
  BY <1>4, <1>5, WorldKeeps DEF history

LEMMA ContainerKeeps ==
  ASSUME IInv, Write \/ Starts \/ Exits \/ Goes \/ Stop
  PROVE  IInv'
<1>1. TypeOK /\ Room /\ Len(log) \in Nat /\ seen \subseteq Lines /\ excused \subseteq Lines
  BY LogTyped DEF IInv, TypeOK
<1>2. CASE Starts \/ Goes \/ Stop
  <2>1. /\ UNCHANGED <<now, log, torn, newlyCreated, pc, fromBeginning, since, next, breaks>>
        /\ seen' = seen /\ excused' = excused /\ opened' = opened /\ broke' = broke /\ Lines' = Lines
        /\ container' \in {"waiting", "running", "exited", "gone"} /\ stop' \in BOOLEAN
        /\ container \in {"exited", "gone"} => container' \in {"exited", "gone"}
        /\ container' \in {"waiting", "running"} => container \in {"waiting", "running"}
    BY <1>1, <1>2 DEF TypeOK, Starts, Goes, Stop, kubelet, tailer, history, Lines
  <2>2. TypeOK' /\ Room'
    BY <1>1, <2>1 DEF TypeOK, Room
  <2> QED
    BY <2>1, <2>2, WorldKeeps DEF history
<1>3. CASE Write \/ Exits
  <2>1. /\ now' = now /\ UNCHANGED <<tailer, history>>
        /\ container = "running" /\ ~torn /\ container' \in {"running", "exited"} /\ torn' \in BOOLEAN
        /\ \/ log' = log /\ torn' = FALSE
           \/ log' = Append(log, now) /\ (torn' => container' = "exited")
        /\ Len(log) < MaxLines \/ container' = "exited"
    <3>1. torn \in BOOLEAN /\ (container = "running" => ~torn)
      BY <1>1 DEF TypeOK
    <3>2. CASE Write
      <4>1. container = "running" /\ container' = container /\ torn' = torn /\ ~torn
        BY <3>1, <3>2 DEF Write
      <4> QED
        BY <3>1, <3>2, <4>1 DEF Write
    <3>3. CASE Exits
      BY <3>1, <3>3 DEF Exits
    <3> QED
      BY <1>3, <3>2, <3>3
  <2>2. TypeOK' /\ Room'
    <3>1. CASE log' = log /\ torn' = FALSE
      BY <1>1, <2>1, <3>1 DEF TypeOK, Room, tailer, history, Lines
    <3>2. CASE log' = Append(log, now) /\ (torn' => container' = "exited")
      <4>1. /\ Len(log') = Len(log) + 1 /\ log' \in Seq(0..now') /\ Lines \subseteq Lines' /\ log' # <<>>
        <5>1. Len(log') = Len(log) + 1 /\ log' \in Seq(0..now') /\ Lines \subseteq Lines'
          BY <1>1, <2>1, <3>2, Appended DEF IInv
        <5>2. Len(log') # 0
          BY <1>1, <5>1
        <5> QED
          BY <5>1, <5>2
      <4>2. Len(log') <= MaxLines + 1 /\ Room'
        BY <1>1, <2>1, <4>1, Constants DEF Room
      <4>3. next \in 1..Len(log') + 1
        BY <1>1, <4>1 DEF TypeOK
      <4> QED
        BY <1>1, <2>1, <3>2, <4>1, <4>2, <4>3 DEF TypeOK, tailer, history
    <3> QED
      BY <2>1, <3>1, <3>2
  <2> QED
    BY <2>1, <2>2, WorldKeeps DEF tailer, history
<1> QED
  BY <1>2, <1>3
-----------------------------------------------------------------------------
(* The tailer                                                                *)

\* A step of the tailer that shows nothing, asks for nothing and opens nothing.
LEMMA GoesKeeps ==
  ASSUME IInv, NEW to, GoesTo(to), UNCHANGED <<kubelet, fromBeginning, since, seen, excused, opened>>,
         \/ /\ to \in {"test", "ended", "failed"}
            /\ next' = next \/ next' = 1
            /\ broke' = broke \/ broke' = now
            /\ breaks' = breaks \/ (breaks < MaxBreaks /\ breaks' = breaks + 1)
         \/ to \in {"open", "backoff"} /\ pc \in {"open", "backoff"} /\ UNCHANGED <<next, breaks, broke>>
  PROVE  IInv'
<1>1. TypeOK /\ Room /\ Len(log) \in Nat /\ now \in Nat /\ broke \in Nat
  BY LogTyped DEF IInv
<1>2. /\ now' = now /\ container' = container /\ log' = log /\ torn' = torn /\ Lines' = Lines
      /\ newlyCreated' = newlyCreated /\ stop' = stop /\ pc' = to
      /\ fromBeginning' = fromBeginning /\ since' = since /\ seen' = seen /\ excused' = excused
      /\ opened' = opened
  BY DEF GoesTo, kubelet, Lines
<1>3. /\ next' \in 1..Len(log) + 1 /\ broke' \in Start..now /\ breaks' \in 0..MaxBreaks
      /\ to \in {"test", "open", "backoff", "read", "ended", "failed"}
  BY <1>1, Constants DEF TypeOK
<1>4. TypeOK' /\ Room'
  BY <1>1, <1>2, <1>3 DEF TypeOK, Room
<1>5. Sorted(log') /\ Gapless' /\ Beginning' /\ Recent'
  BY <1>2 DEF IInv, Gapless, Beginning, Recent, Settled
<1>6. Asked'
  BY <1>2 DEF IInv, Asked, Settled
<1> QED
  BY <1>4, <1>5, <1>6 DEF IInv

\* Run: what a new request leaves out is excused, unless it leaves out nothing.
LEMMA AsksKeeps ==
  ASSUME IInv, ~stop, pc = "test", GoesTo("open"), since' = SinceTime,
         Excuse(IF newlyCreated /\ ~opened THEN {} ELSE Overdue),
         UNCHANGED <<kubelet, fromBeginning, next, breaks>>
  PROVE  IInv'
<1>1. /\ TypeOK /\ Room /\ Len(log) \in Nat /\ now \in Nat /\ broke \in Nat /\ broke <= now /\ now >= Second
      /\ \A i \in Lines : log[i] \in Nat
      /\ Second \in Nat /\ Second # 0
  BY LogTyped, Constants DEF IInv
<1>2. /\ now' = now /\ container' = container /\ log' = log /\ torn' = torn /\ Lines' = Lines
      /\ newlyCreated' = newlyCreated /\ stop' = stop /\ pc' = "open"
      /\ fromBeginning' = fromBeginning /\ seen' = seen /\ opened' = opened /\ broke' = broke
      /\ next' = next /\ breaks' = breaks
      /\ excused' = excused \cup IF newlyCreated /\ ~opened THEN {} ELSE Overdue
  BY DEF GoesTo, kubelet, Lines, Excuse
<1>3. excused \subseteq excused' /\ excused' \subseteq Lines
  BY <1>1, <1>2 DEF TypeOK, Overdue
<1>4. Asked' /\ since' \in 0..now
  <2>1. CASE fromBeginning
    <3>1. since' = 0 /\ newlyCreated /\ seen = {}
      BY <2>1 DEF SinceTime, IInv, Beginning
    <3> QED
      BY <1>1, <1>2, <3>1 DEF Asked
  <2>2. CASE ~fromBeginning
    <3>1. excused' = excused \cup Overdue
      BY <1>2, <2>2 DEF IInv, Beginning
    <3>2. since' \in Nat /\ since' <= now - Second /\ since' + Second > now - Second
      <4>1. now - Second \in Nat /\ since' = WholeSeconds(now - Second)
        BY <1>1, <2>2 DEF SinceTime
      <4> QED
        BY <4>1, Rounded
    <3>3. since' + 2 * Second > broke /\ since' \in 0..now
      BY <1>1, <3>2
    <3>4. \A i \in Lines : log[i] < since' => log[i] + Second < now
      BY <1>1, <3>2
    <3> QED
      BY <1>2, <3>1, <3>3, <3>4 DEF Asked, Settled, Overdue
  <2> QED
    BY <2>1, <2>2
<1>5. TypeOK' /\ Room'
  BY <1>1, <1>2, <1>3, <1>4 DEF TypeOK, Room
<1>6. Sorted(log') /\ Gapless' /\ Beginning' /\ Recent'
  BY <1>2, <1>3 DEF IInv, Gapless, Beginning, Recent, Settled
<1> QED
  BY <1>4, <1>5, <1>6 DEF IInv

\* What the request left out is settled, what the stream repeats is recent.
LEMMA OpensKeeps ==
  ASSUME IInv, Opens
  PROVE  IInv'
<1>1. /\ TypeOK /\ Room /\ Len(log) \in Nat /\ now \in Nat /\ broke \in Nat /\ since \in Nat
      /\ \A i \in Lines : i \in Nat /\ log[i] \in Nat
      /\ Second \in Nat
  BY LogTyped, Constants DEF IInv
<1>2. /\ now' = now /\ container' = container /\ log' = log /\ torn' = torn /\ Lines' = Lines
      /\ newlyCreated' = newlyCreated /\ stop' = stop /\ pc = "open" /\ pc' = "read"
      /\ fromBeginning' = FALSE /\ since' = 0 /\ opened' = TRUE /\ next' = FirstSince(since)
      /\ breaks' = breaks /\ seen' = seen /\ excused' = excused /\ broke' = broke
  BY DEF Opens, GoesTo, kubelet, Lines
<1>3. /\ next' \in 1..Len(log) + 1
      /\ \A i \in Lines : IF i < next' THEN log[i] < since ELSE log[i] >= since
  BY <1>1, <1>2, FirstSinceIs DEF IInv
<1>4. /\ \A i \in Lines : log[i] < since => i \in Settled
      /\ since + 2 * Second > broke \/ (newlyCreated /\ seen = {})
  BY <1>2 DEF IInv, Asked
<1>5. TypeOK' /\ Room'
  <2>1. since' \in 0..now
    BY <1>1, <1>2
  <2> QED
    BY <1>1, <1>2, <1>3, <2>1 DEF TypeOK, Room
<1>6. Gapless'
  BY <1>2, <1>3, <1>4 DEF IInv, Gapless, Settled
<1>7. Recent'
  <2> SUFFICES ASSUME NEW i \in Lines, i >= next'
               PROVE  log[i] + 2 * Second > broke \/ (newlyCreated /\ i \notin seen)
    BY <1>2 DEF Recent
  <2>1. log[i] >= since /\ log[i] \in Nat
    BY <1>1, <1>3
  <2>2. CASE since + 2 * Second > broke
    BY <1>1, <2>1, <2>2
  <2>3. CASE newlyCreated /\ seen = {}
    BY <2>3
  <2> QED
    BY <1>4, <2>2, <2>3
<1>8. Beginning' /\ Asked' /\ Sorted(log')
  BY <1>2 DEF IInv, Beginning, Asked
<1> QED
  BY <1>5, <1>6, <1>7, <1>8 DEF IInv

LEMMA ReadKeeps ==
  ASSUME IInv, ReadLine
  PROVE  IInv'
<1>1. /\ TypeOK /\ Room /\ Len(log) \in Nat /\ \A i \in Lines : i \in Nat
      /\ seen \subseteq Lines
  BY LogTyped DEF IInv
<1>2. /\ now' = now /\ container' = container /\ log' = log /\ torn' = torn /\ Lines' = Lines
      /\ newlyCreated' = newlyCreated /\ stop' = stop /\ pc = "read" /\ pc' = pc
      /\ fromBeginning' = fromBeginning /\ since' = since /\ opened' = opened
      /\ seen' = seen \cup {next} /\ next' = next + 1
      /\ breaks' = breaks /\ excused' = excused /\ broke' = broke
  BY DEF ReadLine, kubelet, Lines
<1>3. next \in Lines /\ next \in Nat
  BY <1>1 DEF ReadLine, Whole, Lines
<1>4. TypeOK' /\ Room'
  <2>1. next' \in 1..Len(log) + 1 /\ seen' \subseteq Lines
    BY <1>1, <1>2, <1>3 DEF Lines
  <2> QED
    BY <1>1, <1>2, <2>1 DEF TypeOK, Room
<1>5. Gapless'
  <2>1. \A i \in Lines : i < next => i \in Settled
    BY <1>2 DEF IInv, Gapless
  <2>2. \A i \in Lines : i < next + 1 => i = next \/ i < next
    BY <1>1, <1>3
  <2>3. \A i \in Lines : i < next' => i \in Settled'
    BY <1>2, <2>1, <2>2 DEF Settled
  <2>4. \A i \in Lines, j \in seen' : i <= j => i \in Settled'
    <3>1. \A i \in Lines : i <= next => i < next + 1
      BY <1>1, <1>3
    <3> QED
      BY <1>2, <2>3, <3>1 DEF IInv, Gapless, Settled
  <2>5. \E m \in seen' \cup {0} : \A j \in seen' : j <= m
    <3>1. PICK m \in seen \cup {0} : \A j \in seen : j <= m
      BY DEF IInv, Gapless
    <3>2. m \in Nat /\ \A j \in seen : j \in Nat
      BY <1>1, <3>1
    <3>3. CASE next <= m
      BY <1>2, <3>1, <3>3
    <3>4. CASE ~(next <= m)
      <4>1. \A j \in seen' : j <= next
        BY <1>2, <1>3, <3>1, <3>2, <3>4
      <4> QED
        BY <1>2, <4>1
    <3> QED
      BY <3>3, <3>4
  <2> QED
    BY <1>2, <2>3, <2>4, <2>5 DEF Gapless
<1>6. Recent'
  <2>1. \A i \in Lines : i >= next + 1 => i >= next /\ i # next
    BY <1>1, <1>3
  <2> QED
    BY <1>2, <2>1 DEF IInv, Recent
<1>7. Beginning' /\ Asked' /\ Sorted(log')
  <2>1. opened /\ opened'
    BY <1>2 DEF IInv, Beginning
  <2>2. fromBeginning' <=> newlyCreated' /\ ~opened'
    BY <1>2 DEF IInv, Beginning
  <2>3. Beginning'
    BY <2>1, <2>2 DEF Beginning
  <2> QED
    BY <1>2, <2>3 DEF IInv, Asked
<1> QED
  BY <1>4, <1>5, <1>6, <1>7 DEF IInv
-----------------------------------------------------------------------------
(* The invariant                                                             *)

LEMMA InitInvariant ==
  ASSUME Init
  PROVE  IInv
<1>1. /\ Second \in Nat /\ Start \in Nat /\ MaxTime \in Nat /\ MaxTime >= Start /\ MaxLines \in Nat
      /\ MaxBreaks \in Nat /\ now = Start
      /\ log \in Seq(0..Start) /\ Sorted(log) /\ Len(log) <= MaxLines /\ Len(log) \in Nat
  BY PositionsAssumption DEF Init
<1>2. /\ now \in Start..MaxTime /\ Len(log) <= MaxLines + 1 /\ since \in 0..now /\ next \in 1..Len(log) + 1
      /\ breaks \in 0..MaxBreaks /\ broke \in Start..now
  BY <1>1 DEF Init
<1>3. seen \subseteq Lines /\ excused \subseteq Lines
  BY DEF Init
<1>4. TypeOK /\ Room
  <2>1. torn \in BOOLEAN /\ (torn => log # <<>> /\ container \in {"exited", "gone"})
    BY DEF Init
  <2>2. newlyCreated \in BOOLEAN /\ stop \in BOOLEAN /\ fromBeginning \in BOOLEAN /\ opened \in BOOLEAN
    BY DEF Init
  <2>3. /\ container \in {"waiting", "running", "exited", "gone"}
        /\ pc \in {"test", "open", "backoff", "read", "ended", "failed"}
    BY DEF Init
  <2> QED
    BY <1>1, <1>2, <1>3, <2>1, <2>2, <2>3 DEF TypeOK, Room
<1>5. Gapless
  BY DEF Init, Gapless
<1>6. Beginning
  <2>1. opened = FALSE /\ fromBeginning = newlyCreated /\ seen = {} /\ pc # "read" /\ newlyCreated \in BOOLEAN
    BY DEF Init
  <2> QED
    BY <2>1 DEF Beginning
<1>7. Asked /\ Recent
  BY DEF Init, Asked, Recent
<1> QED
  BY <1>1, <1>4, <1>5, <1>6, <1>7 DEF IInv

LEMMA StutterKeeps ==
  ASSUME IInv, UNCHANGED vars
  PROVE  IInv'
<1>1. /\ TypeOK /\ log' = log /\ Lines' = Lines
      /\ UNCHANGED <<now, container, log, torn, newlyCreated, pc, stop, fromBeginning, since, next, breaks>>
      /\ UNCHANGED history
  BY DEF IInv, vars, kubelet, tailer, Lines
<1>2. TypeOK' /\ Room'
  BY <1>1 DEF IInv, TypeOK, Room, history
<1> QED
  BY <1>1, <1>2, WorldKeeps

LEMMA NextKeeps ==
  ASSUME IInv, [Next]_vars
  PROVE  IInv'
<1>1. CASE Tick
  BY <1>1, ClockKeeps
<1>2. CASE Write \/ Starts \/ Exits \/ Goes \/ Stop
  BY <1>2, ContainerKeeps
<1>3. CASE Run
  <2>1. CASE stop /\ GoesTo("ended") /\ UNCHANGED <<since, history>>
    BY <1>3, <2>1, GoesKeeps DEF Run, history
  <2>2. CASE /\ ~stop /\ GoesTo("open") /\ since' = SinceTime
             /\ Excuse(IF newlyCreated /\ ~opened THEN {} ELSE Overdue)
    BY <1>3, <2>2, AsksKeeps DEF Run
  <2> QED
    BY <1>3, <2>1, <2>2 DEF Run
<1>4. CASE Opens
  BY <1>4, OpensKeeps
<1>5. CASE NotReady
  BY <1>5, GoesKeeps DEF NotReady, history
<1>6. CASE WakeUp
  BY <1>6, GoesKeeps DEF WakeUp, history
<1>7. CASE NotFound
  BY <1>7, GoesKeeps DEF NotFound, history
<1>8. CASE Fails
  BY <1>8, GoesKeeps DEF Fails, history
<1>9. CASE ReadLine
  BY <1>9, ReadKeeps
<1>10. CASE LogIsOver
  BY <1>10, GoesKeeps DEF LogIsOver, EndOfStream
<1>11. CASE Breaks
  BY <1>11, GoesKeeps DEF Breaks, EndOfStream
<1>12. CASE UNCHANGED vars
  BY <1>12, StutterKeeps
<1> QED
  BY <1>1, <1>2, <1>3, <1>4, <1>5, <1>6, <1>7, <1>8, <1>9, <1>10, <1>11, <1>12 DEF Next, Tailer

\* What the tailer has shown, has still to show and may leave out fits the log, the
\* time of its request and what it knows of the pod, in every state.
THEOREM Invariant == Spec => []IInv
  BY InitInvariant, NextKeeps, PTL DEF Spec

\* The variables have their types: the position and the time asked for stay within the
\* log and the clock, and only a container that ended leaves a line without newline.
THEOREM TypeCorrect == Spec => []TypeOK
<1>1. IInv => TypeOK
  BY DEF IInv
<1> QED
  BY <1>1, Invariant, PTL

\* getStream asks for what is older than the break or the start by less than two seconds,
\* once that is rounded to whole seconds, and keeps asking for it while it retries.
THEOREM NoReplayAlways == Spec => NoReplay
<1>1. ASSUME IInv, [Next]_vars
      PROVE  [\A i \in Lines :
               /\ pc = "read" /\ next = i /\ next' # i
               /\ i \in seen \/ ~newlyCreated
               => log[i] + 2 * Second > broke]_vars
  <2> SUFFICES ASSUME NEW i \in Lines, pc = "read", next = i, i \in seen \/ ~newlyCreated
               PROVE  log[i] + 2 * Second > broke
    OBVIOUS
  <2>1. i \in Nat
    BY <1>1, LogTyped DEF IInv
  <2> QED
    BY <1>1, <2>1 DEF IInv, Recent
<1> QED
  BY <1>1, Invariant, PTL DEF Spec, NoReplay
-----------------------------------------------------------------------------
(* The promise of a log reader                                               *)

LEMMA Greatest ==
  ASSUME NEW S \in SUBSET Nat, NEW m \in S \cup {0}, \A j \in S : j <= m
  PROVE  (CHOOSE i \in S \cup {0} : \A j \in S : j <= i) = m
<1> DEFINE k == CHOOSE i \in S \cup {0} : \A j \in S : j <= i
<1>1. k \in S \cup {0} /\ \A j \in S : j <= k
  OBVIOUS
<1> HIDE DEF k
<1>2. k \in Nat /\ m \in Nat
  BY <1>1
<1>3. k <= m /\ m <= k
  <2>1. k = 0 \/ k <= m
    BY <1>1
  <2>2. m = 0 \/ m <= k
    BY <1>1
  <2> QED
    BY <1>2, <2>1, <2>2
<1>4. k = m
  BY <1>2, <1>3
<1> QED
  BY <1>4 DEF k

LEMMA TopIs ==
  ASSUME IInv
  PROVE  Top \in seen \cup {0} /\ Top \in Nat /\ \A j \in seen : j <= Top
<1>1. seen \in SUBSET Nat
  BY LogTyped DEF IInv
<1>2. PICK m \in seen \cup {0} : \A j \in seen : j <= m
  BY DEF IInv, Gapless
<1>3. Top = m
  BY <1>1, <1>2, Greatest DEF Top
<1> QED
  BY <1>1, <1>2, <1>3

\* What has been shown stays the last line shown.
LEMMA TopStays ==
  ASSUME seen' = seen
  PROVE  Top' = Top
  BY DEF Top

\* A request gives up only lines after the last one shown: the others are settled.
LEMMA RunExcuses ==
  ASSUME IInv, Run
  PROVE  Promise!Excuse \/ UNCHANGED <<Len(log), Top, excused>>
<1>1. log' = log /\ seen' = seen /\ Len(log') = Len(log) /\ Top' = Top
  BY TopStays DEF Run, kubelet, Excuse, history
<1>2. excused' = excused \/ excused' = excused \cup Overdue
  BY DEF Run, Excuse, history
<1>3. \A i \in Overdue : i \in excused \/ i \in Top + 1 .. Len(log)
  <2> SUFFICES ASSUME NEW i \in Lines, i \notin seen, i \notin excused
               PROVE  i \in Top + 1 .. Len(log)
    BY DEF Overdue
  <2>1. i \in Nat /\ i >= 1 /\ i <= Len(log) /\ Len(log) \in Nat
    BY LogTyped DEF IInv, Lines
  <2>2. Top \in seen \cup {0} /\ Top \in Nat
    BY TopIs
  <2>3. ~(i <= Top)
    BY <2>1, <2>2 DEF IInv, Gapless, Settled
  <2> QED
    BY <2>1, <2>2, <2>3
<1>4. excused \subseteq excused' /\ excused' \ excused \subseteq Top + 1 .. Len(log)
  BY <1>2, <1>3
<1> QED
  BY <1>1, <1>4 DEF Promise!Excuse

\* A line that is delivered has been shown before, or is the first after the last one
\* shown that may not be left out.
LEMMA ReadShows ==
  ASSUME IInv, ReadLine
  PROVE  Promise!Show \/ UNCHANGED <<Len(log), Top, excused>>
<1>1. /\ log' = log /\ excused' = excused /\ Len(log') = Len(log) /\ seen' = seen \cup {next}
      /\ Len(log) \in Nat /\ next \in Lines /\ next \in Nat /\ seen \in SUBSET Nat
  <2>1. TypeOK /\ Len(log) \in Nat /\ seen \in SUBSET Nat
    BY LogTyped DEF IInv
  <2>2. next \in Lines /\ next \in Nat
    BY <2>1 DEF ReadLine, Whole, Lines
  <2> QED
    BY <2>1, <2>2 DEF ReadLine, kubelet
<1>2. Top \in seen \cup {0} /\ Top \in Nat /\ \A j \in seen : j <= Top
  BY TopIs
<1> PICK s : s = seen'
  OBVIOUS
<1>3. s \in SUBSET Nat /\ s = seen \cup {next} /\ Top' = CHOOSE i \in s \cup {0} : \A j \in s : j <= i
  BY <1>1 DEF Top
<1>4. CASE next <= Top
  <2>1. Top \in s \cup {0} /\ \A j \in s : j <= Top
    BY <1>2, <1>3, <1>4
  <2>2. Top' = Top
    BY <1>3, <2>1, Greatest
  <2> QED
    BY <1>1, <2>2
<1>5. CASE ~(next <= Top)
  <2>1. next \in s \cup {0} /\ \A j \in s : j <= next
    BY <1>1, <1>2, <1>3, <1>5
  <2>2. Top' = next
    BY <1>3, <2>1, Greatest
  <2>3. next \in Top + 1 .. Len(log)
    BY <1>1, <1>2, <1>5 DEF Lines
  <2>4. \A i \in (Top + 1) .. (next - 1) : i \in Lines /\ i < next /\ i \notin seen
    BY <1>1, <1>2, <2>3 DEF Lines
  <2>5. (Top + 1) .. (next - 1) \subseteq excused
    BY <2>4 DEF ReadLine, IInv, Gapless, Settled
  <2> QED
    BY <1>1, <2>2, <2>3, <2>5 DEF Promise!Show
<1> QED
  BY <1>4, <1>5

\* Every step keeps the promise: it writes, excuses or shows, or nothing of that.
LEMMA NextPromised ==
  ASSUME IInv, [Next]_vars
  PROVE  [Promise!Write \/ Promise!Excuse \/ Promise!Show]_<<Len(log), Top, excused>>
<1>1. CASE Run
  BY <1>1, RunExcuses
<1>2. CASE ReadLine
  BY <1>2, ReadShows
<1>3. CASE Write \/ Exits
  <2>1. Top' = Top /\ excused' = excused
    BY <1>3, TopStays DEF Write, Exits, history
  <2>2. log' = log \/ (log' = Append(log, now) /\ now' = now)
    BY <1>3 DEF Write, Exits
  <2>3. Len(log') = Len(log) \/ Len(log') = Len(log) + 1
    BY <2>2, Appended DEF IInv
  <2> QED
    BY <2>1, <2>3 DEF Promise!Write
<1>4. CASE \/ Tick \/ Starts \/ Goes \/ Stop
           \/ Opens \/ NotReady \/ WakeUp \/ NotFound \/ LogIsOver
           \/ Fails \/ Breaks \/ UNCHANGED vars
  <2>1. log' = log /\ seen' = seen /\ excused' = excused
    BY <1>4 DEF Tick, Starts, Goes, Stop, Opens, NotReady, WakeUp, NotFound, LogIsOver, Fails, Breaks,
                EndOfStream, kubelet, tailer, history, vars
  <2>2. Top' = Top /\ Len(log') = Len(log)
    BY <2>1, TopStays
  <2> QED
    BY <2>1, <2>2
<1> QED
  BY <1>1, <1>2, <1>3, <1>4 DEF Next, Tailer

\* A tailer is a LogReader: whatever breaks and is retried, lines are shown in order, and a
\* line is passed over only if it was overdue when a stream was asked for.
THEOREM InOrderAlways == Spec => InOrder
<1>1. Init => Promise!Init
  <2> SUFFICES ASSUME Init
               PROVE  Promise!Init
    OBVIOUS
  <2>1. IInv
    BY InitInvariant
  <2>2. Top \in seen \cup {0} /\ seen = {}
    BY <2>1, TopIs DEF Init
  <2>3. Len(log) \in Nat /\ excused \subseteq 1..Len(log)
    BY <2>1, LogTyped DEF IInv, TypeOK, Lines
  <2> QED
    BY <2>2, <2>3 DEF Promise!Init
<1> QED
  BY <1>1, NextPromised, Invariant, PTL DEF Spec, InOrder, Promise!Spec
=============================================================================

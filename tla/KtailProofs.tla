----------------------------- MODULE KtailProofs -----------------------------
(***************************************************************************)
(* Proofs about Ktail: for any set of pods and any number of incarnations,  *)
(* whatever the watch loses, however the tailers are scheduled.             *)
(***************************************************************************)
EXTENDS Ktail, SequenceTheorems, TLAPS

-----------------------------------------------------------------------------
(* The inductive invariant                                                   *)

\* The position of a pod the controller has acted on: the direct List's until
\* the informer has a view.
Known(p) == IF phase = "watching" THEN seen[p] ELSE listed[p]

\* The lists and the view lag behind the cluster, and a view that has not gone
\* back has passed the List.
Lagging ==
  /\ \A p \in Pods : seen[p] <= changes[p] /\ listed[p] <= changes[p]
  /\ \A p \in Pods : unseen[p] # "past" => listed[p] <= Known(p)
  /\ phase # "watching" => \A p \in Pods : unseen[p] = "nothing"
  /\ phase \in {"start", "panic"} => \A p \in Pods : tail[p] = <<>>

\* The tailer in the map is the one that was made last, and the only one that
\* has not been told to stop.
LiveIn(p) ==
  /\ tailers[p] \in {0, Len(tail[p])}
  /\ \A k \in 1..Len(tail[p]) : ~tail[p][k].stop <=> tailers[p] = k

\* What a tailer can say of the pod it was made for: it was created at a position
\* the controller knows, its deletion too if the tailer was stopped, ...
Fits(p, t) ==
  /\ 2 * t.of <= Known(p) + 1
  /\ t.stop => 2 * t.of <= Known(p)
  /\ t.fromBeginning => t.of > Incarnation(listed[p])
  /\ t.pc = "stream" => t.of <= t.reading

FitIn(p) == unseen[p] # "past" => \A k \in 1..Len(tail[p]) : Fits(p, tail[p][k])

\* Later tailers are for later incarnations.
AscendIn(p) ==
  unseen[p] # "past" =>
    \A j, k \in 1..Len(tail[p]) : j < k => tail[p][j].of < tail[p][k].of

Ordered(p) == LiveIn(p) /\ FitIn(p) /\ AscendIn(p)

\* MapMirrorsView, from the direct List on.
Mirrors(p) ==
  IF Up(Known(p)) THEN tailers[p] # 0 /\ tail[p][tailers[p]].of = Incarnation(Known(p))
                  ELSE tailers[p] = 0

Mirroring ==
  phase \notin {"start", "panic"} => \A p \in Pods : unseen[p] = "nothing" => Mirrors(p)

IInv ==
  TypeOK /\ Lagging /\ Mirroring /\ \A p \in Pods : Ordered(p)

-----------------------------------------------------------------------------
(* Positions and incarnations                                                *)

\* Incarnation i is created at position 2i - 1 and deleted at 2i.
LEMMA Positioned ==
  ASSUME NEW n \in Nat
  PROVE  /\ Incarnation(n) \in Nat
         /\ n <= 2 * Incarnation(n)
         /\ Up(n) => n + 1 = 2 * Incarnation(n)
         /\ ~Up(n) => n = 2 * Incarnation(n)
  BY DEF Incarnation, Up

\* An earlier position has no later incarnation.
LEMMA Earlier ==
  ASSUME NEW m \in Nat, NEW n \in Nat, m <= n
  PROVE  Incarnation(m) <= Incarnation(n)
  BY DEF Incarnation

\* What holds of an incarnation at a position holds at a later one.
LEMMA Later ==
  ASSUME NEW m \in Nat, NEW n \in Nat, m <= n, NEW i \in Nat
  PROVE  /\ 2 * i <= m + 1 => 2 * i <= n + 1
         /\ 2 * i <= m => 2 * i <= n
         /\ \A j \in Nat : 2 * i <= m /\ 2 * j = n + 1 => i < j
OBVIOUS

LEMMA Halves ==
  ASSUME NEW i \in Nat, NEW m \in Nat, NEW n \in Nat, 2 * i <= n + 1, n <= 2 * m
  PROVE  i <= m
<1>1. ASSUME i > m PROVE FALSE
  <2>1. i >= m + 1
    BY <1>1
  <2>2. 2 * i >= 2 * m + 2
    BY <2>1
  <2> QED
    BY <2>2
<1> QED
  BY <1>1

LEMMA InRange ==
  ASSUME NEW n \in Positions
  PROVE  n \in Nat /\ Incarnation(n) \in Incarnations
<1>1. n \in Nat /\ MaxChanges \in Nat /\ n <= MaxChanges
  BY ConstantsAssumption DEF Positions
<1>2. Incarnation(n) <= Incarnation(MaxChanges)
  BY <1>1, Earlier
<1> QED
  BY <1>1, <1>2, Positioned DEF Incarnations

\* What the view can miss between two positions.
LEMMA MissedMeans ==
  ASSUME NEW m \in Nat, NEW n \in Nat
  PROVE  /\ Missed(m, n) \in {"nothing", "replaced", "past"}
         /\ Missed(m, n) = "past" <=> n < m
         /\ Missed(m, n) = "nothing" => n = m \/ (n > m /\ ~Up(m))
<1>1. CASE n < m
  BY <1>1 DEF Missed
<1>2. CASE n > m /\ Up(m)
  BY <1>2 DEF Missed
<1>3. CASE ~(n < m) /\ ~(n > m /\ Up(m))
  BY <1>3 DEF Missed
<1> QED
  BY <1>1, <1>2, <1>3

\* What is known of the positions of a pod.
LEMMA Ranges ==
  ASSUME TypeOK, NEW p \in Pods
  PROVE  /\ changes[p] \in Nat /\ seen[p] \in Nat /\ listed[p] \in Nat /\ Known(p) \in Nat
         /\ changes[p] \in Positions /\ seen[p] \in Positions /\ listed[p] \in Positions
         /\ Known(p) \in Positions
         /\ tailers[p] \in Nat /\ tail[p] \in Seq(Tailers) /\ Len(tail[p]) \in Nat
<1>1. changes[p] \in Positions /\ seen[p] \in Positions /\ listed[p] \in Positions
  BY DEF TypeOK
<1>2. tailers[p] \in Nat /\ tail[p] \in Seq(Tailers)
  BY DEF TypeOK
<1> QED
  BY <1>1, <1>2, InRange, LenProperties DEF Known

LEMMA Numbered == Incarnations \subseteq Nat
  BY ConstantsAssumption, Positioned DEF Incarnations

LEMMA TailerTyped ==
  ASSUME TypeOK, NEW p \in Pods, NEW k \in 1..Len(tail[p])
  PROVE  /\ tail[p][k] \in Tailers
         /\ tail[p][k].of \in Nat /\ tail[p][k].reading \in Nat
         /\ tail[p][k].stop \in BOOLEAN /\ tail[p][k].fromBeginning \in BOOLEAN
<1>1. tail[p][k] \in Tailers
  BY Ranges, ElementOfSeq
<1> QED
  BY <1>1, Numbered DEF Tailers

LEMMA NewTailerTyped ==
  ASSUME NEW i \in Incarnations, NEW b \in BOOLEAN
  PROVE  /\ NewTailer(i, b) \in Tailers
         /\ NewTailer(i, b).of = i /\ ~NewTailer(i, b).stop
         /\ NewTailer(i, b).fromBeginning = b /\ NewTailer(i, b).pc = "test"
<1>1. 0 \in Incarnations
  BY ConstantsAssumption, Positioned DEF Incarnations
<1> QED
  BY <1>1 DEF NewTailer, Tailers

-----------------------------------------------------------------------------
(* The handlers: what adding and deleting do to the tailers of one pod        *)

LEMMA Appended ==
  ASSUME NEW s \in Seq(Tailers), NEW t \in Tailers
  PROVE  /\ Append(s, t) \in Seq(Tailers)
         /\ Len(Append(s, t)) = Len(s) + 1
         /\ \A k \in 1..Len(s) : Append(s, t)[k] = s[k]
         /\ Append(s, t)[Len(s) + 1] = t
  BY AppendProperties

\* A pod that has a tailer keeps it, and one that has none is given one.
Kept(p) == tailers'[p] = tailers[p] /\ tail'[p] = tail[p]

Given(p, i, newlyCreatedPod) ==
  /\ tailers[p] = 0
  /\ tailers'[p] = Len(tail[p]) + 1
  /\ tail'[p] = Append(tail[p], NewTailer(i, newlyCreatedPod))

LEMMA Adding ==
  ASSUME TypeOK, NEW added \in SUBSET Pods, NEW view, NEW d \in BOOLEAN,
         \A p \in added : view[p] \in Positions,
         addContainers(added, view, d)
  PROVE  /\ \A p \in Pods :
              \/ Kept(p) /\ (p \in added => tailers[p] # 0)
              \/ p \in added /\ Given(p, Incarnation(view[p]), ~d)
         /\ tailers' \in [Pods -> Nat]
         /\ tail' \in [Pods -> Seq(Tailers)]
         /\ \A p \in Pods : tailers'[p] \in 0..Len(tail'[p])
<1>1. \A p \in Pods :
        \/ Kept(p) /\ (p \in added => tailers[p] # 0)
        \/ p \in added /\ Given(p, Incarnation(view[p]), ~d)
  BY DEF TypeOK, addContainers, Kept, Given
<1>2. ASSUME NEW p \in Pods
      PROVE  tailers'[p] \in Nat /\ tail'[p] \in Seq(Tailers) /\ tailers'[p] \in 0..Len(tail'[p])
  <2>1. CASE Kept(p)
    BY <2>1, Ranges DEF Kept, TypeOK
  <2>2. CASE p \in added /\ Given(p, Incarnation(view[p]), ~d)
    <3>1. NewTailer(Incarnation(view[p]), ~d) \in Tailers
      BY <2>2, InRange, NewTailerTyped
    <3> QED
      BY <2>2, <3>1, Ranges, Appended DEF Given
  <2> QED
    BY <1>1, <2>1, <2>2
<1>3. /\ tailers' = [p \in Pods |-> tailers'[p]]
      /\ tail' = [p \in Pods |-> tail'[p]]
  BY DEF addContainers
<1> QED
  BY <1>1, <1>2, <1>3

\* A step that keeps the tailers of a pod and learns more of it.
LEMMA KeptOrdered ==
  ASSUME TypeOK, NEW p \in Pods, Ordered(p), Kept(p),
         \/ tail[p] = <<>>
         \/ unseen'[p] # "past" =>
              unseen[p] # "past" /\ Known(p) <= Known(p)' /\ listed'[p] = listed[p],
         Known(p)' \in Nat
  PROVE  Ordered(p)'
<1>1. LiveIn(p)'
  BY DEF Ordered, LiveIn, Kept
<1>2. AscendIn(p)'
  BY DEF Ordered, AscendIn, Kept
<1>3. ASSUME unseen'[p] # "past", NEW k \in 1..Len(tail[p])
      PROVE  Fits(p, tail[p][k])'
  <2> DEFINE t == tail[p][k]
  <2>1. Fits(p, t) /\ unseen[p] # "past" /\ Known(p) <= Known(p)' /\ listed'[p] = listed[p]
    BY <1>3 DEF Ordered, FitIn
  <2>2. t.of \in Nat /\ t = tail'[p][k]
    BY TailerTyped DEF Kept
  <2>3. /\ 2 * t.of <= Known(p) + 1 => 2 * t.of <= Known(p)' + 1
        /\ 2 * t.of <= Known(p) => 2 * t.of <= Known(p)'
    <3>1. Known(p) \in Nat
      BY Ranges
    <3> PICK m : m = Known(p)
      OBVIOUS
    <3> PICK n : n = Known(p)'
      OBVIOUS
    <3>2. m \in Nat /\ n \in Nat /\ m <= n
      BY <2>1, <3>1
    <3>3. /\ 2 * t.of <= m + 1 => 2 * t.of <= n + 1
          /\ 2 * t.of <= m => 2 * t.of <= n
      BY <2>2, <3>2, Later
    <3> QED
      BY <3>3
  <2> QED
    BY <2>1, <2>2, <2>3 DEF Fits
<1>4. FitIn(p)'
  BY <1>3 DEF FitIn, Kept
<1> QED
  BY <1>1, <1>2, <1>4 DEF Ordered

\* A step that gives a pod a tailer for the incarnation that it has learnt of.
LEMMA GivenOrdered ==
  ASSUME TypeOK, NEW p \in Pods, Ordered(p),
         NEW i \in Incarnations, NEW b \in BOOLEAN, Given(p, i, b),
         unseen'[p] # "past" =>
           /\ \/ tail[p] = <<>>
              \/ unseen[p] # "past" /\ Known(p) <= Known(p)' /\ listed'[p] = listed[p]
           /\ 2 * i = Known(p)' + 1
           /\ b => i > Incarnation(listed'[p]),
         Known(p)' \in Nat
  PROVE  Ordered(p)'
<1> DEFINE n == NewTailer(i, b)
           l == Len(tail[p])
<1>1. n \in Tailers /\ n.of = i /\ ~n.stop /\ n.fromBeginning = b /\ n.pc = "test"
  BY NewTailerTyped
<1>2. l \in Nat /\ tailers[p] = 0 /\ tailers'[p] = l + 1 /\ Len(tail'[p]) = l + 1
      /\ tail'[p][l + 1] = n /\ \A k \in 1..l : tail'[p][k] = tail[p][k]
  BY <1>1, Ranges, Appended DEF Given
<1> HIDE DEF n, l
<1>3. \A k \in 1..l : tail[p][k].stop
  BY <1>2 DEF Ordered, LiveIn, l
<1>4. LiveIn(p)'
  <2>1. ASSUME NEW k \in 1..(l + 1) PROVE ~tail'[p][k].stop <=> tailers'[p] = k
    <3>1. CASE k \in 1..l
      BY <1>2, <1>3, <3>1
    <3>2. CASE k = l + 1
      BY <1>1, <1>2, <3>2
    <3> QED
      BY <1>2, <3>1, <3>2
  <2> QED
    BY <1>2, <2>1 DEF LiveIn
<1>5. ASSUME unseen'[p] # "past", NEW k \in 1..l
      PROVE  Fits(p, tail[p][k])' /\ tail[p][k].of < i
  <2>1. Fits(p, tail[p][k]) /\ Known(p) <= Known(p)' /\ listed'[p] = listed[p]
    BY <1>5, <1>2 DEF Ordered, FitIn, l
  <2>2. tail[p][k].of \in Nat /\ i \in Nat /\ tail'[p][k] = tail[p][k] /\ tail[p][k].stop
    <3>1. tail[p][k].of \in Nat
      BY TailerTyped DEF l
    <3> QED
      BY <1>2, <1>3, <3>1, Numbered
  <2> PICK t : t = tail[p][k]
    OBVIOUS
  <2>3. 2 * t.of <= Known(p)
    BY <2>1, <2>2 DEF Fits
  <2>4. 2 * t.of <= Known(p)' + 1 /\ 2 * t.of <= Known(p)' /\ t.of < i
    <3>1. Known(p) \in Nat /\ 2 * i = Known(p)' + 1
      BY <1>5, Ranges
    <3> PICK m : m = Known(p)
      OBVIOUS
    <3> PICK later : later = Known(p)'
      OBVIOUS
    <3>2. m \in Nat /\ later \in Nat /\ m <= later /\ 2 * i = later + 1 /\ 2 * t.of <= m
      BY <2>1, <2>3, <3>1
    <3>3. 2 * t.of <= later /\ t.of < i
      BY <2>2, <3>2, Later
    <3>4. 2 * t.of <= later + 1
      BY <2>2, <3>2, <3>3
    <3> QED
      BY <3>3, <3>4
  <2> QED
    BY <2>1, <2>2, <2>4 DEF Fits
<1>6. FitIn(p)'
  <2>1. ASSUME unseen'[p] # "past" PROVE Fits(p, n)'
    BY <1>1, <2>1 DEF Fits, n, NewTailer
  <2>2. ASSUME unseen'[p] # "past", NEW k \in 1..(l + 1) PROVE Fits(p, tail[p][k])'
    <3>1. CASE k \in 1..l
      BY <1>5, <2>2, <3>1
    <3>2. CASE k = l + 1
      BY <1>2, <2>1, <2>2, <3>2 DEF Fits, n, NewTailer
    <3> QED
      BY <1>2, <3>1, <3>2
  <2> QED
    BY <1>2, <2>2 DEF FitIn
<1>7. AscendIn(p)'
  <2>1. ASSUME unseen'[p] # "past", NEW j \in 1..(l + 1), NEW k \in 1..(l + 1), j < k
        PROVE  tail'[p][j].of < tail'[p][k].of
    <3>1. CASE k = l + 1
      BY <1>1, <1>2, <1>5, <2>1, <3>1
    <3>2. CASE k \in 1..l
      <4>1. j \in 1..l /\ unseen[p] # "past"
        BY <1>2, <2>1, <3>2 DEF l
      <4> QED
        BY <1>2, <2>1, <3>2, <4>1 DEF Ordered, AscendIn, l
    <3> QED
      BY <1>2, <3>1, <3>2
  <2> QED
    BY <1>2, <2>1 DEF AscendIn
<1> QED
  BY <1>4, <1>6, <1>7 DEF Ordered

\* A pod that is given a tailer for the incarnation the view has mirrors the view.
LEMMA GivenMirrors ==
  ASSUME TypeOK, NEW p \in Pods, NEW n \in Positions, NEW b \in BOOLEAN,
         Given(p, Incarnation(n), b), Up(n), Known(p)' = n
  PROVE  Mirrors(p)'
<1>1. /\ NewTailer(Incarnation(n), b) \in Tailers
      /\ NewTailer(Incarnation(n), b).of = Incarnation(n)
  BY InRange, NewTailerTyped
<1>2. Len(tail[p]) \in Nat /\ tailers'[p] = Len(tail[p]) + 1
      /\ tail'[p][Len(tail[p]) + 1] = NewTailer(Incarnation(n), b)
  BY <1>1, Ranges, Appended DEF Given
<1> QED
  BY <1>1, <1>2 DEF Mirrors

LEMMA KeptMirrors ==
  ASSUME NEW p \in Pods, Kept(p), Mirrors(p), Known(p)' = Known(p)
  PROVE  Mirrors(p)'
  BY DEF Mirrors, Kept

-----------------------------------------------------------------------------
(* Every step keeps the invariant: the controller                            *)

LEMMA Untailed ==
  ASSUME TypeOK, Lagging, phase = "start", NEW p \in Pods
  PROVE  tail[p] = <<>> /\ tailers[p] = 0
<1>1. tail[p] = <<>> /\ tailers[p] \in 0..Len(tail[p])
  BY DEF Lagging, TypeOK
<1> QED
  BY <1>1

LEMMA ListKeeps ==
  ASSUME IInv, List
  PROVE  IInv'
<1> DEFINE up == {p \in Pods : Up(changes[p])}
<1>1. TypeOK /\ Lagging /\ phase = "start" /\ phase' = "listed" /\ listed' = changes
      /\ UNCHANGED <<changes, ready, seen, unseen>>
  BY DEF IInv, List, clusterVars
<1>2. addContainers(up, changes, TRUE)
  BY DEF List
<1> HIDE DEF up
<1>3. /\ \A p \in Pods :
           \/ Kept(p) /\ (p \in up => tailers[p] # 0)
           \/ p \in up /\ Given(p, Incarnation(changes[p]), FALSE)
      /\ tailers' \in [Pods -> Nat]
      /\ tail' \in [Pods -> Seq(Tailers)]
      /\ \A p \in Pods : tailers'[p] \in 0..Len(tail'[p])
  <2>1. \A p \in up : changes[p] \in Positions
    BY <1>1, Ranges DEF up
  <2> QED
    BY <1>1, <1>2, <2>1, Adding DEF up
<1>4. TypeOK'
  BY <1>1, <1>3 DEF TypeOK, Positions, Tailers, Incarnations, Incarnation
<1>5. \A p \in Pods : Known(p)' = changes[p] /\ unseen[p] = "nothing" /\ changes[p] \in Positions
  BY <1>1, Ranges DEF Known, Lagging
<1>6. Lagging'
  BY <1>1, <1>5, Ranges DEF Lagging
<1>7. ASSUME NEW p \in Pods
      PROVE  Ordered(p)' /\ Mirrors(p)'
  <2>1. Ordered(p) /\ tail[p] = <<>> /\ tailers[p] = 0 /\ Known(p)' \in Nat
    BY <1>1, <1>5, Untailed, InRange DEF IInv
  <2>2. CASE Kept(p) /\ (p \in up => tailers[p] # 0)
    <3>1. ~Up(Known(p)')
      BY <1>5, <2>1, <2>2 DEF up
    <3> QED
      BY <1>1, <2>1, <2>2, <3>1, KeptOrdered DEF Mirrors, Kept
  <2>3. CASE p \in up /\ Given(p, Incarnation(changes[p]), FALSE)
    <3>1. 2 * Incarnation(changes[p]) = Known(p)' + 1 /\ Up(changes[p])
      BY <1>5, <2>3, InRange, Positioned DEF up
    <3> QED
      BY <1>1, <1>5, <2>1, <2>3, <3>1, InRange, GivenOrdered, GivenMirrors
  <2> QED
    BY <1>3, <2>2, <2>3
<1> QED
  BY <1>4, <1>6, <1>7 DEF IInv, Mirroring

LEMMA StartInformerKeeps ==
  ASSUME IInv, StartInformer
  PROVE  IInv'
<1> PICK view \in [Pods -> Positions] :
       /\ \A p \in Pods : view[p] <= changes[p] /\ (StaleLists \/ listed[p] <= view[p])
       /\ seen' = view
       /\ unseen' = [p \in Pods |-> Missed(listed[p], view[p])]
       /\ addContainers({p \in Pods : Up(view[p])}, view, FALSE)
  BY DEF StartInformer
<1> DEFINE up == {p \in Pods : Up(view[p])}
<1>1. TypeOK /\ Lagging /\ phase = "listed" /\ phase' = "watching"
      /\ UNCHANGED <<changes, ready, listed>>
  BY DEF IInv, StartInformer, clusterVars
<1>2. up \subseteq Pods /\ \A p \in Pods : p \in up <=> Up(view[p])
  OBVIOUS
<1>3. addContainers(up, view, FALSE)
  OBVIOUS
<1> HIDE DEF up
<1>4. /\ \A p \in Pods :
           \/ Kept(p) /\ (p \in up => tailers[p] # 0)
           \/ p \in up /\ Given(p, Incarnation(view[p]), TRUE)
      /\ tailers' \in [Pods -> Nat]
      /\ tail' \in [Pods -> Seq(Tailers)]
      /\ \A p \in Pods : tailers'[p] \in 0..Len(tail'[p])
  BY <1>1, <1>2, <1>3, Adding
<1>5. \A p \in Pods : unseen'[p] = Missed(listed[p], view[p])
  OBVIOUS
<1>6. unseen' \in [Pods -> {"nothing", "replaced", "past"}]
  BY DEF Missed
<1>7. TypeOK'
  BY <1>1, <1>4, <1>6 DEF TypeOK, Positions, Tailers, Incarnations, Incarnation
<1>8. ASSUME NEW p \in Pods
      PROVE  /\ Known(p)' = view[p] /\ Known(p) = listed[p] /\ unseen[p] = "nothing"
             /\ view[p] \in Positions /\ view[p] \in Nat /\ listed[p] \in Nat
             /\ unseen'[p] # "past" => listed[p] <= view[p]
             /\ unseen'[p] = "nothing" =>
                  view[p] = listed[p] \/ (view[p] > listed[p] /\ ~Up(listed[p]))
  <2>1. view[p] \in Positions /\ view[p] \in Nat /\ listed[p] \in Nat
    BY <1>1, Ranges, InRange
  <2>2. Known(p)' = view[p] /\ Known(p) = listed[p] /\ unseen[p] = "nothing"
    BY <1>1 DEF Known, Lagging
  <2> QED
    BY <1>5, <2>1, <2>2, MissedMeans
<1>9. Lagging'
  BY <1>1, <1>8 DEF Lagging
<1>10. ASSUME NEW p \in Pods
       PROVE  Ordered(p)' /\ (unseen'[p] = "nothing" => Mirrors(p)')
  <2>1. Ordered(p) /\ Mirrors(p)
    BY <1>1, <1>8 DEF IInv, Mirroring
  <2>2. CASE Kept(p) /\ (p \in up => tailers[p] # 0)
    <3>1. unseen'[p] = "nothing" =>
            Known(p)' = Known(p) \/ (~Up(view[p]) /\ ~Up(listed[p]))
      BY <1>2, <1>8, <2>1, <2>2 DEF Mirrors
    <3>2. Ordered(p)'
      BY <1>1, <1>8, <2>1, <2>2, KeptOrdered
    <3>3. unseen'[p] = "nothing" => Mirrors(p)'
      BY <1>8, <2>1, <2>2, <3>1, KeptMirrors DEF Mirrors, Kept
    <3> QED
      BY <3>2, <3>3
  <2>3. CASE p \in up /\ Given(p, Incarnation(view[p]), TRUE)
    <3>1. 2 * Incarnation(view[p]) = view[p] + 1 /\ Up(view[p]) /\ Incarnation(view[p]) \in Incarnations
      BY <1>2, <1>8, <2>3, InRange, Positioned
    <3>2. ~Up(listed[p]) /\ 2 * Incarnation(listed[p]) = listed[p] /\ Incarnation(listed[p]) \in Nat
      BY <1>8, <2>1, <2>3, Positioned DEF Mirrors, Given
    <3>3. unseen'[p] # "past" => Incarnation(view[p]) > Incarnation(listed[p])
      BY <1>8, <3>1, <3>2, Positioned
    <3>4. Ordered(p)'
      BY <1>1, <1>8, <2>1, <2>3, <3>1, <3>3, GivenOrdered
    <3> QED
      BY <1>1, <1>8, <2>3, <3>1, <3>4, GivenMirrors
  <2> QED
    BY <1>4, <2>2, <2>3
<1> QED
  BY <1>1, <1>7, <1>9, <1>10 DEF IInv, Mirroring

LEMMA RelistKeeps ==
  ASSUME IInv, Relist
  PROVE  IInv'
<1> DEFINE new == {p \in Pods : ~Up(seen[p]) /\ Up(changes[p])}
<1>1. /\ TypeOK /\ Lagging /\ phase = "watching" /\ seen' = changes
      /\ unseen' = [p \in Pods |->
           IF unseen[p] = "nothing" THEN Missed(seen[p], changes[p]) ELSE unseen[p]]
      /\ UNCHANGED <<phase, changes, ready, listed>>
  BY DEF IInv, Relist, clusterVars
<1>2. new \subseteq Pods /\ \A p \in Pods : p \in new <=> ~Up(seen[p]) /\ Up(changes[p])
  OBVIOUS
<1>3. addContainers(new, changes, FALSE)
  BY DEF Relist
<1> HIDE DEF new
<1>4. /\ \A p \in Pods :
           \/ Kept(p) /\ (p \in new => tailers[p] # 0)
           \/ p \in new /\ Given(p, Incarnation(changes[p]), TRUE)
      /\ tailers' \in [Pods -> Nat]
      /\ tail' \in [Pods -> Seq(Tailers)]
      /\ \A p \in Pods : tailers'[p] \in 0..Len(tail'[p])
  <2>1. \A p \in new : changes[p] \in Positions
    BY <1>1, <1>2, Ranges
  <2> QED
    BY <1>1, <1>2, <1>3, <2>1, Adding
<1>5. ASSUME NEW p \in Pods
      PROVE  /\ Known(p)' = changes[p] /\ Known(p) = seen[p]
             /\ changes[p] \in Positions /\ changes[p] \in Nat /\ seen[p] \in Nat
             /\ listed[p] \in Nat /\ seen[p] <= changes[p]
             /\ unseen'[p] \in {"nothing", "replaced", "past"}
             /\ unseen'[p] # "past" => unseen[p] # "past" /\ listed[p] <= seen[p]
             /\ unseen'[p] = "nothing" =>
                  /\ unseen[p] = "nothing"
                  /\ changes[p] = seen[p] \/ ~Up(seen[p])
  <2>1. /\ Known(p)' = changes[p] /\ Known(p) = seen[p]
        /\ changes[p] \in Positions /\ changes[p] \in Nat /\ seen[p] \in Nat
        /\ listed[p] \in Nat /\ seen[p] <= changes[p]
        /\ unseen[p] # "past" => listed[p] <= seen[p]
    BY <1>1, Ranges DEF Known, Lagging
  <2>2. unseen[p] \in {"nothing", "replaced", "past"}
    BY <1>1 DEF TypeOK
  <2>3. unseen'[p] = IF unseen[p] = "nothing" THEN Missed(seen[p], changes[p]) ELSE unseen[p]
    BY <1>1
  <2> QED
    BY <2>1, <2>2, <2>3, MissedMeans
<1>6. unseen' \in [Pods -> {"nothing", "replaced", "past"}]
  BY <1>1, <1>5
<1>7. TypeOK'
  BY <1>1, <1>4, <1>6 DEF TypeOK, Positions, Tailers, Incarnations, Incarnation
<1>8. Lagging'
  BY <1>1, <1>5 DEF Lagging
<1>9. ASSUME NEW p \in Pods
      PROVE  Ordered(p)' /\ (unseen'[p] = "nothing" => Mirrors(p)')
  <2>1. Ordered(p) /\ (unseen[p] = "nothing" => Mirrors(p))
    BY <1>1 DEF IInv, Mirroring
  <2>2. CASE Kept(p) /\ (p \in new => tailers[p] # 0)
    <3>1. Ordered(p)'
      BY <1>1, <1>5, <2>1, <2>2, KeptOrdered
    <3>2. CASE unseen'[p] = "nothing" /\ ~Up(seen[p])
      <4>1. tailers[p] = 0 /\ ~Up(changes[p])
        BY <1>2, <1>5, <2>1, <2>2, <3>2 DEF Mirrors
      <4> QED
        BY <1>5, <2>2, <3>1, <4>1 DEF Mirrors, Kept
    <3>3. CASE unseen'[p] = "nothing" /\ changes[p] = seen[p]
      BY <1>5, <2>1, <2>2, <3>1, <3>3, KeptMirrors
    <3> QED
      BY <1>5, <3>1, <3>2, <3>3
  <2>3. CASE p \in new /\ Given(p, Incarnation(changes[p]), TRUE)
    <3>1. /\ 2 * Incarnation(changes[p]) = changes[p] + 1 /\ Up(changes[p]) /\ ~Up(seen[p])
          /\ Incarnation(changes[p]) \in Incarnations /\ Incarnation(changes[p]) \in Nat
          /\ 2 * Incarnation(seen[p]) = seen[p] /\ Incarnation(seen[p]) \in Nat
      BY <1>2, <1>5, <2>3, InRange, Positioned
    <3>2. listed[p] <= seen[p] => Incarnation(listed[p]) <= Incarnation(seen[p])
      BY <1>5, Earlier
    <3>3. unseen'[p] # "past" => Incarnation(changes[p]) > Incarnation(listed[p])
      BY <1>5, <3>1, <3>2, Positioned
    <3>4. Ordered(p)'
      BY <1>1, <1>5, <2>1, <2>3, <3>1, <3>3, GivenOrdered
    <3> QED
      BY <1>1, <1>5, <2>3, <3>1, <3>4, GivenMirrors
  <2> QED
    BY <1>4, <2>2, <2>3
<1> QED
  BY <1>1, <1>7, <1>8, <1>9 DEF IInv, Mirroring

\* A watch event moves one pod on in the view.
LEMMA Watched ==
  ASSUME IInv, NEW q \in Pods, Watch(q)
  PROVE  /\ TypeOK /\ phase = "watching" /\ phase' = "watching"
         /\ UNCHANGED <<changes, ready, listed, unseen>>
         /\ seen' \in [Pods -> Positions]
         /\ \A p \in Pods : Known(p) = seen[p] /\ Known(p)' = seen'[p] /\ seen'[p] \in Nat
         /\ seen'[q] = seen[q] + 1 /\ \A p \in Pods \ {q} : seen'[p] = seen[p]
         /\ Lagging'
<1>1. TypeOK /\ Lagging /\ phase = "watching" /\ seen[q] < changes[q]
      /\ seen' = [seen EXCEPT ![q] = @ + 1]
      /\ UNCHANGED <<phase, changes, ready, listed, unseen>>
  BY DEF IInv, Watch, clusterVars
<1>2. seen[q] + 1 \in Positions
  <2>1. changes[q] \in Positions /\ seen[q] \in Positions
    BY <1>1 DEF TypeOK
  <2> QED
    BY <1>1, <2>1, ConstantsAssumption DEF Positions
<1>3. seen' \in [Pods -> Positions] /\ seen'[q] = seen[q] + 1
      /\ \A p \in Pods \ {q} : seen'[p] = seen[p]
  BY <1>1, <1>2 DEF TypeOK
<1>4. \A p \in Pods : Known(p) = seen[p] /\ Known(p)' = seen'[p] /\ seen'[p] \in Nat
  BY <1>1, <1>3, InRange DEF Known
<1>5. \A p \in Pods : seen[p] <= seen'[p] /\ seen'[p] <= changes[p]
  BY <1>1, <1>3, Ranges DEF Lagging
<1>6. \A p \in Pods : unseen[p] # "past" => listed[p] <= seen'[p]
  BY <1>1, <1>4, <1>5, Ranges DEF Lagging
<1> QED
  BY <1>1, <1>3, <1>4, <1>5, <1>6 DEF Lagging

LEMMA WatchAddKeeps ==
  ASSUME IInv, NEW q \in Pods, Watch(q), Up(seen[q] + 1)
  PROVE  IInv'
<1>1. /\ \A p \in Pods :
           \/ Kept(p) /\ (p \in {q} => tailers[p] # 0)
           \/ p \in {q} /\ Given(p, Incarnation(seen'[p]), TRUE)
      /\ tailers' \in [Pods -> Nat]
      /\ tail' \in [Pods -> Seq(Tailers)]
      /\ \A p \in Pods : tailers'[p] \in 0..Len(tail'[p])
  <2> PICK view : view = seen'
    OBVIOUS
  <2>1. addContainers({q}, view, FALSE)
    BY DEF Watch, addContainers
  <2>2. TypeOK /\ {q} \in SUBSET Pods /\ \A p \in {q} : view[p] \in Positions
    BY Watched
  <2>3. /\ \A p \in Pods :
             \/ Kept(p) /\ (p \in {q} => tailers[p] # 0)
             \/ p \in {q} /\ Given(p, Incarnation(view[p]), TRUE)
        /\ tailers' \in [Pods -> Nat]
        /\ tail' \in [Pods -> Seq(Tailers)]
        /\ \A p \in Pods : tailers'[p] \in 0..Len(tail'[p])
    BY <2>1, <2>2, Adding
  <2> QED
    BY <2>3 DEF Given
<1>2. TypeOK'
  BY <1>1, Watched DEF TypeOK, Positions, Tailers, Incarnations, Incarnation
<1>3. ASSUME NEW p \in Pods
      PROVE  Ordered(p) /\ (unseen[p] = "nothing" => Mirrors(p)) /\ seen[p] \in Nat
  BY Watched, Ranges DEF IInv, Mirroring
<1>4. /\ ~Up(seen[q]) /\ 2 * Incarnation(seen[q]) = seen[q] /\ Incarnation(seen[q]) \in Nat
      /\ 2 * Incarnation(seen'[q]) = seen'[q] + 1 /\ Incarnation(seen'[q]) \in Nat
      /\ Up(seen'[q])
  <2>1. ~Up(seen[q])
    BY <1>3 DEF Up
  <2> QED
    BY <1>3, <2>1, Watched, Positioned
<1>5. ASSUME NEW p \in Pods
      PROVE  Ordered(p)' /\ (unseen'[p] = "nothing" => Mirrors(p)')
  <2>1. CASE Kept(p) /\ (p \in {q} => tailers[p] # 0)
    <3>1. Ordered(p)'
      BY <1>3, <2>1, Watched, KeptOrdered
    <3>2. unseen[p] = "nothing" => p # q
      BY <1>3, <1>4, <2>1, Watched DEF Mirrors
    <3> QED
      BY <1>3, <2>1, <3>1, <3>2, Watched, KeptMirrors
  <2>2. CASE p = q /\ Given(q, Incarnation(seen'[q]), TRUE)
    <3>1. unseen[q] # "past" => Incarnation(listed[q]) <= Incarnation(seen[q])
      BY <1>3, Watched, Ranges, Earlier DEF IInv, Lagging
    <3>2. Incarnation(listed[q]) \in Nat /\ seen'[q] = seen[q] + 1
      BY Watched, Ranges, Positioned
    <3>3. unseen[q] # "past" => Incarnation(seen'[q]) > Incarnation(listed[q])
      BY <1>3, <1>4, <3>1, <3>2
    <3>4. seen'[q] \in Positions /\ Incarnation(seen'[q]) \in Incarnations
      BY Watched, InRange
    <3>5. Ordered(q)'
      <4>1. /\ TypeOK /\ Ordered(q) /\ Known(q) <= Known(q)' /\ Known(q)' \in Nat
            /\ listed' = listed /\ unseen' = unseen /\ 2 * Incarnation(seen'[q]) = Known(q)' + 1
        BY <1>3, <1>4, <3>2, Watched
      <4> QED
        BY <2>2, <3>3, <3>4, <4>1, GivenOrdered
    <3>6. Mirrors(q)'
      BY <1>4, <2>2, <3>4, Watched, GivenMirrors
    <3> QED
      BY <2>2, <3>5, <3>6
  <2> QED
    BY <1>1, <2>1, <2>2
<1> QED
  BY <1>2, <1>5, Watched DEF IInv, Mirroring

\* One tailer of a pod is replaced by what it has become.
Replaces(p, k, t) == tail' = [tail EXCEPT ![p][k] = t]

LEMMA Replacing ==
  ASSUME TypeOK, NEW q \in Pods, NEW k \in 1..Len(tail[q]), NEW t \in Tailers,
         Replaces(q, k, t)
  PROVE  /\ tail' \in [Pods -> Seq(Tailers)]
         /\ Len(tail'[q]) = Len(tail[q])
         /\ tail'[q][k] = t
         /\ \A j \in 1..Len(tail[q]) : j # k => tail'[q][j] = tail[q][j]
         /\ \A p \in Pods \ {q} : tail'[p] = tail[p]
<1>1. tail \in [Pods -> Seq(Tailers)] /\ tail[q] \in Seq(Tailers)
  BY DEF TypeOK
<1>2. tail'[q] = [tail[q] EXCEPT ![k] = t] /\ \A p \in Pods \ {q} : tail'[p] = tail[p]
  BY <1>1 DEF Replaces
<1>3. /\ tail'[q] \in Seq(Tailers) /\ Len(tail'[q]) = Len(tail[q]) /\ tail'[q][k] = t
      /\ \A j \in 1..Len(tail[q]) : j # k => tail'[q][j] = tail[q][j]
  BY <1>1, <1>2, ExceptSeq
<1>4. tail' = [p \in Pods |-> tail'[p]]
  BY <1>1 DEF Replaces
<1> QED
  BY <1>1, <1>2, <1>3, <1>4

LEMMA WatchDeleteKeeps ==
  ASSUME IInv, NEW q \in Pods, Watch(q), ~Up(seen[q] + 1)
  PROVE  IInv'
<1> DEFINE k == tailers[q]
           l == Len(tail[q])
           t == [tail[q][k] EXCEPT !.stop = TRUE]
<1>1. /\ TypeOK /\ \A p \in Pods : Ordered(p) /\ (unseen[p] = "nothing" => Mirrors(p))
      /\ k \in {0, l} /\ l \in Nat /\ tail[q] \in Seq(Tailers) /\ DOMAIN tailers = Pods
      /\ k # 0 => k \in 1..l
  <2>1. TypeOK /\ \A p \in Pods : Ordered(p) /\ (unseen[p] = "nothing" => Mirrors(p))
    BY Watched DEF IInv, Mirroring
  <2>2. k \in {0, l} /\ l \in Nat /\ tail[q] \in Seq(Tailers)
    BY <2>1, Ranges DEF Ordered, LiveIn
  <2>3. k # 0 => k \in 1..l
    <3> HIDE DEF k, l
    <3> QED
      BY <2>2
  <2> QED
    BY <2>1, <2>2, <2>3 DEF TypeOK
<1>2. /\ tailers' = [tailers EXCEPT ![q] = 0]
      /\ tail' = IF k = 0 THEN tail ELSE [tail EXCEPT ![q][k].stop = TRUE]
  BY DEF Watch, deleteContainer
<1>3. /\ Known(q)' = Known(q) + 1 /\ Known(q) \in Nat /\ Known(q)' \in Nat /\ ~Up(Known(q)')
      /\ listed'[q] = listed[q] /\ unseen' = unseen
  BY Watched, Ranges
<1>4. \A p \in Pods \ {q} : Kept(p)
  BY <1>1, <1>2 DEF Kept, TypeOK
<1>5. tailers'[q] = 0 /\ tailers' \in [Pods -> Nat]
  BY <1>1, <1>2 DEF TypeOK
<1>6. k # 0 => /\ t \in Tailers /\ t.stop
               /\ t.of = tail[q][k].of /\ t.reading = tail[q][k].reading /\ t.pc = tail[q][k].pc
               /\ t.fromBeginning = tail[q][k].fromBeginning
  <2> PICK u : u = tail[q][k]
    OBVIOUS
  <2>1. k # 0 => u \in Tailers
    BY <1>1, TailerTyped
  <2>2. u \in Tailers =>
          /\ [u EXCEPT !.stop = TRUE] \in Tailers /\ [u EXCEPT !.stop = TRUE].stop
          /\ [u EXCEPT !.stop = TRUE].of = u.of /\ [u EXCEPT !.stop = TRUE].reading = u.reading
          /\ [u EXCEPT !.stop = TRUE].pc = u.pc
          /\ [u EXCEPT !.stop = TRUE].fromBeginning = u.fromBeginning
    BY DEF Tailers
  <2> QED
    BY <2>1, <2>2
<1>7. k # 0 => Replaces(q, k, t)
  BY <1>2 DEF Replaces
<1> HIDE DEF t
<1>8. /\ tail' \in [Pods -> Seq(Tailers)] /\ Len(tail'[q]) = l
      /\ \A j \in 1..l : j # k => tail'[q][j] = tail[q][j]
      /\ k # 0 => tail'[q][k] = t
  <2>1. CASE k = 0
    BY <1>1, <1>2, <2>1 DEF TypeOK
  <2>2. CASE k # 0
    BY <1>1, <1>6, <1>7, <2>2, Replacing
  <2> QED
    BY <2>1, <2>2
<1>9. ASSUME NEW j \in 1..l
      PROVE  /\ tail'[q][j].stop /\ tail'[q][j].of = tail[q][j].of
             /\ tail'[q][j].reading = tail[q][j].reading /\ tail'[q][j].pc = tail[q][j].pc
             /\ tail'[q][j].fromBeginning = tail[q][j].fromBeginning
             /\ tail[q][j].of \in Nat
  <2>1. CASE j = k
    BY <1>1, <1>6, <1>8, <2>1, TailerTyped
  <2>2. CASE j # k
    BY <1>1, <1>8, <2>2, TailerTyped DEF Ordered, LiveIn
  <2> QED
    BY <2>1, <2>2
<1> HIDE DEF k, l
<1>10. Ordered(q)'
  <2>1. LiveIn(q)'
    BY <1>5, <1>8, <1>9 DEF LiveIn
  <2>2. AscendIn(q)'
    BY <1>1, <1>3, <1>8, <1>9 DEF Ordered, AscendIn, l
  <2>3. ASSUME unseen[q] # "past", NEW j \in 1..l PROVE Fits(q, tail[q][j])'
    <3>1. Fits(q, tail[q][j])
      BY <1>1, <2>3 DEF Ordered, FitIn, l
    <3> QED
      BY <1>3, <1>9, <2>3, <3>1 DEF Fits
  <2>4. FitIn(q)'
    BY <1>3, <1>8, <2>3 DEF FitIn
  <2> QED
    BY <2>1, <2>2, <2>4 DEF Ordered
<1>11. ASSUME NEW p \in Pods
       PROVE  Ordered(p)' /\ (unseen'[p] = "nothing" => Mirrors(p)')
  <2>1. CASE p = q
    BY <1>3, <1>5, <1>10, <2>1 DEF Mirrors
  <2>2. CASE p # q
    BY <1>1, <1>4, <2>2, Watched, Ranges, KeptOrdered, KeptMirrors
  <2> QED
    BY <2>1, <2>2
<1>12. \A p \in Pods : tailers'[p] \in 0..Len(tail'[p])
  <2>1. ASSUME NEW p \in Pods \ {q} PROVE tailers'[p] \in 0..Len(tail'[p])
    BY <1>1, <1>4 DEF TypeOK, Kept
  <2>2. tailers'[q] \in 0..Len(tail'[q])
    BY <1>1, <1>5, <1>8
  <2> QED
    BY <2>1, <2>2
<1>13. TypeOK'
  <2>1. tailers' \in [Pods -> Nat] /\ tail' \in [Pods -> Seq(Tailers)]
    BY <1>5, <1>8
  <2> QED
    BY <1>12, <2>1, Watched DEF TypeOK, Positions, Tailers, Incarnations, Incarnation
<1> QED
  BY <1>11, <1>13, Watched DEF IInv, Mirroring

-----------------------------------------------------------------------------
(* Every step keeps the invariant: the tailers                               *)

\* A tailer moves on: it keeps its pod, its stop flag is not its own to write, and
\* it only reads an incarnation of a pod as late as its own.
Moves(p, t, u) ==
  /\ u \in Tailers
  /\ u.of = t.of /\ u.stop = t.stop
  /\ u.fromBeginning => t.fromBeginning
  /\ u.pc = "stream" => u.reading = Incarnation(changes[p])

LEMMA MoveKeeps ==
  ASSUME IInv, NEW q \in Pods, NEW k \in 1..Len(tail[q]), NEW u,
         Moves(q, tail[q][k], u), Becomes(q, k, u)
  PROVE  IInv'
<1> DEFINE l == Len(tail[q])
           t == tail[q][k]
<1>1. /\ TypeOK /\ Lagging /\ \A p \in Pods : Ordered(p)
      /\ UNCHANGED <<changes, ready, phase, listed, seen, unseen, tailers>>
  BY DEF IInv, Becomes, clusterVars
<1>2. /\ tail' \in [Pods -> Seq(Tailers)] /\ Len(tail'[q]) = l /\ tail'[q][k] = u
      /\ \A j \in 1..l : j # k => tail'[q][j] = tail[q][j]
      /\ \A p \in Pods \ {q} : tail'[p] = tail[p]
  <2>1. u \in Tailers /\ Replaces(q, k, u)
    BY DEF Becomes, Moves, Replaces
  <2> QED
    BY <1>1, <2>1, Replacing
<1>3. \A p \in Pods : Known(p)' = Known(p) /\ Len(tail'[p]) = Len(tail[p])
  BY <1>1, <1>2 DEF Known
<1>4. \A p \in Pods : tailers[p] \in 0..Len(tail'[p])
  BY <1>1, <1>3 DEF TypeOK
<1>5. TypeOK'
  BY <1>1, <1>2, <1>4 DEF TypeOK, Positions, Tailers, Incarnations, Incarnation
<1>6. Lagging'
  <2>1. tail[q] # <<>>
    BY <1>1, Ranges DEF TypeOK
  <2> QED
    BY <1>1, <1>2, <1>3, <2>1 DEF Lagging
<1>7. ASSUME NEW j \in 1..l
      PROVE  /\ tail'[q][j].of = tail[q][j].of /\ tail'[q][j].stop = tail[q][j].stop
             /\ tail'[q][j].fromBeginning => tail[q][j].fromBeginning
             /\ tail'[q][j].pc = "stream" =>
                  \/ j # k /\ tail[q][j].pc = "stream" /\ tail'[q][j].reading = tail[q][j].reading
                  \/ tail'[q][j].reading = Incarnation(changes[q])
             /\ tail[q][j].of \in Nat
  <2>1. tail[q][j].of \in Nat
    BY <1>1, TailerTyped
  <2>2. CASE j = k
    BY <1>2, <2>1, <2>2 DEF Moves
  <2>3. CASE j # k
    BY <1>2, <2>1, <2>3
  <2> QED
    BY <2>2, <2>3
<1> HIDE DEF l
<1>8. Ordered(q)'
  <2>1. LiveIn(q)'
    BY <1>1, <1>2, <1>7 DEF Ordered, LiveIn, l
  <2>2. AscendIn(q)'
    BY <1>1, <1>2, <1>7 DEF Ordered, AscendIn, l
  <2>3. ASSUME unseen[q] # "past", NEW j \in 1..l PROVE Fits(q, tail[q][j])'
    <3>1. Fits(q, tail[q][j])
      BY <1>1, <2>3 DEF Ordered, FitIn, l
    <3>2. Known(q) <= changes[q]
      BY <1>1 DEF Known, Lagging
    <3>3. tail[q][j].of <= Incarnation(changes[q])
      <4>1. 2 * tail[q][j].of <= Known(q) + 1
        BY <3>1 DEF Fits
      <4>2. Known(q) \in Nat /\ changes[q] \in Nat
        BY <1>1, Ranges
      <4>3. Incarnation(changes[q]) \in Nat /\ changes[q] <= 2 * Incarnation(changes[q])
        BY <4>2, Positioned
      <4>4. tail[q][j].of \in Nat
        BY <1>7
      <4> PICK i : i = tail[q][j].of
        OBVIOUS
      <4> PICK m : m = Incarnation(changes[q])
        OBVIOUS
      <4> PICK n : n = Known(q)
        OBVIOUS
      <4>5. i \in Nat /\ m \in Nat /\ n \in Nat /\ 2 * i <= n + 1 /\ n <= 2 * m
        BY <3>2, <4>1, <4>2, <4>3, <4>4
      <4>6. i <= m
        BY <4>5, Halves
      <4> QED
        BY <4>6
    <3> QED
      BY <1>1, <1>3, <1>7, <3>1, <3>3 DEF Fits
  <2>4. FitIn(q)'
    BY <1>1, <1>2, <2>3 DEF FitIn
  <2> QED
    BY <2>1, <2>2, <2>4 DEF Ordered
<1>9. ASSUME NEW p \in Pods
      PROVE  Ordered(p)' /\ (Mirrors(p) => Mirrors(p)')
  <2>1. CASE p = q
    <3>1. tailers[q] # 0 => tailers[q] \in 1..l
      BY <1>1, Ranges DEF TypeOK, l
    <3> QED
      BY <1>1, <1>3, <1>7, <1>8, <2>1, <3>1 DEF Mirrors
  <2>2. CASE p # q
    <3>1. Kept(p)
      BY <1>1, <1>2, <2>2 DEF Kept
    <3> QED
      BY <1>1, <1>3, <3>1, Ranges, KeptOrdered, KeptMirrors
  <2> QED
    BY <2>1, <2>2
<1> QED
  BY <1>1, <1>5, <1>6, <1>9 DEF IInv, Mirroring

LEMMA TailerMoves ==
  ASSUME TypeOK, NEW p \in Pods, NEW k \in 1..Len(tail[p]),
         Tailer(p, k) \/ GetLogsFails(p, k) \/ StreamEnds(p, k) \/ StreamFails(p, k)
  PROVE  \E u : Moves(p, tail[p][k], u) /\ Becomes(p, k, u)
<1> DEFINE t == tail[p][k]
<1>1. t \in Tailers /\ 0 \in Incarnations /\ Incarnation(changes[p]) \in Incarnations
  <2>1. 0 \in Incarnations
    BY ConstantsAssumption, Positioned DEF Incarnations
  <2> QED
    BY <2>1, TailerTyped, Ranges, InRange
<1>2. CASE LoopTest(p, k)
  <2> DEFINE u == [t EXCEPT !.pc = IF t.stop THEN "ended" ELSE "open"]
  <2>1. Moves(p, t, u)
    BY <1>1 DEF Moves, Tailers
  <2> QED
    BY <1>2, <2>1 DEF LoopTest
<1>3. CASE GetLogs(p, k)
  <2> DEFINE u == IF ~Up(changes[p]) THEN [t EXCEPT !.pc = "ended"]
                  ELSE IF ~ready[p] THEN [t EXCEPT !.pc = "backoff"]
                  ELSE [t EXCEPT !.pc = "stream", !.fromBeginning = FALSE,
                                 !.reading = Incarnation(changes[p])]
  <2>1. Moves(p, t, u)
    BY <1>1 DEF Moves, Tailers
  <2> QED
    BY <1>3, <2>1 DEF GetLogs
<1>4. CASE WakeUp(p, k)
  <2>1. Moves(p, t, [t EXCEPT !.pc = "open"])
    BY <1>1 DEF Moves, Tailers
  <2> QED
    BY <1>4, <2>1 DEF WakeUp
<1>5. CASE GetLogsFails(p, k)
  <2>1. Moves(p, t, [t EXCEPT !.pc = "failed"])
    BY <1>1 DEF Moves, Tailers
  <2> QED
    BY <1>5, <2>1 DEF GetLogsFails
<1>6. CASE StreamEnds(p, k)
  <2>1. Moves(p, t, [t EXCEPT !.pc = "test", !.reading = 0])
    BY <1>1 DEF Moves, Tailers
  <2> QED
    BY <1>6, <2>1 DEF StreamEnds
<1>7. CASE StreamFails(p, k)
  <2>1. Moves(p, t, [t EXCEPT !.pc = "failed", !.reading = 0])
    BY <1>1 DEF Moves, Tailers
  <2> QED
    BY <1>7, <2>1 DEF StreamFails
<1> QED
  BY <1>2, <1>3, <1>4, <1>5, <1>6, <1>7 DEF Tailer

LEMMA InitInvariant == Init => IInv
<1> SUFFICES ASSUME Init PROVE IInv
  OBVIOUS
<1>1. 0 \in Positions
  BY ConstantsAssumption DEF Positions
<1>2. TypeOK
  BY <1>1, EmptySeq DEF Init, TypeOK
<1>3. Lagging
  BY <1>1, <1>2, Ranges DEF Init, Lagging, Known
<1>4. \A p \in Pods : Len(tail[p]) = 0
  BY EmptySeq DEF Init
<1>5. ASSUME NEW p \in Pods PROVE Ordered(p)
  <2>1. 1..Len(tail[p]) = {} /\ tailers[p] = 0
    BY <1>4 DEF Init
  <2> QED
    BY <2>1 DEF Ordered, LiveIn, FitIn, AscendIn
<1> QED
  BY <1>2, <1>3, <1>5 DEF Init, IInv, Mirroring

\* The cluster changes, or the direct List fails: the tailers stay as they are.
LEMMA RestKeeps ==
  ASSUME IInv, UNCHANGED <<seen, unseen, listed, tailers, tail>>, TypeOK',
         \A p \in Pods : changes[p] <= changes'[p],
         phase' = phase \/ (phase = "start" /\ phase' = "panic")
  PROVE  IInv'
<1>1. TypeOK /\ Lagging /\ Mirroring /\ \A p \in Pods : Ordered(p) /\ Known(p)' = Known(p)
  BY DEF IInv, Known
<1>2. \A p \in Pods : changes'[p] \in Nat
  BY InRange DEF TypeOK
<1>3. Lagging'
  BY <1>1, <1>2, Ranges DEF Lagging
<1>4. \A p \in Pods : Ordered(p)' /\ (Mirrors(p) => Mirrors(p)')
  BY <1>1, Ranges, KeptOrdered, KeptMirrors DEF Kept
<1> QED
  BY <1>1, <1>3, <1>4 DEF IInv, Mirroring

LEMMA ClusterKeeps ==
  ASSUME IInv, NEW p \in Pods, Change(p) \/ BecomeReady(p)
  PROVE  IInv'
<1>1. TypeOK
  BY DEF IInv
<1>2. CASE Change(p)
  <2>1. changes[p] + 1 \in Positions
    BY <1>1, <1>2, ConstantsAssumption DEF Change, TypeOK, Positions
  <2>2. TypeOK'
    BY <1>1, <1>2, <2>1 DEF Change, TypeOK, Positions, Tailers, Incarnations, Incarnation
  <2>3. \A q \in Pods : changes[q] <= changes'[q]
    BY <1>1, <1>2, Ranges DEF Change, TypeOK
  <2> QED
    BY <1>2, <2>2, <2>3, RestKeeps DEF Change
<1>3. CASE BecomeReady(p)
  <2>1. TypeOK'
    BY <1>1, <1>3 DEF BecomeReady, TypeOK, Positions, Tailers, Incarnations, Incarnation
  <2> QED
    BY <1>1, <1>3, <2>1, Ranges, RestKeeps DEF BecomeReady
<1> QED
  BY <1>2, <1>3

LEMMA ListFailsKeeps ==
  ASSUME IInv, ListFails
  PROVE  IInv'
<1>1. TypeOK'
  BY DEF IInv, ListFails, clusterVars, TypeOK, Positions, Tailers, Incarnations, Incarnation
<1>2. \A p \in Pods : changes[p] <= changes'[p]
  BY Ranges DEF IInv, ListFails, clusterVars
<1> QED
  BY <1>1, <1>2, RestKeeps DEF ListFails, clusterVars

LEMMA NextKeeps == IInv /\ [Next]_vars => IInv'
<1> SUFFICES ASSUME IInv, [Next]_vars PROVE IInv'
  OBVIOUS
<1>1. CASE List \/ ListFails \/ StartInformer \/ Relist
  BY <1>1, ListKeeps, ListFailsKeeps, StartInformerKeeps, RelistKeeps
<1>2. ASSUME NEW p \in Pods, Change(p) \/ BecomeReady(p) \/ Watch(p)
      PROVE  IInv'
  BY <1>2, ClusterKeeps, WatchAddKeeps, WatchDeleteKeeps
<1>3. ASSUME NEW p \in Pods, NEW k \in 1..Len(tail[p]),
             Tailer(p, k) \/ GetLogsFails(p, k) \/ StreamEnds(p, k) \/ StreamFails(p, k)
      PROVE  IInv'
  <2>1. PICK u : Moves(p, tail[p][k], u) /\ Becomes(p, k, u)
    BY <1>3, TailerMoves DEF IInv
  <2> QED
    BY <2>1, MoveKeeps
<1>4. CASE UNCHANGED vars
  <2>1. TypeOK'
    BY <1>4 DEF IInv, vars, TypeOK, Positions, Tailers, Incarnations, Incarnation
  <2>2. \A p \in Pods : changes[p] <= changes'[p]
    BY <1>4, Ranges DEF IInv, vars
  <2> QED
    BY <1>4, <2>1, <2>2, RestKeeps DEF vars
<1> QED
  BY <1>1, <1>2, <1>3, <1>4 DEF Next

-----------------------------------------------------------------------------
(* The theorems                                                              *)

\* The invariant of ktail/controller.go and the loop of ktail/tailer.go: the map,
\* the tailers and the view fit together.
THEOREM Invariant == Spec => []IInv
  BY InitInvariant, NextKeeps, PTL DEF Spec

\* Every state of a Controller and its tailers is well typed, whatever the history
\* of the pods.
THEOREM TypeCorrect == Spec => []TypeOK
<1>1. IInv => TypeOK
  BY DEF IInv
<1> QED
  BY <1>1, Invariant, PTL

\* addContainer and deleteContainer keep the map and the goroutines together: the
\* only tailer of a key that has not been told to stop is the one in the map.
THEOREM OneLiveTailerAlways == Spec => []OneLiveTailer
<1>1. IInv => OneLiveTailer
  BY DEF IInv, Ordered, LiveIn, OneLiveTailer
<1> QED
  BY <1>1, Invariant, PTL

\* While the informer has missed nothing of a pod, the key of its container has a
\* tailer, of the incarnation in the view, exactly when the view has the pod.
THEOREM MapMirrorsViewAlways == Spec => []MapMirrorsView
<1>1. IInv => MapMirrorsView
  BY DEF IInv, Mirroring, Mirrors, Known, MapMirrorsView
<1> QED
  BY <1>1, Invariant, PTL

\* onDelete stops tailers of incarnations that are gone only, unless the informer
\* has started from a view older than the direct List.
THEOREM StopOnlyDeadAlways == Spec => []StopOnlyDead
<1>1. ASSUME IInv, NEW p \in Pods, unseen[p] # "past", NEW k \in 1..Len(tail[p]), tail[p][k].stop
      PROVE  tail[p][k].of < Incarnation(changes[p]) \/ ~Up(changes[p])
  <2>1. 2 * tail[p][k].of <= Known(p)
    BY <1>1 DEF IInv, Ordered, FitIn, Fits
  <2>2. Known(p) <= changes[p]
    BY <1>1 DEF IInv, Lagging, Known
  <2>3. Known(p) \in Nat /\ changes[p] \in Nat /\ tail[p][k].of \in Nat
    BY <1>1, Ranges, TailerTyped DEF IInv
  <2>4. /\ Incarnation(changes[p]) \in Nat
        /\ Up(changes[p]) => changes[p] + 1 = 2 * Incarnation(changes[p])
    BY <2>3, Positioned
  <2> QED
    BY <2>1, <2>2, <2>3, <2>4
<1>2. IInv => StopOnlyDead
  BY <1>1 DEF StopOnlyDead
<1> QED
  BY <1>2, Invariant, PTL

\* A line is only printed twice by two tailers when one of them is a straggler: a
\* tailer of an earlier incarnation, stopped before getStream had asked for the log.
THEOREM OnlyStragglersOverlapAlways == Spec => []OnlyStragglersOverlap
<1>1. ASSUME IInv, NEW p \in Pods, unseen[p] # "past",
             NEW j \in 1..Len(tail[p]), NEW k \in 1..Len(tail[p]), j < k,
             tail[p][j].pc = "stream", tail[p][k].pc = "stream",
             tail[p][j].reading = tail[p][k].reading
      PROVE  tail[p][j].stop /\ tail[p][j].of < tail[p][j].reading
  <2>1. tail[p][j].of < tail[p][k].of
    BY <1>1 DEF IInv, Ordered, AscendIn
  <2>2. tail[p][k].of <= tail[p][k].reading
    BY <1>1 DEF IInv, Ordered, FitIn, Fits
  <2>3. /\ tail[p][j].of \in Nat /\ tail[p][k].of \in Nat /\ tail[p][k].reading \in Nat
        /\ Len(tail[p]) \in Nat
    BY <1>1, TailerTyped, Ranges DEF IInv
  <2>4. tail[p][j].stop
    <3>1. tailers[p] # j
      BY <1>1, <2>3 DEF IInv, Ordered, LiveIn
    <3> QED
      BY <1>1, <3>1 DEF IInv, Ordered, LiveIn
  <2> QED
    BY <1>1, <2>1, <2>2, <2>3, <2>4
<1>2. ASSUME IInv, NEW p \in Pods, unseen[p] # "past",
             NEW j \in 1..Len(tail[p]), NEW k \in 1..Len(tail[p]), j # k,
             tail[p][j].pc = "stream", tail[p][k].pc = "stream",
             tail[p][j].reading = tail[p][k].reading
      PROVE  \E l \in {j, k} : tail[p][l].stop /\ tail[p][l].of < tail[p][l].reading
  <2>1. j < k \/ k < j
    BY <1>2
  <2> QED
    BY <1>1, <1>2, <2>1
<1>3. IInv => OnlyStragglersOverlap
  BY <1>2 DEF OnlyStragglersOverlap
<1> QED
  BY <1>3, Invariant, PTL

\* Only pods that were not in the direct List are read from their beginning
\* (newlyCreatedPod of NewContainerTailer).
THEOREM HistoryOnlyForNewPodsAlways == Spec => []HistoryOnlyForNewPods
<1>1. IInv => HistoryOnlyForNewPods
  BY DEF IInv, Ordered, FitIn, Fits, HistoryOnlyForNewPods
<1> QED
  BY <1>1, Invariant, PTL
=============================================================================

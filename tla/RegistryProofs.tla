--------------------------- MODULE RegistryProofs ---------------------------
(***************************************************************************)
(* Proofs about Registry: for any number of requests, names and services,   *)
(* however the handlers interleave and whenever the process crashes, the    *)
(* registry is one atomic map.                                              *)
(***************************************************************************)
EXTENDS Registry, TLAPS

-----------------------------------------------------------------------------
(* The inductive invariant                                                   *)

\* between Lock and the deferred Unlock
Inside(r) == pc[r] \in {"locked", "making", "storing", "ranging"}

\* The mutex is held by the one request that is between Lock and Unlock.
Exclusive == \A r \in Requests : Inside(r) <=> mutex = r

\* What the handler of a request has found out still holds while it is inside: the
\* map that was not there still is not, and an entry is only stored in one that is.
Making(r) ==
  /\ pc[r] \in {"making", "storing"} => ask[r].op = "put"
  /\ pc[r] = "making" => ~made
  /\ pc[r] = "storing" => made

\* A list request has gathered the entries that it has not still to go over.
Ranging(r) ==
  pc[r] = "ranging" =>
    /\ ask[r].op = "list"
    /\ left[r] \subseteq DOMAIN services
    /\ answer[r].found = {<<n, services[n]>> : n \in DOMAIN services \ left[r]}

\* No handler panics, and a request is not answered before it is.
Silent(r) ==
  /\ pc[r] # "panic"
  /\ pc[r] \notin {"ranging", "answered"} => answer[r] = NoAnswer

Sound(r) == Making(r) /\ Ranging(r) /\ Silent(r)

IInv == TypeOK /\ Exclusive /\ \A r \in Requests : Sound(r)

-----------------------------------------------------------------------------
(* The types                                                                 *)

PCs == {"new", "waiting", "locked", "making", "storing", "ranging", "answered", "panic", "lost"}
Codes == {"none", "200", "204", "404"}

LEMMA AskTyped ==
  ASSUME TypeOK, NEW r \in Requests
  PROVE  /\ ask[r] \in Asks /\ ask[r].name \in Names /\ ask[r].body \in Bodies \cup {Null}
         /\ ask[r].op \in {"get", "list", "put", "delete"}
  BY ConstantsAssumption DEF TypeOK

LEMMA SomeHeld ==
  /\ {} \in Held
  /\ \A n \in Names : \A b \in Bodies \cup {Null} : {<<n, b>>} \in Held
  BY DEF Held

LEMMA EntriesHeld ==
  ASSUME TypeOK, NEW S \in SUBSET DOMAIN services
  PROVE  {<<n, services[n]>> : n \in S} \in Held
  BY DEF TypeOK, Held

LEMMA NoAnswerTyped == NoAnswer \in Answers /\ NoAnswer.found = {}
  BY SomeHeld DEF NoAnswer, Answers

LEMMA AnswerTyped ==
  ASSUME NEW code \in Codes, NEW found \in Held
  PROVE  [code |-> code, found |-> found] \in Answers
  BY DEF Answers, Codes

-----------------------------------------------------------------------------
(* What a step of one request leaves alone                                   *)

\* The requests but r, and what they have asked for, stay as they are.
OnlyOf(r) ==
  /\ ask' = ask
  /\ \A q \in Requests \ {r} : pc'[q] = pc[q] /\ left'[q] = left[q] /\ answer'[q] = answer[q]

\* Only a request inside touches the map, so that it is safe to be another.
LEMMA OthersSound ==
  ASSUME IInv, NEW r \in Requests, OnlyOf(r), Inside(r) \/ UNCHANGED <<made, services>>,
         NEW q \in Requests, q # r
  PROVE  Sound(q)'
<1>1. ask' = ask /\ pc'[q] = pc[q] /\ left'[q] = left[q] /\ answer'[q] = answer[q]
  BY DEF OnlyOf
<1>2. Sound(q) /\ (Inside(r) => ~Inside(q))
  BY DEF IInv, Exclusive
<1>3. Silent(q)'
  BY <1>1, <1>2 DEF Sound, Silent
<1>4. CASE ~Inside(q)
  BY <1>1, <1>3, <1>4 DEF Sound, Making, Ranging, Inside
<1>5. CASE UNCHANGED <<made, services>>
  BY <1>1, <1>2, <1>3, <1>5 DEF Sound, Making, Ranging
<1> QED
  BY <1>2, <1>4, <1>5

\* A request goes from one point to another.
LEMMA Gone ==
  ASSUME TypeOK, NEW r \in Requests, NEW to \in PCs, Goes(r, to)
  PROVE  /\ pc' \in [Requests -> PCs] /\ pc'[r] = to
         /\ \A q \in Requests \ {r} : pc'[q] = pc[q]
  BY DEF TypeOK, Goes, PCs

LEMMA Returned ==
  ASSUME TypeOK, Exclusive, NEW r \in Requests, Inside(r), NEW code \in Codes, NEW found \in Held,
         Return(r, code, found)
  PROVE  /\ pc' \in [Requests -> PCs] /\ pc'[r] = "answered"
         /\ answer' \in [Requests -> Answers] /\ answer'[r] = [code |-> code, found |-> found]
         /\ \A q \in Requests \ {r} : pc'[q] = pc[q] /\ answer'[q] = answer[q]
         /\ ask' = ask /\ mutex' = NoOne /\ Exclusive'
<1>1. /\ pc' \in [Requests -> PCs] /\ pc'[r] = "answered"
      /\ \A q \in Requests \ {r} : pc'[q] = pc[q]
  BY Gone DEF Return, PCs
<1>2. /\ answer' \in [Requests -> Answers] /\ answer'[r] = [code |-> code, found |-> found]
      /\ \A q \in Requests \ {r} : answer'[q] = answer[q]
  BY AnswerTyped DEF Return, TypeOK
<1>3. Exclusive'
  BY <1>1, ConstantsAssumption DEF Return, Exclusive, Inside
<1> QED
  BY <1>1, <1>2, <1>3 DEF Return

\* A request that is answered has nothing left to be sound about.
LEMMA AnsweredSound ==
  ASSUME NEW r \in Requests, pc'[r] = "answered"
  PROVE  Sound(r)'
  BY DEF Sound, Making, Ranging, Silent

-----------------------------------------------------------------------------
(* Every step keeps the invariant                                            *)

LEMMA InitInvariant == Init => IInv
<1> SUFFICES ASSUME Init PROVE IInv
  OBVIOUS
<1>1. TypeOK
  BY NoAnswerTyped DEF Init, TypeOK, Empty
<1>2. Exclusive
  BY ConstantsAssumption DEF Init, Exclusive, Inside
<1> QED
  BY <1>1, <1>2 DEF Init, IInv, Sound, Making, Ranging, Silent

LEMMA ArriveKeeps ==
  ASSUME IInv, NEW r \in Requests, Arrive(r)
  PROVE  IInv'
<1>1. /\ pc' \in [Requests -> PCs] /\ pc'[r] = "waiting"
      /\ \A q \in Requests \ {r} : pc'[q] = pc[q]
  BY Gone DEF IInv, Arrive, PCs
<1>2. TypeOK'
  BY <1>1 DEF IInv, Arrive, TypeOK, PCs
<1>3. Exclusive'
  BY <1>1 DEF IInv, Arrive, Exclusive, Inside
<1>4. \A q \in Requests \ {r} : Sound(q)'
  BY <1>1, OthersSound DEF Arrive, OnlyOf
<1>5. Sound(r)'
  BY <1>1 DEF IInv, Arrive, Sound, Making, Ranging, Silent
<1> QED
  BY <1>2, <1>3, <1>4, <1>5 DEF IInv

LEMMA LockKeeps ==
  ASSUME IInv, NEW r \in Requests, Lock(r)
  PROVE  IInv'
<1>1. /\ pc' \in [Requests -> PCs] /\ pc'[r] = "locked"
      /\ \A q \in Requests \ {r} : pc'[q] = pc[q]
  BY Gone DEF IInv, Lock, PCs
<1>2. TypeOK'
  BY <1>1 DEF IInv, Lock, TypeOK, PCs
<1>3. Exclusive'
  BY <1>1, ConstantsAssumption DEF IInv, Lock, Exclusive, Inside
<1>4. \A q \in Requests \ {r} : Sound(q)'
  BY <1>1, OthersSound DEF Lock, OnlyOf
<1>5. Sound(r)'
  BY <1>1 DEF IInv, Lock, Sound, Making, Ranging, Silent
<1> QED
  BY <1>2, <1>3, <1>4, <1>5 DEF IInv

\* What HandleGetOne answers is held.
LEMMA GetReturns ==
  ASSUME TypeOK, NEW r \in Requests, HandleGetOne(r)
  PROVE  \E code \in Codes : \E found \in Held : Return(r, code, found)
<1>1. \A b \in Bodies \cup {Null} : {<<ask[r].name, b>>} \in Held
  BY AskTyped, SomeHeld
<1>2. ask[r].name \in DOMAIN services => {<<ask[r].name, services[ask[r].name]>>} \in Held
  BY <1>1 DEF TypeOK
<1> QED
  BY <1>2, SomeHeld DEF HandleGetOne, Codes

LEMMA HandleGetOneKeeps ==
  ASSUME IInv, NEW r \in Requests, HandleGetOne(r)
  PROVE  IInv'
<1>1. TypeOK /\ Exclusive /\ Inside(r) /\ UNCHANGED <<made, services, left>>
  BY DEF IInv, HandleGetOne, Serves, Inside
<1>2. PICK code \in Codes, found \in Held : Return(r, code, found)
  BY <1>1, GetReturns
<1>3. /\ pc' \in [Requests -> PCs] /\ pc'[r] = "answered"
      /\ answer' \in [Requests -> Answers]
      /\ \A q \in Requests \ {r} : pc'[q] = pc[q] /\ answer'[q] = answer[q]
      /\ ask' = ask /\ mutex' = NoOne /\ Exclusive'
  BY <1>1, <1>2, Returned
<1>4. TypeOK'
  BY <1>1, <1>3 DEF TypeOK, PCs
<1>5. \A q \in Requests \ {r} : Sound(q)'
  BY <1>1, <1>3, OthersSound DEF OnlyOf
<1> QED
  BY <1>3, <1>4, <1>5, AnsweredSound DEF IInv

LEMMA HandleDestroyOneKeeps ==
  ASSUME IInv, NEW r \in Requests, HandleDestroyOne(r)
  PROVE  IInv'
<1>1. /\ TypeOK /\ Exclusive /\ Inside(r) /\ UNCHANGED <<made, left>>
      /\ services' = [n \in DOMAIN services \ {ask[r].name} |-> services[n]]
      /\ Return(r, "204", {})
  BY DEF IInv, HandleDestroyOne, Serves, Inside
<1>2. /\ pc' \in [Requests -> PCs] /\ pc'[r] = "answered"
      /\ answer' \in [Requests -> Answers]
      /\ \A q \in Requests \ {r} : pc'[q] = pc[q] /\ answer'[q] = answer[q]
      /\ ask' = ask /\ mutex' = NoOne /\ Exclusive'
  BY <1>1, Returned, SomeHeld DEF Codes
<1>3. TypeOK'
  BY <1>1, <1>2 DEF TypeOK, PCs
<1>4. \A q \in Requests \ {r} : Sound(q)'
  BY <1>1, <1>2, OthersSound DEF OnlyOf
<1> QED
  BY <1>2, <1>3, <1>4, AnsweredSound DEF IInv

LEMMA CheckMapKeeps ==
  ASSUME IInv, NEW r \in Requests, CheckMap(r)
  PROVE  IInv'
<1> DEFINE to == IF made THEN "storing" ELSE "making"
<1>1. /\ pc' \in [Requests -> PCs] /\ pc'[r] = to
      /\ \A q \in Requests \ {r} : pc'[q] = pc[q]
  BY Gone DEF IInv, CheckMap, PCs
<1>2. TypeOK'
  BY <1>1 DEF IInv, CheckMap, TypeOK, PCs
<1>3. Exclusive'
  BY <1>1 DEF IInv, CheckMap, Serves, Exclusive, Inside
<1>4. \A q \in Requests \ {r} : Sound(q)'
  BY <1>1, OthersSound DEF CheckMap, OnlyOf
<1>5. Sound(r)'
  BY <1>1 DEF IInv, CheckMap, Serves, Sound, Making, Ranging, Silent
<1> QED
  BY <1>2, <1>3, <1>4, <1>5 DEF IInv

LEMMA MakeMapKeeps ==
  ASSUME IInv, NEW r \in Requests, MakeMap(r)
  PROVE  IInv'
<1>1. /\ pc' \in [Requests -> PCs] /\ pc'[r] = "storing"
      /\ \A q \in Requests \ {r} : pc'[q] = pc[q]
  BY Gone DEF IInv, MakeMap, PCs
<1>2. TypeOK'
  BY <1>1 DEF IInv, MakeMap, TypeOK, PCs, Empty
<1>3. Exclusive'
  BY <1>1 DEF IInv, MakeMap, Exclusive, Inside
<1>4. \A q \in Requests \ {r} : Sound(q)'
  BY <1>1, OthersSound DEF MakeMap, OnlyOf, Inside
<1>5. Sound(r)'
  BY <1>1 DEF IInv, MakeMap, Sound, Making, Ranging, Silent
<1> QED
  BY <1>2, <1>3, <1>4, <1>5 DEF IInv

LEMMA StoreKeeps ==
  ASSUME IInv, NEW r \in Requests, Store(r)
  PROVE  IInv'
<1> DEFINE n == ask[r].name
<1>1. /\ TypeOK /\ Exclusive /\ Inside(r) /\ made /\ UNCHANGED <<made, left>>
      /\ services' = [m \in DOMAIN services \cup {n} |-> IF m = n THEN ask[r].body ELSE services[m]]
      /\ Return(r, "200", {<<n, ask[r].body>>})
  BY DEF IInv, Sound, Making, Store, Inside
<1>2. n \in Names /\ ask[r].body \in Bodies \cup {Null}
  BY <1>1, AskTyped
<1> HIDE DEF n
<1>3. /\ pc' \in [Requests -> PCs] /\ pc'[r] = "answered"
      /\ answer' \in [Requests -> Answers]
      /\ \A q \in Requests \ {r} : pc'[q] = pc[q] /\ answer'[q] = answer[q]
      /\ ask' = ask /\ mutex' = NoOne /\ Exclusive'
  BY <1>1, <1>2, Returned, SomeHeld DEF Codes
<1>4. TypeOK'
  BY <1>1, <1>2, <1>3 DEF TypeOK, PCs
<1>5. \A q \in Requests \ {r} : Sound(q)'
  BY <1>1, <1>3, OthersSound DEF OnlyOf
<1> QED
  BY <1>3, <1>4, <1>5, AnsweredSound DEF IInv

LEMMA StartListKeeps ==
  ASSUME IInv, NEW r \in Requests, StartList(r)
  PROVE  IInv'
<1>1. /\ pc' \in [Requests -> PCs] /\ pc'[r] = "ranging"
      /\ \A q \in Requests \ {r} : pc'[q] = pc[q]
  BY Gone DEF IInv, StartList, PCs
<1>2. /\ left' \in [Requests -> SUBSET Names] /\ left'[r] = DOMAIN services
      /\ \A q \in Requests \ {r} : left'[q] = left[q]
  BY DEF IInv, TypeOK, StartList
<1>3. TypeOK'
  BY <1>1, <1>2 DEF IInv, StartList, TypeOK, PCs
<1>4. Exclusive'
  BY <1>1 DEF IInv, StartList, Serves, Exclusive, Inside
<1>5. \A q \in Requests \ {r} : Sound(q)'
  BY <1>1, <1>2, OthersSound DEF StartList, OnlyOf
<1>6. Sound(r)'
  <2>1. answer'[r].found = {} /\ ask'[r].op = "list" /\ services' = services
    BY NoAnswerTyped DEF IInv, StartList, Serves, Sound, Silent
  <2> QED
    BY <1>1, <1>2, <2>1 DEF Sound, Making, Ranging, Silent
<1> QED
  BY <1>3, <1>4, <1>5, <1>6 DEF IInv

LEMMA ListNextKeeps ==
  ASSUME IInv, NEW r \in Requests, ListNext(r)
  PROVE  IInv'
<1>1. PICK n \in left[r] :
        /\ left' = [left EXCEPT ![r] = @ \ {n}]
        /\ answer' = IF n \in DOMAIN services
                     THEN [answer EXCEPT ![r].found = @ \cup {<<n, services[n]>>}]
                     ELSE answer
  BY DEF ListNext
<1>2. /\ TypeOK /\ Ranging(r) /\ pc[r] = "ranging" /\ n \in DOMAIN services
      /\ left[r] \subseteq DOMAIN services
      /\ UNCHANGED <<ask, made, services, mutex, pc>>
  BY DEF IInv, Sound, Ranging, ListNext
<1>3. /\ left' \in [Requests -> SUBSET Names] /\ left'[r] = left[r] \ {n}
      /\ \A q \in Requests \ {r} : left'[q] = left[q]
  BY <1>1, <1>2 DEF TypeOK
<1> DEFINE more == answer[r].found \cup {<<n, services[n]>>}
<1>4. more = {<<m, services[m]>> : m \in DOMAIN services \ left'[r]}
  BY <1>1, <1>2, <1>3 DEF Ranging
<1>5. more \in Held
  BY <1>2, <1>4, EntriesHeld
<1> HIDE DEF more
<1>6. /\ answer' = [answer EXCEPT ![r].found = more]
      /\ answer' \in [Requests -> Answers] /\ answer'[r].found = more
      /\ \A q \in Requests \ {r} : answer'[q] = answer[q]
  <2>1. answer' = [answer EXCEPT ![r].found = more]
    BY <1>1, <1>2 DEF more
  <2>2. answer \in [Requests -> Answers]
    BY <1>2 DEF TypeOK
  <2>3. [answer[r] EXCEPT !.found = more] \in Answers /\ [answer[r] EXCEPT !.found = more].found = more
    BY <1>5, <2>2 DEF Answers
  <2> QED
    BY <2>1, <2>2, <2>3
<1>7. TypeOK'
  BY <1>2, <1>3, <1>6 DEF TypeOK
<1>8. Exclusive'
  BY <1>2 DEF IInv, Exclusive, Inside
<1>9. \A q \in Requests \ {r} : Sound(q)'
  BY <1>2, <1>3, <1>6, OthersSound DEF OnlyOf
<1>10. Sound(r)'
  BY <1>2, <1>3, <1>4, <1>6 DEF Sound, Making, Ranging, Silent
<1> QED
  BY <1>7, <1>8, <1>9, <1>10 DEF IInv

\* What a list request is answered is what the map holds.
LEMMA ListReturns ==
  ASSUME IInv, NEW r \in Requests, EndList(r)
  PROVE  /\ answer[r].found = {<<n, services[n]>> : n \in DOMAIN services}
         /\ answer[r].found \in Held /\ ask[r].op = "list"
         /\ Return(r, "200", answer[r].found) /\ UNCHANGED <<made, services, left>>
<1>1. /\ TypeOK /\ ask[r].op = "list"
      /\ answer[r].found = {<<n, services[n]>> : n \in DOMAIN services \ left[r]}
      /\ left[r] = {}
  BY DEF IInv, Sound, Ranging, EndList
<1>2. DOMAIN services \ left[r] = DOMAIN services
  BY <1>1
<1>3. answer[r].found = {<<n, services[n]>> : n \in DOMAIN services}
  BY <1>1, <1>2
<1>4. answer[r].found \in Held
  BY <1>1, <1>3, EntriesHeld
<1> QED
  BY <1>1, <1>3, <1>4 DEF EndList

LEMMA EndListKeeps ==
  ASSUME IInv, NEW r \in Requests, EndList(r)
  PROVE  IInv'
<1>1. /\ TypeOK /\ Exclusive /\ Inside(r) /\ UNCHANGED <<made, services, left>>
      /\ answer[r].found \in Held /\ Return(r, "200", answer[r].found)
  BY ListReturns DEF IInv, EndList, Inside
<1>2. /\ pc' \in [Requests -> PCs] /\ pc'[r] = "answered"
      /\ answer' \in [Requests -> Answers]
      /\ \A q \in Requests \ {r} : pc'[q] = pc[q] /\ answer'[q] = answer[q]
      /\ ask' = ask /\ mutex' = NoOne /\ Exclusive'
  BY <1>1, Returned DEF Codes
<1>3. TypeOK'
  BY <1>1, <1>2 DEF TypeOK, PCs
<1>4. \A q \in Requests \ {r} : Sound(q)'
  BY <1>1, <1>2, OthersSound DEF OnlyOf
<1> QED
  BY <1>2, <1>3, <1>4, AnsweredSound DEF IInv

LEMMA CrashKeeps ==
  ASSUME IInv, Crash
  PROVE  IInv'
<1>1. ASSUME NEW r \in Requests
      PROVE  /\ pc'[r] \in {"new", "answered", "lost"}
             /\ pc'[r] = "answered" => pc[r] = "answered"
             /\ answer'[r] = IF pc[r] = "answered" THEN answer[r] ELSE NoAnswer
             /\ pc[r] = "answered" => pc'[r] = "answered"
  BY DEF IInv, Sound, Silent, Crash
<1>2. TypeOK'
  BY <1>1, NoAnswerTyped DEF IInv, Crash, TypeOK, Empty
<1>3. Exclusive'
  BY <1>1, ConstantsAssumption DEF Crash, Exclusive, Inside
<1>4. \A r \in Requests : Sound(r)'
  BY <1>1 DEF Sound, Making, Ranging, Silent
<1> QED
  BY <1>2, <1>3, <1>4 DEF IInv

LEMMA NextKeeps == IInv /\ [Next]_vars => IInv'
<1> SUFFICES ASSUME IInv, [Next]_vars PROVE IInv'
  OBVIOUS
<1>1. CASE Crash
  BY <1>1, CrashKeeps
<1>2. ASSUME NEW r \in Requests, Arrive(r) \/ Handle(r)
      PROVE  IInv'
  BY <1>2, ArriveKeeps, LockKeeps, HandleGetOneKeeps, HandleDestroyOneKeeps, CheckMapKeeps,
     MakeMapKeeps, StoreKeeps, StartListKeeps, ListNextKeeps, EndListKeeps DEF Handle
<1>3. CASE UNCHANGED vars
  BY <1>3 DEF IInv, vars, TypeOK, Exclusive, Inside, Sound, Making, Ranging, Silent
<1> QED
  BY <1>1, <1>2, <1>3 DEF Next

\* The invariant of restapi/impl.go: the mutex is held by whoever is inside, and what
\* a handler has found out under it stays true.
THEOREM Invariant == Spec => []IInv
  BY InitInvariant, NextKeeps, PTL DEF Spec

\* Every state of the registry is well typed: the map holds services under names,
\* and a map that was never made, or was lost in a crash, holds nothing.
THEOREM TypeCorrect == Spec => []TypeOK
<1>1. IInv => TypeOK
  BY DEF IInv
<1> QED
  BY <1>1, Invariant, PTL

\* The mutex of restapi/impl.go does what it is for: no two requests are between
\* Lock and Unlock, and no handler assigns to an entry of a nil map and panics.
MutualExclusion ==
  /\ \A q, r \in Requests : Inside(q) /\ Inside(r) => q = r
  /\ \A r \in Requests : pc[r] # "panic"

THEOREM MutualExclusionAlways == Spec => []MutualExclusion
<1>1. IInv => MutualExclusion
  BY DEF IInv, Exclusive, Sound, Silent, MutualExclusion
<1> QED
  BY <1>1, Invariant, PTL
-----------------------------------------------------------------------------
(* The registry implements the abstract map, step by step                     *)

Entry(n) == IF n \in DOMAIN services THEN services[n] ELSE Absent

\* The abstract map, the stages and the answers that RegistrySpec sees.
TheStore == [n \in Names |-> Entry(n)]

StageOf(r) ==
  IF pc[r] = "new" THEN "new" ELSE IF pc[r] \in {"answered", "lost"} THEN pc[r] ELSE "pending"

TheStages == [r \in Requests |-> StageOf(r)]

AnswerOf(r) == IF pc[r] = "answered" THEN answer[r] ELSE NoAnswer

TheAnswers == [r \in Requests |-> AnswerOf(r)]

\* A step that the clients of the abstract map do not see.
Unseen == ask' = ask /\ TheStore' = TheStore /\ TheStages' = TheStages /\ TheAnswers' = TheAnswers

LEMMA UnseenStutters ==
  ASSUME Unseen
  PROVE  UNCHANGED Abstract!vars
  BY DEF Unseen, Abstract!vars, TheStore, TheStages, TheAnswers, StageOf, AnswerOf, Entry

LEMMA Applies ==
  ASSUME NEW r \in Requests, ask' = ask, StageOf(r) = "pending",
         TheStages' = [TheStages EXCEPT ![r] = "answered"],
         TheStore' = Abstract!Applied(r, TheStore),
         TheAnswers' = [TheAnswers EXCEPT ![r] = Abstract!AnswerFrom(r, TheStore)]
  PROVE  Abstract!Apply(r)
  BY DEF Abstract!Apply, TheStore, TheStages, TheAnswers, StageOf, AnswerOf, Entry

\* A request that goes on shows one stage and one answer.
LEMMA ShowsOne ==
  ASSUME NEW r \in Requests,
         \A q \in Requests \ {r} : pc'[q] = pc[q] /\ (pc[q] = "answered" => answer'[q] = answer[q])
  PROVE  /\ TheStages' = [TheStages EXCEPT ![r] = StageOf(r)']
         /\ TheAnswers' = [TheAnswers EXCEPT ![r] = AnswerOf(r)']
<1>1. \A q \in Requests \ {r} : StageOf(q)' = StageOf(q) /\ AnswerOf(q)' = AnswerOf(q)
  BY DEF StageOf, AnswerOf
<1> QED
  BY <1>1 DEF TheStages, TheAnswers

\* A step inside the handler, up to the answer, is not seen.
LEMMA InsideUnseen ==
  ASSUME NEW r \in Requests, ask' = ask, TheStore' = TheStore,
         \A q \in Requests \ {r} : pc'[q] = pc[q] /\ (pc[q] = "answered" => answer'[q] = answer[q]),
         StageOf(r) = "pending", StageOf(r)' = "pending"
  PROVE  UNCHANGED Abstract!vars
<1>1. /\ TheStages' = [TheStages EXCEPT ![r] = StageOf(r)']
      /\ TheAnswers' = [TheAnswers EXCEPT ![r] = AnswerOf(r)']
  BY ShowsOne
<1>2. TheStages[r] = StageOf(r) /\ TheAnswers[r] = AnswerOf(r) /\ AnswerOf(r)' = AnswerOf(r)
  BY DEF TheStages, TheAnswers, StageOf, AnswerOf
<1>3. TheStages' = TheStages /\ TheAnswers' = TheAnswers
  BY <1>1, <1>2 DEF TheStages, TheAnswers
<1> QED
  BY <1>3, UnseenStutters DEF Unseen

LEMMA InitImplements == Init => Abstract!Init
  BY DEF Init, Empty, Abstract!Init, NoAnswer, Abstract!NoAnswer

LEMMA ArriveImplements ==
  ASSUME IInv, NEW r \in Requests, Arrive(r)
  PROVE  Abstract!Arrive(r)
<1>1. /\ pc'[r] = "waiting" /\ pc[r] = "new" /\ \A q \in Requests \ {r} : pc'[q] = pc[q]
      /\ UNCHANGED <<ask, services, answer>>
  BY Gone DEF IInv, Arrive, PCs
<1>2. StageOf(r) = "new" /\ StageOf(r)' = "pending" /\ AnswerOf(r)' = AnswerOf(r)
  BY <1>1 DEF StageOf, AnswerOf
<1>3. /\ TheStages' = [TheStages EXCEPT ![r] = "pending"]
      /\ TheAnswers' = [TheAnswers EXCEPT ![r] = AnswerOf(r)]
  BY <1>1, <1>2, ShowsOne
<1>4. TheAnswers' = TheAnswers /\ TheStages[r] = "new" /\ TheStore' = TheStore
  BY <1>1, <1>2, <1>3 DEF TheAnswers, TheStages, TheStore, Entry
<1> QED
  BY <1>1, <1>3, <1>4
     DEF Abstract!Arrive, TheStore, TheStages, TheAnswers, StageOf, AnswerOf, Entry

\* Locking, testing and making the map, and going over its entries.
LEMMA QuietImplements ==
  ASSUME IInv, NEW r \in Requests,
         Lock(r) \/ CheckMap(r) \/ MakeMap(r) \/ StartList(r) \/ ListNext(r)
  PROVE  UNCHANGED Abstract!vars
<1>1. \A to \in PCs : Goes(r, to) =>
        pc'[r] = to /\ \A q \in Requests \ {r} : pc'[q] = pc[q]
  BY Gone DEF IInv
<1>2. TypeOK
  BY DEF IInv
<1>3. CASE Lock(r) \/ CheckMap(r) \/ StartList(r)
  <2>1. /\ UNCHANGED <<ask, services, answer>> /\ pc[r] \in {"waiting", "locked"}
        /\ pc'[r] \in {"locked", "making", "storing", "ranging"}
        /\ \A q \in Requests \ {r} : pc'[q] = pc[q]
    BY <1>1, <1>3 DEF Lock, CheckMap, StartList, Serves, PCs
  <2> QED
    BY <2>1, InsideUnseen DEF StageOf, TheStore, Entry
<1>4. CASE MakeMap(r)
  <2>1. /\ UNCHANGED <<ask, answer>> /\ pc[r] = "making" /\ pc'[r] = "storing"
        /\ \A q \in Requests \ {r} : pc'[q] = pc[q]
    BY <1>1, <1>4 DEF MakeMap, PCs
  <2>2. \A n \in Names : Entry(n)' = Entry(n)
    BY <1>2, <1>4 DEF IInv, TypeOK, Sound, Making, MakeMap, Empty, Entry
  <2> QED
    BY <2>1, <2>2, InsideUnseen DEF StageOf, TheStore
<1>5. CASE ListNext(r)
  <2>1. /\ UNCHANGED <<ask, services, pc>> /\ pc[r] = "ranging"
        /\ \A q \in Requests \ {r} : answer'[q] = answer[q]
    BY <1>2, <1>5 DEF ListNext, TypeOK
  <2> QED
    BY <2>1, InsideUnseen DEF StageOf, TheStore, Entry
<1> QED
  BY <1>3, <1>4, <1>5

\* Returning an answer is the instant at which a request takes effect.
LEMMA ReturnImplements ==
  ASSUME IInv, NEW r \in Requests, Inside(r), NEW code \in Codes, NEW found \in Held,
         Return(r, code, found),
         TheStore' = Abstract!Applied(r, TheStore),
         [code |-> code, found |-> found] = Abstract!AnswerFrom(r, TheStore)
  PROVE  Abstract!Apply(r)
<1>1. /\ pc'[r] = "answered" /\ answer'[r] = [code |-> code, found |-> found] /\ ask' = ask
      /\ \A q \in Requests \ {r} : pc'[q] = pc[q] /\ answer'[q] = answer[q]
  BY Returned DEF IInv
<1>2. /\ StageOf(r) = "pending" /\ StageOf(r)' = "answered"
      /\ AnswerOf(r)' = Abstract!AnswerFrom(r, TheStore)
  BY <1>1 DEF Inside, StageOf, AnswerOf
<1> QED
  BY <1>1, <1>2, ShowsOne, Applies

LEMMA StoreAt ==
  ASSUME TypeOK, NEW n \in Names
  PROVE  /\ TheStore[n] = Entry(n)
         /\ n \in DOMAIN services => Entry(n) = services[n] /\ Entry(n) # Absent
         /\ n \notin DOMAIN services => Entry(n) = Absent
  BY ConstantsAssumption DEF TypeOK, TheStore, Entry

LEMMA HandleGetOneImplements ==
  ASSUME IInv, NEW r \in Requests, HandleGetOne(r)
  PROVE  Abstract!Apply(r)
<1> DEFINE n == ask[r].name
<1>1. /\ TypeOK /\ Inside(r) /\ ask[r].op = "get" /\ services' = services /\ n \in Names
  BY AskTyped DEF IInv, HandleGetOne, Serves, Inside
<1>2. TheStore' = Abstract!Applied(r, TheStore)
  BY <1>1 DEF Abstract!Applied, TheStore, Entry
<1>3. /\ TheStore[n] = Entry(n)
      /\ n \in DOMAIN services => Entry(n) = services[n] /\ Entry(n) # Absent
      /\ n \notin DOMAIN services => Entry(n) = Absent
  BY <1>1, StoreAt
<1>4. n \in DOMAIN services => {<<n, services[n]>>} \in Held
  BY <1>1, SomeHeld DEF TypeOK
<1>5. PICK code \in Codes, found \in Held :
        /\ Return(r, code, found)
        /\ [code |-> code, found |-> found] =
             IF Entry(n) \in {Absent, Null} THEN [code |-> "404", found |-> {}]
                                            ELSE [code |-> "200", found |-> {<<n, Entry(n)>>}]
  BY <1>3, <1>4, SomeHeld DEF HandleGetOne, Codes
<1>6. [code |-> code, found |-> found] = Abstract!AnswerFrom(r, TheStore)
  BY <1>1, <1>3, <1>5 DEF Abstract!AnswerFrom
<1> QED
  BY <1>1, <1>2, <1>5, <1>6, ReturnImplements

LEMMA HandleDestroyOneImplements ==
  ASSUME IInv, NEW r \in Requests, HandleDestroyOne(r)
  PROVE  Abstract!Apply(r)
<1> DEFINE n == ask[r].name
<1>1. /\ TypeOK /\ Inside(r) /\ ask[r].op = "delete" /\ n \in Names
      /\ services' = [m \in DOMAIN services \ {n} |-> services[m]]
      /\ Return(r, "204", {})
  BY AskTyped DEF IInv, HandleDestroyOne, Serves, Inside
<1>2. TheStore' = [TheStore EXCEPT ![n] = Absent]
  BY <1>1 DEF TheStore, Entry
<1>3. TheStore' = Abstract!Applied(r, TheStore)
  BY <1>1, <1>2 DEF Abstract!Applied
<1>4. [code |-> "204", found |-> {}] = Abstract!AnswerFrom(r, TheStore)
  BY <1>1 DEF Abstract!AnswerFrom
<1> QED
  BY <1>1, <1>3, <1>4, SomeHeld, ReturnImplements DEF Codes

LEMMA StoreImplements ==
  ASSUME IInv, NEW r \in Requests, Store(r)
  PROVE  Abstract!Apply(r)
<1> DEFINE n == ask[r].name
           b == ask[r].body
<1>1. /\ TypeOK /\ Inside(r) /\ ask[r].op = "put" /\ n \in Names /\ b \in Bodies \cup {Null}
      /\ services' = [m \in DOMAIN services \cup {n} |-> IF m = n THEN b ELSE services[m]]
      /\ Return(r, "200", {<<n, b>>})
  BY AskTyped DEF IInv, Sound, Making, Store, Inside
<1>2. TheStore' = [TheStore EXCEPT ![n] = b]
  BY <1>1 DEF TheStore, Entry
<1>3. TheStore' = Abstract!Applied(r, TheStore)
  BY <1>1, <1>2 DEF Abstract!Applied
<1>4. [code |-> "200", found |-> {<<n, b>>}] = Abstract!AnswerFrom(r, TheStore)
  BY <1>1 DEF Abstract!AnswerFrom
<1> QED
  BY <1>1, <1>3, <1>4, SomeHeld, ReturnImplements DEF Codes

LEMMA EndListImplements ==
  ASSUME IInv, NEW r \in Requests, EndList(r)
  PROVE  Abstract!Apply(r)
<1>1. /\ TypeOK /\ Inside(r) /\ ask[r].op = "list" /\ services' = services
      /\ answer[r].found = {<<n, services[n]>> : n \in DOMAIN services}
      /\ answer[r].found \in Held /\ Return(r, "200", answer[r].found)
      /\ DOMAIN services \subseteq Names
  BY ListReturns DEF IInv, TypeOK, EndList, Inside
<1>2. TheStore' = Abstract!Applied(r, TheStore)
  BY <1>1 DEF Abstract!Applied, TheStore, Entry
<1>3. {k \in Names : TheStore[k] # Absent} = DOMAIN services
  BY <1>1, StoreAt
<1>4. \A k \in DOMAIN services : TheStore[k] = services[k]
  BY <1>1, StoreAt
<1>5. answer[r].found = {<<m, TheStore[m]>> : m \in {k \in Names : TheStore[k] # Absent}}
  BY <1>1, <1>3, <1>4
<1>6. [code |-> "200", found |-> answer[r].found] = Abstract!AnswerFrom(r, TheStore)
  BY <1>1, <1>5 DEF Abstract!AnswerFrom
<1> QED
  BY <1>1, <1>2, <1>6, ReturnImplements DEF Codes

LEMMA CrashImplements ==
  ASSUME IInv, Crash
  PROVE  Abstract!Crash
<1>1. TheStore' = [n \in Names |-> Absent]
  BY DEF Crash, Empty, TheStore, Entry
<1>2. ASSUME NEW r \in Requests
      PROVE  /\ StageOf(r)' = IF StageOf(r) = "pending" THEN "lost" ELSE StageOf(r)
             /\ AnswerOf(r)' = AnswerOf(r)
  BY DEF IInv, TypeOK, Sound, Silent, Crash, StageOf, AnswerOf
<1>3. /\ TheStages' = [r \in Requests |->
                        IF TheStages[r] = "pending" THEN "lost" ELSE TheStages[r]]
      /\ TheAnswers' = TheAnswers /\ ask' = ask
  BY <1>2 DEF TheStages, TheAnswers, Crash
<1> QED
  BY <1>1, <1>3 DEF Abstract!Crash, TheStore, TheStages, TheAnswers, StageOf, AnswerOf, Entry

LEMMA NextImplements == IInv /\ [Next]_vars => [Abstract!Next]_(Abstract!vars)
<1> SUFFICES ASSUME IInv, [Next]_vars PROVE Abstract!Next \/ UNCHANGED Abstract!vars
  OBVIOUS
<1>1. CASE Crash
  BY <1>1, CrashImplements DEF Abstract!Next
<1>2. ASSUME NEW r \in Requests, Arrive(r)
      PROVE  Abstract!Next
  BY <1>2, ArriveImplements DEF Abstract!Next
<1>3. ASSUME NEW r \in Requests, HandleGetOne(r) \/ HandleDestroyOne(r) \/ Store(r) \/ EndList(r)
      PROVE  Abstract!Next
  BY <1>3, HandleGetOneImplements, HandleDestroyOneImplements, StoreImplements, EndListImplements
     DEF Abstract!Next
<1>4. ASSUME NEW r \in Requests,
             Lock(r) \/ CheckMap(r) \/ MakeMap(r) \/ StartList(r) \/ ListNext(r)
      PROVE  UNCHANGED Abstract!vars
  BY <1>4, QuietImplements
<1>5. CASE UNCHANGED vars
  BY <1>5, UnseenStutters
     DEF vars, Unseen, TheStore, TheStages, TheAnswers, StageOf, AnswerOf, Entry
<1> QED
  BY <1>1, <1>2, <1>3, <1>4, <1>5 DEF Next, Handle

\* The handlers of restapi/impl.go implement one atomic map: every request takes
\* effect at the instant its handler returns, and a crash empties the map.
THEOREM LinearizableAlways == Spec => Linearizable
<1>1. Init => Abstract!Init
  BY InitImplements
<1>2. IInv /\ [Next]_vars => [Abstract!Next]_(Abstract!vars)
  BY NextImplements
<1> QED
  BY <1>1, <1>2, Invariant, PTL DEF Spec, Linearizable, Abstract!Spec
=============================================================================

------------------------------ MODULE Registry ------------------------------
(***************************************************************************)
(* restapi/impl.go: the handlers of the registry, each on the goroutine of  *)
(* its request, step by step between Lock and Unlock; and the crash of the  *)
(* process that holds the map.                                              *)
(*                                                                         *)
(* A request is bound and validated before its handler runs (BindRequest):  *)
(* a PUT carries a service, or no body at all, which is Null here.          *)
(***************************************************************************)
EXTENDS Integers, FiniteSets

CONSTANTS Requests, Names, Bodies, Null, Absent,
  Asks,    \* what a request may ask for: [op, name, body]
  NoOne    \* the holder of the free mutex

ASSUME ConstantsAssumption ==
  /\ NoOne \notin Requests
  /\ Null \notin Bodies /\ Absent \notin Bodies \cup {Null}
  /\ Asks \subseteq [op : {"get", "list", "put", "delete"}, name : Names, body : Bodies \cup {Null}]

VARIABLES
  ask,       \* what each request asks for, fixed before it is sent
  made,      \* i.services is not nil
  services,  \* the entries of i.services: a function on some of the names
  mutex,     \* the request whose handler holds the lock
  pc,        \* where the goroutine of each request is
  left,      \* the names a list request has still to go over
  answer     \* what the handler of each request has returned, or gathered so far

vars == <<ask, made, services, mutex, pc, left, answer>>

Held == {s \in SUBSET (Names \X (Bodies \cup {Null})) :
           \A x, y \in s : x[1] = y[1] => x = y}

Answers == [code : {"none", "200", "204", "404"}, found : Held]
NoAnswer == [code |-> "none", found |-> {}]

\* the types, and the holder of the mutex is a handler that is still at work
TypeOK ==
  /\ ask \in [Requests -> Asks]
  /\ made \in BOOLEAN
  /\ DOMAIN services \subseteq Names
  /\ \A n \in DOMAIN services : services[n] \in Bodies \cup {Null}
  /\ ~made => DOMAIN services = {}
  /\ mutex \in Requests \cup {NoOne}
  /\ pc \in [Requests -> {"new", "waiting", "locked", "making", "storing", "ranging",
                          "answered", "panic", "lost"}]
  /\ left \in [Requests -> SUBSET Names]
  /\ answer \in [Requests -> Answers]
  /\ mutex # NoOne => pc[mutex] \in {"locked", "making", "storing", "ranging"}

Empty == [n \in {} |-> Null]

Init ==
  /\ ask \in [Requests -> Asks]
  /\ made = FALSE
  /\ services = Empty
  /\ mutex = NoOne
  /\ pc = [r \in Requests |-> "new"]
  /\ left = [r \in Requests |-> {}]
  /\ answer = [r \in Requests |-> NoAnswer]

Goes(r, to) == pc' = [pc EXCEPT ![r] = to]

\* the server hands the bound request to a goroutine
Arrive(r) ==
  /\ pc[r] = "new"
  /\ Goes(r, "waiting")
  /\ UNCHANGED <<ask, made, services, mutex, left, answer>>

\* Mutant: the handlers do not wait for the mutex.
LockNothing(r) ==
  /\ pc[r] = "waiting"
  /\ mutex' = r
  /\ Goes(r, "locked")
  /\ UNCHANGED <<ask, made, services, left, answer>>

\* i.Lock()
Lock(r) ==
  /\ pc[r] = "waiting" /\ mutex = NoOne
  /\ mutex' = r
  /\ Goes(r, "locked")
  /\ UNCHANGED <<ask, made, services, left, answer>>

\* Mutant: the lock is kept (no deferred Unlock).
ReturnLocked(r, code, found) ==
  /\ answer' = [answer EXCEPT ![r] = [code |-> code, found |-> found]]
  /\ Goes(r, "answered")
  /\ UNCHANGED <<ask, mutex>>

\* the handler returns its responder, and the deferred i.Unlock() runs
Return(r, code, found) ==
  /\ answer' = [answer EXCEPT ![r] = [code |-> code, found |-> found]]
  /\ Goes(r, "answered")
  /\ mutex' = NoOne
  /\ UNCHANGED ask

Serves(r, op) == pc[r] = "locked" /\ ask[r].op = op

\* Mutant: the early return for a name that is not there comes before the Unlock.
HandleGetOneKeepsLock(r) ==
  /\ Serves(r, "get")
  /\ LET n == ask[r].name IN
     \/ n \notin DOMAIN services /\ ReturnLocked(r, "404", {})
     \/ n \in DOMAIN services /\ services[n] = Null /\ Return(r, "404", {})
     \/ n \in DOMAIN services /\ services[n] # Null /\ Return(r, "200", {<<n, services[n]>>})
  /\ UNCHANGED <<made, services, left>>

HandleGetOne(r) ==
  /\ Serves(r, "get")
  /\ LET n == ask[r].name IN
     \/ n \notin DOMAIN services /\ Return(r, "404", {})
     \/ n \in DOMAIN services /\ services[n] = Null /\ Return(r, "404", {})
     \/ n \in DOMAIN services /\ services[n] # Null /\ Return(r, "200", {<<n, services[n]>>})
  /\ UNCHANGED <<made, services, left>>

\* delete(i.services, param.Name): no error if there is none, or no map
HandleDestroyOne(r) ==
  /\ Serves(r, "delete")
  /\ services' = [n \in DOMAIN services \ {ask[r].name} |-> services[n]]
  /\ Return(r, "204", {})
  /\ UNCHANGED <<made, left>>

\* HandleUpdateOne: if i.services == nil
CheckMap(r) ==
  /\ Serves(r, "put")
  /\ Goes(r, IF made THEN "storing" ELSE "making")
  /\ UNCHANGED <<ask, made, services, mutex, left, answer>>

\* HandleUpdateOne: i.services = map[string]*models.Service{}
MakeMap(r) ==
  /\ pc[r] = "making"
  /\ made' = TRUE /\ services' = Empty
  /\ Goes(r, "storing")
  /\ UNCHANGED <<ask, mutex, left, answer>>

\* HandleUpdateOne: i.services[param.Name] = param.Body; an assignment to an
\* entry of a nil map panics, and the deferred Unlock still runs
Store(r) ==
  /\ pc[r] = "storing"
  /\ LET n == ask[r].name IN
     \/ /\ made
        /\ services' = [m \in DOMAIN services \cup {n} |-> IF m = n THEN ask[r].body ELSE services[m]]
        /\ Return(r, "200", {<<n, ask[r].body>>})
     \/ /\ ~made
        /\ Goes(r, "panic") /\ mutex' = NoOne
        /\ UNCHANGED <<ask, services, answer>>
  /\ UNCHANGED <<made, left>>

\* HandleListServices: range i.services starts
StartList(r) ==
  /\ Serves(r, "list")
  /\ left' = [left EXCEPT ![r] = DOMAIN services]
  /\ Goes(r, "ranging")
  /\ UNCHANGED <<ask, made, services, mutex, answer>>

\* HandleListServices: the next entry, in any order; an entry that has gone in
\* the meantime is passed over
ListNext(r) ==
  /\ pc[r] = "ranging"
  /\ \E n \in left[r] :
       /\ left' = [left EXCEPT ![r] = @ \ {n}]
       /\ answer' = IF n \in DOMAIN services
                    THEN [answer EXCEPT ![r].found = @ \cup {<<n, services[n]>>}]
                    ELSE answer
  /\ UNCHANGED <<ask, made, services, mutex, pc>>

EndList(r) ==
  /\ pc[r] = "ranging" /\ left[r] = {}
  /\ Return(r, "200", answer[r].found)
  /\ UNCHANGED <<made, services, left>>

\* The process ends and is started again: the map is gone, and so is every
\* request that has not been answered.
Crash ==
  /\ made' = FALSE /\ services' = Empty
  /\ mutex' = NoOne
  /\ left' = [r \in Requests |-> {}]
  /\ pc' = [r \in Requests |->
       IF pc[r] \in {"new", "answered", "panic", "lost"} THEN pc[r] ELSE "lost"]
  /\ answer' = [r \in Requests |-> IF pc[r] = "answered" THEN answer[r] ELSE NoAnswer]
  /\ UNCHANGED ask

Handle(r) ==
  \/ Lock(r)
  \/ HandleGetOne(r)
  \/ HandleDestroyOne(r)
  \/ CheckMap(r) \/ MakeMap(r) \/ Store(r)
  \/ StartList(r) \/ ListNext(r) \/ EndList(r)

Next == Crash \/ \E r \in Requests : Arrive(r) \/ Handle(r)

Spec == Init /\ [][Next]_vars

\* net/http runs the goroutine of every request it has accepted.
Fairness == \A r \in Requests : WF_vars(Handle(r))

FairSpec == Spec /\ Fairness
-----------------------------------------------------------------------------
(* Properties *)

Abstract == INSTANCE RegistrySpec WITH
  store  <- [n \in Names |-> IF n \in DOMAIN services THEN services[n] ELSE Absent],
  stage  <- [r \in Requests |->
               IF pc[r] = "new" THEN "new"
               ELSE IF pc[r] \in {"answered", "lost"} THEN pc[r] ELSE "pending"],
  answer <- [r \in Requests |-> IF pc[r] = "answered" THEN answer[r] ELSE NoAnswer]

\* The handlers implement one atomic map: whatever the requests in flight, each
\* takes effect at one instant and is answered from the map of that instant.
Linearizable == Abstract!Spec

\* Every request that has arrived is answered, unless the server crashes: no handler
\* keeps the mutex, or panics on a map that is not there.
AllServed ==
  \A r \in Requests : pc[r] = "waiting" ~> pc[r] \in {"answered", "lost"}
=============================================================================

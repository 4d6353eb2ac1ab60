---------------------------- MODULE RegistrySpec ----------------------------
(***************************************************************************)
(* What the registry promises its clients (api.yaml, restapi/impl.go): every*)
(* request takes effect at one instant between its arrival and its answer,  *)
(* on one map from names to services that a crash of the server empties.    *)
(***************************************************************************)
CONSTANTS
  Requests,  \* the requests clients ever send
  Names,     \* service names
  Bodies,    \* services a request can carry
  Null,      \* the body of a PUT request that has none
  Absent,    \* the value of a name without a service
  Asks       \* what a request may ask for: [op, name, body]

VARIABLES
  ask,     \* what each request asks for
  store,   \* the service under each name
  stage,   \* how far each request is
  answer   \* what each request was answered

vars == <<ask, store, stage, answer>>

NoAnswer == [code |-> "none", found |-> {}]

\* The answer to request r of a registry that holds s: 404 for a name without a
\* service, or with one that has no body.
AnswerFrom(r, s) ==
  LET n == ask[r].name
      held == {<<m, s[m]>> : m \in {k \in Names : s[k] # Absent}} IN
  CASE ask[r].op = "get"    -> IF s[n] \in {Absent, Null}
                               THEN [code |-> "404", found |-> {}]
                               ELSE [code |-> "200", found |-> {<<n, s[n]>>}]
    [] ask[r].op = "list"   -> [code |-> "200", found |-> held]
    [] ask[r].op = "put"    -> [code |-> "200", found |-> {<<n, ask[r].body>>}]
    [] ask[r].op = "delete" -> [code |-> "204", found |-> {}]

Applied(r, s) ==
  CASE ask[r].op = "put"    -> [s EXCEPT ![ask[r].name] = ask[r].body]
    [] ask[r].op = "delete" -> [s EXCEPT ![ask[r].name] = Absent]
    [] OTHER                -> s

Init ==
  /\ ask \in [Requests -> Asks]
  /\ store = [n \in Names |-> Absent]
  /\ stage = [r \in Requests |-> "new"]
  /\ answer = [r \in Requests |-> NoAnswer]

Arrive(r) ==
  /\ stage[r] = "new"
  /\ stage' = [stage EXCEPT ![r] = "pending"]
  /\ UNCHANGED <<ask, store, answer>>

Apply(r) ==
  /\ stage[r] = "pending"
  /\ stage' = [stage EXCEPT ![r] = "answered"]
  /\ store' = Applied(r, store)
  /\ answer' = [answer EXCEPT ![r] = AnswerFrom(r, store)]
  /\ UNCHANGED ask

Crash ==
  /\ store' = [n \in Names |-> Absent]
  /\ stage' = [r \in Requests |-> IF stage[r] = "pending" THEN "lost" ELSE stage[r]]
  /\ UNCHANGED <<ask, answer>>

Next == Crash \/ \E r \in Requests : Arrive(r) \/ Apply(r)

Spec == Init /\ [][Next]_vars
=============================================================================

----------------------------- MODULE MCRegistry -----------------------------
(* Instances of Registry for TLC: what the requests may ask for. *)
EXTENDS Registry

CONSTANTS n1, n2, b1, b2

Get(n)    == [op |-> "get", name |-> n, body |-> Null]
Put(n, b) == [op |-> "put", name |-> n, body |-> b]
Delete(n) == [op |-> "delete", name |-> n, body |-> Null]
AskList   == [op |-> "list", name |-> n1, body |-> Null]

MCNames  == {n1, n2}
MCBodies == {b1, b2}

MCAsks ==
  {Get(n1), AskList, Delete(n1), Put(n1, b1), Put(n1, b2), Put(n1, Null), Put(n2, b1)}
=============================================================================

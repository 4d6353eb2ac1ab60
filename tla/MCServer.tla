------------------------------ MODULE MCServer ------------------------------
(* Instances of Server for TLC: the flags of each process.                   *)
EXTENDS Server, TLC

CONSTANTS p1, p2

\* the defaults, with the ports that are given
With(ss) ==
  [enabled |-> ss, port |-> 0, tlsPort |-> 0, limit |-> 0, tlsLimit |-> 0, read |-> 1, tlsRead |-> 0,
   grace |-> TRUE, pair |-> "good", ca |-> "none"]

Both   == [With({"unix", "http"}) EXCEPT !.port = 1]
Web    == [With({"http", "https"}) EXCEPT !.tlsPort = 1, !.limit = 1]

UnixOnly == With({"unix"})
Default  == [With({}) EXCEPT !.port = 1]

NoCA     == [With({"https"}) EXCEPT !.tlsPort = 1, !.ca = "unreadable"]

\* Two at a time, and an address that one wants and the other has.
Pair(f, g) == p1 :> f @@ p2 :> g
MCFlags ==
  {Pair(Both, UnixOnly),
   Pair([Both EXCEPT !.grace = FALSE], NoCA),
   Pair(Web, NoCA),
   Pair([Web EXCEPT !.grace = FALSE], NoCA),            \* only read timeouts end a wait
   Pair([Web EXCEPT !.port = 1], Default),              \* wants one port twice
   Pair([With(Schemes) EXCEPT !.pair = "half", !.port = 1], NoCA)}
=============================================================================

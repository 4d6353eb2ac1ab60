--------------------------- MODULE MCLogPositions ---------------------------
(* Instances of LogPositions for TLC: the logs there are when a tailer is made. *)
EXTENDS LogPositions

\* up to two lines, written long before, just before or when the tailer is made
MCFirstLogs == {s \in UNION {[1..n -> {0, Start - 1, Start}] : n \in 0..2} : Sorted(s)}
=============================================================================

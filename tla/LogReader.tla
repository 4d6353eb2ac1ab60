------------------------------ MODULE LogReader ------------------------------
(***************************************************************************)
(* What tailing a log promises: lines are shown in the order they were     *)
(* written, and none is skipped but those that the reader is excused for.  *)
(***************************************************************************)
EXTENDS Naturals

VARIABLES
  written,  \* how many lines the log has
  top,      \* the last line shown
  excused   \* the lines that need not be shown

Init ==
  /\ written \in Nat
  /\ top = 0
  /\ excused \subseteq 1..written

Write == written' = written + 1 /\ UNCHANGED <<top, excused>>

\* lines that have not been shown may be given up
Excuse ==
  /\ excused \subseteq excused' /\ excused' \ excused \subseteq top + 1 .. written
  /\ UNCHANGED <<written, top>>

\* the next line is shown, or one with only excused lines before it
Show ==
  /\ \E i \in top + 1 .. written :
       (top + 1) .. (i - 1) \subseteq excused /\ top' = i
  /\ UNCHANGED <<written, excused>>

Spec == Init /\ [][Write \/ Excuse \/ Show]_<<written, top, excused>>
=============================================================================

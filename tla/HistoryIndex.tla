---------------------------- MODULE HistoryIndex ----------------------------
(***************************************************************************)
(* How the predictors with a global outcome history turn that history into *)
(* a table index (updateBHRIndex in pinatrace.cpp, updateIndices in        *)
(* staticcount.cpp, updateIndex in proccount.cpp), and how they shift an   *)
(* outcome into it.  The history is an array with the oldest outcome at 0. *)
(***************************************************************************)
EXTENDS Bits

\* The bits the loop collects from cells 0 .. n-1: bit i is set when h[i] is.
\* The ors of the code set a different bit each, so they are additions.
PackBits(h, n) == SumBelow([i \in 0 .. n - 1 |-> IF h[i] THEN pow2(i) ELSE 0], n)

\* The array h of n cells after every cell takes its right neighbour's value
\* and the last one takes v.
ShiftIn(h, n, v) == [i \in 0 .. n - 1 |-> IF i < n - 1 THEN h[i + 1] ELSE v]

-----------------------------------------------------------------------------

\* The table and the history of n cells as a ContextMemory has them: the
\* counters by the outcomes they are reached with, the outcomes as a sequence.
ByContext(table, n) ==
  [c \in [1 .. n - 1 -> BOOLEAN] |-> table[PackBits([i \in 0 .. n - 2 |-> c[i + 1]], n - 1)]]

AsSequence(h, n) == [i \in 1 .. n |-> h[i - 1]]

=============================================================================

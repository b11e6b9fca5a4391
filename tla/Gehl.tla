-------------------------------- MODULE Gehl --------------------------------
(***************************************************************************)
(* The arithmetic of one GEHL predictor, in strace.cpp and as a part of    *)
(* proccount.cpp.  tables are its n tables of counters; history holds the  *)
(* last 2^(n-1) branch targets, the newest in the last cell, and table i   *)
(* goes by as many of them as depths[i] says.  n / 2.0 is a whole number   *)
(* for the 6 tables of the code.                                           *)
(*                                                                         *)
(* An index can be one past the table.  The tables are rows of one array,  *)
(* so that is the first counter of the next table; behind is the int that  *)
(* lies behind the last one.                                               *)
(***************************************************************************)
EXTENDS GehlHash

HistoryLength(n) == pow2(n - 1)

Histories(n, addresses) == [0 .. HistoryLength(n) - 1 -> addresses \cup {<< >>}]

\* historyVariations as createPredictorTables sets them.
initialDepths(n) == [i \in 0 .. n - 1 |-> pow2(i)]

\* The string of as many of the newest addresses as historyDepth says, newest
\* first, hashed to an index.
indexOf(history, historyDepth, n) ==
  LET depth == IF historyDepth > 0 THEN historyDepth ELSE 0
      after[j \in 0 .. depth] ==
        IF j = 0 THEN Seed ELSE HashOf(after[j - 1], history[HistoryLength(n) - j])
  IN  Quotient(after[depth])

Indices(history, depths, n) == [i \in 0 .. n - 1 |-> indexOf(history, depths[i], n)]

Overruns(at, n) == \E i \in 0 .. n - 1 : at[i] = GEHL_TABLE_SIZE

\* The counter that table i finds at index at[i].
Entry(tables, at, behind, i, n) ==
  IF at[i] < GEHL_TABLE_SIZE THEN tables[i][at[i]]
  ELSE IF i < n - 1 THEN tables[i + 1][0]
  ELSE behind

\* The counters found, added up.
TableSum(tables, at, behind, n) ==
  n \div 2 + SumBelow([i \in 0 .. n - 1 |-> Entry(tables, at, behind, i, n)], n)

\* Mutant: std::max is missing.
Bumped_NoMax(c, taken, max) ==
  IF taken
    THEN IF c + 1 > max THEN max ELSE c + 1
    ELSE c - 1

\* A counter of 2 * max + 1 values, 0 included.
Bumped(c, taken, max) ==
  IF taken
    THEN IF c + 1 > max THEN max ELSE c + 1
    ELSE IF c - 1 < -max THEN -max ELSE c - 1

\* Mutant: a wrong prediction is not trained on unless it was also unsure.
MustUpdate_OnlyUnsure(sum, wasCorrect, n) == sum <= n

\* Mutant: only a wrong prediction is trained on.
MustUpdate_OnlyWrong(sum, wasCorrect, n) == ~wasCorrect

\* theta is the number of tables.  It bounds the sum, not its magnitude: a
\* sure "not taken" is always trained on.
MustUpdate(sum, wasCorrect, n) == sum <= n \/ ~wasCorrect

\* Each table moves the counter it found, in its own row or the next.
Updated(tables, at, taken, n, max) ==
  LET struck(i) == IF i > 0 /\ at[i - 1] = GEHL_TABLE_SIZE
                     THEN [tables[i] EXCEPT ![0] = Bumped(@, taken, max)] ELSE tables[i]
  IN  [i \in 0 .. n - 1 |->
         IF at[i] < GEHL_TABLE_SIZE
           THEN [struck(i) EXCEPT ![at[i]] = Bumped(@, taken, max)] ELSE struck(i)]

=============================================================================

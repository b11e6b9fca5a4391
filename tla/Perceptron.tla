----------------------------- MODULE Perceptron -----------------------------
(***************************************************************************)
(* The arithmetic of one perceptron, in nonstatica.cpp and as a part of    *)
(* proccount.cpp.  w is its array of n weights, h the array of n history   *)
(* cells, of which cell 0 stands for the constant input.  The weights are  *)
(* floats that only ever change by one, far below where a float loses      *)
(* units, so they are integers here.                                       *)
(***************************************************************************)
EXTENDS Bits

\* The absolute value, as trainPerceptron computes it.
Magnitude(x) == IF x < 0 THEN -x ELSE x

\* boolToFloat
Sign(b) == IF b THEN 1 ELSE -1

\* 1.93 * n + 14, of which an integer sees only the integer part.
theta(n) == (193 * n + 1400) \div 100

\* updatePerceptronResult: the weight of the constant input, plus the others
\* signed by the history.
Output(w, h, n) ==
  w[0] + SumBelow([i \in 0 .. n - 2 |-> w[i + 1] * Sign(h[i + 1])], n - 1)

\* Mutant: a right prediction is trained on however sure it was.
MustTrain_Always(output, wasWrong, n) == TRUE

\* Training is for wrong predictions and for unsure ones.
MustTrain(output, wasWrong, n) == wasWrong \/ Magnitude(output) <= theta(n)

\* Every weight moves towards having been right.
Trained(w, h, taken, n) == [i \in 0 .. n - 1 |-> w[i] + Sign(taken) * Sign(h[i])]

\* What updateBranchHistory makes of the history if its loop ends.  The loop
\* starts at the last cell and counts up, so only its first round is within
\* the array; cell 0 is written before and after it.
ShiftedOnce(h, n, taken) ==
  LET written == [h EXCEPT ![0] = taken]
  IN  [written EXCEPT ![n - 1] = written[n - 2], ![0] = TRUE]

=============================================================================

------------------------- MODULE SaturatingCounter -------------------------
(***************************************************************************)
(* The signed saturating counter that pinatrace.cpp, itrace.cpp,           *)
(* staticcount.cpp and proccount.cpp each write out in full (updateBHT,    *)
(* updateRegTable, the first part of updatePredictors).  The counter runs  *)
(* from -max to max and jumps over 0: -1 and 1 are the two weak states.    *)
(***************************************************************************)
EXTENDS Bits

\* SATURATING_NUM for a counter said to have this many bits.
SaturatingNum(bits) == pow2(bits) \div 2

\* setPrediction: a branch is predicted taken when its counter is positive.
Predict(c) == c > 0

\* Mutant: the second of the two lines that clamp is missing.
Clamp_NoMin(c, max) == IF c < -max THEN -max ELSE c

\* std::max with -max, then std::min with max.
Clamp(c, max) ==
  LET raised == IF c < -max THEN -max ELSE c
  IN  IF raised > max THEN max ELSE raised

\* Mutant: the counter does not step over 0.
Train_NoSkip(c, taken, max) ==
  IF taken THEN Clamp(c + 1, max) ELSE Clamp(c - 1, max)

\* The counter after an outcome: one step towards it, two when the step
\* would land on 0, then clamped.
Train(c, taken, max) ==
  IF taken
    THEN Clamp((IF c = -1 THEN 0 ELSE c) + 1, max)
    ELSE Clamp((IF c = 1 THEN 0 ELSE c) - 1, max)

=============================================================================

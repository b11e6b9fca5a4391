---------------------------- MODULE MCFullHistory ----------------------------
(***************************************************************************)
(* pinatrace.cpp's predictor on a loop of three outcomes: taken, taken,    *)
(* not taken.  Each outcome follows from the two before it.                *)
(***************************************************************************)
EXTENDS CorrelatedLearning

BothTaken == pow2(PatternBits) - 1

LoopInit ==
  /\ LearningInit
  /\ pattern = [context \in 0 .. BothTaken |-> context # BothTaken]

LoopNext ==
  \/ HostStep /\ UNCHANGED <<predictorVars, pattern, surprises>>
  \/ \E ins \in Branches : Follow(ins)

LoopSpec == LoopInit /\ [][LoopNext]_learningVars

\* A predictor with a counter for each combination of the last two outcomes
\* learns the loop: a counter starts one step from either side, so it is wrong
\* once at most.  "2-bit correlated" (pinatrace.cpp:132) promises that much.
WrongOnceEach == wrong <= pow2(PatternBits)

=============================================================================

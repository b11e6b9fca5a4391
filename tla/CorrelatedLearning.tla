------------------------- MODULE CorrelatedLearning -------------------------
(***************************************************************************)
(* How well pinatrace.cpp's predictor predicts.  It is compared with a     *)
(* fixed table, pattern, that guesses the next outcome from the oldest     *)
(* PatternBits cells of the history and never learns; surprises counts the *)
(* outcomes that table gets wrong.  Both variables are history: they       *)
(* observe CorrelatedPredictor and constrain nothing, since pattern is any *)
(* table and the application may follow or contradict it at every branch.  *)
(***************************************************************************)
EXTENDS CorrelatedPredictor

CONSTANT PatternBits

\* BHR_BITS - 1 is what updateBHRIndex uses, BHR_BITS what Fini prints.
ASSUME PatternAssumption == PatternBits \in {BHR_BITS - 1, BHR_BITS}

VARIABLES pattern, surprises

Patterns == [0 .. pow2(PatternBits) - 1 -> BOOLEAN]

LearningInit ==
  /\ Init
  /\ pattern \in Patterns
  /\ surprises = 0

Expected == pattern[PackBits(branch_history, PatternBits)]

Follow(ins) ==
  /\ RecordBranch(ins, Expected)
  /\ UNCHANGED <<pattern, surprises>>

Contradict(ins) ==
  /\ RecordBranch(ins, ~Expected)
  /\ surprises' = surprises + 1
  /\ UNCHANGED pattern

LearningNext ==
  \/ HostStep /\ UNCHANGED <<predictorVars, pattern, surprises>>
  \/ \E ins \in Branches : Follow(ins) \/ Contradict(ins)

learningVars == <<vars, pattern, surprises>>

LearningSpec == LearningInit /\ [][LearningNext]_learningVars

-----------------------------------------------------------------------------

\* How many times in a row a counter is wrong before it agrees with what is
\* expected of it: 0 if it does, else its distance to the first state that does.
Debt(c, expected) ==
  IF Predict(c) <=> expected THEN 0 ELSE (IF c < 0 THEN -c ELSE c)

TotalDebt(counters) ==
  SumBelow([i \in DOMAIN pattern |-> Debt(counters[i], pattern[i])],
           pow2(PatternBits))

\* The counters as main sets them.
fresh == [i \in DOMAIN pattern |-> 1]

wrong == num_branches - num_correct

\* The predictor is competitive with every fixed table it could have been:
\* beyond one misprediction per entry that must be turned from its initial
\* "taken", it is wrong at most twice for each outcome that table gets wrong.
\* A counter that learned too slowly, an index that changed between
\* prediction and training, or two contexts that share a counter break it.
CompetitiveWithEveryTable == wrong <= TotalDebt(fresh) + 2 * surprises

\* Why the bound holds: mispredictions still to be made are already paid for.
DebtCoversFuture == wrong + TotalDebt(bhr) <= TotalDebt(fresh) + 2 * surprises

=============================================================================

------------------------- MODULE TournamentLearning -------------------------
(***************************************************************************)
(* What the vote of proccount.cpp comes to on an application that, after   *)
(* any number of branches, settles into one branch that it executes with   *)
(* one outcome for ever.  From then on the host part is left out: nothing  *)
(* in the predictor depends on it, and without the totals the loop has     *)
(* finitely many states.                                                   *)
(***************************************************************************)
EXTENDS Tournament

CONSTANT Roaming  \* no branch has been settled into

VARIABLES
  loop,   \* the branch settled into, or Roaming
  rounds  \* how often it has been executed since, up to Patience + 1

learningVars == <<vars, loop, rounds>>

Longest(a, b) == IF a > b THEN a ELSE b

\* The histories fill up with the branch (the index of the correlated part
\* leaves out the newest outcome, so its history has to be full as well),
\* then a part that was trained the other way turns round: a counter of the
\* correlated part in BHT_BITS steps, the sum of GEHL in one more than
\* COUNTER_BITS.
Patience ==
  Longest(BHR_BITS, GEHL_HISTORY_LENGTH) + Longest(BHT_BITS, COUNTER_BITS + 1)

LearningInit == Init /\ loop = Roaming /\ rounds = 0

Roam == loop = Roaming /\ Next /\ UNCHANGED <<loop, rounds>>

Settle ==
  /\ running
  /\ loop = Roaming
  /\ loop' \in [taken : BOOLEAN, address : Addresses]
  /\ UNCHANGED <<vars, rounds>>

Repeat ==
  /\ running
  /\ loop # Roaming
  /\ PredictAndTrain(loop.taken, loop.address)
  /\ rounds' = IF rounds > Patience THEN rounds ELSE rounds + 1
  /\ UNCHANGED <<toolVars, loop>>

\* The application dies, as in RecordBranchFaults.
LoopFaults ==
  /\ running
  /\ loop # Roaming
  /\ running' = FALSE
  /\ UNCHANGED <<instrumented, num_instr, num_branches, num_correct, predictorVars>>
  /\ UNCHANGED <<loop, rounds>>

LearningNext == Roam \/ Settle \/ Repeat \/ LoopFaults

\* An application that has settled into a loop goes on with it, unless it
\* dies there.
LearningSpec ==
  LearningInit /\ [][LearningNext]_learningVars /\ WF_learningVars(Repeat)

-----------------------------------------------------------------------------

\* Whatever the three parts had learned, the vote is right after Patience
\* rounds, and stays right: although a part that is wrong is not trained for
\* it as long as it is outvoted, two parts that are wrong always are.  Nothing
\* is promised once a GEHL index has left its table.
VoteLearns == ~strayed /\ rounds > Patience => prediction = loop.taken

RightInTheEnd(part, taken) ==
  <>[](running /\ ~strayed /\ loop # Roaming /\ loop.taken = taken
         => individual_predictions[part] = Vote(taken))

\* The correlated part learns by itself in the end, as does the GEHL part if
\* the branch is taken, since a sum up to the threshold is always trained.
\* (The perceptron, sure of the opposite, and GEHL, sure of "taken", can stay
\* wrong for ever while they are outvoted.)
PartsLearn ==
  /\ \A taken \in BOOLEAN : RightInTheEnd(0, taken)
  /\ RightInTheEnd(2, TRUE)

=============================================================================

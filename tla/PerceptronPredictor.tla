------------------------- MODULE PerceptronPredictor -------------------------
(***************************************************************************)
(* The perceptron predictor (nonstatica.cpp): a perceptron for each of the *)
(* last TABLE_SIZE branch targets, in the same circular table of strings   *)
(* as the paths of itrace.cpp.                                             *)
(*                                                                         *)
(* The loop of updateBranchHistory counts up from the last cell of the     *)
(* history and has no bound it can reach: its second round writes past the *)
(* array, which is undefined.  Two outcomes are modelled.  Compiled as it  *)
(* is written, it writes on until the application faults.  Compiled on the *)
(* ground that a round out of bounds cannot happen, it ends after the      *)
(* round in bounds.                                                        *)
(***************************************************************************)
EXTENDS PinTool, Perceptron

CONSTANTS HISTORY_LENGTH, TABLE_SIZE, Addresses, NoAddress

ASSUME PerceptronAssumption ==
  /\ HISTORY_LENGTH \in Nat /\ HISTORY_LENGTH > 2
  /\ TABLE_SIZE \in Nat \ {0}
  /\ NoAddress \notin Addresses

VARIABLES
  weight, address_history, pathsUsed, current_index, branch_history,
  current_perceptron_result, prediction

predictorVars ==
  <<weight, address_history, pathsUsed, current_index, branch_history,
    current_perceptron_result, prediction>>

vars == <<toolVars, predictorVars>>

Inputs == 0 .. HISTORY_LENGTH - 1

Table == INSTANCE AssociativeTable WITH
           Size <- TABLE_SIZE, Keys <- Addresses \cup {NoAddress}, Blank <- NoAddress,
           entries <- address_history, used <- pathsUsed, current <- current_index

TypeOK ==
  /\ ToolTypeOK
  /\ Table!TableTypeOK
  /\ weight \in [0 .. TABLE_SIZE - 1 -> [Inputs -> Int]]
  /\ branch_history \in [Inputs -> BOOLEAN]
  /\ current_perceptron_result \in Int
  /\ prediction \in BOOLEAN

-----------------------------------------------------------------------------

Init ==
  /\ ToolInit
  /\ Table!TableInit
  /\ weight = [a \in 0 .. TABLE_SIZE - 1 |-> [i \in Inputs |-> IF i = 0 THEN 1 ELSE 0]]
  /\ branch_history = [i \in Inputs |-> FALSE]
  /\ current_perceptron_result = 0
  /\ prediction = FALSE

updatePerceptronResult ==
  current_perceptron_result' =
    Output(weight[current_index'], branch_history, HISTORY_LENGTH)

setPrediction == prediction' = (current_perceptron_result' > 0)

\* Mutant: trains the perceptron of the branch before.
trainPerceptron_Stale(taken) ==
  weight' =
    IF MustTrain(current_perceptron_result', prediction' # taken, HISTORY_LENGTH)
      THEN [weight EXCEPT ![current_index] =
              Trained(@, branch_history, taken, HISTORY_LENGTH)]
      ELSE weight

trainPerceptron(taken) ==
  weight' =
    IF MustTrain(current_perceptron_result', prediction' # taken, HISTORY_LENGTH)
      THEN [weight EXCEPT ![current_index'] =
              Trained(@, branch_history, taken, HISTORY_LENGTH)]
      ELSE weight

updateBranchHistory(taken) ==
  branch_history' = ShiftedOnce(branch_history, HISTORY_LENGTH, taken)

RecordBranch(ins, taken, address) ==
  /\ ExecuteBranch(ins)
  /\ Table!Lookup(address)
  /\ updatePerceptronResult
  /\ setPrediction
  /\ Score(prediction' = taken)
  /\ trainPerceptron(taken)
  /\ updateBranchHistory(taken)

\* The application dies in updateBranchHistory, and the tool's memory with it;
\* Fini does not run.
RecordBranchFaults(ins) ==
  /\ running
  /\ ins \in instrumented \cap Branches
  /\ running' = FALSE
  /\ UNCHANGED <<instrumented, num_instr, num_branches, num_correct, predictorVars>>

Next ==
  \/ HostStep /\ UNCHANGED predictorVars
  \/ \E ins \in Branches, taken \in BOOLEAN, address \in Addresses :
       RecordBranch(ins, taken, address)
  \/ \E ins \in Branches : RecordBranchFaults(ins)

Spec == Init /\ [][Next]_vars

-----------------------------------------------------------------------------

\* What the perceptron of entry a would answer now.
Confidence(a) == Output(weight[a], branch_history, HISTORY_LENGTH)

\* No perceptron grows beyond one training past the threshold, however long
\* and one-sided its branch is, and whatever the others learn meanwhile.
ConfidenceBounded ==
  \A a \in 0 .. TABLE_SIZE - 1 :
    Magnitude(Confidence(a)) <= theta(HISTORY_LENGTH) + HISTORY_LENGTH

\* Each training moves a perceptron's answer by the number of its inputs, but
\* for the very first, when the constant input was still off.
RetrainedConfidence(c) ==
  { IF MustTrain(c, (c > 0) # taken, HISTORY_LENGTH) THEN c + Sign(taken) * d ELSE c :
      taken \in BOOLEAN, d \in {HISTORY_LENGTH, HISTORY_LENGTH - 2} }

queue == Table!InOrder([a \in 0 .. TABLE_SIZE - 1 |-> Confidence(a)])

Counters == INSTANCE FifoTable WITH
              Size <- TABLE_SIZE, Keys <- Addresses \cup {NoAddress},
              Blank <- NoAddress, Fresh <- 1, Retrained <- RetrainedConfidence

\* All those weights are one saturating counter for each branch target: since
\* the history cells never change, a perceptron knows how often its own branch
\* went which way and nothing else, and the table passes it on first in, first
\* out.
ImplementsCounters == Counters!Spec

=============================================================================

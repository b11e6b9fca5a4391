---------------------------- MODULE GehlLearning ----------------------------
(***************************************************************************)
(* How fast strace.cpp's predictor learns.  lastBranch and streak are      *)
(* history: the branch executed last and how many times in a row the       *)
(* application has now executed just that, with that outcome.              *)
(***************************************************************************)
EXTENDS GehlPredictor

VARIABLES lastBranch, streak

learningVars == <<vars, lastBranch, streak>>

LearningTypeOK ==
  /\ TypeOK
  /\ streak \in 0 .. num_instr

LearningInit ==
  /\ Init
  /\ lastBranch = [address |-> << >>, taken |-> FALSE]
  /\ streak = 0

Again(ins) ==
  /\ streak > 0
  /\ RecordBranch(ins, lastBranch.taken, lastBranch.address)
  /\ streak' = streak + 1
  /\ UNCHANGED lastBranch

Other(ins, taken, address) ==
  /\ RecordBranch(ins, taken, address)
  /\ streak > 0 => lastBranch # [address |-> address, taken |-> taken]
  /\ lastBranch' = [address |-> address, taken |-> taken]
  /\ streak' = 1

LearningNext ==
  \/ HostStep /\ UNCHANGED <<predictorVars, lastBranch, streak>>
  \/ \E ins \in Branches :
       \/ Again(ins)
       \/ RecordBranchFaults(ins) /\ UNCHANGED <<lastBranch, streak>>
       \/ \E taken \in BOOLEAN, address \in Addresses : Other(ins, taken, address)

LearningSpec == LearningInit /\ [][LearningNext]_learningVars

-----------------------------------------------------------------------------

\* A branch that keeps going one way is learned whatever the tables held:
\* HISTORY_LENGTH executions fill the history with it, and after that at most
\* SATURATING_NUM mispredictions turn the sum.  It rests on wrong predictions
\* being trained on however sure they were, and on training the counters that
\* predicted.  Nothing is promised once an index has left its table.
SteadyBranchIsLearned ==
  ~strayed /\ streak > HISTORY_LENGTH + SATURATING_NUM => prediction = lastBranch.taken

=============================================================================

------------------------- MODULE CorrelatedPredictor -------------------------
(***************************************************************************)
(* The saturating, correlated predictor (pinatrace.cpp): a table bhr of    *)
(* saturating counters indexed by the recent outcomes of all branches.     *)
(* Variables and operators keep the names of the source.                   *)
(***************************************************************************)
EXTENDS PinTool, SaturatingCounter, HistoryIndex

CONSTANTS BHT_BITS, BHR_BITS

ASSUME CorrelatedAssumption ==
  /\ BHT_BITS \in Nat \ {0}
  /\ BHR_BITS \in Nat \ {0}

SATURATING_NUM == SaturatingNum(BHT_BITS)

BHR_ENTRIES == pow2(BHR_BITS)

VARIABLES bhr, bhr_current_index, branch_history, prediction

predictorVars == <<bhr, bhr_current_index, branch_history, prediction>>

vars == <<toolVars, predictorVars>>

TypeOK ==
  /\ ToolTypeOK
  /\ bhr \in [0 .. BHR_ENTRIES - 1 -> -SATURATING_NUM .. SATURATING_NUM]
  /\ bhr_current_index \in 0 .. BHR_ENTRIES - 1
  /\ branch_history \in [0 .. BHR_BITS - 1 -> BOOLEAN]
  /\ prediction \in BOOLEAN

-----------------------------------------------------------------------------

Init ==
  /\ ToolInit
  /\ bhr = [i \in 0 .. BHR_ENTRIES - 1 |-> 1]
  /\ bhr_current_index = 0
  /\ branch_history = [i \in 0 .. BHR_BITS - 1 |-> FALSE]
  /\ prediction = FALSE

\* Mutant: the loop covers the whole history.
IndexOf_All(history) == PackBits(history, BHR_BITS)

\* The loop stops one short of BHR_BITS: the last cell, which holds the most
\* recent outcome, is not part of the index.
IndexOf(history) == PackBits(history, BHR_BITS - 1)

updateBHRIndex == bhr_current_index' = IndexOf(branch_history)

\* Mutant: predicts with the entry of the branch before.
setPrediction_Stale == prediction' = Predict(bhr[bhr_current_index])

setPrediction == prediction' = Predict(bhr[bhr_current_index'])

\* Mutant: trains the entry of the branch before.
updateBHT_Stale(taken) ==
  bhr' = [bhr EXCEPT ![bhr_current_index] = Train(@, taken, SATURATING_NUM)]

updateBHT(taken) ==
  bhr' = [bhr EXCEPT ![bhr_current_index'] = Train(@, taken, SATURATING_NUM)]

updateBranchHistory(taken) ==
  branch_history' = ShiftIn(branch_history, BHR_BITS, taken)

RecordBranch(ins, taken) ==
  /\ ExecuteBranch(ins)
  /\ updateBHRIndex
  /\ setPrediction
  /\ Score(prediction' = taken)
  /\ updateBHT(taken)
  /\ updateBranchHistory(taken)

BranchExecuted ==
  \E ins \in Branches, taken \in BOOLEAN : RecordBranch(ins, taken)

Next == (HostStep /\ UNCHANGED predictorVars) \/ BranchExecuted

Spec == Init /\ [][Next]_vars

-----------------------------------------------------------------------------

\* Half of the table is dead: the entries whose top index bit is set keep the
\* counter main gave them, because the index loop of updateBHRIndex leaves
\* the last history cell out.
UpperHalfUntouched == \A i \in pow2(BHR_BITS - 1) .. BHR_ENTRIES - 1 : bhr[i] = 1

\* Hysteresis: a branch retrains one entry, and an entry's prediction flips
\* only from a weak state to the opposite weak state, so a saturated entry
\* needs two contrary outcomes (with 2-bit counters) before it changes its
\* mind.
FlipsOnlyWhenWeak ==
  [][ \A i, j \in DOMAIN bhr :
        /\ (bhr'[i] # bhr[i] /\ bhr'[j] # bhr[j]) => i = j
        /\ Predict(bhr'[i]) # Predict(bhr[i]) => {bhr[i], bhr'[i]} = {-1, 1}
    ]_vars

\* Every step counts as the abstract scoreboard allows, and a step in which the
\* application executes a branch is one of its branches: none is counted twice
\* or lost, and no total is cleared after start-up.
ImplementsScoreboard ==
  Scoreboard!Spec /\ [][BranchExecuted => Scoreboard!Branch]_vars

Memory == INSTANCE ContextMemory WITH
            Window <- BHR_BITS, Most <- SATURATING_NUM, Start <- 1,
            learned <- ByContext(bhr, BHR_BITS),
            recent <- AsSequence(branch_history, BHR_BITS)

\* The table learns each context by itself: the entry that is trained is the
\* one of the outcomes before the branch, and no two contexts share one.
ImplementsMemory == Memory!Spec

=============================================================================

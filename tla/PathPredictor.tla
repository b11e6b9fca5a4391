--------------------------- MODULE PathPredictor ---------------------------
(***************************************************************************)
(* The path-based predictor (itrace.cpp): saturating counters found by the *)
(* target addresses of the last PATH_DEPTH branches, in a table of strings *)
(* that is searched and refilled in a circle.                              *)
(*                                                                         *)
(* The source joins the cells of branch_history, oldest first, to one      *)
(* string.  The cells main leaves empty are pushed out at the front, and   *)
(* no two sequences of printed addresses join to the same string (each     *)
(* starts with 0x), so here the history is the sequence of the addresses   *)
(* and is itself the path.                                                 *)
(***************************************************************************)
EXTENDS PinTool, SaturatingCounter, Sequences

CONSTANTS BHT_BITS, PATH_DEPTH, TABLE_ENTRIES, Addresses

ASSUME PathAssumption ==
  /\ BHT_BITS \in Nat \ {0}
  /\ PATH_DEPTH \in Nat \ {0}
  /\ TABLE_ENTRIES \in Nat \ {0}

SATURATING_NUM == SaturatingNum(BHT_BITS)

Paths == UNION {[1 .. n -> Addresses] : n \in 0 .. PATH_DEPTH}

VARIABLES bhr, bhr_entries, pathsUsed, bhr_current_index, branch_history, prediction

predictorVars ==
  <<bhr, bhr_entries, pathsUsed, bhr_current_index, branch_history, prediction>>

vars == <<toolVars, predictorVars>>

Table == INSTANCE AssociativeTable WITH
           Size <- TABLE_ENTRIES, Keys <- Paths, Blank <- << >>,
           entries <- bhr_entries, used <- pathsUsed,
           current <- bhr_current_index

TypeOK ==
  /\ ToolTypeOK
  /\ Table!TableTypeOK
  /\ bhr \in [0 .. TABLE_ENTRIES - 1 -> -SATURATING_NUM .. SATURATING_NUM]
  /\ branch_history \in Paths
  /\ prediction \in BOOLEAN

-----------------------------------------------------------------------------

Init ==
  /\ ToolInit
  /\ Table!TableInit
  /\ bhr = [i \in 0 .. TABLE_ENTRIES - 1 |-> 1]
  /\ branch_history = << >>
  /\ prediction = FALSE

updateBHRIndex == Table!Lookup(branch_history)

\* Mutant: the warm-up is one branch shorter still.
setPrediction_EarlyEnd ==
  prediction' = IF num_branches' < PATH_DEPTH - 1
                  THEN FALSE
                  ELSE Predict(bhr[bhr_current_index'])

\* The first PATH_DEPTH - 1 branches the score counts are guessed not taken.
setPrediction ==
  prediction' = IF num_branches' < PATH_DEPTH
                  THEN FALSE
                  ELSE Predict(bhr[bhr_current_index'])

updateBHT(taken) ==
  bhr' = [bhr EXCEPT ![bhr_current_index'] = Train(@, taken, SATURATING_NUM)]

\* Mutant: the oldest address is kept.
updateBranchHistory_Grows(address) ==
  branch_history' = Append(branch_history, address)

updateBranchHistory(address) ==
  LET longer == Append(branch_history, address)
  IN  branch_history' = IF Len(longer) > PATH_DEPTH THEN Tail(longer) ELSE longer

\* address is where the branch goes if taken; it is recorded also if
\* it is not taken.
RecordBranch(ins, taken, address) ==
  /\ ExecuteBranch(ins)
  /\ updateBHRIndex
  /\ setPrediction
  /\ Score(prediction' = taken)
  /\ updateBHT(taken)
  /\ updateBranchHistory(address)

Next ==
  \/ HostStep /\ UNCHANGED predictorVars
  \/ \E ins \in Branches, taken \in BOOLEAN, address \in Addresses :
       RecordBranch(ins, taken, address)

Spec == Init /\ [][Next]_vars

-----------------------------------------------------------------------------

\* No path is in the table twice.
NoDuplicatePaths == Table!NoDuplicates

\* A prediction made from the table rests on at least PATH_DEPTH - 1
\* addresses, however often the score, by which the warm-up is timed, is
\* cleared meanwhile.  It may rest on one address too few: num_branches has
\* been incremented when it is compared with PATH_DEPTH.
NoPredictionFromColdPath ==
  prediction => Len(bhr_entries[bhr_current_index]) >= PATH_DEPTH - 1

queue == Table!InOrder(bhr)

RetrainedCounter(c) == {Train(c, taken, SATURATING_NUM) : taken \in BOOLEAN}

Fifo == INSTANCE FifoTable WITH
          Size <- TABLE_ENTRIES, Keys <- Paths, Blank <- << >>,
          Fresh <- 1, Retrained <- RetrainedCounter

\* The table forgets paths in the order it learned them; each keeps its own
\* counter until then, and the counter passes to the path that replaces it.
ImplementsFifo == Fifo!Spec

=============================================================================

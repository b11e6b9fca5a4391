------------------------- MODULE PerceptronHistory -------------------------
(***************************************************************************)
(* nonstatica.cpp observed with a variable that holds the outcome of the   *)
(* branch executed last, to compare the tool's history with it.            *)
(***************************************************************************)
EXTENDS PerceptronPredictor

VARIABLE lastOutcome

historyVars == <<vars, lastOutcome>>

HistoryInit == Init /\ lastOutcome = FALSE

Observe(ins, taken, address) ==
  /\ RecordBranch(ins, taken, address)
  /\ lastOutcome' = taken

HistoryNext ==
  \/ HostStep /\ UNCHANGED <<predictorVars, lastOutcome>>
  \/ \E ins \in Branches, taken \in BOOLEAN, address \in Addresses :
       Observe(ins, taken, address)
  \/ \E ins \in Branches : RecordBranchFaults(ins) /\ UNCHANGED lastOutcome

HistorySpec == HistoryInit /\ [][HistoryNext]_historyVars

-----------------------------------------------------------------------------

\* "update the recent history of branch results" (nonstatica.cpp:79): once a
\* taken branch has run, some input of the perceptrons says so.
HistoryRecordsTaken ==
  lastOutcome => \E i \in 1 .. HISTORY_LENGTH - 1 : branch_history[i]

=============================================================================

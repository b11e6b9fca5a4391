---------------------------- MODULE GehlPredictor ----------------------------
(***************************************************************************)
(* The GEHL predictor (strace.cpp): NUM_TABLES tables of counters, table i *)
(* indexed by a hash of the last 2^i branch targets; the counters found    *)
(* are added up and the sign of the sum predicts.                          *)
(*                                                                         *)
(* The hash can give the index one past a table (GehlHashing).  For the    *)
(* last table the int there is part of the global that the compiler lays   *)
(* out behind predictionTable: historyVariations[0], when globals are in   *)
(* the order of definition, or half of the pointer trace, when they are in *)
(* reverse.  Here any step may find either.                                *)
(***************************************************************************)
EXTENDS PinTool, Gehl, HistoryIndex

CONSTANTS COUNTER_BITS, NUM_TABLES, Addresses

SATURATING_NUM == pow2(COUNTER_BITS) \div 2

HISTORY_LENGTH == HistoryLength(NUM_TABLES)

Tables == 0 .. NUM_TABLES - 1

\* Training historyVariations[0] keeps it at most SATURATING_NUM.
ASSUME GehlAssumption ==
  /\ COUNTER_BITS \in Nat \ {0}
  /\ NUM_TABLES \in Nat \ {0} /\ NUM_TABLES % 2 = 0
  /\ Addresses \subseteq Seq(0 .. 127)
  /\ SATURATING_NUM <= HISTORY_LENGTH

VARIABLES
  predictionTable, historyVariations, branch_history, currentSum, prediction,
  trace,   \* FALSE once the pointer to the log has been trained
  strayed  \* history variable: an index has been outside its table

predictorVars ==
  <<predictionTable, historyVariations, branch_history, currentSum, prediction,
    trace, strayed>>

vars == <<toolVars, predictorVars>>

\* Of the depths only that of table 0 can change, and within the range of the
\* counters.
TypeOK ==
  /\ ToolTypeOK
  /\ predictionTable \in
       [Tables -> [0 .. GEHL_TABLE_SIZE - 1 -> -SATURATING_NUM .. SATURATING_NUM]]
  /\ \E depth \in -SATURATING_NUM .. SATURATING_NUM :
       historyVariations = [initialDepths(NUM_TABLES) EXCEPT ![0] = depth]
  /\ branch_history \in Histories(NUM_TABLES, Addresses)
  /\ currentSum \in Int
  /\ prediction \in BOOLEAN
  /\ trace \in BOOLEAN
  /\ strayed \in BOOLEAN

-----------------------------------------------------------------------------

Init ==
  /\ ToolInit
  /\ predictionTable = [i \in Tables |-> [j \in 0 .. GEHL_TABLE_SIZE - 1 |-> 0]]
  /\ historyVariations = initialDepths(NUM_TABLES)
  /\ branch_history = [i \in 0 .. HISTORY_LENGTH - 1 |-> << >>]
  /\ currentSum = 0
  /\ prediction = FALSE
  /\ trace = TRUE
  /\ strayed = FALSE

\* The hashes of the paths.
hash == Indices(branch_history, historyVariations, NUM_TABLES)

\* What the last table's index finds behind the array.
Struck(at) ==
  IF at[NUM_TABLES - 1] = GEHL_TABLE_SIZE THEN {"historyVariations", "trace"} ELSE {"nothing"}

\* Its value, as an int.
Behind(struck) ==
  CASE struck = "historyVariations" -> {historyVariations[0]}
    [] struck = "trace" -> CInt
    [] struck = "nothing" -> {0}

updateResult(at, behind) ==
  currentSum' = TableSum(predictionTable, at, behind, NUM_TABLES)

setPrediction == prediction' = (currentSum' > 0)

updatePredictor(at, wasCorrect, taken, struck) ==
  IF MustUpdate(currentSum', wasCorrect, NUM_TABLES)
    THEN /\ predictionTable' =
              Updated(predictionTable, at, taken, NUM_TABLES, SATURATING_NUM)
         /\ historyVariations' =
              IF struck = "historyVariations"
                THEN [historyVariations EXCEPT ![0] = Bumped(@, taken, SATURATING_NUM)]
                ELSE historyVariations
         /\ trace' = (struck # "trace")
    ELSE UNCHANGED <<predictionTable, historyVariations, trace>>

updateBranchHistory(address) ==
  branch_history' = ShiftIn(branch_history, HISTORY_LENGTH, address)

RecordBranch(ins, taken, address) ==
  /\ trace
  /\ ExecuteBranch(ins)
  /\ \E at \in {hash} :
       /\ \E struck \in Struck(at) :
            /\ \E behind \in Behind(struck) : updateResult(at, behind)
            /\ setPrediction
            /\ Score(prediction' = taken)
            /\ updatePredictor(at, prediction' = taken, taken, struck)
       /\ strayed' = (strayed \/ Overruns(at, NUM_TABLES))
  /\ updateBranchHistory(address)

\* RecordBranch begins with writing to the log: the application dies there,
\* and the tool's memory with it.
RecordBranchFaults(ins) ==
  /\ ~trace
  /\ running
  /\ ins \in instrumented \cap Branches
  /\ running' = FALSE
  /\ UNCHANGED <<instrumented, num_instr, num_branches, num_correct, predictorVars>>

Next ==
  \/ HostStep /\ UNCHANGED predictorVars
  \/ \E ins \in Branches, taken \in BOOLEAN, address \in Addresses :
       RecordBranch(ins, taken, address)
  \/ \E ins \in Branches : RecordBranchFaults(ins)

Spec == Init /\ [][Next]_vars

=============================================================================

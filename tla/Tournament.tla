----------------------------- MODULE Tournament -----------------------------
(***************************************************************************)
(* The tournament predictor (proccount.cpp): a correlated, a perceptron    *)
(* and a GEHL predictor see every branch, the majority of them predicts,   *)
(* and all three are trained.  The parts are those of the single tools but *)
(* for details: the counters of the correlated part are not initialised,   *)
(* so they start at 0; neither is the constant weight of the perceptrons;  *)
(* both kinds of counters are clamped to their number of bits; and the     *)
(* perceptron and GEHL parts are trained by whether the vote was right.    *)
(*                                                                         *)
(* The loop that shifts the perceptrons' history is that of                *)
(* nonstatica.cpp, with the same two outcomes (see PerceptronPredictor).   *)
(*                                                                         *)
(* Behind the last GEHL table, where its index may reach, the compiler     *)
(* lays out historyVariations[0], when globals are in the order of         *)
(* definition, or perceptron_paths_used, when they are in reverse.         *)
(***************************************************************************)
EXTENDS PinTool, SaturatingCounter, HistoryIndex, Perceptron, Gehl

CONSTANTS
  BHT_BITS, BHR_BITS,
  PERCEPTRON_HISTORY_LENGTH, PERCEPTRON_TABLE_SIZE,
  COUNTER_BITS, GEHL_NUM_TABLES,
  Addresses, NoAddress

GEHL_HISTORY_LENGTH == HistoryLength(GEHL_NUM_TABLES)

\* The int behind the last GEHL table is trained up to COUNTER_BITS.
ASSUME TournamentAssumption ==
  /\ BHT_BITS \in Nat \ {0} /\ BHR_BITS \in Nat \ {0}
  /\ PERCEPTRON_HISTORY_LENGTH \in Nat /\ PERCEPTRON_HISTORY_LENGTH > 2
  /\ PERCEPTRON_TABLE_SIZE \in Nat \ {0}
  /\ COUNTER_BITS \in Nat \ {0}
  /\ COUNTER_BITS <= PERCEPTRON_TABLE_SIZE /\ COUNTER_BITS <= GEHL_HISTORY_LENGTH
  /\ GEHL_NUM_TABLES \in Nat \ {0} /\ GEHL_NUM_TABLES % 2 = 0
  /\ Addresses \subseteq Seq(0 .. 127) /\ NoAddress \notin Addresses

VARIABLES
  correlated_bhr, correlated_current_index, correlated_history,
  weight, address_history, perceptron_paths_used, perceptron_current_index,
  perceptron_branch_history, current_perceptron_result,
  GEHLpredictionTable, historyVariations, GEHL_branch_history, GEHLsum,
  strayed,  \* history variable: a GEHL index has been outside its table
  individual_predictions, prediction

correlatedVars == <<correlated_bhr, correlated_current_index, correlated_history>>
perceptronVars ==
  <<weight, address_history, perceptron_paths_used, perceptron_current_index,
    perceptron_branch_history, current_perceptron_result>>
GEHLVars ==
  <<GEHLpredictionTable, historyVariations, GEHL_branch_history, GEHLsum, strayed>>
predictorVars ==
  <<correlatedVars, perceptronVars, GEHLVars, individual_predictions, prediction>>

vars == <<toolVars, predictorVars>>

Table == INSTANCE AssociativeTable WITH
           Size <- PERCEPTRON_TABLE_SIZE, Keys <- Addresses \cup {NoAddress},
           Blank <- NoAddress, entries <- address_history,
           used <- perceptron_paths_used, current <- perceptron_current_index

Predictors == 0 .. 2

Inputs == 0 .. PERCEPTRON_HISTORY_LENGTH - 1

\* Stray training moves the first depth within the counters' range, and
\* perceptron_paths_used out of the table's.
PredictorTypeOK ==
  /\ correlated_bhr \in [0 .. pow2(BHR_BITS) - 1 -> -BHT_BITS .. BHT_BITS]
  /\ correlated_current_index \in 0 .. pow2(BHR_BITS) - 1
  /\ correlated_history \in [0 .. BHR_BITS - 1 -> BOOLEAN]
  /\ address_history \in [0 .. PERCEPTRON_TABLE_SIZE - 1 -> Addresses \cup {NoAddress}]
  /\ perceptron_paths_used \in -COUNTER_BITS .. PERCEPTRON_TABLE_SIZE
  /\ perceptron_current_index \in 0 .. PERCEPTRON_TABLE_SIZE - 1
  /\ weight \in [0 .. PERCEPTRON_TABLE_SIZE - 1 -> [Inputs -> Int]]
  /\ perceptron_branch_history \in [Inputs -> BOOLEAN]
  /\ current_perceptron_result \in Int
  /\ GEHLpredictionTable \in
       [0 .. GEHL_NUM_TABLES - 1 -> [0 .. GEHL_TABLE_SIZE - 1 -> -COUNTER_BITS .. COUNTER_BITS]]
  /\ \E depth \in -COUNTER_BITS .. COUNTER_BITS :
       historyVariations = [initialDepths(GEHL_NUM_TABLES) EXCEPT ![0] = depth]
  /\ GEHL_branch_history \in Histories(GEHL_NUM_TABLES, Addresses)
  /\ GEHLsum \in Int
  /\ strayed \in BOOLEAN
  /\ individual_predictions \in [Predictors -> {-1, 1}]
  /\ prediction \in BOOLEAN

TypeOK == ToolTypeOK /\ PredictorTypeOK

-----------------------------------------------------------------------------

PredictorInit ==
  /\ correlated_bhr = [i \in 0 .. pow2(BHR_BITS) - 1 |-> 0]
  /\ correlated_current_index = 0
  /\ correlated_history = [i \in 0 .. BHR_BITS - 1 |-> FALSE]
  /\ Table!TableInit
  /\ weight = [a \in 0 .. PERCEPTRON_TABLE_SIZE - 1 |-> [i \in Inputs |-> 0]]
  /\ perceptron_branch_history = [i \in Inputs |-> FALSE]
  /\ current_perceptron_result = 0
  /\ GEHLpredictionTable =
       [i \in 0 .. GEHL_NUM_TABLES - 1 |-> [j \in 0 .. GEHL_TABLE_SIZE - 1 |-> 0]]
  /\ historyVariations = initialDepths(GEHL_NUM_TABLES)
  /\ GEHL_branch_history = [i \in 0 .. GEHL_HISTORY_LENGTH - 1 |-> << >>]
  /\ GEHLsum = 0
  /\ strayed = FALSE
  /\ individual_predictions = [i \in Predictors |-> 1]
  /\ prediction = FALSE

Init == ToolInit /\ PredictorInit

\* How far it takes perceptron_paths_used is PathsUsed: the branch may yet
\* train that.
updateIndex(address) ==
  /\ correlated_current_index' = PackBits(correlated_history, BHR_BITS - 1)
  /\ Table!Place(address)

PathsUsed(address) == Table!UsedAfter(address)

\* The hashes of the paths.
hash == Indices(GEHL_branch_history, historyVariations, GEHL_NUM_TABLES)

\* What the last table's index finds behind the array, and its value.
Struck(at) ==
  IF at[GEHL_NUM_TABLES - 1] = GEHL_TABLE_SIZE
    THEN {"historyVariations", "perceptron_paths_used"} ELSE {"nothing"}

Behind(struck, address) ==
  CASE struck = "historyVariations" -> historyVariations[0]
    [] struck = "perceptron_paths_used" -> PathsUsed(address)
    [] struck = "nothing" -> 0

Vote(yes) == IF yes THEN 1 ELSE -1

setPrediction(at, behind) ==
  /\ current_perceptron_result' =
       Output(weight[perceptron_current_index'], perceptron_branch_history,
              PERCEPTRON_HISTORY_LENGTH)
  /\ GEHLsum' = TableSum(GEHLpredictionTable, at, behind, GEHL_NUM_TABLES)
  /\ individual_predictions' =
       [i \in Predictors |->
          CASE i = 0 -> Vote(Predict(correlated_bhr[correlated_current_index']))
            [] i = 1 -> Vote(current_perceptron_result' > 0)
            [] i = 2 -> Vote(GEHLsum' > 0)]
  /\ prediction' = (SumBelow(individual_predictions', 3) > 0)

\* Mutant: the counters are clamped as those of strace.cpp.
updateGEHL_Saturating(at, struck, address, taken, wasCorrect) ==
  /\ GEHLpredictionTable' =
       IF MustUpdate(GEHLsum', wasCorrect, GEHL_NUM_TABLES)
         THEN Updated(GEHLpredictionTable, at, taken, GEHL_NUM_TABLES, SaturatingNum(COUNTER_BITS))
         ELSE GEHLpredictionTable
  /\ UNCHANGED historyVariations
  /\ perceptron_paths_used' = PathsUsed(address)

updateGEHL(at, struck, address, taken, wasCorrect) ==
  IF MustUpdate(GEHLsum', wasCorrect, GEHL_NUM_TABLES)
    THEN /\ GEHLpredictionTable' =
              Updated(GEHLpredictionTable, at, taken, GEHL_NUM_TABLES, COUNTER_BITS)
         /\ historyVariations' =
              IF struck = "historyVariations"
                THEN [historyVariations EXCEPT ![0] = Bumped(@, taken, COUNTER_BITS)]
                ELSE historyVariations
         /\ perceptron_paths_used' =
              IF struck = "perceptron_paths_used"
                THEN Bumped(PathsUsed(address), taken, COUNTER_BITS) ELSE PathsUsed(address)
    ELSE /\ UNCHANGED <<GEHLpredictionTable, historyVariations>>
         /\ perceptron_paths_used' = PathsUsed(address)

\* Mutant: the counters are clamped as those of pinatrace.cpp.
updatePredictors_Saturating(at, struck, address, taken, wasCorrect) ==
  /\ correlated_bhr' =
       [correlated_bhr EXCEPT ![correlated_current_index'] = Train(@, taken, SaturatingNum(BHT_BITS))]
  /\ weight' =
       IF MustTrain(current_perceptron_result', ~wasCorrect, PERCEPTRON_HISTORY_LENGTH)
         THEN [weight EXCEPT ![perceptron_current_index'] =
                 Trained(@, perceptron_branch_history, taken, PERCEPTRON_HISTORY_LENGTH)]
         ELSE weight
  /\ updateGEHL(at, struck, address, taken, wasCorrect)

\* Each part in its own way, but for whether the prediction was wrong: that
\* is the vote, not the part's own.
updatePredictors(at, struck, address, taken, wasCorrect) ==
  /\ correlated_bhr' =
       [correlated_bhr EXCEPT ![correlated_current_index'] = Train(@, taken, BHT_BITS)]
  /\ weight' =
       IF MustTrain(current_perceptron_result', ~wasCorrect, PERCEPTRON_HISTORY_LENGTH)
         THEN [weight EXCEPT ![perceptron_current_index'] =
                 Trained(@, perceptron_branch_history, taken, PERCEPTRON_HISTORY_LENGTH)]
         ELSE weight
  /\ updateGEHL(at, struck, address, taken, wasCorrect)

updateHistory(taken, address) ==
  /\ correlated_history' = ShiftIn(correlated_history, BHR_BITS, taken)
  /\ perceptron_branch_history' =
       ShiftedOnce(perceptron_branch_history, PERCEPTRON_HISTORY_LENGTH, taken)
  /\ GEHL_branch_history' = ShiftIn(GEHL_branch_history, GEHL_HISTORY_LENGTH, address)

\* A new address is not written to slot -1 of address_history.
CanPlace(address) == perceptron_paths_used >= 0 \/ Table!Matches(address) # {}

\* Mutant: a wrong vote is not trained on.
PredictAndTrain_SkipsWrong(taken, address) ==
  /\ CanPlace(address)
  /\ updateIndex(address)
  /\ \E at \in {hash} :
       /\ \E struck \in Struck(at) :
            /\ setPrediction(at, Behind(struck, address))
            /\ IF prediction' = taken
                 THEN updatePredictors(at, struck, address, taken, TRUE)
                 ELSE /\ UNCHANGED <<correlated_bhr, weight>>
                      /\ UNCHANGED <<GEHLpredictionTable, historyVariations>>
                      /\ perceptron_paths_used' = PathsUsed(address)
       /\ strayed' = (strayed \/ Overruns(at, GEHL_NUM_TABLES))
  /\ updateHistory(taken, address)

\* What RecordBranch does beside keeping the score.
PredictAndTrain(taken, address) ==
  /\ CanPlace(address)
  /\ updateIndex(address)
  /\ \E at \in {hash} :
       /\ \E struck \in Struck(at) :
            /\ setPrediction(at, Behind(struck, address))
            /\ updatePredictors(at, struck, address, taken, prediction' = taken)
       /\ strayed' = (strayed \/ Overruns(at, GEHL_NUM_TABLES))
  /\ updateHistory(taken, address)

RecordBranch(ins, taken, address) ==
  /\ ExecuteBranch(ins)
  /\ PredictAndTrain(taken, address)
  /\ Score(prediction' = taken)

\* The application dies in updateHistory, or where updateIndex assigns to a
\* string before address_history.
RecordBranchFaults(ins) ==
  /\ running
  /\ ins \in instrumented \cap Branches
  /\ running' = FALSE
  /\ UNCHANGED <<instrumented, num_instr, num_branches, num_correct, predictorVars>>

Next ==
  \/ HostStep /\ UNCHANGED predictorVars
  \/ \E ins \in Branches, taken \in BOOLEAN, address \in Addresses :
       RecordBranch(ins, taken, address)
  \/ \E ins \in Branches : RecordBranchFaults(ins)

Spec == Init /\ [][Next]_vars

-----------------------------------------------------------------------------

Memory == INSTANCE ContextMemory WITH
            Window <- BHR_BITS, Most <- BHT_BITS, Start <- 0,
            learned <- ByContext(correlated_bhr, BHR_BITS),
            recent <- AsSequence(correlated_history, BHR_BITS)

\* The correlated part learns what it would alone, whatever the other two
\* predict and however the vote goes.
ImplementsMemory == Memory!Spec

=============================================================================

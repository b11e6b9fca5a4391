--------------------- MODULE TournamentLearning_proofs ---------------------
(***************************************************************************)
(* What holds of proccount.cpp's predictor for every size of its parts,    *)
(* set of addresses and bound MaxInstr: the parts do not get in each       *)
(* other's way, and the vote learns a loop, whatever the three had learned *)
(* before it, until an index of the GEHL part leaves its table.            *)
(***************************************************************************)
EXTENDS TournamentLearning, PredictorLemmas

Tables == 0 .. GEHL_NUM_TABLES - 1

Loops == [taken : BOOLEAN, address : Addresses]

Counter == -COUNTER_BITS .. COUNTER_BITS

LEMMA Sizes ==
  /\ BHT_BITS \in Nat \ {0} /\ BHR_BITS \in Nat \ {0}
  /\ PERCEPTRON_HISTORY_LENGTH \in Nat \ {0} /\ PERCEPTRON_HISTORY_LENGTH > 2
  /\ PERCEPTRON_TABLE_SIZE \in Nat \ {0}
  /\ COUNTER_BITS \in Nat \ {0}
  /\ COUNTER_BITS <= PERCEPTRON_TABLE_SIZE /\ COUNTER_BITS <= GEHL_HISTORY_LENGTH
  /\ GEHL_NUM_TABLES \in Nat /\ GEHL_NUM_TABLES >= 2
  /\ GEHL_HISTORY_LENGTH \in Nat \ {0}
  /\ \A i \in Tables : pow2(i) \in Nat \ {0} /\ pow2(i) <= GEHL_HISTORY_LENGTH
<1>1. GEHL_NUM_TABLES \in Nat /\ GEHL_NUM_TABLES >= 2 BY TournamentAssumption
<1>2. 0 \in Tables BY <1>1 DEF Tables
<1>3. \A i \in Tables :
        /\ GEHL_HISTORY_LENGTH \in Nat /\ GEHL_HISTORY_LENGTH >= 2
        /\ pow2(i) \in Nat \ {0} /\ pow2(i) <= GEHL_HISTORY_LENGTH
  BY <1>1, Depths DEF Tables, GEHL_HISTORY_LENGTH
<1>4. GEHL_HISTORY_LENGTH \in Nat \ {0} BY <1>2, <1>3
<1> QED BY <1>1, <1>3, <1>4, TournamentAssumption

-----------------------------------------------------------------------------
(***************************************************************************)
(* The correlated part.                                                    *)
(***************************************************************************)

\* One step of a counter, which may start from 0 here.
LEMMA TrainStep ==
  ASSUME NEW max \in Nat \ {0}, NEW c \in -max .. max, NEW taken \in BOOLEAN
  PROVE  /\ Train(c, taken, max) \in -max .. max
         /\ taken => Train(c, taken, max) = IF c = -1 THEN 1 ELSE IF c = max THEN c ELSE c + 1
         /\ ~taken => Train(c, taken, max) = IF c = 1 THEN -1 ELSE IF c = -max THEN c ELSE c - 1
<1>1. CASE taken BY <1>1 DEF Train, Clamp
<1>2. CASE ~taken BY <1>2 DEF Train, Clamp
<1> QED BY <1>1, <1>2

LEMMA CorrelatedStep ==
  ASSUME PredictorTypeOK, NEW taken \in BOOLEAN, NEW address \in Addresses,
         PredictAndTrain(taken, address),
         NEW k, k = PackBits(correlated_history, BHR_BITS - 1)
  PROVE  /\ correlated_current_index' = k /\ k \in 0 .. pow2(BHR_BITS) - 1
         /\ correlated_bhr[k] \in -BHT_BITS .. BHT_BITS
         /\ correlated_bhr' = [correlated_bhr EXCEPT ![k] = Train(correlated_bhr[k], taken, BHT_BITS)]
         /\ correlated_bhr' \in [0 .. pow2(BHR_BITS) - 1 -> -BHT_BITS .. BHT_BITS]
         /\ correlated_history' = ShiftIn(correlated_history, BHR_BITS, taken)
         /\ correlated_history' \in [0 .. BHR_BITS - 1 -> BOOLEAN]
<1>1. /\ correlated_current_index' = k
      /\ correlated_bhr' = [correlated_bhr EXCEPT ![k] = Train(correlated_bhr[k], taken, BHT_BITS)]
      /\ correlated_history' = ShiftIn(correlated_history, BHR_BITS, taken)
  <2>1. PICK at \in {hash} : \E struck \in Struck(at) :
          updatePredictors(at, struck, address, taken, prediction' = taken)
    BY DEF PredictAndTrain
  <2> QED BY <2>1 DEF PredictAndTrain, updateIndex, updatePredictors, updateHistory
<1>2. k \in 0 .. pow2(BHR_BITS) - 1
  <2>1. BHR_BITS - 1 \in Nat BY Sizes
  <2>2. k \in 0 .. pow2(BHR_BITS - 1) - 1 BY <2>1, PackBitsRange
  <2>3. pow2(BHR_BITS) = 2 * pow2(BHR_BITS - 1) /\ pow2(BHR_BITS - 1) \in Nat \ {0}
    BY Sizes, PowerHalf
  <2> QED BY <2>2, <2>3
<1>3. /\ correlated_bhr \in [0 .. pow2(BHR_BITS) - 1 -> -BHT_BITS .. BHT_BITS]
      /\ correlated_history \in [0 .. BHR_BITS - 1 -> BOOLEAN]
  BY DEF PredictorTypeOK
<1>4. correlated_bhr[k] \in -BHT_BITS .. BHT_BITS BY <1>2, <1>3
<1>5. Train(correlated_bhr[k], taken, BHT_BITS) \in -BHT_BITS .. BHT_BITS
  <2> DEFINE c == correlated_bhr[k]
  <2>1. c \in -BHT_BITS .. BHT_BITS BY <1>4
  <2> HIDE DEF c
  <2>2. Train(c, taken, BHT_BITS) \in -BHT_BITS .. BHT_BITS BY <2>1, Sizes, TrainStep
  <2> QED BY <2>2 DEF c
<1>6. correlated_history' \in [0 .. BHR_BITS - 1 -> BOOLEAN]
  BY <1>1, <1>3, Sizes DEF ShiftIn
<1> QED BY <1>1, <1>2, <1>3, <1>4, <1>5, <1>6

-----------------------------------------------------------------------------
(***************************************************************************)
(* The perceptron part.                                                    *)
(***************************************************************************)

\* updateHistory never moves an outcome into the cells the weights but the
\* first are for: they stay as main has cleared them.
CellsStayClear ==
  \A i \in 1 .. PERCEPTRON_HISTORY_LENGTH - 1 : perceptron_branch_history[i] = FALSE

\* The answers of all the perceptrons.
Answers ==
  [a \in 0 .. PERCEPTRON_TABLE_SIZE - 1 |->
     Output(weight[a], perceptron_branch_history, PERCEPTRON_HISTORY_LENGTH)]

\* A lookup selects the entry that holds the address, which stays the one it
\* was if it is the first to hold it.
LEMMA LookupFinds ==
  ASSUME PredictorTypeOK, NEW key \in Addresses, CanPlace(key), Table!Place(key)
  PROVE  /\ address_history' \in [0 .. PERCEPTRON_TABLE_SIZE - 1 -> Addresses \cup {NoAddress}]
         /\ PathsUsed(key) \in -COUNTER_BITS .. PERCEPTRON_TABLE_SIZE
         /\ perceptron_current_index' \in 0 .. PERCEPTRON_TABLE_SIZE - 1
         /\ address_history'[perceptron_current_index'] = key
         /\ \A i \in 0 .. PERCEPTRON_TABLE_SIZE - 1 :
              address_history'[i] = key => perceptron_current_index' <= i
         /\ address_history[perceptron_current_index] = key
            /\ (\A i \in 0 .. PERCEPTRON_TABLE_SIZE - 1 :
                  address_history[i] = key => perceptron_current_index <= i)
              => perceptron_current_index' = perceptron_current_index
<1> USE DEF Table!Slots, Table!Matches
<1>0. /\ address_history \in [0 .. PERCEPTRON_TABLE_SIZE - 1 -> Addresses \cup {NoAddress}]
      /\ perceptron_paths_used \in -COUNTER_BITS .. PERCEPTRON_TABLE_SIZE
      /\ perceptron_current_index \in 0 .. PERCEPTRON_TABLE_SIZE - 1
  BY DEF PredictorTypeOK
<1>1. CASE Table!Found(key)
  <2>1. PathsUsed(key) = perceptron_paths_used
    BY <1>1 DEF Table!Found, PathsUsed, Table!UsedAfter
  <2> QED BY <1>0, <1>1, <2>1, Sizes DEF Table!Found
<1>2. CASE Table!Filled(key)
  <2> DEFINE slot == IF perceptron_paths_used = PERCEPTRON_TABLE_SIZE THEN 0
                     ELSE perceptron_paths_used
  <2>1. /\ address_history' = [address_history EXCEPT ![slot] = key]
        /\ perceptron_current_index' = slot /\ PathsUsed(key) = slot + 1
        /\ \A i \in 0 .. PERCEPTRON_TABLE_SIZE - 1 : address_history[i] # key
    BY <1>2 DEF Table!Filled, Table!NextSlot, Table!UsedAfter, PathsUsed
  <2>2. slot \in 0 .. PERCEPTRON_TABLE_SIZE - 1
    <3>1. perceptron_paths_used >= 0 BY <1>2 DEF CanPlace, Table!Filled
    <3> QED BY <1>0, <3>1, Sizes
  <2> HIDE DEF slot
  <2>3. PathsUsed(key) \in -COUNTER_BITS .. PERCEPTRON_TABLE_SIZE
    <3>1. slot + 1 \in -COUNTER_BITS .. PERCEPTRON_TABLE_SIZE BY <2>2, Sizes
    <3> QED BY <2>1, <3>1
  <2> QED BY <1>0, <2>1, <2>2, <2>3, Sizes
<1> QED BY <1>1, <1>2 DEF Table!Place

\* A branch trains the perceptron of its address, if at all, towards the
\* outcome.
LEMMA PerceptronStep ==
  ASSUME PredictorTypeOK, CellsStayClear, NEW taken \in BOOLEAN, NEW address \in Addresses,
         PredictAndTrain(taken, address),
         NEW k, k = perceptron_current_index'
  PROVE  /\ address_history' \in [0 .. PERCEPTRON_TABLE_SIZE - 1 -> Addresses \cup {NoAddress}]
         /\ k \in 0 .. PERCEPTRON_TABLE_SIZE - 1
         /\ weight' \in [0 .. PERCEPTRON_TABLE_SIZE - 1 -> [Inputs -> Int]]
         /\ perceptron_branch_history' \in [Inputs -> BOOLEAN] /\ CellsStayClear'
         /\ \A a \in 0 .. PERCEPTRON_TABLE_SIZE - 1 : Answers[a] \in Int
         /\ current_perceptron_result' = Answers[k]
         /\ \/ Answers'[k] = Answers[k]
            \/ \E d \in {PERCEPTRON_HISTORY_LENGTH, PERCEPTRON_HISTORY_LENGTH - 2} :
                 Answers'[k] = Answers[k] + Sign(taken) * d
<1> DEFINE n == PERCEPTRON_HISTORY_LENGTH
           h == perceptron_branch_history
           T == 0 .. PERCEPTRON_TABLE_SIZE - 1
           trained == Trained(weight[k], h, taken, n)
<1>1. n \in Nat \ {0} /\ n > 2 /\ PERCEPTRON_TABLE_SIZE \in Nat \ {0} BY Sizes
<1>2. /\ address_history' \in [0 .. PERCEPTRON_TABLE_SIZE - 1 -> Addresses \cup {NoAddress}]
      /\ k \in T
  BY LookupFinds DEF PredictAndTrain, updateIndex
<1>3. /\ h \in [0 .. n - 1 -> BOOLEAN] /\ h[0] \in BOOLEAN
      /\ \A i \in 1 .. n - 1 : h[i] = FALSE
  <2>1. h \in [0 .. n - 1 -> BOOLEAN] BY DEF PredictorTypeOK, Inputs
  <2>2. 0 \in 0 .. n - 1 BY <1>1
  <2>3. h[0] \in BOOLEAN BY Zenon, <2>1, <2>2
  <2> QED BY <2>1, <2>3 DEF CellsStayClear
<1>4. weight \in [T -> [0 .. n - 1 -> Int]] BY DEF PredictorTypeOK, Inputs
<1>5. perceptron_branch_history' = ShiftedOnce(h, n, taken)
  BY DEF PredictAndTrain, updateHistory
<1>0. PICK at \in {hash} : \E struck \in Struck(at) :
         /\ setPrediction(at, Behind(struck, address))
         /\ updatePredictors(at, struck, address, taken, prediction' = taken)
  BY DEF PredictAndTrain
<1>6. weight' = [weight EXCEPT ![k] = trained] \/ weight' = weight
  BY <1>0 DEF updatePredictors
<1>7. current_perceptron_result' = Output(weight[k], h, n)
  BY <1>0 DEF setPrediction
<1>8. /\ \A a \in T : Answers[a] = Output(weight[a], h, n)
      /\ \A a \in T : Answers'[a] = Output(weight'[a], perceptron_branch_history', n)
  BY DEF Answers
<1>9. trained \in [0 .. n - 1 -> Int]
  <2>1. \A i \in 0 .. n - 1 : weight[k][i] + Sign(taken) * Sign(h[i]) \in Int
    <3> SUFFICES ASSUME NEW i \in 0 .. n - 1
                 PROVE  weight[k][i] + Sign(taken) * Sign(h[i]) \in Int
      OBVIOUS
    <3> DEFINE x == weight[k][i]
               s == Sign(taken)
               u == Sign(h[i])
    <3>1. x \in Int BY <1>2, <1>4
    <3>2. s \in {-1, 1} /\ u \in {-1, 1} BY DEF Sign
    <3> HIDE DEF x, s, u
    <3>3. x + s * u \in Int BY <3>1, <3>2
    <3> QED BY <3>3 DEF x, s, u
  <2> QED BY <2>1 DEF Trained
<1> DEFINE later == perceptron_branch_history'
<1> HIDE DEF later
<1>10. /\ later \in [0 .. n - 1 -> BOOLEAN]
       /\ \A i \in 1 .. n - 1 : later[i] = FALSE
  BY ONLY <1>1, <1>3, <1>5, taken \in BOOLEAN, ShiftKeepsClear DEF later
<1> HIDE DEF n, h, T, trained
<1>11. weight' \in [T -> [0 .. n - 1 -> Int]] BY <1>2, <1>4, <1>6, <1>9
<1>12. \A a \in T : Answers[a] \in Int
  <2>1. \A a \in T : \A i \in 0 .. n - 1 : weight[a][i] \in Int BY <1>4
  <2>2. \A a \in T : Output(weight[a], h, n) \in Int BY <1>1, <1>3, <2>1, OutputOfCleared
  <2> QED BY <1>8, <2>2
<1>13. Answers'[k] = Output(weight'[k], h, n)
  <2>1. \A i \in 0 .. n - 1 : weight'[k][i] \in Int BY <1>2, <1>11
  <2>2. \A i \in 1 .. n - 1 : h[i] = FALSE /\ later[i] = FALSE BY <1>3, <1>10
  <2>3. Output(weight'[k], later, n) = Output(weight'[k], h, n)
    BY ONLY <1>1, <2>1, <2>2, OutputKept
  <2> QED BY <1>2, <1>8, <2>3 DEF later
<1>14. \E d \in {n, n - 2} : Output(trained, h, n) = Answers[k] + Sign(taken) * d
  <2> DEFINE w == weight[k]
  <2>1. \A i \in 0 .. n - 1 : w[i] \in Int BY <1>2, <1>4
  <2>2. Answers[k] = Output(w, h, n) BY <1>2, <1>8
  <2> HIDE DEF w
  <2>3. \E d \in {n, n - 2} :
          Output(Trained(w, h, taken, n), h, n) = Output(w, h, n) + Sign(taken) * d
    BY ONLY <1>1, <1>3, <2>1, taken \in BOOLEAN, OutputTrained
  <2> QED BY <2>2, <2>3 DEF w, trained
<1>15. weight'[k] = trained \/ weight'[k] = weight[k] BY <1>2, <1>4, <1>6
<1>16. CellsStayClear' BY <1>10 DEF CellsStayClear, later, n
<1>17. /\ weight' \in [T -> [Inputs -> Int]]
       /\ perceptron_branch_history' \in [Inputs -> BOOLEAN]
  BY <1>10, <1>11 DEF Inputs, later, n
<1>18. Answers'[k] = Answers[k] \/ \E d \in {n, n - 2} : Answers'[k] = Answers[k] + Sign(taken) * d
  BY <1>2, <1>8, <1>13, <1>14, <1>15
<1>19. current_perceptron_result' = Answers[k] BY <1>2, <1>7, <1>8
<1> QED BY <1>2, <1>12, <1>16, <1>17, <1>18, <1>19 DEF n, T

-----------------------------------------------------------------------------
(***************************************************************************)
(* The GEHL part.                                                          *)
(***************************************************************************)

InTables(at) == \A i \in Tables : at[i] \in 0 .. GEHL_TABLE_SIZE - 1

\* The depths, of which table 0's may have been trained.
LEMMA DepthTypes ==
  ASSUME PredictorTypeOK
  PROVE  /\ historyVariations[0] \in Counter
         /\ \A i \in Tables : historyVariations[i] \in Int
                              /\ historyVariations[i] <= GEHL_HISTORY_LENGTH
<1>1. PICK depth \in Counter :
        historyVariations = [initialDepths(GEHL_NUM_TABLES) EXCEPT ![0] = depth]
  BY DEF PredictorTypeOK, Counter
<1>2. depth \in Int /\ depth <= GEHL_HISTORY_LENGTH BY Sizes DEF Counter
<1>3. 0 \in 0 .. GEHL_NUM_TABLES - 1 BY Sizes
<1>4. historyVariations[0] = depth BY <1>1, <1>3 DEF initialDepths
<1>5. ASSUME NEW i \in Tables, i # 0 PROVE historyVariations[i] = pow2(i)
  BY <1>1, <1>5 DEF initialDepths, Tables
<1> QED BY <1>2, <1>4, <1>5, Sizes

LEMMA HashTypes ==
  ASSUME PredictorTypeOK
  PROVE  hash \in [Tables -> 0 .. GEHL_TABLE_SIZE]
<1>1. /\ GEHL_NUM_TABLES \in Nat /\ GEHL_NUM_TABLES >= 2 /\ Addresses \subseteq Seq(0 .. 127)
      /\ GEHL_branch_history \in Histories(GEHL_NUM_TABLES, Addresses)
  BY Sizes, TournamentAssumption DEF PredictorTypeOK
<1>2. \A i \in 0 .. GEHL_NUM_TABLES - 1 :
        historyVariations[i] \in Int /\ historyVariations[i] <= HistoryLength(GEHL_NUM_TABLES)
  BY DepthTypes DEF Tables, GEHL_HISTORY_LENGTH
<1> QED BY <1>1, <1>2, IndicesRange DEF hash, Tables

\* One step of a counter, which passes through 0 here.
Stepped(c, taken) ==
  IF taken
    THEN IF c = COUNTER_BITS THEN c ELSE c + 1
    ELSE IF c = -COUNTER_BITS THEN c ELSE c - 1

LEMMA BumpedIsStepped ==
  ASSUME NEW c \in -COUNTER_BITS .. COUNTER_BITS, NEW taken \in BOOLEAN
  PROVE  /\ Bumped(c, taken, COUNTER_BITS) = Stepped(c, taken)
         /\ Stepped(c, taken) \in -COUNTER_BITS .. COUNTER_BITS
<1>1. COUNTER_BITS \in Nat \ {0} BY Sizes
<1> QED BY <1>1 DEF Bumped, Stepped

\* What a branch does to the GEHL part: the types are kept, with an index
\* outside its table too.
LEMMA GehlTypes ==
  ASSUME PredictorTypeOK, NEW taken \in BOOLEAN, NEW address \in Addresses,
         PredictAndTrain(taken, address)
  PROVE  /\ GEHLsum' \in Int
         /\ GEHLpredictionTable' \in [Tables -> [0 .. GEHL_TABLE_SIZE - 1 -> Counter]]
         /\ \E depth \in Counter :
              historyVariations' = [initialDepths(GEHL_NUM_TABLES) EXCEPT ![0] = depth]
         /\ perceptron_paths_used' \in -COUNTER_BITS .. PERCEPTRON_TABLE_SIZE
         /\ strayed' \in BOOLEAN
         /\ GEHL_branch_history' \in Histories(GEHL_NUM_TABLES, Addresses)
         /\ GEHL_branch_history' = ShiftIn(GEHL_branch_history, GEHL_HISTORY_LENGTH, address)
<1> DEFINE at == hash
           n == GEHL_NUM_TABLES
           max == COUNTER_BITS
           used == PathsUsed(address)
<1>1. PICK struck \in Struck(at) :
        /\ setPrediction(at, Behind(struck, address))
        /\ updateGEHL(at, struck, address, taken, prediction' = taken)
  BY DEF PredictAndTrain, updatePredictors
<1>2. at \in [0 .. n - 1 -> 0 .. GEHL_TABLE_SIZE] BY HashTypes DEF Tables
<1>3. GEHLpredictionTable \in [0 .. n - 1 -> [0 .. GEHL_TABLE_SIZE - 1 -> -max .. max]]
  BY DEF PredictorTypeOK
<1>4. n \in Nat /\ max \in Nat /\ max <= PERCEPTRON_TABLE_SIZE BY Sizes
<1>5. used \in -max .. PERCEPTRON_TABLE_SIZE BY LookupFinds DEF PredictAndTrain, updateIndex
<1>6. strayed' \in BOOLEAN
  <2>1. strayed' = (strayed \/ Overruns(hash, n)) BY DEF PredictAndTrain
  <2> QED BY <2>1
<1>7. /\ GEHL_branch_history' = ShiftIn(GEHL_branch_history, GEHL_HISTORY_LENGTH, address)
      /\ GEHL_branch_history' \in Histories(GEHL_NUM_TABLES, Addresses)
  <2>1. GEHL_branch_history' = ShiftIn(GEHL_branch_history, GEHL_HISTORY_LENGTH, address)
    BY DEF PredictAndTrain, updateHistory
  <2>2. GEHL_branch_history \in [0 .. GEHL_HISTORY_LENGTH - 1 -> Addresses \cup {<< >>}]
    BY DEF PredictorTypeOK, Histories, GEHL_HISTORY_LENGTH
  <2>3. GEHL_branch_history' \in [0 .. GEHL_HISTORY_LENGTH - 1 -> Addresses \cup {<< >>}]
    BY <2>1, <2>2, Sizes DEF ShiftIn
  <2> QED BY <2>1, <2>3 DEF Histories, GEHL_HISTORY_LENGTH
<1> HIDE DEF at, used
<1>8. GEHLsum' \in Int
  <2> DEFINE behind == Behind(struck, address)
  <2>1. behind \in Int
    <3>1. struck \in {"historyVariations", "perceptron_paths_used", "nothing"} BY DEF Struck
    <3>2. CASE struck = "historyVariations"
      <4>1. behind = historyVariations[0] BY <3>2 DEF Behind
      <4> QED BY <4>1, DepthTypes, Sizes DEF Counter
    <3>3. CASE struck = "perceptron_paths_used"
      <4>1. behind = used BY <3>3 DEF Behind, used
      <4> QED BY <1>4, <1>5, <4>1, Sizes
    <3>4. CASE struck = "nothing"
      <4>1. behind = 0 BY <3>4 DEF Behind
      <4> QED BY <4>1
    <3> QED BY <3>1, <3>2, <3>3, <3>4
  <2>2. GEHLpredictionTable \in [0 .. n - 1 -> [0 .. GEHL_TABLE_SIZE - 1 -> Int]]
    BY <1>3, <1>4
  <2> HIDE DEF behind, n
  <2>3. TableSum(GEHLpredictionTable, at, behind, n) \in Int
    BY <1>2, <1>4, <2>1, <2>2, TableSumType
  <2> QED BY <1>1, <2>3 DEF setPrediction, behind, n
<1> DEFINE trains == MustUpdate(GEHLsum', prediction' = taken, n)
<1>9. GEHLpredictionTable' \in [Tables -> [0 .. GEHL_TABLE_SIZE - 1 -> Counter]]
  <2>1. GEHLpredictionTable' \in {Updated(GEHLpredictionTable, at, taken, n, max), GEHLpredictionTable}
    BY <1>1 DEF updateGEHL
  <2> HIDE DEF n, max
  <2>2. Updated(GEHLpredictionTable, at, taken, n, max)
          \in [0 .. n - 1 -> [0 .. GEHL_TABLE_SIZE - 1 -> -max .. max]]
    BY <1>3, <1>4, UpdatedType
  <2>3. GEHLpredictionTable' \in [0 .. n - 1 -> [0 .. GEHL_TABLE_SIZE - 1 -> -max .. max]]
    BY <1>3, <2>1, <2>2
  <2> QED BY <2>3 DEF n, max, Tables, Counter
<1>10. \E depth \in Counter :
         historyVariations' = [initialDepths(GEHL_NUM_TABLES) EXCEPT ![0] = depth]
  <2>1. PICK depth \in Counter :
          historyVariations = [initialDepths(GEHL_NUM_TABLES) EXCEPT ![0] = depth]
    BY DEF PredictorTypeOK, Counter
  <2>2. CASE historyVariations' = historyVariations BY <2>1, <2>2
  <2>3. CASE historyVariations' = [historyVariations EXCEPT ![0] =
                                     Bumped(historyVariations[0], taken, max)]
    <3> DEFINE c == historyVariations[0]
               b == Bumped(c, taken, max)
    <3>1. c \in -max .. max BY DepthTypes DEF Counter
    <3>2. b \in Counter
      <4> HIDE DEF c
      <4> QED BY <1>4, <3>1, BumpedCounter DEF Counter
    <3>3. historyVariations' = [historyVariations EXCEPT ![0] = b] BY <2>3
    <3> HIDE DEF b
    <3>4. historyVariations' = [initialDepths(GEHL_NUM_TABLES) EXCEPT ![0] = b]
      BY <2>1, <3>3 DEF initialDepths
    <3> QED BY <3>2, <3>4
  <2> QED BY <1>1, <2>2, <2>3 DEF updateGEHL
<1>11. perceptron_paths_used' \in -COUNTER_BITS .. PERCEPTRON_TABLE_SIZE
  <2>1. perceptron_paths_used' \in {used, Bumped(used, taken, max)}
    BY <1>1 DEF updateGEHL, used
  <2>2. Bumped(used, taken, max) \in -max .. PERCEPTRON_TABLE_SIZE
    <3> HIDE DEF max
    <3>1. CASE taken BY <1>4, <1>5, <3>1, Sizes DEF Bumped
    <3>2. CASE ~taken BY <1>4, <1>5, <3>2, Sizes DEF Bumped
    <3> QED BY <3>1, <3>2
  <2> QED BY <1>5, <2>1, <2>2
<1> QED BY <1>6, <1>7, <1>8, <1>9, <1>10, <1>11

\* A branch that finds every index in its table trains, of each table, the
\* counter it predicted with, or nothing at all: then the vote was right.
LEMMA GehlStep ==
  ASSUME PredictorTypeOK, NEW taken \in BOOLEAN, NEW address \in Addresses,
         PredictAndTrain(taken, address), ~strayed'
  PROVE  /\ InTables(hash) /\ UNCHANGED historyVariations
         /\ GEHLsum' = GEHL_NUM_TABLES \div 2
              + SumBelow([i \in Tables |-> GEHLpredictionTable[i][hash[i]]], GEHL_NUM_TABLES)
         /\ \/ \A i \in Tables, k \in 0 .. GEHL_TABLE_SIZE - 1 :
                 GEHLpredictionTable'[i][k] =
                   IF k = hash[i] THEN Stepped(GEHLpredictionTable[i][k], taken)
                                  ELSE GEHLpredictionTable[i][k]
            \/ prediction' = taken /\ GEHLpredictionTable' = GEHLpredictionTable
<1> DEFINE at == hash
           n == GEHL_NUM_TABLES
           max == COUNTER_BITS
<1>1. ~Overruns(at, n) BY DEF PredictAndTrain
<1>2. at \in [Tables -> 0 .. GEHL_TABLE_SIZE] BY HashTypes
<1>3. InTables(at) BY <1>1, <1>2, TableSize DEF Overruns, InTables, Tables
<1>4. \E struck \in Struck(at) :
        /\ setPrediction(at, Behind(struck, address))
        /\ updateGEHL(at, struck, address, taken, prediction' = taken)
  BY DEF PredictAndTrain, updatePredictors
<1> HIDE DEF at
<1>5. Struck(at) = {"nothing"}
  <2>1. n - 1 \in Tables BY Sizes DEF Tables
  <2> QED BY <1>3, <2>1, TableSize DEF Struck, InTables
<1>6. /\ setPrediction(at, Behind("nothing", address))
      /\ updateGEHL(at, "nothing", address, taken, prediction' = taken)
  BY <1>4, <1>5
<1>7. n \in Nat /\ max \in Nat BY Sizes
<1>8. GEHLsum' = GEHL_NUM_TABLES \div 2
        + SumBelow([i \in Tables |-> GEHLpredictionTable[i][at[i]]], GEHL_NUM_TABLES)
  <2> DEFINE behind == Behind("nothing", address)
  <2>1. GEHLsum' = TableSum(GEHLpredictionTable, at, behind, n) BY <1>6 DEF setPrediction
  <2> HIDE DEF behind
  <2>2. TableSum(GEHLpredictionTable, at, behind, n)
          = n \div 2 + SumBelow([i \in 0 .. n - 1 |-> GEHLpredictionTable[i][at[i]]], n)
    BY <1>3, <1>7, TableSumInside DEF InTables, Tables
  <2> QED BY <2>1, <2>2 DEF Tables
<1> DEFINE trains == MustUpdate(GEHLsum', prediction' = taken, n)
<1>9. /\ UNCHANGED historyVariations
      /\ \/ GEHLpredictionTable' = Updated(GEHLpredictionTable, at, taken, n, max)
         \/ ~trains /\ GEHLpredictionTable' = GEHLpredictionTable
  <2>1. "nothing" # "historyVariations" OBVIOUS
  <2>2. updateGEHL(at, "nothing", address, taken, prediction' = taken) BY <1>6
  <2> DEFINE right == prediction' = taken
  <2>5. updateGEHL(at, "nothing", address, taken, right)
        /\ trains = MustUpdate(GEHLsum', right, GEHL_NUM_TABLES)
    BY <2>2
  <2> HIDE DEF right, trains
  <2>3. CASE trains
    <3>1. GEHLpredictionTable' = Updated(GEHLpredictionTable, at, taken, n, max)
      BY <2>3, <2>5 DEF updateGEHL
    <3>2. historyVariations' = historyVariations BY <2>1, <2>3, <2>5 DEF updateGEHL
    <3> QED BY <3>1, <3>2
  <2>4. CASE ~trains
    <3>1. UNCHANGED <<GEHLpredictionTable, historyVariations>> BY <2>4, <2>5 DEF updateGEHL
    <3> QED BY <2>4, <3>1
  <2> QED BY <2>3, <2>4
<1>10. ~trains => prediction' = taken
  <2>1. CASE prediction' = taken BY <2>1
  <2>2. CASE prediction' # taken
    <3>1. trains BY Zenon, <2>2 DEF MustUpdate
    <3> QED BY <3>1
  <2> QED BY <2>1, <2>2
<1> HIDE DEF trains
<1>11. ASSUME GEHLpredictionTable' = Updated(GEHLpredictionTable, at, taken, n, max),
              NEW i \in Tables, NEW k \in 0 .. GEHL_TABLE_SIZE - 1
       PROVE  GEHLpredictionTable'[i][k] =
                IF k = at[i] THEN Stepped(GEHLpredictionTable[i][k], taken)
                             ELSE GEHLpredictionTable[i][k]
  <2> DEFINE c == GEHLpredictionTable[i][k]
  <2>1. i \in 0 .. n - 1 BY DEF Tables
  <2>2. GEHLpredictionTable \in CounterTables(n, max) BY DEF PredictorTypeOK, CounterTables
  <2>3. Inside(at, n) BY <1>3 DEF InTables, Tables, Inside
  <2>4. c \in -COUNTER_BITS .. COUNTER_BITS BY <2>1, <2>2 DEF CounterTables
  <2>5. Bumped(c, taken, COUNTER_BITS) = Stepped(c, taken)
    <3> HIDE DEF c
    <3> QED BY <2>4, BumpedIsStepped
  <2> HIDE DEF n, max
  <2>6. Updated(GEHLpredictionTable, at, taken, n, max)[i][k]
          = Entered(GEHLpredictionTable, at, taken, max, i, k)
    BY <1>7, <2>1, <2>2, <2>3, UpdatedInside
  <2> QED BY <1>11, <2>5, <2>6 DEF max, Entered
<1> QED BY <1>3, <1>8, <1>9, <1>10, <1>11 DEF at

-----------------------------------------------------------------------------
(***************************************************************************)
(* The vote.                                                               *)
(***************************************************************************)

\* A counter, an answer or a sum predicts the outcome.
Right(x, taken) == IF taken THEN x > 0 ELSE x <= 0

\* The correlated part's counter, the perceptron's answer and the sum make the
\* prediction by majority.
LEMMA VoteStep ==
  ASSUME PredictorTypeOK, CellsStayClear, NEW taken \in BOOLEAN, NEW address \in Addresses,
         PredictAndTrain(taken, address),
         NEW c, c = correlated_bhr[PackBits(correlated_history, BHR_BITS - 1)],
         NEW a, a = current_perceptron_result', NEW s, s = GEHLsum'
  PROVE  /\ individual_predictions' \in [Predictors -> {-1, 1}] /\ prediction' \in BOOLEAN
         /\ Right(c, taken) /\ (Right(a, taken) \/ Right(s, taken)) => prediction' = taken
         /\ ~Right(a, taken) /\ ~Right(s, taken) => prediction' # taken
<1> DEFINE v == individual_predictions'
<1>0. PICK at \in {hash} : \E struck \in Struck(at) : setPrediction(at, Behind(struck, address))
  BY DEF PredictAndTrain
<1>1. c \in Int /\ a \in Int /\ s \in Int
  <2>1. c \in -BHT_BITS .. BHT_BITS BY CorrelatedStep
  <2>2. a \in Int
    <3> DEFINE k == perceptron_current_index'
    <3>1. /\ k \in 0 .. PERCEPTRON_TABLE_SIZE - 1 /\ a = Answers[k]
          /\ \A b \in 0 .. PERCEPTRON_TABLE_SIZE - 1 : Answers[b] \in Int
      BY PerceptronStep
    <3> QED BY <3>1
  <2>3. s \in Int BY GehlTypes
  <2> QED BY <2>1, <2>2, <2>3, Sizes
<1>2. correlated_bhr[correlated_current_index'] = c BY CorrelatedStep
<1>3. v = [i \in Predictors |-> CASE i = 0 -> Vote(Predict(correlated_bhr[correlated_current_index']))
                                  [] i = 1 -> Vote(current_perceptron_result' > 0)
                                  [] i = 2 -> Vote(GEHLsum' > 0)]
  BY <1>0 DEF setPrediction
<1>4. /\ v[0] = (IF c > 0 THEN 1 ELSE -1)
      /\ v[1] = (IF a > 0 THEN 1 ELSE -1)
      /\ v[2] = (IF s > 0 THEN 1 ELSE -1)
  <2>1. v[0] = Vote(Predict(correlated_bhr[correlated_current_index'])) BY <1>3 DEF Predictors
  <2>2. v[1] = Vote(current_perceptron_result' > 0) BY <1>3 DEF Predictors
  <2>3. v[2] = Vote(GEHLsum' > 0) BY <1>3 DEF Predictors
  <2> HIDE DEF v
  <2> QED BY <1>2, <2>1, <2>2, <2>3 DEF Vote, Predict
<1>5. v \in [Predictors -> {-1, 1}]
  <2> DEFINE e(i) == CASE i = 0 -> Vote(Predict(correlated_bhr[correlated_current_index']))
                       [] i = 1 -> Vote(current_perceptron_result' > 0)
                       [] i = 2 -> Vote(GEHLsum' > 0)
  <2>1. v = [i \in Predictors |-> v[i]]
    <3>1. v = [i \in Predictors |-> e(i)] BY <1>3
    <3> HIDE DEF v, e
    <3> QED BY <3>1
  <2>2. \A i \in Predictors : i = 0 \/ i = 1 \/ i = 2 BY DEF Predictors
  <2> HIDE DEF v
  <2>3. \A i \in Predictors : v[i] \in {-1, 1} BY <1>4, <2>2
  <2> QED BY <2>1, <2>3
<1>6. prediction' = (SumBelow(v, 3) > 0) BY <1>0 DEF setPrediction
<1> HIDE DEF v
<1>7. SumBelow(v, 3) = v[0] + v[1] + v[2]
  <2>1. SumBelow(v, 0) = 0 /\ \A n \in Nat : SumBelow(v, n + 1) = SumBelow(v, n) + v[n]
    BY SumRecursion
  <2>2. SumBelow(v, 0 + 1) = 0 + v[0] BY <2>1
  <2>3. SumBelow(v, 1 + 1) = SumBelow(v, 1) + v[1] BY <2>1
  <2>4. SumBelow(v, 2 + 1) = SumBelow(v, 2) + v[2] BY <2>1
  <2> QED BY <1>4, <2>2, <2>3, <2>4
<1>8. prediction' <=> v[0] + v[1] + v[2] > 0 BY <1>6, <1>7
<1>9. prediction' \in BOOLEAN BY <1>6
<1>10. CASE taken
  <2>1. Right(c, taken) /\ (Right(a, taken) \/ Right(s, taken)) => prediction'
    BY <1>1, <1>4, <1>8, <1>10 DEF Right
  <2>2. ~Right(a, taken) /\ ~Right(s, taken) => ~prediction'
    BY <1>1, <1>4, <1>8, <1>10 DEF Right
  <2> QED BY <1>5, <1>9, <1>10, <2>1, <2>2 DEF v
<1>11. CASE ~taken
  <2>1. Right(c, taken) /\ (Right(a, taken) \/ Right(s, taken)) => ~prediction'
    BY <1>1, <1>4, <1>8, <1>11 DEF Right
  <2>2. ~Right(a, taken) /\ ~Right(s, taken) => prediction'
    BY <1>1, <1>4, <1>8, <1>11 DEF Right
  <2> QED BY <1>5, <1>9, <1>11, <2>1, <2>2 DEF v
<1> QED BY <1>10, <1>11

-----------------------------------------------------------------------------
(***************************************************************************)
(* The inductive invariant.  In a loop the histories fill up with one      *)
(* branch, so that each part goes by one counter, one perceptron and one   *)
(* set of table entries for it.                                            *)
(***************************************************************************)

\* What the three parts hold for the branch of the loop.
SteadyIndex == PackBits([i \in 0 .. BHR_BITS - 1 |-> loop.taken], BHR_BITS - 1)

SteadyHistory == [j \in 0 .. GEHL_HISTORY_LENGTH - 1 |-> loop.address]

GehlIndex(i) == indexOf(SteadyHistory, pow2(i), GEHL_NUM_TABLES)

SteadyCounters ==
  [i \in Tables |->
     IF GehlIndex(i) \in 0 .. GEHL_TABLE_SIZE - 1 THEN GEHLpredictionTable[i][GehlIndex(i)] ELSE 0]

SteadySum == GEHL_NUM_TABLES \div 2 + SumBelow(SteadyCounters, GEHL_NUM_TABLES)

HistoriesFill ==
  /\ \A j \in 1 .. BHR_BITS : j <= rounds => correlated_history[BHR_BITS - j] = loop.taken
  /\ \A j \in 1 .. GEHL_HISTORY_LENGTH :
       j <= rounds => GEHL_branch_history[GEHL_HISTORY_LENGTH - j] = loop.address

\* The entry of the perceptrons' table the loop goes by.
EntrySelected ==
  rounds > 0 =>
    /\ address_history[perceptron_current_index] = loop.address
    /\ \A i \in 0 .. PERCEPTRON_TABLE_SIZE - 1 :
         address_history[i] = loop.address => perceptron_current_index <= i

\* A counter on its way to the right side: k steps from where it was.
OnItsWay(c, k) ==
  IF loop.taken THEN c < 0 /\ c >= k - BHT_BITS ELSE c <= BHT_BITS - k

CorrelatedLearns ==
  rounds >= BHR_BITS =>
    \/ rounds = BHR_BITS
    \/ Right(correlated_bhr[SteadyIndex], loop.taken)
    \/ OnItsWay(correlated_bhr[SteadyIndex], rounds - BHR_BITS)

\* GEHL's counters have moved k steps, for none was right.
SumTurns(k) ==
  \A i \in Tables :
    IF loop.taken
      THEN SteadyCounters[i] = COUNTER_BITS \/ SteadyCounters[i] >= k - COUNTER_BITS
      ELSE SteadyCounters[i] = -COUNTER_BITS \/ SteadyCounters[i] <= COUNTER_BITS - k

\* One of the two other parts is right and stays so, or both are wrong, which
\* makes the vote wrong, on which GEHL is trained.
OthersLearn ==
  rounds >= GEHL_HISTORY_LENGTH =>
    \/ Right(Answers[perceptron_current_index], loop.taken)
    \/ Right(SteadySum, loop.taken)
    \/ SumTurns(rounds - GEHL_HISTORY_LENGTH)

InLoop ==
  rounds > 0 =>
    /\ loop \in Loops
    /\ HistoriesFill /\ EntrySelected /\ CorrelatedLearns
    /\ ~strayed => OthersLearn

LearningInv ==
  /\ TypeOK /\ TotalsMakeSense /\ CellsStayClear
  /\ rounds \in 0 .. Patience + 1
  /\ loop = Roaming \/ loop \in Loops
  /\ loop = Roaming => rounds = 0
  /\ ~strayed => historyVariations = initialDepths(GEHL_NUM_TABLES)
  /\ InLoop
  /\ VoteLearns

-----------------------------------------------------------------------------
(***************************************************************************)
(* The pieces of a round of the loop.                                      *)
(***************************************************************************)

LEMMA PatienceIs ==
  /\ Patience \in Nat
  /\ Patience >= BHR_BITS + BHT_BITS
  /\ Patience >= GEHL_HISTORY_LENGTH + COUNTER_BITS + 1
BY Sizes DEF Patience, Longest

LEMMA BranchTypes ==
  ASSUME PredictorTypeOK, CellsStayClear, NEW taken \in BOOLEAN, NEW address \in Addresses,
         PredictAndTrain(taken, address)
  PROVE  PredictorTypeOK' /\ CellsStayClear'
<1>1. /\ correlated_bhr' \in [0 .. pow2(BHR_BITS) - 1 -> -BHT_BITS .. BHT_BITS]
      /\ correlated_current_index' \in 0 .. pow2(BHR_BITS) - 1
      /\ correlated_history' \in [0 .. BHR_BITS - 1 -> BOOLEAN]
  BY CorrelatedStep
<1>2. /\ address_history' \in [0 .. PERCEPTRON_TABLE_SIZE - 1 -> Addresses \cup {NoAddress}]
      /\ perceptron_current_index' \in 0 .. PERCEPTRON_TABLE_SIZE - 1
      /\ CellsStayClear'
      /\ weight' \in [0 .. PERCEPTRON_TABLE_SIZE - 1 -> [Inputs -> Int]]
      /\ perceptron_branch_history' \in [Inputs -> BOOLEAN]
      /\ current_perceptron_result' \in Int
  <2> DEFINE k == perceptron_current_index'
  <2>1. /\ k \in 0 .. PERCEPTRON_TABLE_SIZE - 1
        /\ \A a \in 0 .. PERCEPTRON_TABLE_SIZE - 1 : Answers[a] \in Int
        /\ current_perceptron_result' = Answers[k]
    BY PerceptronStep
  <2>2. current_perceptron_result' \in Int BY <2>1
  <2> QED BY <2>2, PerceptronStep
<1>3. /\ GEHLpredictionTable' \in
           [0 .. GEHL_NUM_TABLES - 1 -> [0 .. GEHL_TABLE_SIZE - 1 -> -COUNTER_BITS .. COUNTER_BITS]]
      /\ GEHL_branch_history' \in Histories(GEHL_NUM_TABLES, Addresses)
      /\ GEHLsum' \in Int
      /\ perceptron_paths_used' \in -COUNTER_BITS .. PERCEPTRON_TABLE_SIZE
      /\ \E depth \in -COUNTER_BITS .. COUNTER_BITS :
           historyVariations' = [initialDepths(GEHL_NUM_TABLES) EXCEPT ![0] = depth]
      /\ strayed' \in BOOLEAN
  BY GehlTypes DEF Tables, Counter
<1>4. individual_predictions' \in [Predictors -> {-1, 1}] /\ prediction' \in BOOLEAN
  BY VoteStep
<1> QED BY <1>1, <1>2, <1>3, <1>4 DEF PredictorTypeOK

\* A counter that is trained every round turns round in BHT_BITS of them.
LEMMA CounterTurns ==
  ASSUME NEW max \in Nat \ {0}, max = BHT_BITS, loop.taken \in BOOLEAN,
         NEW c \in -max .. max, NEW k \in Nat, NEW later \in Nat, later <= k + 1,
         NEW d, d = Train(c, loop.taken, max),
         k = 0 \/ Right(c, loop.taken) \/ OnItsWay(c, k)
  PROVE  later = 0 \/ Right(d, loop.taken) \/ OnItsWay(d, later)
<1> DEFINE taken == loop.taken
<1>0. /\ taken => d = IF c = -1 THEN 1 ELSE IF c = max THEN c ELSE c + 1
      /\ ~taken => d = IF c = 1 THEN -1 ELSE IF c = -max THEN c ELSE c - 1
  <2>1. taken \in BOOLEAN /\ d = Train(c, taken, max) OBVIOUS
  <2> HIDE DEF taken
  <2> QED BY ONLY <2>1, max \in Nat \ {0}, c \in -max .. max, TrainStep
<1>1. CASE loop.taken
  <2>1. d = IF c = -1 THEN 1 ELSE IF c = max THEN c ELSE c + 1 BY <1>0, <1>1
  <2>2. c > 0 \/ (c <= 0 /\ k = 0) \/ (c < 0 /\ c >= k - max)
    BY <1>1 DEF Right, OnItsWay
  <2>3. later = 0 \/ d > 0 \/ (d < 0 /\ d >= later - max)
    BY ONLY <2>1, <2>2, max \in Nat \ {0}, c \in -max .. max, k \in Nat, later \in Nat,
            later <= k + 1
  <2> QED BY <1>1, <2>3 DEF Right, OnItsWay
<1>2. CASE ~loop.taken
  <2>1. d = IF c = 1 THEN -1 ELSE IF c = -max THEN c ELSE c - 1 BY <1>0, <1>2
  <2>2. c <= 0 \/ k = 0 \/ c <= max - k BY <1>2 DEF Right, OnItsWay
  <2>3. later = 0 \/ d <= 0 \/ d <= max - later
    BY ONLY <2>1, <2>2, max \in Nat \ {0}, c \in -max .. max, k \in Nat, later \in Nat,
            later <= k + 1
  <2> QED BY <1>2, <2>3 DEF Right, OnItsWay
<1> QED BY <1>1, <1>2

LEMMA SteadyTypes ==
  ASSUME PredictorTypeOK, loop \in Loops
  PROVE  /\ loop.taken \in BOOLEAN /\ loop.address \in Addresses
         /\ SteadyIndex \in 0 .. pow2(BHR_BITS) - 1
         /\ \A i \in Tables : SteadyCounters[i] \in -COUNTER_BITS .. COUNTER_BITS
         /\ SteadySum \in Int
<1>1. loop.taken \in BOOLEAN /\ loop.address \in Addresses BY DEF Loops
<1>2. ASSUME NEW i \in Tables PROVE SteadyCounters[i] \in -COUNTER_BITS .. COUNTER_BITS
  <2>1. GEHLpredictionTable \in
          [Tables -> [0 .. GEHL_TABLE_SIZE - 1 -> -COUNTER_BITS .. COUNTER_BITS]]
    BY DEF PredictorTypeOK, Tables
  <2>2. CASE GehlIndex(i) \in 0 .. GEHL_TABLE_SIZE - 1 BY <2>1, <2>2 DEF SteadyCounters
  <2>3. CASE GehlIndex(i) \notin 0 .. GEHL_TABLE_SIZE - 1
    BY <2>3, Sizes DEF SteadyCounters
  <2> QED BY <2>2, <2>3
<1>3. SteadyIndex \in 0 .. pow2(BHR_BITS) - 1
  <2>1. BHR_BITS - 1 \in Nat BY Sizes
  <2>2. SteadyIndex \in 0 .. pow2(BHR_BITS - 1) - 1 BY <2>1, PackBitsRange DEF SteadyIndex
  <2>3. pow2(BHR_BITS) = 2 * pow2(BHR_BITS - 1) /\ pow2(BHR_BITS - 1) \in Nat \ {0}
    BY Sizes, PowerHalf
  <2> QED BY <2>2, <2>3
<1>4. SteadySum \in Int
  <2> DEFINE n == GEHL_NUM_TABLES
             f == SteadyCounters
  <2>1. n \in Nat /\ \A i \in 0 .. n - 1 : f[i] \in Int BY <1>2, Sizes DEF Tables
  <2> HIDE DEF n, f
  <2>2. SumBelow(f, n) \in Int BY <2>1, SumType
  <2> QED BY <2>1, <2>2 DEF SteadySum, n, f
<1> QED BY <1>1, <1>2, <1>3, <1>4

\* What the counters say about the sum.
LEMMA SteadySums ==
  ASSUME PredictorTypeOK, loop \in Loops
  PROVE  /\ (\A i \in Tables : SteadyCounters[i] >= 0) => SteadySum > 0
         /\ (\A i \in Tables : SteadyCounters[i] <= -1) => SteadySum <= 0
<1> DEFINE n == GEHL_NUM_TABLES
           f == SteadyCounters
<1>1. n \in Nat /\ n >= 2 /\ \A i \in 0 .. n - 1 : f[i] \in Int
  BY SteadyTypes, Sizes DEF Tables
<1>2. SteadySum = n \div 2 + SumBelow(f, n) /\ Tables = 0 .. n - 1 BY DEF SteadySum, Tables
<1> HIDE DEF n, f
<1>3. /\ (\A i \in 0 .. n - 1 : f[i] >= 0) => n \div 2 + SumBelow(f, n) > 0
      /\ (\A i \in 0 .. n - 1 : IF i < n - 1 THEN f[i] < 0 ELSE f[i] <= 0)
           => n \div 2 + SumBelow(f, n) <= 0
  BY <1>1, SumSigns
<1>4. (\A i \in 0 .. n - 1 : f[i] <= -1)
        => \A i \in 0 .. n - 1 : IF i < n - 1 THEN f[i] < 0 ELSE f[i] <= 0
  BY <1>1
<1> QED BY <1>2, <1>3, <1>4 DEF n, f

\* Training towards the outcome does not make a right sum wrong.
LEMMA SumStaysRight ==
  ASSUME PredictorTypeOK, PredictorTypeOK', loop \in Loops, loop' = loop,
         \A i \in Tables : IF loop.taken THEN SteadyCounters'[i] >= SteadyCounters[i]
                                         ELSE SteadyCounters'[i] <= SteadyCounters[i],
         Right(SteadySum, loop.taken)
  PROVE  Right(SteadySum', loop.taken)
<1> DEFINE n == GEHL_NUM_TABLES
           f == [i \in 0 .. n - 1 |-> SteadyCounters[i]]
           g == [i \in 0 .. n - 1 |-> SteadyCounters'[i]]
<1>1. SteadySum = n \div 2 + SumBelow(f, n) /\ SteadySum' = n \div 2 + SumBelow(g, n)
  <2>1. SteadyCounters = f /\ SteadyCounters' = g BY DEF SteadyCounters, Tables
  <2> HIDE DEF f, g
  <2> QED BY <2>1 DEF SteadySum
<1>2. n \in Nat /\ n \div 2 \in Nat BY Sizes
<1>3. Tables = 0 .. n - 1 BY DEF Tables
<1>4. \A i \in Tables : SteadyCounters[i] \in Int /\ SteadyCounters'[i] \in Int
  <2>1. \A i \in Tables : SteadyCounters[i] \in Int BY SteadyTypes, Sizes
  <2>2. \A i \in Tables : SteadyCounters'[i] \in -COUNTER_BITS .. COUNTER_BITS
    <3> SUFFICES ASSUME NEW i \in Tables
                 PROVE  SteadyCounters'[i] \in -COUNTER_BITS .. COUNTER_BITS
      OBVIOUS
    <3>1. GehlIndex(i)' = GehlIndex(i) BY DEF GehlIndex, SteadyHistory
    <3>2. SteadyCounters'[i] = IF GehlIndex(i)' \in 0 .. GEHL_TABLE_SIZE - 1
                                 THEN GEHLpredictionTable'[i][GehlIndex(i)'] ELSE 0
      BY DEF SteadyCounters
    <3>3. GEHLpredictionTable' \in
            [Tables -> [0 .. GEHL_TABLE_SIZE - 1 -> -COUNTER_BITS .. COUNTER_BITS]]
      BY DEF PredictorTypeOK, Tables
    <3>4. CASE GehlIndex(i) \in 0 .. GEHL_TABLE_SIZE - 1 BY <3>1, <3>2, <3>3, <3>4
    <3>5. CASE GehlIndex(i) \notin 0 .. GEHL_TABLE_SIZE - 1 BY <3>1, <3>2, <3>5, Sizes
    <3> QED BY <3>4, <3>5
  <2> QED BY <2>1, <2>2, Sizes
<1>5. \A i \in 0 .. n - 1 : f[i] \in Int /\ g[i] \in Int BY <1>3, <1>4
<1>6. SumBelow(f, n) \in Int /\ SumBelow(g, n) \in Int
  <2> HIDE DEF f, g, n
  <2> QED BY <1>2, <1>5, SumType
<1>7. CASE loop.taken
  <2>1. \A i \in 0 .. n - 1 : f[i] \in Int /\ g[i] \in Int /\ f[i] <= g[i]
    BY <1>3, <1>4, <1>7
  <2> HIDE DEF f, g, n
  <2>2. SumBelow(f, n) <= SumBelow(g, n) BY <1>2, <2>1, SumMonotone
  <2> QED BY <1>1, <1>2, <1>6, <1>7, <2>2 DEF Right
<1>8. CASE ~loop.taken
  <2>1. \A i \in 0 .. n - 1 : g[i] \in Int /\ f[i] \in Int /\ g[i] <= f[i]
    BY <1>3, <1>4, <1>8
  <2> HIDE DEF f, g, n
  <2>2. SumBelow(g, n) <= SumBelow(f, n) BY <1>2, <2>1, SumMonotone
  <2> QED BY <1>1, <1>2, <1>6, <1>8, <2>2 DEF Right
<1> QED BY <1>7, <1>8

-----------------------------------------------------------------------------
(***************************************************************************)
(* One round of the loop.                                                  *)
(***************************************************************************)

LEMMA Round ==
  ASSUME LearningInv, Repeat
  PROVE  /\ loop \in Loops /\ loop' = loop
         /\ loop.taken \in BOOLEAN /\ loop.address \in Addresses
         /\ PredictAndTrain(loop.taken, loop.address)
         /\ PredictorTypeOK /\ CellsStayClear /\ PredictorTypeOK' /\ CellsStayClear'
         /\ rounds \in Nat /\ rounds' \in 1 .. Patience + 1 /\ rounds' <= rounds + 1
         /\ rounds' = rounds + 1 \/ rounds > Patience
         /\ Patience \in Nat
<1>1. /\ loop \in Loops /\ loop' = loop
      /\ PredictAndTrain(loop.taken, loop.address)
      /\ rounds' = IF rounds > Patience THEN rounds ELSE rounds + 1
      /\ rounds \in 0 .. Patience + 1
      /\ PredictorTypeOK /\ CellsStayClear
  BY DEF LearningInv, TypeOK, Repeat
<1>2. loop.taken \in BOOLEAN /\ loop.address \in Addresses BY <1>1, SteadyTypes
<1>3. PredictorTypeOK' /\ CellsStayClear' BY <1>1, <1>2, BranchTypes
<1>4. Patience \in Nat BY PatienceIs
<1> QED BY <1>1, <1>2, <1>3, <1>4

LEMMA RoundFills ==
  ASSUME LearningInv, Repeat
  PROVE  HistoriesFill'
<1> DEFINE t == loop.taken
           a == loop.address
           G == GEHL_HISTORY_LENGTH
           h == correlated_history
           g == GEHL_branch_history
           r == rounds
<1>1. /\ r \in Nat /\ rounds' \in Nat /\ rounds' <= r + 1 /\ loop' = loop
  BY Round
<1>2. /\ \A j \in 1 .. BHR_BITS : j <= r => h[BHR_BITS - j] = t
      /\ \A j \in 1 .. G : j <= r => g[G - j] = a
  <2>1. CASE r > 0 BY <2>1 DEF LearningInv, InLoop, HistoriesFill
  <2>2. CASE r = 0
    <3>1. (\A j \in 1 .. BHR_BITS : ~(j <= r)) /\ \A j \in 1 .. G : ~(j <= r)
      BY <2>2, Sizes
    <3> QED BY <3>1
  <2> QED BY <1>1, <2>1, <2>2
<1>3. h' = ShiftIn(h, BHR_BITS, t) /\ g' = ShiftIn(g, G, a)
  BY Round DEF PredictAndTrain, updateHistory
<1> HIDE DEF t, a, G, h, g, r
<1>4. BHR_BITS \in Nat \ {0} /\ G \in Nat \ {0} BY Sizes DEF G
<1>5. \A j \in 1 .. BHR_BITS : j <= r + 1 => ShiftIn(h, BHR_BITS, t)[BHR_BITS - j] = t
  <2> DEFINE n == BHR_BITS
  <2>1. n \in Nat \ {0} /\ r \in Nat BY <1>1, <1>4
  <2>2. \A j \in 1 .. n : j <= r => h[n - j] = t BY <1>2
  <2> HIDE DEF n
  <2>3. \A j \in 1 .. n : j <= r + 1 => ShiftIn(h, n, t)[n - j] = t
    BY ONLY <2>1, <2>2, NewestShift
  <2> QED BY <2>3 DEF n
<1>6. \A j \in 1 .. G : j <= r + 1 => ShiftIn(g, G, a)[G - j] = a
  <2>1. G \in Nat \ {0} /\ r \in Nat BY <1>1, <1>4
  <2>2. \A j \in 1 .. G : j <= r => g[G - j] = a BY <1>2
  <2> QED BY ONLY <2>1, <2>2, NewestShift
<1>7. \A j \in Int : j <= rounds' => j <= r + 1 BY <1>1
<1>8. /\ \A j \in 1 .. BHR_BITS : j <= rounds' => h'[BHR_BITS - j] = t
      /\ \A j \in 1 .. G : j <= rounds' => g'[G - j] = a
  BY <1>3, <1>4, <1>5, <1>6, <1>7
<1> QED BY <1>1, <1>8 DEF HistoriesFill, t, a, G, h, g

LEMMA RoundSelects ==
  ASSUME LearningInv, Repeat
  PROVE  /\ EntrySelected'
         /\ rounds > 0 => perceptron_current_index' = perceptron_current_index
<1>1. /\ PredictorTypeOK /\ CanPlace(loop.address) /\ Table!Place(loop.address)
      /\ loop.address \in Addresses /\ loop' = loop
  BY Round DEF PredictAndTrain, updateIndex
<1>2. /\ address_history'[perceptron_current_index'] = loop.address
      /\ \A i \in 0 .. PERCEPTRON_TABLE_SIZE - 1 :
           address_history'[i] = loop.address => perceptron_current_index' <= i
      /\ address_history[perceptron_current_index] = loop.address
         /\ (\A i \in 0 .. PERCEPTRON_TABLE_SIZE - 1 :
               address_history[i] = loop.address => perceptron_current_index <= i)
           => perceptron_current_index' = perceptron_current_index
  BY <1>1, LookupFinds
<1>3. EntrySelected' BY <1>1, <1>2 DEF EntrySelected
<1>4. rounds > 0 => perceptron_current_index' = perceptron_current_index
  BY <1>2 DEF LearningInv, InLoop, EntrySelected
<1> QED BY <1>3, <1>4

\* The correlated part: its history is full, so it goes by one counter.
LEMMA RoundCorrelated ==
  ASSUME LearningInv, Repeat
  PROVE  /\ CorrelatedLearns'
         /\ rounds >= BHR_BITS =>
              PackBits(correlated_history, BHR_BITS - 1) = SteadyIndex
         /\ rounds >= Patience => Right(correlated_bhr[SteadyIndex], loop.taken)
<1> DEFINE B == BHT_BITS
           H == BHR_BITS
           k == SteadyIndex
           c == correlated_bhr[k]
           d == correlated_bhr'[k]
           r == rounds
           s == rounds'
<1>1. /\ r \in Nat /\ s \in Nat /\ s <= r + 1 /\ (s = r + 1 \/ r > Patience)
      /\ loop' = loop /\ loop \in Loops /\ loop.taken \in BOOLEAN
      /\ PredictorTypeOK
  BY Round
<1>2. /\ B \in Nat \ {0} /\ H \in Nat \ {0} /\ Patience \in Nat /\ Patience >= H + B
  BY Sizes, PatienceIs
<1>3. ASSUME r >= H PROVE PackBits(correlated_history, H - 1) = k
  <2> DEFINE f == [i \in 0 .. H - 1 |-> loop.taken]
             a == [i \in 0 .. (H - 1) - 1 |-> IF correlated_history[i] THEN pow2(i) ELSE 0]
             b == [i \in 0 .. (H - 1) - 1 |-> IF f[i] THEN pow2(i) ELSE 0]
  <2>1. ASSUME NEW i \in 0 .. (H - 1) - 1 PROVE correlated_history[i] = f[i]
    <3>1. H - i \in 1 .. H /\ H - i <= r /\ H - (H - i) = i /\ i \in 0 .. H - 1
      BY <1>1, <1>2, <1>3
    <3>2. HistoriesFill BY <1>1, <1>2, <1>3 DEF LearningInv, InLoop
    <3>3. correlated_history[H - (H - i)] = loop.taken BY <3>1, <3>2 DEF HistoriesFill
    <3> QED BY <3>1, <3>3
  <2>2. a = b BY <2>1
  <2> QED BY <2>2 DEF PackBits, SteadyIndex
<1>4. SteadyIndex' = k BY <1>1 DEF SteadyIndex
<1>5. ASSUME r > 0, r >= H
      PROVE  /\ c \in -B .. B
             /\ r - H = 0 \/ Right(c, loop.taken) \/ OnItsWay(c, r - H)
  <2>1. CorrelatedLearns BY <1>5 DEF LearningInv, InLoop
  <2>2. r = H \/ Right(c, loop.taken) \/ OnItsWay(c, r - H)
    BY <1>5, <2>1 DEF CorrelatedLearns
  <2>3. c \in -B .. B BY <1>1, SteadyTypes DEF PredictorTypeOK
  <2> QED BY <1>1, <1>2, <2>2, <2>3
<1>6. ASSUME r >= H PROVE d = Train(c, loop.taken, B)
  <2>1. PackBits(correlated_history, BHR_BITS - 1) = k BY <1>3, <1>6
  <2>2. /\ correlated_bhr' = [correlated_bhr EXCEPT ![k] = Train(correlated_bhr[k], loop.taken, B)]
        /\ k \in 0 .. pow2(BHR_BITS) - 1
    BY <2>1, Round, CorrelatedStep
  <2>3. DOMAIN correlated_bhr = 0 .. pow2(BHR_BITS) - 1 BY <1>1 DEF PredictorTypeOK
  <2> QED BY <2>2, <2>3
<1> HIDE DEF k, c, d, r, s, B, H
<1>7. s >= H => s = H \/ Right(d, loop.taken) \/ OnItsWay(d, s - H)
  <2> SUFFICES ASSUME s > H PROVE Right(d, loop.taken) \/ OnItsWay(d, s - H)
    BY <1>1, <1>2
  <2> DEFINE m == r - H
             l == s - H
  <2>1. r >= H /\ r > 0 /\ m \in Nat /\ l \in Nat /\ l # 0 /\ l <= m + 1
    BY <1>1, <1>2
  <2>2. c \in -B .. B /\ d = Train(c, loop.taken, B)
        /\ (m = 0 \/ Right(c, loop.taken) \/ OnItsWay(c, m))
    BY <1>5, <1>6, <2>1
  <2> HIDE DEF m, l
  <2>3. B = BHT_BITS BY DEF B
  <2>4. l = 0 \/ Right(d, loop.taken) \/ OnItsWay(d, l)
    BY ONLY <1>1, <1>2, <2>1, <2>2, <2>3, CounterTurns
  <2> QED BY <2>1, <2>4 DEF l
<1>8. CorrelatedLearns'
  <2>1. OnItsWay(d, s - H) <=> (IF loop'.taken THEN d < 0 /\ d >= s - H - BHT_BITS
                                                ELSE d <= BHT_BITS - (s - H))
    BY <1>1 DEF OnItsWay
  <2>2. Right(d, loop.taken) = Right(d, loop'.taken) BY <1>1
  <2> QED BY <1>4, <1>7, <2>1, <2>2 DEF CorrelatedLearns, OnItsWay, k, d, s, H
<1>9. ASSUME r >= Patience PROVE Right(c, loop.taken)
  <2> DEFINE m == r - H
  <2>1. r > 0 /\ r >= H /\ m \in Nat /\ m >= B /\ m # 0 BY <1>1, <1>2, <1>9
  <2>2. c \in -B .. B /\ (Right(c, loop.taken) \/ OnItsWay(c, m)) BY <1>5, <2>1
  <2> HIDE DEF m
  <2>3. CASE loop.taken
    <3>1. c > 0 \/ (c < 0 /\ c >= m - B) BY <2>2, <2>3 DEF Right, OnItsWay, B
    <3>2. c > 0 BY <1>2, <2>1, <2>2, <3>1
    <3> QED BY <2>3, <3>2 DEF Right
  <2>4. CASE ~loop.taken
    <3>1. c <= 0 \/ c <= B - m BY <2>2, <2>4 DEF Right, OnItsWay, B
    <3>2. c <= 0 BY <1>2, <2>1, <2>2, <3>1
    <3> QED BY <2>4, <3>2 DEF Right
  <2> QED BY <2>3, <2>4
<1> QED BY <1>3, <1>8, <1>9 DEF k, c, r, H

\* GEHL: its history is full, so it goes by one set of entries, which a wrong
\* vote moves towards the outcome, all of them.
LEMMA RoundTurns ==
  ASSUME LearningInv, Repeat
  PROVE  /\ \A i \in Tables : SteadyCounters'[i] \in -COUNTER_BITS .. COUNTER_BITS
         /\ rounds >= GEHL_HISTORY_LENGTH /\ ~strayed' =>
              /\ GEHLsum' = SteadySum
              /\ \/ \A i \in Tables :
                      SteadyCounters'[i] = Stepped(SteadyCounters[i], loop.taken)
                 \/ /\ prediction' = loop.taken
                    /\ \A i \in Tables : SteadyCounters'[i] = SteadyCounters[i]
<1> DEFINE G == GEHL_HISTORY_LENGTH
           N == GEHL_NUM_TABLES
<1>1. /\ rounds \in Nat /\ loop' = loop /\ loop \in Loops
      /\ loop.taken \in BOOLEAN /\ loop.address \in Addresses
      /\ PredictorTypeOK /\ PredictorTypeOK' /\ PredictAndTrain(loop.taken, loop.address)
  BY Round
<1>2. \A i \in Tables : GehlIndex(i)' = GehlIndex(i) BY <1>1 DEF GehlIndex, SteadyHistory
<1>3. ASSUME NEW i \in Tables
      PROVE  SteadyCounters'[i] = IF GehlIndex(i) \in 0 .. GEHL_TABLE_SIZE - 1
                                    THEN GEHLpredictionTable'[i][GehlIndex(i)] ELSE 0
  <2>1. SteadyCounters'[i] = IF GehlIndex(i)' \in 0 .. GEHL_TABLE_SIZE - 1
                               THEN GEHLpredictionTable'[i][GehlIndex(i)'] ELSE 0
    BY DEF SteadyCounters
  <2> QED BY <1>2, <2>1
<1>4. ASSUME NEW i \in Tables PROVE SteadyCounters'[i] \in -COUNTER_BITS .. COUNTER_BITS
  <2>1. GEHLpredictionTable' \in
          [Tables -> [0 .. GEHL_TABLE_SIZE - 1 -> -COUNTER_BITS .. COUNTER_BITS]]
    BY <1>1 DEF PredictorTypeOK, Tables
  <2>2. CASE GehlIndex(i) \in 0 .. GEHL_TABLE_SIZE - 1 BY <1>3, <2>1, <2>2
  <2>3. CASE GehlIndex(i) \notin 0 .. GEHL_TABLE_SIZE - 1 BY <1>3, <2>3, Sizes
  <2> QED BY <2>2, <2>3
<1>5. ASSUME rounds >= G, ~strayed'
      PROVE  /\ GEHLsum' = SteadySum
             /\ \/ \A i \in Tables :
                     SteadyCounters'[i] = Stepped(SteadyCounters[i], loop.taken)
                \/ /\ prediction' = loop.taken
                   /\ \A i \in Tables : SteadyCounters'[i] = SteadyCounters[i]
  <2>1. historyVariations = initialDepths(N)
    <3>1. ~strayed BY <1>1, <1>5 DEF PredictAndTrain
    <3> QED BY <3>1 DEF LearningInv
  <2>2. /\ InTables(hash)
        /\ GEHLsum' = N \div 2 + SumBelow([i \in Tables |-> GEHLpredictionTable[i][hash[i]]], N)
        /\ \/ \A i \in Tables, k \in 0 .. GEHL_TABLE_SIZE - 1 :
                GEHLpredictionTable'[i][k] =
                  IF k = hash[i] THEN Stepped(GEHLpredictionTable[i][k], loop.taken)
                                 ELSE GEHLpredictionTable[i][k]
           \/ prediction' = loop.taken /\ GEHLpredictionTable' = GEHLpredictionTable
    BY <1>1, <1>5, GehlStep
  <2>3. ASSUME NEW i \in Tables PROVE hash[i] = GehlIndex(i)
    <3>1. hash[i] = indexOf(GEHL_branch_history, pow2(i), N)
      BY <2>1 DEF hash, Indices, initialDepths, Tables
    <3>2. HistoriesFill BY <1>1, <1>5, Sizes DEF LearningInv, InLoop
    <3>3. pow2(i) \in Nat /\ pow2(i) <= G /\ G \in Nat BY Sizes
    <3>4. ASSUME NEW j \in 1 .. pow2(i)
          PROVE  GEHL_branch_history[G - j] = SteadyHistory[G - j]
      <4>1. j \in 1 .. G /\ j <= rounds /\ G - j \in 0 .. G - 1 BY <1>1, <1>5, <3>3
      <4>2. GEHL_branch_history[G - j] = loop.address BY <3>2, <4>1 DEF HistoriesFill
      <4>3. SteadyHistory[G - j] = loop.address BY <4>1 DEF SteadyHistory
      <4> QED BY <4>2, <4>3
    <3> DEFINE depth == pow2(i)
               g == GEHL_branch_history
               h == SteadyHistory
    <3>5. depth \in Nat BY <3>3
    <3>6. \A j \in 1 .. depth : g[HistoryLength(N) - j] = h[HistoryLength(N) - j]
      BY <3>4 DEF GEHL_HISTORY_LENGTH
    <3> HIDE DEF depth, g, h, N
    <3>7. indexOf(g, depth, N) = indexOf(h, depth, N) BY <3>5, <3>6, NewestIndex
    <3> QED BY <3>1, <3>7 DEF depth, g, h, N, GehlIndex
  <2>4. ASSUME NEW i \in Tables
        PROVE  /\ hash[i] \in 0 .. GEHL_TABLE_SIZE - 1
               /\ SteadyCounters[i] = GEHLpredictionTable[i][hash[i]]
               /\ SteadyCounters'[i] = GEHLpredictionTable'[i][hash[i]]
    <3>1. hash[i] \in 0 .. GEHL_TABLE_SIZE - 1 /\ hash[i] = GehlIndex(i)
      BY <2>2, <2>3 DEF InTables
    <3>2. SteadyCounters[i] = GEHLpredictionTable[i][hash[i]] BY <3>1 DEF SteadyCounters
    <3> QED BY <1>3, <3>1, <3>2
  <2>5. GEHLsum' = SteadySum
    <3>1. \A i \in Tables : SteadyCounters[i] = GEHLpredictionTable[i][hash[i]] BY <2>4
    <3>2. SteadyCounters = [i \in Tables |-> GEHLpredictionTable[i][hash[i]]]
      BY <3>1 DEF SteadyCounters
    <3> QED BY <2>2, <3>2 DEF SteadySum
  <2>6. CASE \A i \in Tables, k \in 0 .. GEHL_TABLE_SIZE - 1 :
               GEHLpredictionTable'[i][k] =
                 IF k = hash[i] THEN Stepped(GEHLpredictionTable[i][k], loop.taken)
                                ELSE GEHLpredictionTable[i][k]
    <3>1. ASSUME NEW i \in Tables
          PROVE  SteadyCounters'[i] = Stepped(SteadyCounters[i], loop.taken)
      <4>1. hash[i] \in 0 .. GEHL_TABLE_SIZE - 1 BY <2>4
      <4>2. GEHLpredictionTable'[i][hash[i]]
              = Stepped(GEHLpredictionTable[i][hash[i]], loop.taken)
        BY <2>6, <4>1
      <4> QED BY <2>4, <4>2
    <3> QED BY <2>5, <3>1
  <2>7. CASE prediction' = loop.taken /\ GEHLpredictionTable' = GEHLpredictionTable
    <3>1. \A i \in Tables : SteadyCounters'[i] = SteadyCounters[i] BY <2>4, <2>7
    <3> QED BY <2>5, <2>7, <3>1
  <2> QED BY <2>2, <2>6, <2>7
<1> QED BY <1>4, <1>5

\* The perceptron's answer, once right, stays right.
LEMMA RoundAnswers ==
  ASSUME LearningInv, Repeat, rounds > 0
  PROVE  /\ current_perceptron_result' = Answers[perceptron_current_index]
         /\ Right(Answers[perceptron_current_index], loop.taken)
              => Right(Answers'[perceptron_current_index'], loop.taken)
<1> DEFINE n == PERCEPTRON_HISTORY_LENGTH
           k == perceptron_current_index'
           a == Answers[k]
           b == Answers'[k]
<1>1. k = perceptron_current_index BY RoundSelects
<1>2. /\ k \in 0 .. PERCEPTRON_TABLE_SIZE - 1
      /\ \A e \in 0 .. PERCEPTRON_TABLE_SIZE - 1 : Answers[e] \in Int
      /\ current_perceptron_result' = a
      /\ b = a \/ \E d \in {n, n - 2} : b = a + Sign(loop.taken) * d
  BY Round, PerceptronStep
<1>3. n \in Nat /\ n > 2 BY Sizes
<1>4. a \in Int BY <1>2
<1>5. ASSUME Right(a, loop.taken) PROVE Right(b, loop.taken)
  <2> HIDE DEF a, b, n
  <2>1. CASE b = a BY <1>5, <2>1
  <2>2. ASSUME NEW d \in {n, n - 2}, b = a + Sign(loop.taken) * d
        PROVE  Right(b, loop.taken)
    <3>1. d \in Int /\ d > 0 BY <1>3
    <3>2. CASE loop.taken
      <4>1. b = a + 1 * d BY <2>2, <3>2 DEF Sign
      <4>2. b > 0 BY <1>4, <1>5, <3>1, <3>2, <4>1 DEF Right
      <4> QED BY <3>2, <4>2 DEF Right
    <3>3. CASE ~loop.taken
      <4>1. b = a + (-1) * d BY <2>2, <3>3 DEF Sign
      <4>2. b <= 0 BY <1>4, <1>5, <3>1, <3>3, <4>1 DEF Right
      <4> QED BY <3>3, <4>2 DEF Right
    <3> QED BY <3>2, <3>3
  <2> QED BY <1>2, <2>1, <2>2 DEF n, a, b
<1> QED BY <1>1, <1>2, <1>5

LEMMA RoundOthers ==
  ASSUME LearningInv, Repeat, ~strayed'
  PROVE  /\ OthersLearn'
         /\ rounds >= Patience =>
              \/ Right(current_perceptron_result', loop.taken)
              \/ Right(GEHLsum', loop.taken)
<1> DEFINE G == GEHL_HISTORY_LENGTH
           C == COUNTER_BITS
           a == Answers[perceptron_current_index]
           t == loop.taken
<1>1. /\ rounds \in Nat /\ rounds' \in Nat /\ rounds' <= rounds + 1
      /\ loop' = loop /\ loop \in Loops /\ t \in BOOLEAN
      /\ PredictorTypeOK /\ PredictorTypeOK' /\ CellsStayClear
      /\ loop.address \in Addresses /\ PredictAndTrain(t, loop.address)
  BY Round
<1>0. ~strayed BY <1>1 DEF PredictAndTrain
<1>2. /\ G \in Nat \ {0} /\ C \in Nat \ {0} /\ Patience \in Nat /\ Patience >= G + C + 1
  BY Sizes, PatienceIs
<1>3. \A i \in Tables : SteadyCounters[i] \in -C .. C /\ SteadyCounters'[i] \in -C .. C
  BY <1>1, SteadyTypes, RoundTurns
<1>6. /\ rounds - G \in Int /\ rounds' - G \in Int /\ rounds' - G <= (rounds - G) + 1
      /\ rounds < G => rounds' - G <= 0
  <2> DEFINE r == rounds
             s == rounds'
  <2>1. r \in Nat /\ s \in Nat /\ s <= r + 1 BY <1>1
  <2>2. G \in Nat BY <1>2
  <2> HIDE DEF r, s, G
  <2>3. r - G \in Int /\ s - G \in Int /\ s - G <= (r - G) + 1 /\ (r < G => s - G <= 0)
    BY ONLY <2>1, <2>2
  <2> QED BY <2>3 DEF r, s
<1>4. CASE rounds < G
  <2>1. rounds' - G \in Int /\ rounds' - G <= 0 BY <1>4, <1>6
  <2>2. SumTurns(rounds - G)'
    <3> SUFFICES ASSUME NEW i \in Tables
                 PROVE  IF t THEN SteadyCounters'[i] = C \/ SteadyCounters'[i] >= (rounds' - G) - C
                             ELSE SteadyCounters'[i] = -C \/ SteadyCounters'[i] <= C - (rounds' - G)
      BY <1>1 DEF SumTurns
    <3> DEFINE d == SteadyCounters'[i]
               m == rounds' - G
    <3>1. d \in -C .. C /\ C \in Nat BY <1>2, <1>3
    <3>2. m \in Int /\ m <= 0 BY <2>1
    <3> HIDE DEF d, m
    <3>3. d >= m - C /\ d <= C - m BY ONLY <3>1, <3>2
    <3> QED BY <3>3 DEF d, m
  <2>3. OthersLearn' BY <2>2 DEF OthersLearn
  <2> QED BY <1>1, <1>2, <1>4, <2>3
<1>5. CASE rounds >= G
  <2>1. rounds > 0 BY <1>1, <1>2, <1>5
  <2>2. /\ GEHLsum' = SteadySum
        /\ \/ \A i \in Tables : SteadyCounters'[i] = Stepped(SteadyCounters[i], t)
           \/ /\ prediction' = t
              /\ \A i \in Tables : SteadyCounters'[i] = SteadyCounters[i]
    BY <1>5, RoundTurns
  <2>3. /\ current_perceptron_result' = a
        /\ Right(a, t) => Right(Answers'[perceptron_current_index'], t)
    BY <2>1, RoundAnswers
  <2>4. Right(a, t) \/ Right(SteadySum, t) \/ SumTurns(rounds - G)
    BY <1>0, <1>5, <2>1 DEF LearningInv, InLoop, OthersLearn
  <2>5. Right(SteadySum, t) => Right(SteadySum', t)
    <3>1. \A i \in Tables : IF t THEN SteadyCounters'[i] >= SteadyCounters[i]
                                 ELSE SteadyCounters'[i] <= SteadyCounters[i]
      <4> SUFFICES ASSUME NEW i \in Tables
                   PROVE  IF t THEN SteadyCounters'[i] >= SteadyCounters[i]
                               ELSE SteadyCounters'[i] <= SteadyCounters[i]
        OBVIOUS
      <4>1. SteadyCounters[i] \in Int BY <1>2, <1>3
      <4>2. SteadyCounters'[i] = Stepped(SteadyCounters[i], t)
            \/ SteadyCounters'[i] = SteadyCounters[i]
        BY <2>2
      <4> QED BY <4>1, <4>2 DEF Stepped
    <3> QED BY <1>1, <3>1, SumStaysRight
  <2>6. ASSUME ~Right(a, t), ~Right(SteadySum, t) PROVE SumTurns(rounds - G)'
    <3>1. prediction' # t BY <1>1, <2>2, <2>3, <2>6, VoteStep
    <3>2. SumTurns(rounds - G) BY <2>4, <2>6
    <3> SUFFICES ASSUME NEW i \in Tables
                 PROVE  IF t THEN SteadyCounters'[i] = C \/ SteadyCounters'[i] >= (rounds' - G) - C
                             ELSE SteadyCounters'[i] = -C \/ SteadyCounters'[i] <= C - (rounds' - G)
      BY <1>1 DEF SumTurns
    <3> DEFINE c == SteadyCounters[i]
               d == SteadyCounters'[i]
               m == rounds - G
               l == rounds' - G
    <3>3. d = Stepped(c, t) /\ c \in -C .. C BY <1>3, <2>2, <3>1
    <3>4. IF t THEN c = C \/ c >= m - C ELSE c = -C \/ c <= C - m
      BY <3>2 DEF SumTurns
    <3>5. m \in Int /\ l \in Int /\ l <= m + 1 BY <1>6
    <3>6. C \in Nat /\ c \in -C .. C BY <1>2, <3>3
    <3> HIDE DEF c, d, m, l
    <3>7. CASE t
      <4>1. d = IF c = C THEN c ELSE c + 1 BY <3>3, <3>7 DEF Stepped
      <4>2. c = C \/ c >= m - C BY <3>4, <3>7
      <4>3. d = C \/ d >= l - C BY ONLY <3>5, <3>6, <4>1, <4>2
      <4> QED BY <3>7, <4>3 DEF d, l
    <3>8. CASE ~t
      <4>1. d = IF c = -C THEN c ELSE c - 1 BY <3>3, <3>8 DEF Stepped
      <4>2. c = -C \/ c <= C - m BY <3>4, <3>8
      <4>3. d = -C \/ d <= C - l BY ONLY <3>5, <3>6, <4>1, <4>2
      <4> QED BY <3>8, <4>3 DEF d, l
    <3> QED BY <3>7, <3>8
  <2>7. OthersLearn' BY <1>1, <2>3, <2>5, <2>6 DEF OthersLearn
  <2>8. ASSUME rounds >= Patience PROVE Right(a, t) \/ Right(SteadySum, t)
    <3> SUFFICES ASSUME SumTurns(rounds - G) PROVE Right(SteadySum, t) BY <2>4
    <3>1. rounds - G \in Int /\ rounds - G >= C + 1 BY <1>1, <1>2, <2>8
    <3>2. CASE t
      <4>1. ASSUME NEW i \in Tables PROVE SteadyCounters[i] >= 0
        <5>1. SteadyCounters[i] = C \/ SteadyCounters[i] >= (rounds - G) - C
          BY <3>2 DEF SumTurns
        <5> QED BY <1>2, <1>3, <3>1, <5>1
      <4>2. SteadySum > 0 BY <1>1, <4>1, SteadySums
      <4> QED BY <3>2, <4>2 DEF Right
    <3>3. CASE ~t
      <4>1. ASSUME NEW i \in Tables PROVE SteadyCounters[i] <= -1
        <5>1. SteadyCounters[i] = -C \/ SteadyCounters[i] <= C - (rounds - G)
          BY <3>3 DEF SumTurns
        <5> QED BY <1>2, <1>3, <3>1, <5>1
      <4>2. SteadySum <= 0 BY <1>1, <4>1, SteadySums
      <4> QED BY <3>3, <4>2 DEF Right
    <3> QED BY <1>1, <3>2, <3>3
  <2> QED BY <2>2, <2>3, <2>7, <2>8
<1> QED BY <1>1, <1>2, <1>4, <1>5

-----------------------------------------------------------------------------
(***************************************************************************)
(* The invariant holds.                                                    *)
(***************************************************************************)

LEMMA InitLearningInv == LearningInit => LearningInv
<1> SUFFICES ASSUME LearningInit PROVE LearningInv OBVIOUS
<1>1. Init /\ loop = Roaming /\ rounds = 0 BY DEF LearningInit
<1>2. ToolTypeOK /\ TotalsMakeSense BY <1>1, ToolInitScores DEF Init
<1>3. PredictorInit BY <1>1 DEF Init
<1>4. /\ correlated_bhr \in [0 .. pow2(BHR_BITS) - 1 -> -BHT_BITS .. BHT_BITS]
      /\ correlated_current_index \in 0 .. pow2(BHR_BITS) - 1
      /\ correlated_history \in [0 .. BHR_BITS - 1 -> BOOLEAN]
  <2>1. 0 \in -BHT_BITS .. BHT_BITS /\ BHR_BITS \in Nat /\ pow2(BHR_BITS) \in Nat \ {0}
    BY Sizes, PowerPositive
  <2>2. 0 \in 0 .. pow2(BHR_BITS) - 1 BY <2>1
  <2> QED BY <1>3, <2>1, <2>2 DEF PredictorInit
<1>5. /\ address_history \in [0 .. PERCEPTRON_TABLE_SIZE - 1 -> Addresses \cup {NoAddress}]
      /\ perceptron_paths_used \in -COUNTER_BITS .. PERCEPTRON_TABLE_SIZE
      /\ perceptron_current_index \in 0 .. PERCEPTRON_TABLE_SIZE - 1
      /\ weight \in [0 .. PERCEPTRON_TABLE_SIZE - 1 -> [Inputs -> Int]]
      /\ perceptron_branch_history \in [Inputs -> BOOLEAN]
      /\ current_perceptron_result \in Int
  BY <1>3, Sizes DEF PredictorInit, Table!TableInit, Table!Slots
<1>6. CellsStayClear
  <2>1. \A i \in 1 .. PERCEPTRON_HISTORY_LENGTH - 1 : i \in Inputs BY Sizes DEF Inputs
  <2> QED BY <1>3, <2>1 DEF PredictorInit, CellsStayClear
<1>7. /\ GEHLpredictionTable \in
           [0 .. GEHL_NUM_TABLES - 1 -> [0 .. GEHL_TABLE_SIZE - 1 -> -COUNTER_BITS .. COUNTER_BITS]]
      /\ GEHL_branch_history \in Histories(GEHL_NUM_TABLES, Addresses)
      /\ GEHLsum \in Int
  <2>1. 0 \in -COUNTER_BITS .. COUNTER_BITS BY Sizes
  <2>2. GEHL_branch_history = [i \in 0 .. GEHL_HISTORY_LENGTH - 1 |-> << >>]
    BY <1>3 DEF PredictorInit
  <2>3. GEHL_branch_history \in Histories(GEHL_NUM_TABLES, Addresses)
    BY <2>2 DEF Histories, GEHL_HISTORY_LENGTH
  <2> QED BY <1>3, <2>1, <2>3 DEF PredictorInit
<1>8. individual_predictions \in [Predictors -> {-1, 1}] /\ prediction \in BOOLEAN
  BY <1>3 DEF PredictorInit
<1>11. /\ historyVariations = initialDepths(GEHL_NUM_TABLES) /\ strayed \in BOOLEAN
       /\ \E depth \in -COUNTER_BITS .. COUNTER_BITS :
            historyVariations = [initialDepths(GEHL_NUM_TABLES) EXCEPT ![0] = depth]
  <2>1. pow2(0) = 1 BY PowerRecursion
  <2>2. 0 \in 0 .. GEHL_NUM_TABLES - 1 /\ 1 \in -COUNTER_BITS .. COUNTER_BITS BY Sizes
  <2>3. historyVariations = [initialDepths(GEHL_NUM_TABLES) EXCEPT ![0] = 1]
    BY <1>3, <2>1, <2>2 DEF PredictorInit, initialDepths
  <2>4. strayed \in BOOLEAN BY <1>3 DEF PredictorInit
  <2> QED BY <1>3, <2>2, <2>3, <2>4 DEF PredictorInit
<1>9. TypeOK BY <1>2, <1>4, <1>5, <1>7, <1>8, <1>11 DEF TypeOK, PredictorTypeOK
<1>10. rounds \in 0 .. Patience + 1 /\ ~(rounds > Patience) /\ ~(rounds > 0)
  BY <1>1, PatienceIs
<1> QED BY <1>1, <1>2, <1>6, <1>9, <1>10, <1>11 DEF LearningInv, InLoop, VoteLearns

\* The vote of a round is right once the correlated part is and one of the
\* others.
LEMMA RoundVotes ==
  ASSUME LearningInv, Repeat, rounds >= Patience, ~strayed'
  PROVE  prediction' = loop.taken
<1> DEFINE c == correlated_bhr[PackBits(correlated_history, BHR_BITS - 1)]
<1>1. rounds >= BHR_BITS
  <2>1. rounds \in Nat BY Round
  <2> QED BY <2>1, PatienceIs, Sizes
<1>2. Right(c, loop.taken) BY <1>1, RoundCorrelated
<1>3. Right(current_perceptron_result', loop.taken) \/ Right(GEHLsum', loop.taken)
  BY RoundOthers
<1>4. /\ PredictorTypeOK /\ CellsStayClear
      /\ loop.taken \in BOOLEAN /\ loop.address \in Addresses
      /\ PredictAndTrain(loop.taken, loop.address)
  BY Round
<1> QED BY <1>2, <1>3, <1>4, VoteStep

LEMMA RepeatInv ==
  ASSUME LearningInv, Repeat
  PROVE  LearningInv'
<1>1. /\ loop \in Loops /\ loop' = loop /\ rounds \in Nat
      /\ PredictorTypeOK' /\ CellsStayClear'
      /\ rounds' \in 1 .. Patience + 1 /\ rounds' <= rounds + 1 /\ Patience \in Nat
  BY Round
<1>2. ToolTypeOK' /\ TotalsMakeSense'
  BY DEF Repeat, LearningInv, TypeOK, ToolTypeOK, TotalsMakeSense, toolVars
<1>9. PredictAndTrain(loop.taken, loop.address) /\ PredictorTypeOK
      /\ loop.taken \in BOOLEAN /\ loop.address \in Addresses
  BY Round
<1>10. ~strayed' => historyVariations' = initialDepths(GEHL_NUM_TABLES)
  <2> SUFFICES ASSUME ~strayed' PROVE historyVariations' = initialDepths(GEHL_NUM_TABLES)
    OBVIOUS
  <2>1. ~strayed BY <1>9 DEF PredictAndTrain
  <2>2. UNCHANGED historyVariations BY <1>9, GehlStep
  <2> QED BY <2>1, <2>2 DEF LearningInv
<1>3. InLoop' BY <1>1, RoundFills, RoundSelects, RoundCorrelated, RoundOthers DEF InLoop, Loops
<1>4. VoteLearns'
  <2>1. rounds' > Patience => rounds >= Patience BY <1>1
  <2>2. ~strayed' /\ rounds' > Patience => prediction' = loop.taken BY <2>1, RoundVotes
  <2> QED BY <1>1, <2>2 DEF VoteLearns
<1>5. loop # Roaming BY DEF Repeat
<1>6. loop' \in Loops' BY <1>1 DEF Loops
<1>7. rounds' \in 0 .. Patience + 1 BY <1>1
<1>8. Patience' = Patience BY DEF Patience
<1> QED BY <1>1, <1>2, <1>3, <1>4, <1>5, <1>6, <1>7, <1>8, <1>10 DEF LearningInv, TypeOK

\* As long as no branch is settled into there is only the types to keep.
LEMMA RoamInv ==
  ASSUME LearningInv, Roam
  PROVE  LearningInv'
<1>1. /\ TypeOK /\ TotalsMakeSense /\ CellsStayClear
      /\ loop = Roaming /\ loop' = Roaming /\ rounds = 0 /\ rounds' = 0
  BY DEF Roam, LearningInv
<1>2. TypeOK' /\ TotalsMakeSense' /\ CellsStayClear'
  <2>1. CASE HostStep /\ UNCHANGED predictorVars
    <3>1. ToolTypeOK' /\ TotalsMakeSense' BY <1>1, <2>1, HostScores DEF TypeOK
    <3>2. PredictorTypeOK' /\ CellsStayClear'
      BY <1>1, <2>1 DEF TypeOK, PredictorTypeOK, CellsStayClear,
           predictorVars, correlatedVars, perceptronVars, GEHLVars
    <3> QED BY <3>1, <3>2 DEF TypeOK
  <2>2. ASSUME NEW ins \in Branches, NEW taken \in BOOLEAN, NEW address \in Addresses,
               RecordBranch(ins, taken, address)
        PROVE  TypeOK' /\ TotalsMakeSense' /\ CellsStayClear'
    <3>1. (prediction' = taken) \in BOOLEAN OBVIOUS
    <3>2. ToolTypeOK' /\ TotalsMakeSense'
      BY <1>1, <2>2, <3>1, BranchScores DEF TypeOK, RecordBranch
    <3>3. PredictorTypeOK' /\ CellsStayClear'
      BY <1>1, <2>2, BranchTypes DEF TypeOK, RecordBranch
    <3> QED BY <3>2, <3>3 DEF TypeOK
  <2>3. CASE \E ins \in Branches : RecordBranchFaults(ins)
    <3>1. ToolTypeOK' /\ TotalsMakeSense'
      BY <1>1, <2>3 DEF TypeOK, ToolTypeOK, TotalsMakeSense, RecordBranchFaults
    <3>2. PredictorTypeOK' /\ CellsStayClear'
      BY <1>1, <2>3 DEF TypeOK, PredictorTypeOK, CellsStayClear,
           RecordBranchFaults, predictorVars, correlatedVars, perceptronVars, GEHLVars
    <3> QED BY <3>1, <3>2 DEF TypeOK
  <2> QED BY <2>1, <2>2, <2>3 DEF Roam, Next
<1>4. ~strayed' => historyVariations' = initialDepths(GEHL_NUM_TABLES)
  <2>0. ~strayed => historyVariations = initialDepths(GEHL_NUM_TABLES) BY DEF LearningInv
  <2>1. CASE UNCHANGED predictorVars BY <2>0, <2>1 DEF predictorVars, GEHLVars
  <2>2. ASSUME NEW ins \in Branches, NEW taken \in BOOLEAN, NEW address \in Addresses,
               RecordBranch(ins, taken, address), ~strayed'
        PROVE  historyVariations' = initialDepths(GEHL_NUM_TABLES)
    <3>1. PredictAndTrain(taken, address) /\ PredictorTypeOK
      BY <1>1, <2>2 DEF RecordBranch, TypeOK
    <3>2. ~strayed BY <2>2, <3>1 DEF PredictAndTrain
    <3>3. UNCHANGED historyVariations BY <2>2, <3>1, GehlStep
    <3> QED BY <2>0, <3>2, <3>3
  <2>3. CASE \E ins \in Branches : RecordBranchFaults(ins)
    BY <2>1, <2>3 DEF RecordBranchFaults, predictorVars
  <2> QED BY <2>1, <2>2, <2>3 DEF Roam, Next
<1>3. /\ rounds' \in 0 .. Patience + 1 /\ ~(rounds' > Patience) /\ ~(rounds' > 0)
      /\ Patience' = Patience
  BY <1>1, PatienceIs DEF Patience
<1> QED BY <1>1, <1>2, <1>3, <1>4 DEF LearningInv, InLoop, VoteLearns

LEMMA SettleInv ==
  ASSUME LearningInv, Settle
  PROVE  LearningInv'
<1>1. /\ TypeOK' /\ TotalsMakeSense' /\ CellsStayClear'
  BY DEF Settle, LearningInv, TypeOK, ToolTypeOK, PredictorTypeOK, TotalsMakeSense,
         CellsStayClear, vars, toolVars, predictorVars, correlatedVars,
         perceptronVars, GEHLVars
<1>2. rounds' = 0 /\ loop' \in Loops' BY DEF Settle, LearningInv, Loops
<1>4. ~strayed' => historyVariations' = initialDepths(GEHL_NUM_TABLES)
  BY DEF Settle, LearningInv, vars, predictorVars, GEHLVars
<1>3. /\ rounds' \in 0 .. Patience + 1 /\ ~(rounds' > Patience) /\ ~(rounds' > 0)
      /\ Patience' = Patience
  BY <1>2, PatienceIs DEF Patience
<1> QED BY <1>1, <1>2, <1>3, <1>4 DEF LearningInv, InLoop, VoteLearns

\* A step that leaves the predictor and the loop alone.
LEMMA RestInv ==
  ASSUME LearningInv, ToolTypeOK', TotalsMakeSense', UNCHANGED <<predictorVars, loop, rounds>>
  PROVE  LearningInv'
<1>1. /\ UNCHANGED <<correlatedVars, perceptronVars, GEHLVars>>
      /\ UNCHANGED <<individual_predictions, prediction, loop, rounds>>
  BY DEF predictorVars
<1>2. TypeOK' /\ CellsStayClear'
  BY <1>1
  DEF LearningInv, TypeOK, PredictorTypeOK, CellsStayClear, correlatedVars, perceptronVars, GEHLVars
<1>3. InLoop'
  <2>1. /\ SteadyIndex' = SteadyIndex
        /\ SteadyCounters' = SteadyCounters /\ SteadySum' = SteadySum /\ Answers' = Answers
    BY <1>1 DEF SteadyIndex, SteadyHistory, GehlIndex, SteadyCounters, SteadySum, Answers,
                correlatedVars, perceptronVars, GEHLVars
  <2> QED
    BY <1>1, <2>1
    DEF LearningInv, InLoop, Loops, HistoriesFill, EntrySelected, CorrelatedLearns, OthersLearn,
        OnItsWay, SumTurns, correlatedVars, perceptronVars, GEHLVars
<1>4. Patience' = Patience /\ Loops' = Loops BY DEF Patience, Loops
<1>5. VoteLearns' BY <1>1, <1>4 DEF LearningInv, VoteLearns, GEHLVars
<1>6. ~strayed' => historyVariations' = initialDepths(GEHL_NUM_TABLES)
  BY <1>1 DEF LearningInv, GEHLVars
<1> QED BY <1>1, <1>2, <1>3, <1>4, <1>5, <1>6 DEF LearningInv

LEMMA FaultsInv ==
  ASSUME LearningInv, LoopFaults
  PROVE  LearningInv'
<1>1. ToolTypeOK' /\ TotalsMakeSense'
  BY DEF LoopFaults, LearningInv, TypeOK, ToolTypeOK, TotalsMakeSense
<1>2. UNCHANGED <<predictorVars, loop, rounds>> BY DEF LoopFaults
<1> QED BY <1>1, <1>2, RestInv

LEMMA StutterInv == LearningInv /\ UNCHANGED learningVars => LearningInv'
<1> SUFFICES ASSUME LearningInv, UNCHANGED learningVars PROVE LearningInv' OBVIOUS
<1>1. UNCHANGED <<toolVars, predictorVars, loop, rounds>> BY DEF learningVars, vars
<1>2. ToolTypeOK' /\ TotalsMakeSense'
  BY <1>1 DEF LearningInv, TypeOK, ToolTypeOK, TotalsMakeSense, toolVars
<1>3. UNCHANGED <<predictorVars, loop, rounds>> BY <1>1
<1> QED BY <1>2, <1>3, RestInv

LEMMA NextLearningInv == LearningInv /\ [LearningNext]_learningVars => LearningInv'
BY RoamInv, SettleInv, RepeatInv, FaultsInv, StutterInv DEF LearningNext

\* The inductive invariant: every step of proccount.cpp keeps the types of the
\* three parts, and every round of the loop brings them nearer to its branch
\* until a GEHL index leaves its table.
THEOREM TournamentInvariance == LearningSpec => []LearningInv
BY InitLearningInv, NextLearningInv, PTL DEF LearningSpec

-----------------------------------------------------------------------------

\* Every variable of the three parts keeps its type, with GEHL indices outside
\* their tables too: the clamped counters stay in their bits, the indices of the
\* two other parts in their tables, and what such an index may train behind the
\* tables (perceptron_paths_used, the first depth) within the counters' bits.
THEOREM TournamentTypeCorrect == LearningSpec => []TypeOK
<1>1. LearningInv => TypeOK BY DEF LearningInv
<1> QED BY <1>1, TournamentInvariance, PTL

\* Until a GEHL index leaves its table:
\* after Patience rounds of a loop the vote is right and stays right, whatever
\* the three parts had learned before: two parts that are wrong make the vote
\* wrong, on which both are trained (updatePredictors).
THEOREM VoteIsLearned == LearningSpec => []VoteLearns
<1>1. LearningInv => VoteLearns BY DEF LearningInv
<1> QED BY <1>1, TournamentInvariance, PTL

-----------------------------------------------------------------------------
(***************************************************************************)
(* What the tool is implements what it promises.                           *)
(***************************************************************************)

\* The correlated part moves a counter as the memory moves a level, from 0 as
\* from any other.
LEMMA TrainingMoves ==
  ASSUME NEW c \in -BHT_BITS .. BHT_BITS, NEW taken \in BOOLEAN
  PROVE  Memory!Moved(c, taken) = Train(c, taken, BHT_BITS)
<1> DEFINE beyond == {l \in Memory!Levels : IF taken THEN l > c ELSE l < c}
<1>1. beyond = Beyond(c, taken, BHT_BITS) BY DEF Memory!Levels, Beyond
<1>2. Memory!Moved(c, taken) = IF beyond = {} THEN c ELSE Memory!Nearest(c, beyond)
  BY DEF Memory!Moved
<1>3. Memory!Nearest(c, beyond) = Closest(c, beyond) BY DEF Memory!Nearest, Closest
<1> HIDE DEF beyond
<1>4. BHT_BITS \in Nat \ {0} BY Sizes
<1>5. Train(c, taken, BHT_BITS) = IF beyond = {} THEN c ELSE Closest(c, beyond)
  BY <1>1, <1>4, TrainedIsNearest
<1> QED BY <1>2, <1>3, <1>5

LEMMA InitMemory == Init => Memory!Init
<1> SUFFICES ASSUME Init PROVE Memory!Init OBVIOUS
<1> DEFINE index(c) == PackBits([i \in 0 .. BHR_BITS - 2 |-> c[i + 1]], BHR_BITS - 1)
<1>1. ASSUME NEW c PROVE correlated_bhr[index(c)] = 0
  <2>1. BHR_BITS - 1 \in Nat BY Sizes
  <2>2. index(c) \in 0 .. pow2(BHR_BITS - 1) - 1 BY <2>1, PackBitsRange
  <2>3. pow2(BHR_BITS) = 2 * pow2(BHR_BITS - 1) /\ pow2(BHR_BITS - 1) \in Nat \ {0}
    BY Sizes, PowerHalf
  <2>4. index(c) \in 0 .. pow2(BHR_BITS) - 1 BY <2>2, <2>3
  <2> HIDE DEF index
  <2> QED BY <2>4 DEF Init, PredictorInit
<1>2. ByContext(correlated_bhr, BHR_BITS) = [c \in Memory!Contexts |-> 0]
  BY <1>1 DEF ByContext, Memory!Contexts
<1>3. AsSequence(correlated_history, BHR_BITS) = [i \in 1 .. BHR_BITS |-> FALSE]
  BY Sizes DEF Init, PredictorInit, AsSequence
<1> QED BY <1>2, <1>3 DEF Memory!Init

LEMMA BranchLearns ==
  ASSUME PredictorTypeOK, NEW taken \in BOOLEAN, NEW address \in Addresses,
         PredictAndTrain(taken, address)
  PROVE  Memory!Learn(taken)
<1> DEFINE bhr == correlated_bhr
           h == correlated_history
           k == PackBits(h, BHR_BITS - 1)
           c == Context(h, BHR_BITS)
           v == Train(bhr[k], taken, BHT_BITS)
<1>1. /\ k \in 0 .. pow2(BHR_BITS) - 1 /\ bhr' = [bhr EXCEPT ![k] = v]
      /\ bhr[k] \in -BHT_BITS .. BHT_BITS
      /\ h' = ShiftIn(h, BHR_BITS, taken)
  BY CorrelatedStep
<1>2. DOMAIN bhr = 0 .. pow2(BHR_BITS) - 1 /\ h \in [0 .. BHR_BITS - 1 -> BOOLEAN]
  BY DEF PredictorTypeOK
<1> HIDE DEF bhr, h, k, c, v
<1>3. /\ c \in Memory!Contexts
      /\ ByContext(bhr, BHR_BITS)[c] = bhr[k] /\ ByContext(bhr', BHR_BITS)[c] = v
      /\ \A d \in Memory!Contexts :
           d # c => ByContext(bhr', BHR_BITS)[d] = ByContext(bhr, BHR_BITS)[d]
  <2>1. k = PackBits(h, BHR_BITS - 1) BY DEF k
  <2>2. bhr'[k] = v /\ \A i \in 0 .. pow2(BHR_BITS) - 1 : i # k => bhr'[i] = bhr[i]
    BY <1>1, <1>2
  <2>3. BHR_BITS \in Nat \ {0} BY Sizes
  <2>4. \A i \in 0 .. BHR_BITS - 1 : h[i] \in BOOLEAN BY <1>2
  <2>5. /\ c \in ContextsOf(BHR_BITS)
        /\ ByContext(bhr, BHR_BITS)[c] = bhr[k] /\ ByContext(bhr', BHR_BITS)[c] = bhr'[k]
        /\ \A d \in ContextsOf(BHR_BITS) :
             d # c => ByContext(bhr', BHR_BITS)[d] = ByContext(bhr, BHR_BITS)[d]
    BY ONLY <2>1, <2>2, <2>3, <2>4, ContextTrained DEF c
  <2> QED BY <2>2, <2>5 DEF ContextsOf, Memory!Contexts
<1>4. v = Memory!Moved(bhr[k], taken) BY <1>1, TrainingMoves DEF v
<1>5. AsSequence(h', BHR_BITS) = Append(Tail(AsSequence(h, BHR_BITS)), taken)
  BY <1>1, <1>2, Sizes, AsSequenceShifts
<1>6. ByContext(bhr', BHR_BITS) = [ByContext(bhr, BHR_BITS) EXCEPT ![c] = Memory!Moved(@, taken)]
  <2> DEFINE before == ByContext(bhr, BHR_BITS)
             after == ByContext(bhr', BHR_BITS)
  <2>1. /\ before = [d \in Memory!Contexts |-> before[d]]
        /\ after = [d \in Memory!Contexts |-> after[d]]
    BY DEF ByContext, Memory!Contexts
  <2> HIDE DEF before, after
  <2>2. after = [before EXCEPT ![c] = v] BY <1>3, <2>1 DEF before, after
  <2> QED BY <1>3, <1>4, <2>2 DEF before, after
<1> QED BY <1>5, <1>6 DEF Memory!Learn, Context, bhr, h, c

\* The correlated part learns every context of outcomes separately and as it
\* would alone, whatever the other two predict and however the vote goes.
THEOREM TournamentRefinesMemory == LearningSpec => ImplementsMemory
<1>1. LearningInit => Memory!Init BY InitMemory DEF LearningInit
<1>2. ASSUME LearningInv, [LearningNext]_learningVars PROVE [Memory!Next]_(Memory!vars)
  <2>1. PredictorTypeOK BY <1>2 DEF LearningInv, TypeOK
  <2>2. CASE UNCHANGED correlatedVars BY <2>2 DEF correlatedVars, Memory!vars
  <2>3. ASSUME NEW taken \in BOOLEAN, NEW address \in Addresses, PredictAndTrain(taken, address)
        PROVE  Memory!Next
    BY <2>1, <2>3, BranchLearns DEF Memory!Next
  <2>4. CASE Roam
    <3>1. UNCHANGED correlatedVars
          \/ \E ins \in Branches, taken \in BOOLEAN, address \in Addresses :
               RecordBranch(ins, taken, address)
      BY <2>4 DEF Roam, Next, RecordBranchFaults, predictorVars
    <3> QED BY <2>2, <2>3, <3>1 DEF RecordBranch
  <2>5. CASE Settle BY <2>2, <2>5 DEF Settle, vars, predictorVars
  <2>6. CASE Repeat
    <3>1. /\ loop.taken \in BOOLEAN /\ loop.address \in Addresses
          /\ PredictAndTrain(loop.taken, loop.address)
      BY <1>2, <2>6, Round
    <3> QED BY <2>3, <3>1
  <2>8. CASE LoopFaults BY <2>2, <2>8 DEF LoopFaults, predictorVars
  <2>7. CASE UNCHANGED learningVars BY <2>2, <2>7 DEF learningVars, vars, predictorVars
  <2> QED BY <1>2, <2>4, <2>5, <2>6, <2>7, <2>8 DEF LearningNext
<1> QED BY <1>1, <1>2, TournamentInvariance, PTL
    DEF LearningSpec, ImplementsMemory, Memory!Spec

=============================================================================

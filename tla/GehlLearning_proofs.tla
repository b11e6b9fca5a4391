------------------------ MODULE GehlLearning_proofs ------------------------
(***************************************************************************)
(* strace.cpp's predictor, for every size of its tables and every set of   *)
(* addresses: the range of a table index; what indices outside their table *)
(* leave of the state; and how soon a steady branch is learned, whatever   *)
(* the tables held, as long as there are none.                             *)
(***************************************************************************)
EXTENDS GehlLearning, PredictorLemmas

\* hashing of strace.cpp never returns more than TABLE_SIZE, for strings of
\* any length: the run gehl_hash_range shows that it may return TABLE_SIZE.
THEOREM IndexRanges ==
  ASSUME NEW string \in Seq(Nat)
  PROVE  hashing(string) \in 0 .. GEHL_TABLE_SIZE
<1>1. HashOf(Seed, string) \in 0 .. pow2(WORD_BITS) - 1 BY SeedRange, HashRange
<1> QED BY <1>1, IndexRange DEF hashing

-----------------------------------------------------------------------------
(***************************************************************************)
(* What one branch does.                                                   *)
(***************************************************************************)

LEMMA Sizes ==
  /\ SATURATING_NUM \in Nat \ {0}
  /\ NUM_TABLES \in Nat /\ NUM_TABLES >= 2
  /\ HISTORY_LENGTH \in Nat /\ HISTORY_LENGTH >= 2
  /\ \A i \in Tables :
       /\ pow2(i) \in Nat \ {0} /\ pow2(i) <= HISTORY_LENGTH
       /\ i < NUM_TABLES - 1 => pow2(i) < HISTORY_LENGTH
  /\ SATURATING_NUM <= HISTORY_LENGTH
<1>1. SATURATING_NUM \in Nat \ {0}
  BY GehlAssumption, SaturatingNumPositive DEF SATURATING_NUM, SaturatingNum
<1>2. NUM_TABLES \in Nat /\ NUM_TABLES >= 2 BY GehlAssumption
<1>3. 0 \in Tables BY <1>2 DEF Tables
<1>4. \A i \in Tables :
        /\ HISTORY_LENGTH \in Nat /\ HISTORY_LENGTH >= 2
        /\ pow2(i) \in Nat \ {0} /\ pow2(i) <= HISTORY_LENGTH
        /\ i < NUM_TABLES - 1 => pow2(i) < HISTORY_LENGTH
  BY <1>2, Depths DEF Tables, HISTORY_LENGTH
<1> QED BY <1>1, <1>2, <1>3, <1>4, GehlAssumption

Counter == -SATURATING_NUM .. SATURATING_NUM

InTables(at) == \A i \in Tables : at[i] \in 0 .. GEHL_TABLE_SIZE - 1

\* The depths, of which table 0's may have been trained.
LEMMA DepthTypes ==
  ASSUME TypeOK
  PROVE  /\ historyVariations[0] \in Counter
         /\ \A i \in Tables : historyVariations[i] \in Int
                              /\ historyVariations[i] <= HISTORY_LENGTH
<1>1. PICK depth \in Counter :
        historyVariations = [initialDepths(NUM_TABLES) EXCEPT ![0] = depth]
  BY DEF TypeOK, Counter
<1>2. depth \in Int /\ depth <= HISTORY_LENGTH BY Sizes DEF Counter
<1>3. 0 \in 0 .. NUM_TABLES - 1 BY Sizes
<1>4. historyVariations[0] = depth BY <1>1, <1>3 DEF initialDepths
<1>5. ASSUME NEW i \in Tables, i # 0 PROVE historyVariations[i] = pow2(i)
  BY <1>1, <1>5 DEF initialDepths, Tables
<1> QED BY <1>2, <1>4, <1>5, Sizes

LEMMA HashTypes ==
  ASSUME TypeOK
  PROVE  hash \in [Tables -> 0 .. GEHL_TABLE_SIZE]
<1>1. /\ NUM_TABLES \in Nat /\ NUM_TABLES >= 2 /\ Addresses \subseteq Seq(0 .. 127)
      /\ branch_history \in Histories(NUM_TABLES, Addresses)
  BY Sizes, GehlAssumption DEF TypeOK
<1>2. \A i \in 0 .. NUM_TABLES - 1 :
        historyVariations[i] \in Int /\ historyVariations[i] <= HistoryLength(NUM_TABLES)
  BY DepthTypes DEF Tables, HISTORY_LENGTH
<1> QED BY <1>1, <1>2, IndicesRange DEF hash, Tables

\* What a branch does to the tables is all or nothing.
Trains(taken) == MustUpdate(currentSum', prediction' = taken, NUM_TABLES)

\* A branch that finds an index outside its table, or has found one before:
\* the types are kept.
LEMMA BranchTypes ==
  ASSUME TypeOK, NEW taken \in BOOLEAN, NEW address \in Addresses, NEW ins \in Branches,
         RecordBranch(ins, taken, address)
  PROVE  TypeOK'
<1> DEFINE at == hash
<1>1. PICK struck \in Struck(at) :
        /\ \E behind \in Behind(struck) : updateResult(at, behind)
        /\ setPrediction
        /\ updatePredictor(at, prediction' = taken, taken, struck)
  BY DEF RecordBranch
<1>2. PICK behind \in Behind(struck) : updateResult(at, behind) BY <1>1
<1>3. at \in [Tables -> 0 .. GEHL_TABLE_SIZE] BY HashTypes
<1>4. predictionTable \in [Tables -> [0 .. GEHL_TABLE_SIZE - 1 -> Counter]]
  BY DEF TypeOK, Counter
<1>5. currentSum' \in Int
  <2>1. behind \in Int
    <3>1. struck \in {"historyVariations", "trace", "nothing"} BY DEF Struck
    <3>2. CASE struck = "historyVariations"
      <4>1. behind = historyVariations[0] BY <3>2 DEF Behind
      <4> QED BY <4>1, DepthTypes, Sizes DEF Counter
    <3>3. CASE struck = "trace"
      <4>1. behind \in CInt BY <3>3 DEF Behind
      <4> QED BY <4>1, PinToolAssumption DEF CInt
    <3>4. CASE struck = "nothing"
      <4>1. behind = 0 BY <3>4 DEF Behind
      <4> QED BY <4>1
    <3> QED BY <3>1, <3>2, <3>3, <3>4
  <2>2. predictionTable \in [0 .. NUM_TABLES - 1 -> [0 .. GEHL_TABLE_SIZE - 1 -> Int]]
    BY <1>4, Sizes DEF Tables, Counter
  <2>3. at \in [0 .. NUM_TABLES - 1 -> 0 .. GEHL_TABLE_SIZE] BY <1>3 DEF Tables
  <2>4. NUM_TABLES \in Nat BY Sizes
  <2> HIDE DEF at
  <2>5. TableSum(predictionTable, at, behind, NUM_TABLES) \in Int
    BY <2>1, <2>2, <2>3, <2>4, TableSumType
  <2> QED BY <1>2, <2>5 DEF updateResult
<1>6. prediction' \in BOOLEAN BY <1>1 DEF setPrediction
<1> HIDE DEF at
<1>7. predictionTable' \in [Tables -> [0 .. GEHL_TABLE_SIZE - 1 -> Counter]]
  <2>1. Updated(predictionTable, at, taken, NUM_TABLES, SATURATING_NUM)
          \in [Tables -> [0 .. GEHL_TABLE_SIZE - 1 -> Counter]]
    BY <1>4, Sizes, UpdatedType DEF Tables, Counter
  <2> QED BY <1>1, <1>4, <2>1 DEF updatePredictor
<1>8. \E depth \in Counter :
        historyVariations' = [initialDepths(NUM_TABLES) EXCEPT ![0] = depth]
  <2>1. PICK depth \in Counter :
          historyVariations = [initialDepths(NUM_TABLES) EXCEPT ![0] = depth]
    BY DEF TypeOK, Counter
  <2>2. CASE historyVariations' = historyVariations BY <2>1, <2>2
  <2>3. CASE historyVariations' = [historyVariations EXCEPT ![0] =
                                     Bumped(historyVariations[0], taken, SATURATING_NUM)]
    <3> DEFINE c == historyVariations[0]
               b == Bumped(c, taken, SATURATING_NUM)
    <3>1. c \in -SATURATING_NUM .. SATURATING_NUM BY DepthTypes DEF Counter
    <3>2. b \in Counter
      <4> HIDE DEF c
      <4> QED BY <3>1, Sizes, BumpedCounter DEF Counter
    <3>3. historyVariations' = [historyVariations EXCEPT ![0] = b] BY <2>3
    <3> HIDE DEF b
    <3>4. historyVariations' = [initialDepths(NUM_TABLES) EXCEPT ![0] = b]
      BY <2>1, <3>3 DEF initialDepths
    <3> QED BY <3>2, <3>4
  <2> QED BY <1>1, <2>2, <2>3 DEF updatePredictor
<1>9. trace' \in BOOLEAN /\ strayed' \in BOOLEAN
  <2>1. trace' \in BOOLEAN BY <1>1 DEF updatePredictor, TypeOK
  <2>2. strayed' = (strayed \/ Overruns(hash, NUM_TABLES)) BY DEF RecordBranch
  <2> QED BY <2>1, <2>2 DEF TypeOK
<1>10. branch_history' \in Histories(NUM_TABLES, Addresses)
  <2>1. branch_history' = ShiftIn(branch_history, HISTORY_LENGTH, address)
    BY DEF RecordBranch, updateBranchHistory
  <2>2. branch_history \in [0 .. HISTORY_LENGTH - 1 -> Addresses \cup {<< >>}]
    BY DEF TypeOK, Histories, HISTORY_LENGTH
  <2>3. branch_history' \in [0 .. HISTORY_LENGTH - 1 -> Addresses \cup {<< >>}]
    BY <2>1, <2>2, Sizes DEF ShiftIn
  <2> QED BY <2>3 DEF Histories, HISTORY_LENGTH
<1>11. ToolTypeOK'
  <2>1. (prediction' = taken) \in BOOLEAN OBVIOUS
  <2>2. ToolTypeOK /\ ExecuteBranch(ins) /\ Score(prediction' = taken)
    BY DEF RecordBranch, TypeOK
  <2> QED BY <2>1, <2>2, BranchScores
<1> QED BY <1>5, <1>6, <1>7, <1>8, <1>9, <1>10, <1>11 DEF TypeOK, Counter

\* A branch that finds every index in its table trains, of each table, the
\* counter it predicted with, or nothing at all, and no depth.
LEMMA BranchTrains ==
  ASSUME TypeOK, NEW taken \in BOOLEAN, NEW address \in Addresses, NEW ins \in Branches,
         RecordBranch(ins, taken, address), ~strayed'
  PROVE  /\ InTables(hash) /\ UNCHANGED historyVariations
         /\ currentSum' = NUM_TABLES \div 2
                            + SumBelow([i \in Tables |-> predictionTable[i][hash[i]]], NUM_TABLES)
         /\ prediction' = (currentSum' > 0)
         /\ \A i \in Tables, k \in 0 .. GEHL_TABLE_SIZE - 1 :
              predictionTable'[i][k] =
                IF Trains(taken) /\ k = hash[i]
                  THEN Bumped(predictionTable[i][k], taken, SATURATING_NUM)
                  ELSE predictionTable[i][k]
<1> DEFINE at == hash
<1>1. ~Overruns(at, NUM_TABLES) BY DEF RecordBranch
<1>2. at \in [Tables -> 0 .. GEHL_TABLE_SIZE] BY HashTypes
<1>3. InTables(at) BY <1>1, <1>2, TableSize DEF Overruns, InTables, Tables
<1>4. \E struck \in Struck(at) :
        /\ \E behind \in Behind(struck) : updateResult(at, behind)
        /\ setPrediction
        /\ updatePredictor(at, prediction' = taken, taken, struck)
  BY DEF RecordBranch
<1> HIDE DEF at
<1>5. Struck(at) = {"nothing"}
  <2>1. NUM_TABLES - 1 \in Tables BY Sizes DEF Tables
  <2> QED BY <1>3, <2>1, TableSize DEF Struck, InTables
<1>6. /\ \E behind : updateResult(at, behind)
      /\ setPrediction
      /\ updatePredictor(at, prediction' = taken, taken, "nothing")
  BY <1>4, <1>5
<1>7. PICK behind : updateResult(at, behind) BY <1>6
<1>8. currentSum' = NUM_TABLES \div 2
                      + SumBelow([i \in Tables |-> predictionTable[i][at[i]]], NUM_TABLES)
  <2>1. NUM_TABLES \in Nat BY Sizes
  <2>2. TableSum(predictionTable, at, behind, NUM_TABLES)
          = NUM_TABLES \div 2
              + SumBelow([i \in 0 .. NUM_TABLES - 1 |-> predictionTable[i][at[i]]], NUM_TABLES)
    BY <1>3, <2>1, TableSumInside DEF InTables, Tables
  <2> QED BY <1>7, <2>2 DEF updateResult, Tables
<1>9. UNCHANGED historyVariations
      /\ predictionTable' = IF Trains(taken)
                              THEN Updated(predictionTable, at, taken, NUM_TABLES, SATURATING_NUM)
                              ELSE predictionTable
  <2>1. "nothing" # "historyVariations" OBVIOUS
  <2> QED BY <1>6, <2>1 DEF updatePredictor, Trains
<1>10. ASSUME NEW i \in Tables, NEW k \in 0 .. GEHL_TABLE_SIZE - 1
       PROVE  predictionTable'[i][k] =
                IF Trains(taken) /\ k = at[i]
                  THEN Bumped(predictionTable[i][k], taken, SATURATING_NUM)
                  ELSE predictionTable[i][k]
  <2> DEFINE n == NUM_TABLES
             max == SATURATING_NUM
  <2>1. n \in Nat /\ max \in Nat BY Sizes
  <2>2. i \in 0 .. n - 1 BY DEF Tables
  <2>3. predictionTable \in CounterTables(n, max) BY DEF TypeOK, Tables, CounterTables
  <2>4. Inside(at, n) BY <1>3 DEF InTables, Tables, Inside
  <2> HIDE DEF n, max
  <2>5. Updated(predictionTable, at, taken, n, max)[i][k]
          = Entered(predictionTable, at, taken, max, i, k)
    BY <2>1, <2>2, <2>3, <2>4, UpdatedInside
  <2> QED BY <1>9, <2>5 DEF n, max, Entered
<1>11. prediction' = (currentSum' > 0) BY <1>6 DEF setPrediction
<1> QED BY <1>3, <1>8, <1>9, <1>10, <1>11 DEF at

\* The newest cells hold what they held, one further back.
LEMMA BranchShifts ==
  ASSUME NEW taken \in BOOLEAN, NEW address \in Addresses, NEW ins \in Branches,
         RecordBranch(ins, taken, address), NEW j \in 1 .. HISTORY_LENGTH
  PROVE  branch_history'[HISTORY_LENGTH - j] =
           IF j = 1 THEN address ELSE branch_history[HISTORY_LENGTH - (j - 1)]
<1>1. branch_history' = ShiftIn(branch_history, HISTORY_LENGTH, address)
  BY DEF RecordBranch, updateBranchHistory
<1>2. HISTORY_LENGTH - j \in 0 .. HISTORY_LENGTH - 1
      /\ (HISTORY_LENGTH - j) + 1 = HISTORY_LENGTH - (j - 1)
      /\ (HISTORY_LENGTH - j < HISTORY_LENGTH - 1 <=> j # 1)
  BY Sizes
<1>3. branch_history'[HISTORY_LENGTH - j] =
        IF HISTORY_LENGTH - j < HISTORY_LENGTH - 1
          THEN branch_history[(HISTORY_LENGTH - j) + 1] ELSE address
  BY <1>1, <1>2 DEF ShiftIn
<1> QED BY <1>2, <1>3


-----------------------------------------------------------------------------
(***************************************************************************)
(* A steady branch.  Once it has been executed 2^i times in a row, table i *)
(* goes by one index for it, and the counter there is trained until the    *)
(* sum predicts it right.  All of this until an index leaves its table.    *)
(***************************************************************************)

\* The history full of the last branch, and what the tables hold for it.
Steady == [j \in 0 .. HISTORY_LENGTH - 1 |-> lastBranch.address]

SteadyIndex(i) == indexOf(Steady, pow2(i), NUM_TABLES)

Counters ==
  [i \in Tables |->
     IF SteadyIndex(i) \in 0 .. GEHL_TABLE_SIZE - 1
       THEN predictionTable[i][SteadyIndex(i)] ELSE 0]

SteadySum == NUM_TABLES \div 2 + SumBelow(Counters, NUM_TABLES)

Newest ==
  \A j \in 1 .. HISTORY_LENGTH :
    j <= streak => branch_history[HISTORY_LENGTH - j] = lastBranch.address

\* A branch not taken is always trained for: by the vote's sign if the sum is
\* above 0, by the threshold otherwise.  All tables but the last learn it
\* sooner than the last, which is why the constant in the sum is outweighed.
CountersFell ==
  ~lastBranch.taken =>
    \A i \in Tables :
      pow2(i) <= streak =>
        Counters[i] = -SATURATING_NUM \/ Counters[i] <= SATURATING_NUM - (streak - pow2(i))

\* A taken branch is trained for as long as it is predicted wrong, and stays
\* predicted right.
SumRose ==
  lastBranch.taken /\ streak >= HISTORY_LENGTH =>
    \/ SteadySum > 0
    \/ \A i \in Tables :
         \/ Counters[i] = SATURATING_NUM
         \/ Counters[i] >= (streak - HISTORY_LENGTH) - SATURATING_NUM

\* What holds of the tables until an index has left its table.
Learned ==
  /\ historyVariations = initialDepths(NUM_TABLES)
  /\ streak > 0 => Newest /\ CountersFell /\ SumRose

\* The inductive invariant.
LearningInv ==
  /\ LearningTypeOK
  /\ streak > 0 => lastBranch \in [address : Addresses, taken : BOOLEAN]
  /\ ~strayed => Learned
  /\ SteadyBranchIsLearned

\* The counters found for the steady branch are counters.
LEMMA CounterTypes ==
  ASSUME TypeOK
  PROVE  \A i \in Tables : Counters[i] \in -SATURATING_NUM .. SATURATING_NUM
<1> SUFFICES ASSUME NEW i \in Tables PROVE Counters[i] \in -SATURATING_NUM .. SATURATING_NUM
  OBVIOUS
<1>1. predictionTable \in [Tables -> [0 .. GEHL_TABLE_SIZE - 1 -> Counter]]
  BY DEF TypeOK, Counter
<1>2. CASE SteadyIndex(i) \in 0 .. GEHL_TABLE_SIZE - 1
  BY <1>1, <1>2 DEF Counters, Counter
<1>3. CASE SteadyIndex(i) \notin 0 .. GEHL_TABLE_SIZE - 1
  BY <1>3, Sizes DEF Counters
<1> QED BY <1>2, <1>3

\* What the counters found say about the sum.
LEMMA SteadySums ==
  ASSUME \A i \in Tables : Counters[i] \in Int
  PROVE  /\ (\A i \in Tables : Counters[i] >= 0) => SteadySum > 0
         /\ (\A i \in Tables : IF i < NUM_TABLES - 1 THEN Counters[i] < 0 ELSE Counters[i] <= 0)
              => SteadySum <= 0
         /\ SteadySum \in Int
<1> DEFINE n == NUM_TABLES
           f == Counters
<1>1. n \in Nat /\ n >= 2 /\ \A i \in 0 .. n - 1 : f[i] \in Int BY Sizes DEF Tables
<1>2. /\ SteadySum = n \div 2 + SumBelow(f, n) /\ Tables = 0 .. n - 1
  BY DEF SteadySum, Tables
<1> HIDE DEF n, f
<1>3. SumBelow(f, n) \in Int BY <1>1, SumType
<1>4. SteadySum \in Int BY <1>1, <1>2, <1>3
<1>5. /\ (\A i \in 0 .. n - 1 : f[i] >= 0) => n \div 2 + SumBelow(f, n) > 0
      /\ (\A i \in 0 .. n - 1 : IF i < n - 1 THEN f[i] < 0 ELSE f[i] <= 0)
           => n \div 2 + SumBelow(f, n) <= 0
  BY <1>1, SumSigns
<1> QED BY <1>2, <1>4, <1>5 DEF n, f

\* One step of a counter.
Stepped(c, taken) ==
  IF taken
    THEN IF c = SATURATING_NUM THEN c ELSE c + 1
    ELSE IF c = -SATURATING_NUM THEN c ELSE c - 1

LEMMA BumpedIsStepped ==
  ASSUME NEW c \in -SATURATING_NUM .. SATURATING_NUM, NEW taken \in BOOLEAN
  PROVE  Bumped(c, taken, SATURATING_NUM) = Stepped(c, taken)
BY Sizes, BumpedCounter DEF Stepped

\* A branch that is executed once more: what it was predicted with and what
\* becomes of the counters.
LEMMA AgainTrains ==
  ASSUME LearningInv, NEW ins \in Branches, Again(ins), ~strayed'
  PROVE  /\ prediction' = (currentSum' > 0)
         /\ historyVariations' = initialDepths(NUM_TABLES)
         /\ Newest'
         /\ streak >= HISTORY_LENGTH => currentSum' = SteadySum
         /\ \A i \in Tables :
              pow2(i) <= streak =>
                Counters'[i] =
                  IF Trains(lastBranch.taken)
                    THEN Stepped(Counters[i], lastBranch.taken)
                    ELSE Counters[i]
<1>1. /\ streak > 0 /\ streak' = streak + 1 /\ lastBranch' = lastBranch
      /\ RecordBranch(ins, lastBranch.taken, lastBranch.address)
  BY DEF Again
<1>2. ~strayed BY <1>1 DEF RecordBranch
<1>3. /\ TypeOK /\ lastBranch.taken \in BOOLEAN /\ lastBranch.address \in Addresses
      /\ Newest /\ streak \in Nat /\ historyVariations = initialDepths(NUM_TABLES)
  <2>1. TypeOK /\ lastBranch \in [address : Addresses, taken : BOOLEAN] /\ Learned
    BY <1>1, <1>2 DEF LearningInv, LearningTypeOK
  <2>2. streak \in Nat
    BY <2>1, PinToolAssumption DEF LearningInv, LearningTypeOK, TypeOK, ToolTypeOK
  <2> QED BY <1>1, <2>1, <2>2 DEF Learned
<1>4. /\ InTables(hash) /\ UNCHANGED historyVariations
      /\ currentSum' = NUM_TABLES \div 2
                         + SumBelow([i \in Tables |-> predictionTable[i][hash[i]]], NUM_TABLES)
      /\ prediction' = (currentSum' > 0)
      /\ \A i \in Tables, k \in 0 .. GEHL_TABLE_SIZE - 1 :
           predictionTable'[i][k] =
             IF Trains(lastBranch.taken) /\ k = hash[i]
               THEN Bumped(predictionTable[i][k], lastBranch.taken, SATURATING_NUM)
               ELSE predictionTable[i][k]
  BY <1>1, <1>3, BranchTrains
<1>5. \A j \in 1 .. HISTORY_LENGTH :
        branch_history'[HISTORY_LENGTH - j] =
          IF j = 1 THEN lastBranch.address ELSE branch_history[HISTORY_LENGTH - (j - 1)]
  BY <1>1, <1>3, BranchShifts
<1>6. \A i \in Tables : SteadyIndex(i)' = SteadyIndex(i)
  BY <1>1 DEF Steady, SteadyIndex
<1>7. ASSUME NEW i \in Tables, pow2(i) <= streak
      PROVE  hash[i] = SteadyIndex(i)
  <2>1. hash[i] = indexOf(branch_history, pow2(i), NUM_TABLES)
    BY <1>3 DEF hash, Indices, initialDepths, Tables
  <2>2. \A j \in 1 .. pow2(i) : j \in 1 .. HISTORY_LENGTH /\ j <= streak
    BY <1>3, <1>7, Sizes
  <2>3. \A j \in 1 .. HISTORY_LENGTH : Steady[HISTORY_LENGTH - j] = lastBranch.address
    BY Sizes DEF Steady
  <2>4. \A j \in 1 .. pow2(i) :
          branch_history[HISTORY_LENGTH - j] = Steady[HISTORY_LENGTH - j]
    BY <1>3, <2>2, <2>3 DEF Newest
  <2>5. indexOf(branch_history, pow2(i), NUM_TABLES) = indexOf(Steady, pow2(i), NUM_TABLES)
    <3> DEFINE depth == pow2(i)
               g == branch_history
               h == Steady
    <3>1. depth \in Nat BY Sizes
    <3>2. \A j \in 1 .. depth : g[HistoryLength(NUM_TABLES) - j] = h[HistoryLength(NUM_TABLES) - j]
      BY <2>4 DEF HISTORY_LENGTH
    <3> HIDE DEF depth, g, h
    <3> QED BY <3>1, <3>2, NewestIndex DEF depth, g, h
  <2> QED BY <2>1, <2>5 DEF SteadyIndex
<1>8. ASSUME NEW i \in Tables, pow2(i) <= streak
      PROVE  /\ SteadyIndex(i) \in 0 .. GEHL_TABLE_SIZE - 1
             /\ Counters[i] = predictionTable[i][hash[i]]
             /\ Counters'[i] = predictionTable'[i][hash[i]]
  <2>1. SteadyIndex(i) \in 0 .. GEHL_TABLE_SIZE - 1 /\ SteadyIndex(i) = hash[i]
    BY <1>4, <1>7, <1>8 DEF InTables
  <2>2. Counters'[i] = IF SteadyIndex(i)' \in 0 .. GEHL_TABLE_SIZE - 1
                         THEN predictionTable'[i][SteadyIndex(i)'] ELSE 0
    BY DEF Counters
  <2> QED BY <1>6, <2>1, <2>2 DEF Counters
<1>9. ASSUME streak >= HISTORY_LENGTH PROVE currentSum' = SteadySum
  <2>1. \A i \in Tables : pow2(i) <= streak
    <3> SUFFICES ASSUME NEW i \in Tables PROVE pow2(i) <= streak OBVIOUS
    <3>1. pow2(i) \in Nat /\ pow2(i) <= HISTORY_LENGTH /\ HISTORY_LENGTH \in Nat BY Sizes
    <3> QED BY <1>3, <1>9, <3>1
  <2>2. \A i \in Tables : Counters[i] = predictionTable[i][hash[i]] BY <1>8, <2>1
  <2>3. Counters = [i \in Tables |-> predictionTable[i][hash[i]]] BY <2>2 DEF Counters
  <2> QED BY <1>4, <2>3 DEF SteadySum
<1>10. Newest'
  <2> SUFFICES ASSUME NEW j \in 1 .. HISTORY_LENGTH, j <= streak + 1
               PROVE  branch_history'[HISTORY_LENGTH - j] = lastBranch.address
    BY <1>1 DEF Newest
  <2>1. CASE j = 1 BY <1>5, <2>1
  <2>2. CASE j # 1
    <3>1. j - 1 \in 1 .. HISTORY_LENGTH /\ j - 1 <= streak BY <1>3, <2>2, Sizes
    <3>2. branch_history[HISTORY_LENGTH - (j - 1)] = lastBranch.address
      BY <1>3, <3>1 DEF Newest
    <3> QED BY <1>5, <2>2, <3>2
  <2> QED BY <2>1, <2>2
<1>11. ASSUME NEW i \in Tables, pow2(i) <= streak
       PROVE  Counters'[i] =
                IF Trains(lastBranch.taken)
                  THEN Stepped(Counters[i], lastBranch.taken)
                  ELSE Counters[i]
  <2>1. Counters[i] \in -SATURATING_NUM .. SATURATING_NUM BY <1>3, CounterTypes
  <2>2. hash[i] \in 0 .. GEHL_TABLE_SIZE - 1 BY <1>4 DEF InTables
  <2>3. Counters'[i] =
          IF Trains(lastBranch.taken)
            THEN Bumped(Counters[i], lastBranch.taken, SATURATING_NUM)
            ELSE Counters[i]
    BY <1>4, <1>8, <1>11, <2>2
  <2>4. Bumped(Counters[i], lastBranch.taken, SATURATING_NUM)
          = Stepped(Counters[i], lastBranch.taken)
    BY <1>3, <2>1, BumpedIsStepped
  <2> QED BY <2>3, <2>4
<1>12. historyVariations' = initialDepths(NUM_TABLES) BY <1>3, <1>4
<1> QED BY <1>4, <1>9, <1>10, <1>11, <1>12

\* Until an index leaves its table, a branch that is executed once more is
\* learned a step further.
LEMMA AgainLearned ==
  ASSUME LearningInv, NEW ins \in Branches, Again(ins), ~strayed', TypeOK'
  PROVE  Learned' /\ SteadyBranchIsLearned'
<1> DEFINE s == streak
           H == HISTORY_LENGTH
           M == SATURATING_NUM
           trained == Trains(lastBranch.taken)
<1>0. ~strayed BY DEF Again, RecordBranch
<1>1. /\ streak > 0 /\ streak' = s + 1 /\ lastBranch' = lastBranch
      /\ prediction' = (currentSum' > 0) /\ currentSum' \in Int
      /\ historyVariations' = initialDepths(NUM_TABLES) /\ Newest'
      /\ s >= H => currentSum' = SteadySum
      /\ \A i \in Tables :
           pow2(i) <= s =>
             Counters'[i] = IF trained THEN Stepped(Counters[i], lastBranch.taken)
                                      ELSE Counters[i]
  BY AgainTrains DEF Again, TypeOK
<1>2. /\ s \in Nat /\ lastBranch.taken \in BOOLEAN /\ SteadySum \in Int
      /\ \A i \in Tables : Counters[i] \in -M .. M
      /\ \A i \in Tables : Counters'[i] \in -M .. M
      /\ CountersFell /\ SumRose
  <2>1. /\ s \in Nat /\ lastBranch.taken \in BOOLEAN /\ CountersFell /\ SumRose /\ TypeOK
    BY <1>0, <1>1, PinToolAssumption
    DEF LearningInv, LearningTypeOK, Learned, TypeOK, ToolTypeOK
  <2>2. \A i \in Tables : Counters[i] \in -M .. M BY <2>1, CounterTypes
  <2>3. \A i \in Tables : Counters'[i] \in -M .. M
    <3>1. (\A i \in Tables : Counters[i] \in -SATURATING_NUM .. SATURATING_NUM)'
      BY CounterTypes, TypeOK', PTL
    <3> QED BY <3>1
  <2>4. \A i \in Tables : Counters[i] \in Int BY <2>2, Sizes
  <2> QED BY <2>1, <2>2, <2>3, <2>4, SteadySums
<1>3. /\ M \in Nat \ {0} /\ H \in Nat /\ H >= 2
      /\ NUM_TABLES \in Nat /\ NUM_TABLES >= 2
  BY Sizes
<1>4. trained <=> currentSum' <= NUM_TABLES \/ prediction' # lastBranch.taken
  BY DEF Trains, MustUpdate
<1> HIDE DEF s, H, M, trained
<1>5. \A i \in Tables : Counters[i] \in Int /\ Counters'[i] \in Int BY <1>2, <1>3
<1>6. CountersFell'
  <2> SUFFICES ASSUME ~lastBranch.taken, NEW i \in Tables, pow2(i) <= s + 1
               PROVE  Counters'[i] = -M \/ Counters'[i] <= M - (s + 1 - pow2(i))
    <3>1. lastBranch' = lastBranch /\ streak' = s + 1 BY <1>1
    <3>2. \A i \in Tables : pow2(i) \in Int /\ Counters'[i] \in Int BY <1>2, <1>3, Sizes
    <3> QED BY <1>2, <1>3, <3>1, <3>2 DEF CountersFell, M
  <2>1. pow2(i) \in Nat BY Sizes
  <2>2. CASE pow2(i) <= s
    <3>1. trained BY <1>1, <1>2, <1>3, <1>4
    <3>2. Counters[i] \in -M .. M /\ (Counters[i] = -M \/ Counters[i] <= M - (s - pow2(i)))
      BY <1>2, <2>2 DEF CountersFell, M, s
    <3>3. Counters'[i] = IF Counters[i] = -M THEN -M ELSE Counters[i] - 1
      BY <1>1, <1>2, <2>2, <3>1 DEF Stepped, M
    <3> QED BY <1>2, <1>3, <2>1, <3>2, <3>3
  <2>3. CASE pow2(i) > s
    <3>1. s + 1 - pow2(i) = 0 BY <1>2, <2>1, <2>3
    <3> QED BY <1>2, <1>3, <3>1
  <2> QED BY <1>2, <2>1, <2>2, <2>3
<1>7. SumRose'
  <2> SUFFICES ASSUME lastBranch.taken, s + 1 >= H
               PROVE  \/ SteadySum' > 0
                      \/ \A i \in Tables : Counters'[i] = M \/ Counters'[i] >= (s + 1 - H) - M
    <3>1. lastBranch' = lastBranch /\ streak' = s + 1 BY <1>1
    <3>2. \A i \in Tables : Counters'[i] \in Int BY <1>5
    <3> QED BY <1>2, <1>3, <3>1, <3>2 DEF SumRose, M, H
  <2>1. CASE s + 1 = H
    <3>1. (s + 1 - H) - M = -M BY <1>2, <1>3, <2>1
    <3>2. ASSUME NEW i \in Tables PROVE Counters'[i] >= (s + 1 - H) - M
      <4>1. Counters'[i] \in -M .. M BY <1>2
      <4> QED BY <1>3, <3>1, <4>1
    <3> QED BY <3>2
  <2>2. CASE s >= H
    <3>1. \A i \in Tables : pow2(i) <= s BY <1>2, <1>3, <2>2, Sizes DEF H
    <3>2. \A i \in Tables : Counters'[i] >= Counters[i]
      <4> SUFFICES ASSUME NEW i \in Tables PROVE Counters'[i] >= Counters[i] OBVIOUS
      <4>1. Counters[i] \in Int BY <1>2, <1>3
      <4>2. Stepped(Counters[i], lastBranch.taken) >= Counters[i] BY <4>1 DEF Stepped
      <4>3. Counters'[i] = IF trained THEN Stepped(Counters[i], lastBranch.taken)
                                     ELSE Counters[i]
        BY <1>1, <3>1
      <4> DEFINE c == Counters[i]
                 d == Stepped(Counters[i], lastBranch.taken)
      <4>4. c \in Int /\ d >= c /\ (Counters'[i] = d \/ Counters'[i] = c) BY <4>1, <4>2, <4>3
      <4> HIDE DEF c, d
      <4>5. Counters'[i] >= c BY <4>4
      <4> QED BY <4>5 DEF c
    <3>3. CASE SteadySum > 0
      <4> DEFINE f == [i \in 0 .. NUM_TABLES - 1 |-> Counters[i]]
                 g == [i \in 0 .. NUM_TABLES - 1 |-> Counters'[i]]
      <4>1. /\ SteadySum = NUM_TABLES \div 2 + SumBelow(f, NUM_TABLES)
            /\ SteadySum' = NUM_TABLES \div 2 + SumBelow(g, NUM_TABLES)
        BY DEF SteadySum, TableSum, Counters, Tables
      <4>2. \A i \in 0 .. NUM_TABLES - 1 : f[i] \in Int /\ g[i] \in Int /\ f[i] <= g[i]
        <5> SUFFICES ASSUME NEW i \in 0 .. NUM_TABLES - 1
                     PROVE  f[i] \in Int /\ g[i] \in Int /\ f[i] <= g[i]
          OBVIOUS
        <5>1. i \in Tables BY DEF Tables
        <5>2. Counters[i] \in Int /\ Counters'[i] \in Int /\ Counters'[i] >= Counters[i]
          <6>1. Counters[i] \in -M .. M /\ Counters'[i] \in -M .. M BY <1>1, <1>2, <5>1
          <6> QED BY <1>3, <3>2, <5>1, <6>1
        <5> QED BY <5>2
      <4> HIDE DEF f, g
      <4>3. SumBelow(f, NUM_TABLES) <= SumBelow(g, NUM_TABLES) BY <1>3, <4>2, SumMonotone
      <4>4. SumBelow(f, NUM_TABLES) \in Int /\ SumBelow(g, NUM_TABLES) \in Int
        BY <1>3, <4>2, SumType
      <4> QED BY <1>3, <3>3, <4>1, <4>3, <4>4
    <3>4. CASE ~(SteadySum > 0)
      <4>1. trained BY <1>1, <1>2, <1>3, <1>4, <2>2, <3>4
      <4>2. ASSUME NEW i \in Tables
            PROVE  Counters'[i] = M \/ Counters'[i] >= (s + 1 - H) - M
        <5>1. Counters[i] \in -M .. M /\ (Counters[i] = M \/ Counters[i] >= (s - H) - M)
          BY <1>2, <2>2, <3>4 DEF SumRose, M, H, s
        <5>2. Counters'[i] = IF Counters[i] = M THEN M ELSE Counters[i] + 1
          <6>1. Counters'[i] = Stepped(Counters[i], lastBranch.taken) BY <1>1, <3>1, <4>1
          <6> QED BY <6>1 DEF Stepped, M
        <5> QED BY <1>2, <1>3, <5>1, <5>2
      <4> QED BY <4>2
    <3> QED BY <3>3, <3>4
  <2> QED BY <1>2, <1>3, <2>1, <2>2
<1>8. SteadyBranchIsLearned'
  <2> SUFFICES ASSUME s + 1 > H + M PROVE prediction' = lastBranch.taken
    BY <1>1 DEF SteadyBranchIsLearned, H, M
  <2>1. s >= H + M /\ s >= H BY <1>2, <1>3
  <2>2. prediction' = (SteadySum > 0) BY <1>1, <2>1
  <2>3. CASE lastBranch.taken
    <3>1. CASE SteadySum > 0 BY <2>2, <2>3, <3>1
    <3>2. CASE ~(SteadySum > 0)
      <4>1. \A i \in Tables : Counters[i] >= 0
        BY <1>2, <1>3, <2>1, <2>3, <3>2 DEF SumRose, M, H, s
      <4> QED BY <1>5, <3>2, <4>1, SteadySums
    <3> QED BY <3>1, <3>2
  <2>4. CASE ~lastBranch.taken
    <3>1. ASSUME NEW i \in Tables
          PROVE  IF i < NUM_TABLES - 1 THEN Counters[i] < 0 ELSE Counters[i] <= 0
      <4>1. /\ pow2(i) \in Nat /\ pow2(i) <= H
            /\ i < NUM_TABLES - 1 => pow2(i) < H
        BY Sizes DEF H
      <4>2. Counters[i] = -M \/ Counters[i] <= M - (s - pow2(i))
        BY <1>2, <1>3, <2>1, <2>4, <4>1 DEF CountersFell, M, s
      <4>3. Counters[i] \in Int BY <1>2, <1>3
      <4> QED BY <1>2, <1>3, <2>1, <4>1, <4>2, <4>3
    <3>2. ~(SteadySum > 0) BY <1>1, <1>2, <3>1, SteadySums
    <3> QED BY <1>2, <2>2, <2>4, <3>2
  <2> QED BY <1>2, <2>3, <2>4
<1> QED BY <1>1, <1>6, <1>7, <1>8 DEF Learned


LEMMA AgainInv ==
  ASSUME LearningInv, NEW ins \in Branches, Again(ins)
  PROVE  LearningInv'
<1>1. /\ streak > 0 /\ streak' = streak + 1 /\ lastBranch' = lastBranch
      /\ RecordBranch(ins, lastBranch.taken, lastBranch.address)
      /\ lastBranch \in [address : Addresses, taken : BOOLEAN]
      /\ LearningTypeOK
  BY DEF Again, LearningInv
<1>2. TypeOK'
  <2>1. TypeOK /\ lastBranch.taken \in BOOLEAN /\ lastBranch.address \in Addresses
    BY <1>1 DEF LearningTypeOK
  <2> QED BY <1>1, <2>1, BranchTypes
<1>3. LearningTypeOK'
  <2>1. num_instr' = num_instr + 1 /\ num_instr \in Nat /\ streak \in 0 .. num_instr
    BY <1>1, PinToolAssumption
    DEF RecordBranch, ExecuteBranch, docount, LearningTypeOK, TypeOK, ToolTypeOK
  <2> QED BY <1>1, <1>2, <2>1 DEF LearningTypeOK
<1>4. CASE strayed'
  BY <1>1, <1>3, <1>4 DEF LearningInv, SteadyBranchIsLearned
<1>5. CASE ~strayed'
  <2>1. Learned' /\ SteadyBranchIsLearned' BY <1>2, <1>5, AgainLearned
  <2> QED BY <1>1, <1>3, <2>1 DEF LearningInv
<1> QED BY <1>4, <1>5

\* A new branch begins a streak of one, of which nothing is known but types.
LEMMA OtherInv ==
  ASSUME LearningInv, NEW ins \in Branches, NEW taken \in BOOLEAN, NEW address \in Addresses,
         Other(ins, taken, address)
  PROVE  LearningInv'
<1>1. /\ streak' = 1 /\ lastBranch' = [address |-> address, taken |-> taken]
      /\ RecordBranch(ins, taken, address) /\ TypeOK
  BY DEF Other, LearningInv, LearningTypeOK
<1>2. TypeOK' BY <1>1, BranchTypes
<1>3. /\ SATURATING_NUM \in Nat \ {0} /\ HISTORY_LENGTH \in Nat /\ HISTORY_LENGTH >= 2
  BY Sizes
<1>4. LearningTypeOK'
  <2>1. num_instr' = num_instr + 1 /\ num_instr \in Nat
    BY <1>1, PinToolAssumption
    DEF RecordBranch, ExecuteBranch, docount, TypeOK, ToolTypeOK
  <2> QED BY <1>1, <1>2, <2>1 DEF LearningTypeOK
<1>5. lastBranch' \in [address : Addresses, taken : BOOLEAN] BY <1>1
<1>6. Newest'
  <2>1. \A j \in 1 .. HISTORY_LENGTH :
          branch_history'[HISTORY_LENGTH - j] =
            IF j = 1 THEN address ELSE branch_history[HISTORY_LENGTH - (j - 1)]
    BY <1>1, BranchShifts
  <2> QED BY <1>1, <1>3, <2>1 DEF Newest
<1>7. \A i \in Tables : Counters'[i] \in -SATURATING_NUM .. SATURATING_NUM
  <2>1. (\A i \in Tables : Counters[i] \in -SATURATING_NUM .. SATURATING_NUM)'
    BY <1>2, CounterTypes, PTL
  <2> QED BY <2>1
<1>8. CountersFell'
  <2>1. \A i \in Tables : pow2(i) \in Nat /\ (pow2(i) <= 1 => pow2(i) = 1) BY Sizes
  <2>2. \A i \in Tables : pow2(i) <= 1 => Counters'[i] <= SATURATING_NUM - (1 - pow2(i))
    BY <1>3, <1>7, <2>1
  <2> QED BY <1>1, <2>2 DEF CountersFell
<1>9. SumRose' BY <1>1, <1>3 DEF SumRose
<1>10. ASSUME ~strayed' PROVE historyVariations' = initialDepths(NUM_TABLES)
  <2>1. ~strayed BY <1>1, <1>10 DEF RecordBranch
  <2>2. UNCHANGED historyVariations BY <1>1, <1>10, BranchTrains
  <2> QED BY <2>1, <2>2 DEF LearningInv, Learned
<1>11. SteadyBranchIsLearned' BY <1>1, <1>3 DEF SteadyBranchIsLearned
<1> QED BY <1>4, <1>5, <1>6, <1>8, <1>9, <1>10, <1>11 DEF LearningInv, Learned

\* A step that leaves the predictor alone.
LEMMA RestInv ==
  ASSUME LearningInv, ToolTypeOK', num_instr' \in Nat, num_instr' >= num_instr,
         UNCHANGED <<predictorVars, lastBranch, streak>>
  PROVE  LearningInv'
<1>1. /\ UNCHANGED predictionTable /\ UNCHANGED branch_history /\ UNCHANGED prediction
      /\ UNCHANGED currentSum /\ UNCHANGED lastBranch /\ UNCHANGED streak
      /\ UNCHANGED historyVariations /\ UNCHANGED trace /\ UNCHANGED strayed
  BY DEF predictorVars
<1>2. TypeOK' BY <1>1 DEF LearningInv, LearningTypeOK, TypeOK
<1>3. LearningTypeOK'
  <2>1. num_instr \in Nat
    BY PinToolAssumption DEF LearningInv, LearningTypeOK, TypeOK, ToolTypeOK
  <2> QED BY <1>1, <1>2, <2>1 DEF LearningInv, LearningTypeOK
<1>4. Counters' = Counters /\ SteadySum' = SteadySum
  BY <1>1 DEF Steady, SteadyIndex, Counters, SteadySum
<1> QED BY <1>1, <1>3, <1>4
    DEF LearningInv, Learned, Newest, CountersFell, SumRose, SteadyBranchIsLearned

LEMMA HostInv ==
  ASSUME LearningInv, HostStep, UNCHANGED <<predictorVars, lastBranch, streak>>
  PROVE  LearningInv'
<1>1. ToolTypeOK /\ ToolTypeOK'
  BY HostScores DEF LearningInv, LearningTypeOK, TypeOK
<1>2. num_instr \in Nat /\ num_instr' \in {num_instr, num_instr + 1}
  BY <1>1, PinToolAssumption
  DEF ToolTypeOK, HostStep, Instruction, ExecuteOther, docount, Fini
<1> QED BY <1>1, <1>2, RestInv

LEMMA FaultInv ==
  ASSUME LearningInv, NEW ins \in Branches, RecordBranchFaults(ins),
         UNCHANGED <<lastBranch, streak>>
  PROVE  LearningInv'
<1>1. /\ running' = FALSE /\ UNCHANGED <<instrumented, num_instr, num_branches, num_correct>>
      /\ UNCHANGED predictorVars
  BY DEF RecordBranchFaults
<1>2. ToolTypeOK BY DEF LearningInv, LearningTypeOK, TypeOK
<1>3. ToolTypeOK'
  <2>1. running' \in BOOLEAN BY <1>1
  <2> QED BY <1>1, <1>2, <2>1 DEF ToolTypeOK
<1>4. num_instr \in Nat BY <1>2, PinToolAssumption DEF ToolTypeOK
<1> QED BY <1>1, <1>3, <1>4, RestInv

LEMMA StutterInv == LearningInv /\ UNCHANGED learningVars => LearningInv'
<1> SUFFICES ASSUME LearningInv, UNCHANGED learningVars PROVE LearningInv' OBVIOUS
<1>1. /\ UNCHANGED <<instrumented, running, num_instr, num_branches, num_correct>>
      /\ UNCHANGED <<predictorVars, lastBranch, streak>>
  BY DEF learningVars, vars, toolVars
<1>2. ToolTypeOK' /\ num_instr \in Nat
  BY <1>1, PinToolAssumption DEF LearningInv, LearningTypeOK, TypeOK, ToolTypeOK
<1> QED BY <1>1, <1>2, RestInv

LEMMA InitInv == LearningInit => LearningInv
<1> SUFFICES ASSUME LearningInit PROVE LearningInv OBVIOUS
<1>1. ToolTypeOK BY ToolInitScores DEF LearningInit, Init
<1>2. TypeOK
  <2>1. 0 \in -SATURATING_NUM .. SATURATING_NUM /\ 1 \in -SATURATING_NUM .. SATURATING_NUM
    BY Sizes
  <2>2. predictionTable \in
          [Tables -> [0 .. GEHL_TABLE_SIZE - 1 -> -SATURATING_NUM .. SATURATING_NUM]]
    BY <2>1 DEF LearningInit, Init
  <2>3. branch_history \in Histories(NUM_TABLES, Addresses)
    BY DEF LearningInit, Init, Histories, HISTORY_LENGTH
  <2>4. historyVariations = [initialDepths(NUM_TABLES) EXCEPT ![0] = 1]
    <3>1. pow2(0) = 1 BY PowerRecursion
    <3>2. 0 \in 0 .. NUM_TABLES - 1 BY Sizes
    <3> QED BY <3>1, <3>2 DEF LearningInit, Init, initialDepths
  <2>5. currentSum \in Int BY DEF LearningInit, Init
  <2>6. prediction \in BOOLEAN BY DEF LearningInit, Init
  <2>7. trace \in BOOLEAN BY DEF LearningInit, Init
  <2>8. strayed \in BOOLEAN BY DEF LearningInit, Init
  <2> QED BY <1>1, <2>1, <2>2, <2>3, <2>4, <2>5, <2>6, <2>7, <2>8 DEF TypeOK
<1>3. /\ streak = 0 /\ num_instr = 0 /\ historyVariations = initialDepths(NUM_TABLES)
  BY DEF LearningInit, Init, ToolInit
<1> QED BY <1>2, <1>3, Sizes DEF LearningInv, LearningTypeOK, Learned, SteadyBranchIsLearned

LEMMA NextInv == LearningInv /\ [LearningNext]_learningVars => LearningInv'
BY AgainInv, OtherInv, HostInv, FaultInv, StutterInv DEF LearningNext

-----------------------------------------------------------------------------

\* Counters, history and sum keep their types, with indices outside their
\* tables too: no counter leaves the range that updatePredictor clamps it to,
\* and of the depths only the first is ever trained.
THEOREM LearningTypeCorrect == LearningSpec => []LearningTypeOK
<1>1. LearningInv => LearningTypeOK BY DEF LearningInv
<1> QED BY InitInv, NextInv, <1>1, PTL DEF LearningSpec

\* Until an index leaves its table: a branch executed HISTORY_LENGTH +
\* SATURATING_NUM times in a row with one outcome is predicted right from then
\* on, whatever the tables had learned before.
THEOREM SteadyBranchesAreLearned == LearningSpec => []SteadyBranchIsLearned
<1>1. LearningInv => SteadyBranchIsLearned BY DEF LearningInv
<1> QED BY InitInv, NextInv, <1>1, PTL DEF LearningSpec

=============================================================================

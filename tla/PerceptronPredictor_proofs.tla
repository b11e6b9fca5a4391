--------------------- MODULE PerceptronPredictor_proofs ---------------------
(***************************************************************************)
(* What holds of nonstatica.cpp's predictor for every length of the        *)
(* history, size of the table, set of branch targets, length of the        *)
(* start-up phase and bound MaxInstr.                                      *)
(***************************************************************************)
EXTENDS PerceptronPredictor, PredictorLemmas

\* updateBranchHistory never moves an outcome into the cells the weights but
\* the first are for: they stay as main has cleared them.
CellsStayClear == \A i \in 1 .. HISTORY_LENGTH - 1 : branch_history[i] = FALSE

\* The inductive invariant.
PerceptronInv ==
  /\ TypeOK /\ TotalsMakeSense
  /\ CellsStayClear /\ ConfidenceBounded

-----------------------------------------------------------------------------
(***************************************************************************)
(* How far a training moves the answer.                                    *)
(***************************************************************************)

LEMMA ThetaIsNatural == ASSUME NEW n \in Nat PROVE theta(n) \in Nat
BY DEF theta

\* A training starts from an answer that is wrong or at most theta, and moves
\* it towards the other side.
LEMMA StepIsBounded ==
  ASSUME NEW t \in Nat, NEW n \in Nat, NEW c \in Int, NEW d \in Int, 0 < d, d <= n,
         Magnitude(c) <= t + n
  PROVE  /\ c + d \in Int /\ c + (-1) * d \in Int
         /\ c <= 0 \/ Magnitude(c) <= t => Magnitude(c + d) <= t + n
         /\ c > 0 \/ Magnitude(c) <= t => Magnitude(c + (-1) * d) <= t + n
<1>1. ASSUME NEW x \in Int, NEW y \in Nat
      PROVE  Magnitude(x) <= y <=> -y <= x /\ x <= y
  BY DEF Magnitude
<1>2. c + (-1) * d = c - d OBVIOUS
<1> QED BY <1>1, <1>2

LEMMA RetrainedIsBounded ==
  ASSUME NEW n \in Nat, n > 2, NEW c \in Int, NEW taken \in BOOLEAN, NEW d \in {n, n - 2},
         Magnitude(c) <= theta(n) + n, MustTrain(c, (c > 0) # taken, n)
  PROVE  /\ c + Sign(taken) * d \in Int
         /\ Magnitude(c + Sign(taken) * d) <= theta(n) + n
<1>1. theta(n) \in Nat /\ d \in Int /\ 0 < d /\ d <= n
  BY ONLY n \in Nat, n > 2, d \in {n, n - 2}, ThetaIsNatural
<1>2. (c > 0) # taken \/ Magnitude(c) <= theta(n) BY DEF MustTrain
<1>3. CASE taken
  <2>1. ~(c > 0) \/ Magnitude(c) <= theta(n)
    <3>1. CASE c > 0 BY Zenon, <1>2, <1>3, <3>1
    <3> QED BY Zenon, <3>1
  <2>2. c <= 0 \/ Magnitude(c) <= theta(n) BY ONLY c \in Int, <2>1
  <2>3. Sign(taken) = 1 /\ 1 * d = d BY ONLY <1>1, <1>3 DEF Sign
  <2>4. c + d \in Int /\ Magnitude(c + d) <= theta(n) + n
    BY ONLY n \in Nat, c \in Int, Magnitude(c) <= theta(n) + n, <1>1, <2>2, StepIsBounded
  <2> QED BY ONLY <2>3, <2>4
<1>4. CASE ~taken
  <2>1. c > 0 \/ Magnitude(c) <= theta(n)
    <3>1. CASE ~(c > 0)
      <4>1. taken = FALSE BY ONLY <1>4, taken \in BOOLEAN
      <4>2. (c > 0) = FALSE BY ONLY <3>1
      <4>3. ~((c > 0) # taken) BY ONLY <4>1, <4>2
      <4> QED BY Zenon, <1>2, <4>3
    <3> QED BY Zenon, <3>1
  <2>2. Sign(taken) = -1 BY ONLY <1>4 DEF Sign
  <2>3. c + (-1) * d \in Int /\ Magnitude(c + (-1) * d) <= theta(n) + n
    BY ONLY n \in Nat, c \in Int, Magnitude(c) <= theta(n) + n, <1>1, <2>1, StepIsBounded
  <2> QED BY ONLY <2>2, <2>3
<1> QED BY <1>3, <1>4

-----------------------------------------------------------------------------

\* A lookup: the target is then in the entry selected, and the types are kept.
LEMMA LookupFinds ==
  ASSUME Table!TableTypeOK, NEW key \in Addresses, Table!Lookup(key)
  PROVE  Table!TableTypeOK' /\ address_history'[current_index'] = key
<1> USE DEF Table!TableTypeOK, Table!Slots, Table!Matches
<1>1. CASE Table!Found(key) BY <1>1 DEF Table!Found, Table!Lookup, Table!UsedAfter
<1>2. CASE Table!Filled(key)
  <2> DEFINE slot == IF pathsUsed = TABLE_SIZE THEN 0 ELSE pathsUsed
  <2>1. /\ address_history' = [address_history EXCEPT ![slot] = key]
        /\ current_index' = slot /\ pathsUsed' = slot + 1
    BY <1>2 DEF Table!Filled, Table!Lookup, Table!UsedAfter, Table!NextSlot
  <2>2. slot \in 0 .. TABLE_SIZE - 1 BY PerceptronAssumption
  <2> HIDE DEF slot
  <2> QED BY <2>1, <2>2, PerceptronAssumption
<1> QED BY <1>1, <1>2 DEF Table!Lookup, Table!Place

\* The answers of all the perceptrons, as one function.
Confidences == [a \in 0 .. TABLE_SIZE - 1 |-> Confidence(a)]

Sizes == HISTORY_LENGTH \in Nat \ {0} /\ HISTORY_LENGTH > 2 /\ TABLE_SIZE \in Nat \ {0}

LEMMA SizesArePositive == Sizes
BY PerceptronAssumption DEF Sizes

LEMMA CellsShift ==
  ASSUME branch_history \in [Inputs -> BOOLEAN], CellsStayClear,
         NEW taken \in BOOLEAN, updateBranchHistory(taken)
  PROVE  branch_history' \in [Inputs -> BOOLEAN] /\ CellsStayClear'
<1>1. HISTORY_LENGTH \in Nat /\ HISTORY_LENGTH > 2 BY PerceptronAssumption
<1>2. branch_history' = ShiftedOnce(branch_history, HISTORY_LENGTH, taken)
  BY DEF updateBranchHistory
<1> QED BY <1>1, <1>2, ShiftKeepsClear DEF CellsStayClear, Inputs

\* What a branch does to the answers: only the perceptron of its target is
\* trained, and it is trained as one counter.
LEMMA BranchRetrains ==
  ASSUME TypeOK, CellsStayClear, NEW ins \in Branches, NEW taken \in BOOLEAN,
         NEW address \in Addresses, RecordBranch(ins, taken, address)
  PROVE  /\ Table!TableTypeOK'
         /\ weight' \in [0 .. TABLE_SIZE - 1 -> [Inputs -> Int]]
         /\ \A a \in 0 .. TABLE_SIZE - 1 :
              a # current_index' => Confidences'[a] = Confidences[a]
         /\ Confidences'[current_index'] =
              IF MustTrain(Confidences[current_index'],
                           (Confidences[current_index'] > 0) # taken, HISTORY_LENGTH)
                THEN Output(Trained(weight[current_index'], branch_history, taken,
                                    HISTORY_LENGTH),
                            branch_history, HISTORY_LENGTH)
                ELSE Confidences[current_index']
<1> DEFINE n == HISTORY_LENGTH
           k == current_index'
           h == branch_history
           T == 0 .. TABLE_SIZE - 1
<1>1. n \in Nat \ {0} /\ TABLE_SIZE \in Nat \ {0} BY SizesArePositive DEF Sizes
<1>2. Table!TableTypeOK' /\ k \in T
  BY LookupFinds DEF TypeOK, RecordBranch, Table!TableTypeOK, Table!Slots
<1>3. /\ \A i \in 1 .. n - 1 : h[i] = FALSE /\ branch_history'[i] = FALSE
      /\ h[0] \in BOOLEAN
  <2>1. branch_history \in [Inputs -> BOOLEAN] /\ updateBranchHistory(taken)
    BY Zenon DEF TypeOK, RecordBranch
  <2>2. CellsStayClear' BY <2>1, CellsShift
  <2>3. 0 \in Inputs BY <1>1 DEF Inputs
  <2>4. h[0] \in BOOLEAN BY Zenon, <2>1, <2>3
  <2> QED BY Zenon, <2>2, <2>4 DEF CellsStayClear
<1>4. \A a \in T : \A i \in 0 .. n - 1 : weight[a][i] \in Int
  BY DEF TypeOK, Inputs
<1> DEFINE result == Output(weight[k], h, n)
           trained == Trained(weight[k], h, taken, n)
           must == MustTrain(result, (result > 0) # taken, n)
<1>5. weight' = IF must THEN [weight EXCEPT ![k] = trained] ELSE weight
  BY DEF RecordBranch, updatePerceptronResult, setPrediction, trainPerceptron
<1>6. trained \in [Inputs -> Int]
  <2>1. \A i \in 0 .. n - 1 : weight[k][i] + Sign(taken) * Sign(h[i]) \in Int
    BY <1>2, <1>4 DEF Sign
  <2> QED BY <2>1 DEF Trained, Inputs
<1>7. weight \in [T -> [Inputs -> Int]] BY DEF TypeOK
<1>8. /\ \A a \in T : Confidences[a] = Output(weight[a], h, n)
      /\ \A a \in T : Confidences'[a] = Output(weight'[a], branch_history', n)
  BY DEF Confidences, Confidence
<1> HIDE DEF n, k, h, T, trained, must
<1>9. weight' \in [T -> [Inputs -> Int]] BY <1>2, <1>5, <1>6, <1>7
<1>10. \A a \in T : \A i \in 0 .. n - 1 : weight'[a][i] \in Int
  BY <1>9 DEF Inputs, n
<1>11. ASSUME NEW a \in T PROVE Confidences'[a] = Output(weight'[a], h, n)
  <2>1. Output(weight'[a], branch_history', n) = Output(weight'[a], h, n)
    BY <1>1, <1>3, <1>10, OutputKept
  <2> QED BY <1>8, <2>1
<1>12. \A a \in T : a # k => weight'[a] = weight[a] BY <1>2, <1>5, <1>7
<1>13. \A a \in T : a # k => Confidences'[a] = Confidences[a]
  BY <1>8, <1>11, <1>12
<1>14. weight'[k] = IF must THEN trained ELSE weight[k] BY <1>2, <1>5, <1>7
<1>15. Confidences'[k] = IF must THEN Output(trained, h, n) ELSE Confidences[k]
  BY <1>2, <1>8, <1>11, <1>14
<1>16. result = Confidences[k] BY <1>2, <1>8
<1> QED BY <1>2, <1>9, <1>13, <1>15, <1>16 DEF n, k, h, T, trained, must

LEMMA InitPerceptronInv ==
  ASSUME Init
  PROVE  PerceptronInv /\ \A a \in 0 .. TABLE_SIZE - 1 : Confidences[a] = 1
<1> DEFINE n == HISTORY_LENGTH
           w == [i \in Inputs |-> IF i = 0 THEN 1 ELSE 0]
<1>1. n \in Nat \ {0} /\ TABLE_SIZE \in Nat \ {0} BY SizesArePositive DEF Sizes
<1>2. ToolTypeOK /\ TotalsMakeSense BY ToolInitScores DEF Init
<1>3. Table!TableTypeOK BY <1>1 DEF Init, Table!TableInit, Table!TableTypeOK, Table!Slots
<1>4. weight \in [0 .. TABLE_SIZE - 1 -> [Inputs -> Int]] BY DEF Init
<1>5. TypeOK
  <2>1. branch_history \in [Inputs -> BOOLEAN] /\ prediction \in BOOLEAN BY DEF Init
  <2>2. current_perceptron_result \in Int BY DEF Init
  <2> QED BY <1>2, <1>3, <1>4, <2>1, <2>2 DEF TypeOK
<1>6. CellsStayClear BY DEF Init, CellsStayClear, Inputs
<1>7. Output(w, branch_history, n) = 1
  <2>1. w[0] = 1 /\ (\A i \in 0 .. n - 1 : w[i] \in Int) /\ \A i \in 1 .. n - 1 : w[i] = 0
    BY <1>1 DEF Inputs
  <2>2. \A i \in 1 .. n - 1 : branch_history[i] = FALSE BY <1>6 DEF CellsStayClear
  <2> DEFINE f == [i \in 0 .. n - 2 |-> -w[i + 1]]
  <2> HIDE DEF w
  <2>3. Output(w, branch_history, n) = w[0] + SumBelow(f, n - 1)
    BY <1>1, <2>1, <2>2, OutputOfCleared
  <2>4. \A i \in 0 .. (n - 1) - 1 : f[i] = 0
    <3>1. ASSUME NEW i \in 0 .. (n - 1) - 1 PROVE f[i] = 0
      <4>1. i \in 0 .. n - 2 /\ i + 1 \in 1 .. n - 1 BY <1>1
      <4>2. w[i + 1] = 0 BY <2>1, <4>1
      <4> QED BY <4>1, <4>2
    <3> QED BY <3>1
  <2>5. n - 1 \in Nat /\ (n - 1) * 0 = 0 BY <1>1
  <2> HIDE DEF f
  <2>6. SumBelow(f, n - 1) = (n - 1) * 0 BY <2>4, <2>5, SumOfEqual
  <2> QED BY <2>1, <2>3, <2>5, <2>6
<1>8. \A a \in 0 .. TABLE_SIZE - 1 : Confidence(a) = 1
  <2>1. \A a \in 0 .. TABLE_SIZE - 1 : weight[a] = w BY DEF Init
  <2> QED BY <1>7, <2>1 DEF Confidence
<1>9. ConfidenceBounded
  <2>1. theta(n) \in Nat BY <1>1, ThetaIsNatural
  <2>2. Magnitude(1) <= theta(n) + n BY <1>1, <2>1 DEF Magnitude
  <2> QED BY <1>8, <2>2 DEF ConfidenceBounded
<1> QED BY <1>2, <1>5, <1>6, <1>8, <1>9 DEF PerceptronInv, Confidences

LEMMA BranchPerceptronInv ==
  ASSUME PerceptronInv, NEW ins \in Branches, NEW taken \in BOOLEAN,
         NEW address \in Addresses, RecordBranch(ins, taken, address)
  PROVE  /\ PerceptronInv'
         /\ Confidences'[current_index'] \in RetrainedConfidence(Confidences[current_index'])
<1> DEFINE n == HISTORY_LENGTH
           k == current_index'
           c == Confidences[k]
           most == theta(n) + n
<1> USE DEF PerceptronInv
<1>1. n \in Nat \ {0} /\ n > 2 /\ TABLE_SIZE \in Nat \ {0}
  BY SizesArePositive DEF Sizes
<1>2. /\ Table!TableTypeOK'
      /\ weight' \in [0 .. TABLE_SIZE - 1 -> [Inputs -> Int]]
      /\ \A a \in 0 .. TABLE_SIZE - 1 : a # k => Confidences'[a] = Confidences[a]
      /\ Confidences'[k] = IF MustTrain(c, (c > 0) # taken, n)
                             THEN Output(Trained(weight[k], branch_history, taken, n),
                                         branch_history, n)
                             ELSE c
  BY BranchRetrains
<1>3. k \in 0 .. TABLE_SIZE - 1 BY <1>2 DEF Table!TableTypeOK, Table!Slots
<1>4. branch_history' \in [Inputs -> BOOLEAN] /\ CellsStayClear'
  BY CellsShift DEF TypeOK, RecordBranch
<1>5. /\ \A i \in 1 .. n - 1 : branch_history[i] = FALSE
      /\ branch_history[0] \in BOOLEAN
      /\ \A a \in 0 .. TABLE_SIZE - 1 : \A i \in 0 .. n - 1 : weight[a][i] \in Int
  BY <1>1 DEF TypeOK, CellsStayClear, Inputs
<1>6. \A a \in 0 .. TABLE_SIZE - 1 : Confidences[a] = Output(weight[a], branch_history, n)
  BY DEF Confidences, Confidence
<1>7. \A a \in 0 .. TABLE_SIZE - 1 : Confidences[a] \in Int
  BY <1>1, <1>5, <1>6, OutputOfCleared
<1>8. PICK d \in {n, n - 2} :
        Output(Trained(weight[k], branch_history, taken, n), branch_history, n)
          = c + Sign(taken) * d
  <2> DEFINE w == weight[k]
             h == branch_history
  <2>1. /\ \A i \in 0 .. n - 1 : w[i] \in Int
        /\ \A i \in 1 .. n - 1 : h[i] = FALSE
        /\ h[0] \in BOOLEAN
    BY <1>3, <1>5
  <2>2. c = Output(w, h, n) BY <1>3, <1>6
  <2> HIDE DEF w, h, n, c
  <2>3. \E d \in {n, n - 2} :
          Output(Trained(w, h, taken, n), h, n) = Output(w, h, n) + Sign(taken) * d
    BY ONLY <1>1, <2>1, taken \in BOOLEAN, OutputTrained
  <2> QED BY <2>2, <2>3 DEF w, h
<1>9. Confidences'[k] = IF MustTrain(c, (c > 0) # taken, n) THEN c + Sign(taken) * d ELSE c
  BY <1>2, <1>8
<1>10. Confidences'[k] \in RetrainedConfidence(c) BY <1>9 DEF RetrainedConfidence
<1>11. \A a \in 0 .. TABLE_SIZE - 1 : Magnitude(Confidences[a]) <= most
  BY DEF ConfidenceBounded, Confidences
<1>12. c \in Int /\ Magnitude(c) <= most BY <1>3, <1>7, <1>11
<1> HIDE DEF c
<1>13. Magnitude(Confidences'[k]) <= most
  <2>1. CASE MustTrain(c, (c > 0) # taken, n)
    <3>1. Confidences'[k] = c + Sign(taken) * d BY <1>9, <2>1
    <3>2. Magnitude(c + Sign(taken) * d) <= most
      BY <1>1, <1>8, <1>12, <2>1, RetrainedIsBounded
    <3> QED BY <3>1, <3>2
  <2>2. CASE ~MustTrain(c, (c > 0) # taken, n) BY <1>9, <1>12, <2>2
  <2> QED BY <2>1, <2>2
<1> HIDE DEF most, k
<1>14. \A a \in 0 .. TABLE_SIZE - 1 : Magnitude(Confidences'[a]) <= most
  BY <1>2, <1>11, <1>13
<1>15. ConfidenceBounded' BY <1>14 DEF ConfidenceBounded, Confidences, most
<1>16. ToolTypeOK' /\ TotalsMakeSense'
  <2>1. (prediction' = taken) \in BOOLEAN OBVIOUS
  <2> QED BY <2>1, BranchScores DEF RecordBranch, TypeOK
<1>17. current_perceptron_result' \in Int
  <2>1. current_perceptron_result' = Output(weight[k], branch_history, n)
    BY DEF RecordBranch, updatePerceptronResult, k
  <2> QED BY <1>3, <1>6, <1>7, <2>1
<1>18. prediction' \in BOOLEAN
  <2>1. prediction' = (current_perceptron_result' > 0) BY DEF RecordBranch, setPrediction
  <2> QED BY <2>1
<1>19. TypeOK' BY Zenon, <1>2, <1>4, <1>16, <1>17, <1>18 DEF TypeOK
<1> QED BY <1>4, <1>10, <1>15, <1>16, <1>19 DEF k, c

LEMMA OtherPerceptronInv ==
  ASSUME PerceptronInv, UNCHANGED predictorVars,
         HostStep \/ \E ins \in Branches : RecordBranchFaults(ins)
  PROVE  PerceptronInv'
<1>1. ToolTypeOK' /\ TotalsMakeSense'
  <2>1. CASE HostStep BY <2>1, HostScores DEF PerceptronInv, TypeOK
  <2>2. CASE \E ins \in Branches : RecordBranchFaults(ins)
    BY <2>2 DEF PerceptronInv, TypeOK, ToolTypeOK, TotalsMakeSense, RecordBranchFaults
  <2> QED BY <2>1, <2>2
<1> QED BY <1>1
    DEF PerceptronInv, TypeOK, CellsStayClear, ConfidenceBounded, Confidence,
        Table!TableTypeOK, predictorVars

LEMMA NextPerceptronInv == PerceptronInv /\ [Next]_vars => PerceptronInv'
<1> SUFFICES ASSUME PerceptronInv, [Next]_vars PROVE PerceptronInv' OBVIOUS
<1>1. CASE UNCHANGED vars
  BY <1>1 DEF vars, predictorVars, toolVars, PerceptronInv, TypeOK, ToolTypeOK,
              TotalsMakeSense, CellsStayClear, ConfidenceBounded, Confidence,
              Table!TableTypeOK
<1>2. CASE HostStep /\ UNCHANGED predictorVars BY <1>2, OtherPerceptronInv
<1>3. ASSUME NEW ins \in Branches, RecordBranchFaults(ins) PROVE PerceptronInv'
  <2>1. UNCHANGED predictorVars BY <1>3 DEF RecordBranchFaults, predictorVars
  <2> QED BY <1>3, <2>1, OtherPerceptronInv
<1> QED BY <1>1, <1>2, <1>3, BranchPerceptronInv DEF Next

\* The inductive invariant: no step of nonstatica.cpp trains a perceptron far
\* beyond the threshold or sets a cell of the history but the first.
THEOREM PerceptronInvariance == Spec => []PerceptronInv
BY InitPerceptronInv, NextPerceptronInv, PTL DEF Spec

-----------------------------------------------------------------------------

\* Every variable keeps its type: the index stays in the table, pathsUsed at
\* most one past it, and weights and answers are integers.
THEOREM PerceptronTypeCorrect == Spec => []TypeOK
<1>1. PerceptronInv => TypeOK BY DEF PerceptronInv
<1> QED BY <1>1, PerceptronInvariance, PTL

\* However long the program runs and however often a sure perceptron is wrong,
\* no answer is further from 0 than theta plus one training (trainPerceptron).
THEOREM ConfidenceIsBounded == Spec => []ConfidenceBounded
<1>1. PerceptronInv => ConfidenceBounded BY DEF PerceptronInv
<1> QED BY <1>1, PerceptronInvariance, PTL

-----------------------------------------------------------------------------
(***************************************************************************)
(* The circle of entries, read from pathsUsed on, is a queue of counters.  *)
(***************************************************************************)

LEMMA QueueIs ==
  /\ Table!TableTypeOK =>
       queue = QueueOf(address_history, Confidences, pathsUsed, TABLE_SIZE)
  /\ Table!TableTypeOK' =>
       queue' = QueueOf(address_history', Confidences', pathsUsed', TABLE_SIZE)
<1>1. \A i, ahead \in Int : Table!SlotOf(i, ahead) = PlaceOf(i, ahead, TABLE_SIZE)
  BY PerceptronAssumption DEF Table!SlotOf, PlaceOf
<1>2. ASSUME Table!TableTypeOK
      PROVE  queue = QueueOf(address_history, Confidences, pathsUsed, TABLE_SIZE)
  <2>1. pathsUsed \in Int BY <1>2, PerceptronAssumption DEF Table!TableTypeOK
  <2> QED BY <1>1, <2>1 DEF queue, Table!InOrder, QueueOf, Confidences
<1>3. ASSUME Table!TableTypeOK'
      PROVE  queue' = QueueOf(address_history', Confidences', pathsUsed', TABLE_SIZE)
  <2>1. pathsUsed' \in Int BY <1>3, PerceptronAssumption DEF Table!TableTypeOK
  <2> QED BY <1>1, <2>1 DEF queue, Table!InOrder, QueueOf, Confidences
<1> QED BY <1>2, <1>3

\* What both lookups do to the answers.
LEMMA BranchAnswers ==
  ASSUME PerceptronInv, NEW ins \in Branches, NEW taken \in BOOLEAN,
         NEW address \in Addresses, RecordBranch(ins, taken, address)
  PROVE  /\ Table!TableTypeOK /\ Table!TableTypeOK'
         /\ pathsUsed \in 0 .. TABLE_SIZE
         /\ current_index' \in 0 .. TABLE_SIZE - 1
         /\ address_history'[current_index'] = address
         /\ \A a \in 0 .. TABLE_SIZE - 1 :
              a # current_index' => Confidences'[a] = Confidences[a]
         /\ Confidences'[current_index'] \in RetrainedConfidence(Confidences[current_index'])
<1>1. Table!TableTypeOK /\ Table!Lookup(address) /\ TypeOK /\ CellsStayClear
  BY DEF PerceptronInv, TypeOK, RecordBranch
<1>2. Table!TableTypeOK' /\ address_history'[current_index'] = address
  BY <1>1, LookupFinds
<1>3. \A a \in 0 .. TABLE_SIZE - 1 : a # current_index' => Confidences'[a] = Confidences[a]
  BY <1>1, BranchRetrains
<1>4. Confidences'[current_index'] \in RetrainedConfidence(Confidences[current_index'])
  BY BranchPerceptronInv
<1>5. pathsUsed \in 0 .. TABLE_SIZE /\ current_index' \in 0 .. TABLE_SIZE - 1
  BY <1>1, <1>2 DEF Table!TableTypeOK, Table!Slots
<1> QED BY <1>1, <1>2, <1>3, <1>4, <1>5

\* A target that is found: its counter is retrained where it stands.
LEMMA FoundTrains ==
  ASSUME PerceptronInv, NEW ins \in Branches, NEW taken \in BOOLEAN,
         NEW address \in Addresses, RecordBranch(ins, taken, address), Table!Found(address)
  PROVE  Counters!Train(address)
<1> DEFINE k == current_index'
           c == Confidences'[k]
<1>1. TABLE_SIZE \in Nat \ {0} BY PerceptronAssumption
<1>2. /\ Table!TableTypeOK /\ Table!TableTypeOK'
      /\ pathsUsed \in 0 .. TABLE_SIZE /\ k \in 0 .. TABLE_SIZE - 1
      /\ address_history'[k] = address
      /\ \A a \in 0 .. TABLE_SIZE - 1 : a # k => Confidences'[a] = Confidences[a]
      /\ c \in RetrainedConfidence(Confidences[k])
  BY BranchAnswers
<1>3. address_history' = address_history /\ pathsUsed' = pathsUsed
  BY DEF Table!Found, Table!Lookup, Table!UsedAfter, RecordBranch
<1> HIDE DEF k
<1>4. LearnsInPlace(QueueOf(address_history, Confidences, pathsUsed, TABLE_SIZE),
                    QueueOf(address_history, Confidences', pathsUsed, TABLE_SIZE),
                    TABLE_SIZE, address_history[k], Confidences[k], Confidences'[k])
  BY <1>1, <1>2, QueueTrains
<1> HIDE DEF c
<1>5. LearnsInPlace(queue, queue', TABLE_SIZE, address, Confidences[k], c)
  BY <1>2, <1>3, <1>4, QueueIs DEF c
<1> QED BY <1>2, <1>5 DEF LearnsInPlace, Counters!Train

\* A target that is not found takes the entry at the head, with its counter,
\* and moves it to the end.
LEMMA FilledReplaces ==
  ASSUME PerceptronInv, NEW ins \in Branches, NEW taken \in BOOLEAN,
         NEW address \in Addresses, RecordBranch(ins, taken, address), Table!Filled(address)
  PROVE  Counters!Replace(address)
<1> DEFINE slot == IF pathsUsed = TABLE_SIZE THEN 0 ELSE pathsUsed
           c == Confidences'[slot]
<1>1. TABLE_SIZE \in Nat \ {0} BY PerceptronAssumption
<1>2. /\ \A i \in 0 .. TABLE_SIZE - 1 : address_history[i] # address
      /\ address_history' = [address_history EXCEPT ![slot] = address]
      /\ current_index' = slot /\ pathsUsed' = slot + 1
  BY DEF Table!Filled, Table!Lookup, Table!UsedAfter, Table!NextSlot, Table!Matches, Table!Slots,
         RecordBranch
<1>3. slot = IF pathsUsed = TABLE_SIZE THEN 0 ELSE pathsUsed OBVIOUS
<1> HIDE DEF slot
<1>4. /\ Table!TableTypeOK /\ Table!TableTypeOK'
      /\ pathsUsed \in 0 .. TABLE_SIZE /\ slot \in 0 .. TABLE_SIZE - 1
      /\ address_history'[slot] = address
      /\ \A a \in 0 .. TABLE_SIZE - 1 : a # slot => Confidences'[a] = Confidences[a]
      /\ c \in RetrainedConfidence(Confidences[slot])
  BY <1>2, BranchAnswers
<1>5. \A i \in 0 .. TABLE_SIZE - 1 :
        i # slot => address_history'[i] = address_history[i] /\ Confidences'[i] = Confidences[i]
  BY <1>2, <1>4 DEF Table!TableTypeOK, Table!Slots
<1>6. MovesToEnd(QueueOf(address_history, Confidences, pathsUsed, TABLE_SIZE),
                 QueueOf(address_history', Confidences', slot + 1, TABLE_SIZE),
                 Confidences[slot], address_history'[slot], Confidences'[slot])
  BY <1>1, <1>3, <1>4, <1>5, QueueReplaces
<1> HIDE DEF c
<1>7. MovesToEnd(queue, queue', Confidences[slot], address, c)
  BY <1>2, <1>4, <1>6, QueueIs DEF c
<1>8. \A i \in 1 .. TABLE_SIZE :
        QueueOf(address_history, Confidences, pathsUsed, TABLE_SIZE)[i].key # address
  <2>1. \A i \in 0 .. TABLE_SIZE - 1 : address_history[i] # address BY <1>2
  <2>2. pathsUsed \in 0 .. TABLE_SIZE BY <1>4
  <2> QED BY ONLY <1>1, <2>1, <2>2, QueueMisses
<1>9. \A i \in 1 .. TABLE_SIZE : queue[i].key # address BY <1>4, <1>8, QueueIs
<1> QED BY <1>4, <1>7, <1>9 DEF MovesToEnd, Counters!Replace

\* All the weights of nonstatica.cpp amount to one saturating counter for each
\* branch target, which a first-in, first-out memory keeps.
THEOREM PerceptronsAreCounters == Spec => ImplementsCounters
<1>1. ASSUME Init PROVE Counters!Init
  <2> DEFINE fresh == 1
             Q == QueueOf(address_history, Confidences, pathsUsed, TABLE_SIZE)
  <2>1. \A i \in 0 .. TABLE_SIZE - 1 : address_history[i] = NoAddress /\ Confidences[i] = fresh
    BY <1>1, InitPerceptronInv DEF Init, Table!TableInit, Table!Slots
  <2>2. pathsUsed \in 0 .. TABLE_SIZE /\ TABLE_SIZE \in Nat \ {0}
    BY <1>1, PerceptronAssumption DEF Init, Table!TableInit
  <2>3. \A i \in 1 .. TABLE_SIZE : PlaceOf(i, pathsUsed, TABLE_SIZE) \in 0 .. TABLE_SIZE - 1
    BY <2>2, PlacesInOrder
  <2> HIDE DEF fresh
  <2>4. Q = [i \in 1 .. TABLE_SIZE |-> [key |-> NoAddress, learned |-> fresh]]
    BY <2>1, <2>3 DEF QueueOf
  <2> HIDE DEF Q
  <2>5. Table!TableTypeOK BY <1>1, InitPerceptronInv DEF PerceptronInv, TypeOK
  <2>6. queue = Q BY <2>5, QueueIs DEF Q
  <2> QED BY <2>4, <2>6 DEF Counters!Init, fresh
<1>2. ASSUME PerceptronInv, [Next]_vars PROVE [Counters!Next]_queue
  <2>1. CASE UNCHANGED predictorVars
    BY <2>1 DEF predictorVars, queue, Table!InOrder, Confidence
  <2>2. ASSUME NEW ins \in Branches, NEW taken \in BOOLEAN, NEW address \in Addresses,
               RecordBranch(ins, taken, address)
        PROVE  Counters!Next
    <3>1. Table!Found(address) \/ Table!Filled(address)
      BY <2>2 DEF RecordBranch, Table!Lookup, Table!Place
    <3>2. Counters!Train(address) \/ Counters!Replace(address)
      BY <1>2, <2>2, <3>1, FoundTrains, FilledReplaces
    <3> QED BY <3>2 DEF Counters!Next
  <2>3. ASSUME NEW ins \in Branches, RecordBranchFaults(ins) PROVE UNCHANGED predictorVars
    BY <2>3 DEF RecordBranchFaults, predictorVars
  <2> QED BY <1>2, <2>1, <2>2, <2>3 DEF Next, vars
<1> QED BY <1>1, <1>2, PerceptronInvariance, PTL DEF Spec, ImplementsCounters, Counters!Spec

=============================================================================

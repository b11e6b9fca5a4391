--------------------- MODULE CorrelatedPredictor_proofs ---------------------
(***************************************************************************)
(* What holds of pinatrace.cpp's predictor for every size of its tables,   *)
(* every length of the start-up phase, every application and every bound   *)
(* MaxInstr; and how well it predicts, against every fixed table.          *)
(***************************************************************************)
EXTENDS CorrelatedLearning, PredictorLemmas

\* No counter rests at 0: updateBHT steps over it.
NoNeutralCounter == \A i \in DOMAIN bhr : bhr[i] # 0

\* The inductive invariant.  TypeOK alone does not bound what a step does to
\* a counter that is 0, and UpperHalfUntouched rests on the index's range.
IndInv == TypeOK /\ NoNeutralCounter /\ UpperHalfUntouched /\ TotalsMakeSense

-----------------------------------------------------------------------------

LEMMA Sizes ==
  /\ SATURATING_NUM \in Nat \ {0}
  /\ BHR_ENTRIES \in Nat \ {0}
  /\ pow2(BHR_BITS - 1) \in Nat \ {0}
  /\ BHR_ENTRIES = 2 * pow2(BHR_BITS - 1)
<1>1. SATURATING_NUM \in Nat \ {0}
  BY CorrelatedAssumption, SaturatingNumPositive DEF SATURATING_NUM
<1>2. pow2(BHR_BITS - 1) \in Nat \ {0} /\ BHR_ENTRIES = 2 * pow2(BHR_BITS - 1)
  BY CorrelatedAssumption, PowerHalf DEF BHR_ENTRIES
<1> QED BY <1>1, <1>2

LEMMA IndexInLowerHalf ==
  ASSUME NEW h PROVE IndexOf(h) \in 0 .. pow2(BHR_BITS - 1) - 1
BY CorrelatedAssumption, PackBitsRange DEF IndexOf

\* What a branch does to the table: it trains the entry it predicted with.
LEMMA BranchTrains ==
  ASSUME IndInv, NEW ins \in Branches, NEW taken \in BOOLEAN, RecordBranch(ins, taken)
  PROVE  /\ bhr_current_index' = IndexOf(branch_history)
         /\ bhr_current_index' \in 0 .. pow2(BHR_BITS - 1) - 1
         /\ bhr_current_index' \in DOMAIN bhr
         /\ prediction' = Predict(bhr[bhr_current_index'])
         /\ bhr' = [bhr EXCEPT ![bhr_current_index'] =
                      Train(bhr[bhr_current_index'], taken, SATURATING_NUM)]
<1>1. bhr_current_index' = IndexOf(branch_history)
  BY DEF RecordBranch, updateBHRIndex
<1>2. bhr_current_index' \in 0 .. pow2(BHR_BITS - 1) - 1
  BY <1>1, IndexInLowerHalf
<1>3. bhr_current_index' \in DOMAIN bhr
  BY <1>2, Sizes DEF IndInv, TypeOK
<1>4. /\ prediction' = Predict(bhr[bhr_current_index'])
      /\ bhr' = [bhr EXCEPT ![bhr_current_index'] =
                      Train(bhr[bhr_current_index'], taken, SATURATING_NUM)]
  BY DEF RecordBranch, setPrediction, updateBHT
<1> QED BY <1>1, <1>2, <1>3, <1>4

-----------------------------------------------------------------------------

LEMMA InitIndInv == Init => IndInv
<1> SUFFICES ASSUME Init PROVE IndInv OBVIOUS
<1>1. ToolTypeOK /\ TotalsMakeSense BY ToolInitScores DEF Init
<1>2. TypeOK
  <2>1. 1 \in -SATURATING_NUM .. SATURATING_NUM /\ 0 \in 0 .. BHR_ENTRIES - 1
    BY Sizes
  <2> QED BY <1>1, <2>1 DEF Init, TypeOK
<1>3. NoNeutralCounter /\ UpperHalfUntouched
  BY Sizes DEF Init, NoNeutralCounter, UpperHalfUntouched
<1> QED BY <1>1, <1>2, <1>3 DEF IndInv

LEMMA BranchIndInv ==
  ASSUME IndInv, NEW ins \in Branches, NEW taken \in BOOLEAN, RecordBranch(ins, taken)
  PROVE  IndInv'
<1> DEFINE k == bhr_current_index'
           c == Train(bhr[k], taken, SATURATING_NUM)
<1>1. /\ k \in 0 .. pow2(BHR_BITS - 1) - 1 /\ k \in DOMAIN bhr
      /\ prediction' = Predict(bhr[k]) /\ bhr' = [bhr EXCEPT ![k] = c]
  BY BranchTrains
<1>2. c \in -SATURATING_NUM .. SATURATING_NUM /\ c # 0
  BY <1>1, Sizes, TrainCounter DEF IndInv, TypeOK, NoNeutralCounter
<1>3. prediction' \in BOOLEAN BY <1>1 DEF Predict
<1>4. ToolTypeOK' /\ TotalsMakeSense'
  <2>1. (prediction' = taken) \in BOOLEAN OBVIOUS
  <2> QED BY <2>1, BranchScores DEF RecordBranch, IndInv, TypeOK
<1>5. branch_history' \in [0 .. BHR_BITS - 1 -> BOOLEAN]
  BY CorrelatedAssumption
  DEF RecordBranch, updateBranchHistory, ShiftIn, IndInv, TypeOK
<1> HIDE DEF k, c
<1>6. TypeOK'
  <2>1. bhr' \in [0 .. BHR_ENTRIES - 1 -> -SATURATING_NUM .. SATURATING_NUM]
    BY <1>1, <1>2 DEF IndInv, TypeOK
  <2>2. bhr_current_index' \in 0 .. BHR_ENTRIES - 1
    BY <1>1 DEF IndInv, TypeOK, k
  <2> QED BY <1>3, <1>4, <1>5, <2>1, <2>2 DEF TypeOK
<1>7. NoNeutralCounter'
  BY <1>1, <1>2 DEF IndInv, NoNeutralCounter
<1>8. UpperHalfUntouched'
  BY <1>1, Sizes DEF IndInv, TypeOK, UpperHalfUntouched
<1> QED BY <1>4, <1>6, <1>7, <1>8 DEF IndInv

LEMMA NextIndInv == IndInv /\ [Next]_vars => IndInv'
<1> SUFFICES ASSUME IndInv, [Next]_vars PROVE IndInv' OBVIOUS
<1>1. CASE HostStep /\ UNCHANGED predictorVars
  <2>1. ToolTypeOK' /\ TotalsMakeSense' BY <1>1, HostScores DEF IndInv, TypeOK
  <2> QED BY <1>1, <2>1
      DEF IndInv, TypeOK, NoNeutralCounter, UpperHalfUntouched, predictorVars
<1>2. CASE \E ins \in Branches, taken \in BOOLEAN : RecordBranch(ins, taken)
  BY <1>2, BranchIndInv
<1>3. CASE UNCHANGED vars
  BY <1>3 DEF vars, predictorVars, toolVars, IndInv, TypeOK, ToolTypeOK,
              NoNeutralCounter, UpperHalfUntouched, TotalsMakeSense
<1> QED BY <1>1, <1>2, <1>3 DEF Next, BranchExecuted

\* The inductive invariant: every step of pinatrace.cpp keeps the counters, the
\* dead half of the table and the totals as IndInv has them.
THEOREM Invariance == Spec => []IndInv
BY InitIndInv, NextIndInv, PTL DEF Spec

-----------------------------------------------------------------------------

\* Every variable keeps its type: the counters their range, the index the
\* table's, and the ints of the score wrap around within int.
THEOREM TypeCorrect == Spec => []TypeOK
<1>1. IndInv => TypeOK BY DEF IndInv
<1> QED BY <1>1, Invariance, PTL

\* The entries whose index has its top bit set are never used (the loop of
\* updateBHRIndex, pinatrace.cpp:23): half of bhr is as main filled it.
THEOREM HalfTheTableIsDead == Spec => []UpperHalfUntouched
<1>1. IndInv => UpperHalfUntouched BY DEF IndInv
<1> QED BY <1>1, Invariance, PTL

\* num_correct <= num_branches <= num_instr as long as an int can count the
\* instructions executed, whatever Instruction clears and when.
THEOREM TotalsAreSound == Spec => []TotalsMakeSense
<1>1. IndInv => TotalsMakeSense BY DEF IndInv
<1> QED BY <1>1, Invariance, PTL

\* A branch retrains at most one entry of bhr, and the prediction of an entry
\* changes only from one weak state to the other (updateBHT).
THEOREM Hysteresis == Spec => FlipsOnlyWhenWeak
<1> DEFINE Flips ==
      \A i, j \in DOMAIN bhr :
        /\ (bhr'[i] # bhr[i] /\ bhr'[j] # bhr[j]) => i = j
        /\ Predict(bhr'[i]) # Predict(bhr[i]) => {bhr[i], bhr'[i]} = {-1, 1}
<1>1. ASSUME IndInv, NEW ins \in Branches, NEW taken \in BOOLEAN, RecordBranch(ins, taken)
      PROVE  Flips
  <2> DEFINE k == bhr_current_index'
             c == Train(bhr[k], taken, SATURATING_NUM)
  <2>1. k \in DOMAIN bhr /\ bhr' = [bhr EXCEPT ![k] = c]
    BY <1>1, BranchTrains
  <2>2. bhr[k] \in -SATURATING_NUM .. SATURATING_NUM /\ bhr[k] # 0
    BY <1>1, <2>1 DEF IndInv, TypeOK, NoNeutralCounter
  <2>3. Predict(c) # Predict(bhr[k]) =>
          (bhr[k] = -1 /\ c = 1) \/ (bhr[k] = 1 /\ c = -1)
    <3> DEFINE d == bhr[k]
    <3>1. d \in -SATURATING_NUM .. SATURATING_NUM /\ d # 0 BY <2>2
    <3> HIDE DEF d
    <3>2. Predict(Train(d, taken, SATURATING_NUM)) # Predict(d) =>
            \/ d = -1 /\ Train(d, taken, SATURATING_NUM) = 1
            \/ d = 1 /\ Train(d, taken, SATURATING_NUM) = -1
      BY <3>1, Sizes, TrainCounter
    <3> QED BY <3>2 DEF d
  <2> HIDE DEF k, c
  <2> QED BY <2>1, <2>3
<1>2. ASSUME UNCHANGED bhr PROVE Flips BY <1>2
<1>3. IndInv /\ [Next]_vars => [Flips]_vars
  BY <1>1, <1>2 DEF Next, BranchExecuted, predictorVars, vars
<1> QED BY <1>3, Invariance, PTL DEF Spec, FlipsOnlyWhenWeak

\* The totals are those of the abstract scoreboard, if the bound on the
\* instructions executed is one an int can count to: RecordBranch counts each
\* branch once, and nothing is cleared after start-up.
THEOREM RefinesScoreboard == MaxInstr <= INT_MAX => (Spec => ImplementsScoreboard)
<1> SUFFICES ASSUME MaxInstr <= INT_MAX PROVE Spec => ImplementsScoreboard
  OBVIOUS
<1>1. Init => Scoreboard!Init BY ToolInitScores DEF Init
<1>2. ASSUME IndInv, BranchExecuted PROVE Scoreboard!Branch
  <2>1. PICK ins \in Branches, taken \in BOOLEAN : RecordBranch(ins, taken)
    BY <1>2 DEF BranchExecuted
  <2>2. (prediction' = taken) \in BOOLEAN OBVIOUS
  <2> QED BY <1>2, <2>1, <2>2, BranchIsScoreboard DEF IndInv, TypeOK, RecordBranch
<1>3. ASSUME IndInv, [Next]_vars PROVE [Scoreboard!Next]_(Scoreboard!vars)
  <2>1. CASE HostStep
    <3>1. ToolTypeOK BY <1>3 DEF IndInv, TypeOK
    <3> QED BY <2>1, <3>1, HostIsScoreboard
  <2>2. CASE BranchExecuted BY <1>2, <1>3, <2>2 DEF Scoreboard!Next
  <2>3. CASE UNCHANGED vars BY <2>3 DEF vars, toolVars, Scoreboard!vars
  <2> QED BY <1>3, <2>1, <2>2, <2>3 DEF Next
<1>4. IndInv => [BranchExecuted => Scoreboard!Branch]_vars BY <1>2
<1> QED
  BY <1>1, <1>3, <1>4, Invariance, PTL DEF Spec, ImplementsScoreboard, Scoreboard!Spec

-----------------------------------------------------------------------------
(***************************************************************************)
(* The table learns each context by itself.                                *)
(***************************************************************************)

\* updateBHT moves a counter as the memory moves a level.
LEMMA TrainingMoves ==
  ASSUME NEW c \in -SATURATING_NUM .. SATURATING_NUM, NEW taken \in BOOLEAN
  PROVE  Memory!Moved(c, taken) = Train(c, taken, SATURATING_NUM)
<1> DEFINE beyond == {l \in Memory!Levels : IF taken THEN l > c ELSE l < c}
<1>1. beyond = Beyond(c, taken, SATURATING_NUM) BY DEF Memory!Levels, Beyond
<1>2. Memory!Moved(c, taken) = IF beyond = {} THEN c ELSE Memory!Nearest(c, beyond)
  BY DEF Memory!Moved
<1>3. Memory!Nearest(c, beyond) = Closest(c, beyond) BY DEF Memory!Nearest, Closest
<1> HIDE DEF beyond
<1>4. SATURATING_NUM \in Nat \ {0} BY Sizes
<1>5. Train(c, taken, SATURATING_NUM) = IF beyond = {} THEN c ELSE Closest(c, beyond)
  BY <1>1, <1>4, TrainedIsNearest
<1> QED BY <1>2, <1>3, <1>5

LEMMA InitMemory == Init => Memory!Init
<1> SUFFICES ASSUME Init PROVE Memory!Init OBVIOUS
<1> DEFINE index(c) == PackBits([i \in 0 .. BHR_BITS - 2 |-> c[i + 1]], BHR_BITS - 1)
<1>1. ASSUME NEW c PROVE bhr[index(c)] = 1
  <2>1. index(c) \in 0 .. pow2(BHR_BITS - 1) - 1
    BY CorrelatedAssumption, PackBitsRange
  <2>2. index(c) \in 0 .. BHR_ENTRIES - 1 BY <2>1, Sizes
  <2> HIDE DEF index
  <2> QED BY <2>2 DEF Init
<1>2. ByContext(bhr, BHR_BITS) = [c \in Memory!Contexts |-> 1]
  BY <1>1 DEF ByContext, Memory!Contexts
<1>3. AsSequence(branch_history, BHR_BITS) = [i \in 1 .. BHR_BITS |-> FALSE]
  BY CorrelatedAssumption DEF Init, AsSequence
<1> QED BY <1>2, <1>3 DEF Memory!Init

LEMMA BranchLearns ==
  ASSUME IndInv, NEW ins \in Branches, NEW taken \in BOOLEAN, RecordBranch(ins, taken)
  PROVE  Memory!Learn(taken)
<1> DEFINE k == PackBits(branch_history, BHR_BITS - 1)
           c == Context(branch_history, BHR_BITS)
           v == Train(bhr[k], taken, SATURATING_NUM)
<1>1. k \in DOMAIN bhr /\ bhr' = [bhr EXCEPT ![k] = v] BY BranchTrains DEF IndexOf
<1>2. DOMAIN bhr = 0 .. pow2(BHR_BITS) - 1 /\ branch_history \in [0 .. BHR_BITS - 1 -> BOOLEAN]
  BY DEF IndInv, TypeOK, BHR_ENTRIES
<1> HIDE DEF k, c, v
<1>3. /\ c \in Memory!Contexts
      /\ ByContext(bhr, BHR_BITS)[c] = bhr[k] /\ ByContext(bhr', BHR_BITS)[c] = v
      /\ \A d \in Memory!Contexts :
           d # c => ByContext(bhr', BHR_BITS)[d] = ByContext(bhr, BHR_BITS)[d]
  <2>1. k = PackBits(branch_history, BHR_BITS - 1) BY DEF k
  <2>2. bhr'[k] = v /\ \A i \in 0 .. pow2(BHR_BITS) - 1 : i # k => bhr'[i] = bhr[i]
    BY <1>1, <1>2
  <2>3. BHR_BITS \in Nat \ {0} BY CorrelatedAssumption
  <2>4. \A i \in 0 .. BHR_BITS - 1 : branch_history[i] \in BOOLEAN BY <1>2
  <2>5. /\ c \in ContextsOf(BHR_BITS)
        /\ ByContext(bhr, BHR_BITS)[c] = bhr[k] /\ ByContext(bhr', BHR_BITS)[c] = bhr'[k]
        /\ \A d \in ContextsOf(BHR_BITS) :
             d # c => ByContext(bhr', BHR_BITS)[d] = ByContext(bhr, BHR_BITS)[d]
    BY ONLY <2>1, <2>2, <2>3, <2>4, ContextTrained DEF c
  <2> QED BY <2>2, <2>5 DEF ContextsOf, Memory!Contexts
<1>4. v = Memory!Moved(bhr[k], taken)
  BY <1>1, TrainingMoves DEF IndInv, TypeOK, v
<1>5. branch_history' = ShiftIn(branch_history, BHR_BITS, taken)
  BY DEF RecordBranch, updateBranchHistory
<1>6. AsSequence(branch_history', BHR_BITS)
        = Append(Tail(AsSequence(branch_history, BHR_BITS)), taken)
  BY <1>2, <1>5, CorrelatedAssumption, AsSequenceShifts
<1>7. ByContext(bhr', BHR_BITS)
        = [ByContext(bhr, BHR_BITS) EXCEPT ![c] = Memory!Moved(@, taken)]
  <2> DEFINE before == ByContext(bhr, BHR_BITS)
             after == ByContext(bhr', BHR_BITS)
  <2>1. /\ before = [d \in Memory!Contexts |-> before[d]]
        /\ after = [d \in Memory!Contexts |-> after[d]]
    BY DEF ByContext, Memory!Contexts
  <2> HIDE DEF before, after
  <2>2. after = [before EXCEPT ![c] = v] BY <1>3, <2>1 DEF before, after
  <2> QED BY <1>3, <1>4, <2>2 DEF before, after
<1> QED BY <1>6, <1>7 DEF Memory!Learn, Context, c

\* bhr is a memory that learns every context of outcomes separately: the entry
\* a branch trains is that of the outcomes before it, no two contexts share
\* one, and the training is one level towards the outcome, with no neutral
\* level in between.
THEOREM RefinesMemory == Spec => ImplementsMemory
<1>1. ASSUME IndInv, [Next]_vars PROVE [Memory!Next]_(Memory!vars)
  <2>1. CASE UNCHANGED predictorVars BY <2>1 DEF predictorVars, Memory!vars
  <2>2. CASE \E ins \in Branches, taken \in BOOLEAN : RecordBranch(ins, taken)
    BY <1>1, <2>2, BranchLearns DEF Memory!Next
  <2>3. CASE UNCHANGED vars BY <2>3 DEF vars, predictorVars, Memory!vars
  <2> QED BY <1>1, <2>1, <2>2, <2>3 DEF Next, BranchExecuted
<1> QED BY InitMemory, <1>1, Invariance, PTL DEF Spec, ImplementsMemory, Memory!Spec

-----------------------------------------------------------------------------
(***************************************************************************)
(* The competitive bound, as long as the fixed table is indexed as         *)
(* updateBHRIndex indexes bhr and the totals do not overflow.              *)
(***************************************************************************)

ContextIsIndex == PatternBits = BHR_BITS - 1

NoOverflow == MaxInstr <= INT_MAX

LearningTypeOK ==
  /\ TypeOK
  /\ pattern \in Patterns
  /\ surprises \in 0 .. num_instr

\* The inductive invariant: the bound alone says nothing of how many more
\* mispredictions the counters have in store.
LearningInv == IndInv /\ LearningTypeOK /\ DebtCoversFuture

-----------------------------------------------------------------------------

\* How one branch moves an entry's debt: an outcome as expected pays for its
\* misprediction, an unexpected one costs two at most.
LEMMA TrainDebt ==
  ASSUME NEW max \in Nat \ {0}, NEW c \in -max .. max, c # 0,
         NEW expected \in BOOLEAN, NEW taken \in BOOLEAN
  PROVE  LET miss == IF Predict(c) <=> taken THEN 0 ELSE 1
             before == Debt(c, expected)
             after == Debt(Train(c, taken, max), expected)
         IN  /\ before \in Nat /\ after \in Nat
             /\ (taken <=> expected) => miss + after <= before
             /\ miss + after <= before + 2
<1> USE DEF Train, Clamp, Predict, Debt
<1>1. CASE taken /\ expected BY <1>1
<1>2. CASE taken /\ ~expected BY <1>2
<1>3. CASE ~taken /\ expected BY <1>3
<1>4. CASE ~taken /\ ~expected BY <1>4
<1> QED BY <1>1, <1>2, <1>3, <1>4

LEMMA ContextSize ==
  /\ PatternBits \in Nat
  /\ pow2(PatternBits) \in Nat \ {0}
  /\ pow2(PatternBits) <= BHR_ENTRIES
<1>1. PatternBits \in Nat BY PatternAssumption, CorrelatedAssumption
<1>2. pow2(PatternBits) \in Nat \ {0} BY <1>1, PowerPositive
<1>3. pow2(PatternBits) <= BHR_ENTRIES
  BY <1>2, Sizes, PatternAssumption DEF BHR_ENTRIES
<1> QED BY <1>1, <1>2, <1>3

\* Debts are natural numbers, and so is their sum.
LEMMA TotalDebtNatural ==
  ASSUME pattern \in Patterns, NEW counters, \A i \in DOMAIN pattern : counters[i] \in Int
  PROVE  TotalDebt(counters) \in Nat
<1> DEFINE debts == [i \in DOMAIN pattern |-> Debt(counters[i], pattern[i])]
<1>1. DOMAIN pattern = 0 .. pow2(PatternBits) - 1 BY DEF Patterns
<1>2. ASSUME NEW i \in DOMAIN pattern PROVE debts[i] \in Nat
  BY <1>2 DEF Debt
<1> HIDE DEF debts
<1>3. SumBelow(debts, pow2(PatternBits)) \in Nat
  BY <1>1, <1>2, ContextSize, SumNatural
<1> QED BY <1>3 DEF TotalDebt, debts

\* Retraining one counter moves the sum by what it moves that one debt.
LEMMA TotalDebtChange ==
  ASSUME pattern \in Patterns, NEW counters, NEW k \in DOMAIN pattern, NEW c \in Int,
         k \in DOMAIN counters, \A i \in DOMAIN pattern : counters[i] \in Int
  PROVE  TotalDebt([counters EXCEPT ![k] = c])
           = TotalDebt(counters) + (Debt(c, pattern[k]) - Debt(counters[k], pattern[k]))
<1> DEFINE later == [counters EXCEPT ![k] = c]
           debts == [i \in DOMAIN pattern |-> Debt(counters[i], pattern[i])]
           laterDebts == [i \in DOMAIN pattern |-> Debt(later[i], pattern[i])]
<1>1. DOMAIN pattern = 0 .. pow2(PatternBits) - 1 BY DEF Patterns
<1>2. later[k] = c /\ \A i \in DOMAIN pattern : i # k => later[i] = counters[i]
  OBVIOUS
<1> HIDE DEF later
<1>3. ASSUME NEW i \in DOMAIN pattern
      PROVE  /\ debts[i] \in Int /\ laterDebts[i] \in Int
             /\ i # k => debts[i] = laterDebts[i]
  <2>1. counters[i] \in Int /\ later[i] \in Int BY <1>2
  <2>2. Debt(counters[i], pattern[i]) \in Int /\ Debt(later[i], pattern[i]) \in Int
    BY <2>1 DEF Debt
  <2> QED BY <2>2, <1>2
<1>4. debts[k] = Debt(counters[k], pattern[k]) /\ laterDebts[k] = Debt(c, pattern[k])
  BY <1>2
<1> HIDE DEF debts, laterDebts
<1>5. SumBelow(laterDebts, pow2(PatternBits))
        = SumBelow(debts, pow2(PatternBits)) + (laterDebts[k] - debts[k])
  <2> DEFINE n == pow2(PatternBits)
  <2>1. n \in Nat /\ k \in 0 .. n - 1 BY <1>1, ContextSize
  <2>2. \A i \in 0 .. n - 1 : debts[i] \in Int /\ laterDebts[i] \in Int
    BY <1>1, <1>3
  <2>3. \A i \in 0 .. n - 1 : i # k => debts[i] = laterDebts[i]
    BY <1>1, <1>3
  <2> HIDE DEF n
  <2>4. SumBelow(laterDebts, n) = SumBelow(debts, n) + (laterDebts[k] - debts[k])
    BY <2>1, <2>2, <2>3, SumChange
  <2> QED BY <2>4 DEF n
<1> QED BY <1>4, <1>5 DEF TotalDebt, debts, laterDebts, later

-----------------------------------------------------------------------------

LEMMA InitLearning == LearningInit => LearningInv
<1> SUFFICES ASSUME LearningInit PROVE LearningInv OBVIOUS
<1>1. IndInv BY InitIndInv DEF LearningInit
<1>2. LearningTypeOK
  BY <1>1, PinToolAssumption DEF LearningInit, LearningTypeOK, IndInv, TypeOK, Init, ToolInit
<1>3. DebtCoversFuture
  <2>1. pattern \in Patterns /\ \A i \in DOMAIN pattern : bhr[i] = 1 /\ fresh[i] = 1
    BY ContextSize, Sizes DEF LearningInit, Init, Patterns, fresh
  <2>2. TotalDebt(bhr) = TotalDebt(fresh) BY <2>1 DEF TotalDebt
  <2>3. TotalDebt(fresh) \in Nat BY <2>1, TotalDebtNatural
  <2>4. wrong = 0 /\ surprises = 0 BY DEF LearningInit, Init, ToolInit, wrong
  <2> QED BY <2>2, <2>3, <2>4 DEF DebtCoversFuture
<1> QED BY <1>1, <1>2, <1>3 DEF LearningInv

\* The numbers the invariant is about.
LEMMA LearningTypes ==
  ASSUME LearningInv
  PROVE  /\ pattern \in Patterns
         /\ DOMAIN pattern = 0 .. pow2(PatternBits) - 1
         /\ \A i \in DOMAIN pattern : bhr[i] \in Int
         /\ TotalDebt(bhr) \in Nat /\ TotalDebt(fresh) \in Nat
         /\ num_instr \in Nat /\ num_branches \in Int /\ num_correct \in Int
         /\ surprises \in 0 .. num_instr /\ wrong \in Int
         /\ INT_MAX \in Nat /\ MaxInstr \in Nat /\ num_instr <= MaxInstr
<1>1. pattern \in Patterns /\ DOMAIN pattern = 0 .. pow2(PatternBits) - 1
  BY DEF LearningInv, LearningTypeOK, Patterns
<1>2. \A i \in DOMAIN pattern : bhr[i] \in Int /\ fresh[i] \in Int
  BY <1>1, ContextSize, Sizes DEF LearningInv, IndInv, TypeOK, fresh
<1>3. TotalDebt(bhr) \in Nat /\ TotalDebt(fresh) \in Nat
  BY <1>1, <1>2, TotalDebtNatural
<1>4. /\ num_instr \in Nat /\ num_branches \in Int /\ num_correct \in Int
      /\ surprises \in 0 .. num_instr
      /\ INT_MAX \in Nat /\ MaxInstr \in Nat /\ num_instr <= MaxInstr
  BY PinToolAssumption DEF LearningInv, LearningTypeOK, IndInv, TypeOK, ToolTypeOK, CInt
<1> QED BY <1>1, <1>2, <1>3, <1>4 DEF wrong

\* A branch, whether or not it goes as pattern expects.
LEMMA BranchLearning ==
  ASSUME ContextIsIndex, NoOverflow, LearningInv,
         NEW ins \in Branches, NEW taken \in BOOLEAN, RecordBranch(ins, taken),
         UNCHANGED pattern,
         \/ (taken <=> Expected) /\ surprises' = surprises
         \/ surprises' = surprises + 1
  PROVE  LearningInv'
<1> DEFINE k == bhr_current_index'
           c == Train(bhr[k], taken, SATURATING_NUM)
           miss == IF Predict(bhr[k]) <=> taken THEN 0 ELSE 1
<1>1. IndInv' BY BranchIndInv DEF LearningInv
<1>2. /\ k = PackBits(branch_history, PatternBits)
      /\ k \in DOMAIN pattern /\ k \in DOMAIN bhr
      /\ prediction' = Predict(bhr[k])
      /\ bhr' = [bhr EXCEPT ![k] = c]
  BY BranchTrains, LearningTypes DEF LearningInv, ContextIsIndex, IndexOf
<1>3. /\ num_instr' = num_instr + 1 /\ num_instr < MaxInstr
      /\ num_branches' = Increment(num_branches)
      /\ num_correct' = IF prediction' <=> taken THEN Increment(num_correct) ELSE num_correct
  <2>1. (prediction' = taken) <=> (prediction' <=> taken)
    BY <1>1 DEF IndInv, TypeOK
  <2> QED BY <2>1 DEF RecordBranch, ExecuteBranch, docount, Score
<1>4. LearningTypeOK'
  <2>1. surprises' \in 0 .. num_instr' BY <1>3, LearningTypes
  <2> QED BY <1>1, <2>1, LearningTypes DEF LearningTypeOK, IndInv, Patterns
<1> HIDE DEF k
<1>5. wrong' = wrong + miss
  <2>1. num_branches < INT_MAX /\ num_correct < INT_MAX
    BY <1>3, LearningTypes DEF LearningInv, IndInv, TotalsMakeSense, NoOverflow
  <2>2. /\ num_branches' = num_branches + 1
        /\ num_correct' = IF Predict(bhr[k]) <=> taken THEN num_correct + 1 ELSE num_correct
    BY <2>1, <1>2, <1>3, LearningTypes DEF Increment
  <2> QED BY <2>2, LearningTypes DEF wrong
<1>6. bhr[k] \in -SATURATING_NUM .. SATURATING_NUM /\ bhr[k] # 0
  BY <1>2 DEF LearningInv, IndInv, TypeOK, NoNeutralCounter
<1>7. c \in Int
  <2>1. c \in -SATURATING_NUM .. SATURATING_NUM BY <1>6, Sizes, TrainCounter
  <2> QED BY <2>1, Sizes
<1>8. pattern[k] \in BOOLEAN BY <1>2, LearningTypes DEF Patterns
<1> DEFINE before == Debt(bhr[k], pattern[k])
           after == Debt(c, pattern[k])
<1>9. /\ before \in Nat /\ after \in Nat
      /\ (taken <=> pattern[k]) => miss + after <= before
      /\ miss + after <= before + 2
  BY <1>6, <1>8, Sizes, TrainDebt
<1>10. TotalDebt(bhr') = TotalDebt(bhr) + (after - before)
  <2> HIDE DEF c
  <2> QED BY <1>2, <1>7, LearningTypes, TotalDebtChange DEF c
<1>11. TotalDebt(bhr)' = TotalDebt(bhr') /\ TotalDebt(fresh)' = TotalDebt(fresh)
  BY DEF TotalDebt, fresh
<1>12. DebtCoversFuture'
  <2>1. surprises' = surprises + 1 \/ ((taken <=> pattern[k]) /\ surprises' = surprises)
    BY <1>2 DEF Expected
  <2>2. miss = 0 \/ miss = 1 OBVIOUS
  <2>3. wrong + TotalDebt(bhr) <= TotalDebt(fresh) + 2 * surprises
    BY DEF LearningInv, DebtCoversFuture
  <2> HIDE DEF miss, before, after
  <2>4. wrong' + TotalDebt(bhr') <= TotalDebt(fresh) + 2 * surprises'
    <3>1. /\ wrong \in Int /\ TotalDebt(bhr) \in Int /\ TotalDebt(fresh) \in Int
          /\ surprises \in Int
      BY LearningTypes
    <3>2. /\ before \in Int /\ after \in Int
          /\ (taken <=> pattern[k]) => miss + after <= before
          /\ miss + after <= before + 2
      BY <1>9
    <3>3. CASE surprises' = surprises + 1
      BY <1>5, <1>10, <2>2, <2>3, <3>1, <3>2, <3>3
    <3>4. CASE (taken <=> pattern[k]) /\ surprises' = surprises
      <4>1. miss + after <= before BY <3>2, <3>4
      <4> QED BY <1>5, <1>10, <2>2, <2>3, <3>1, <3>2, <3>4, <4>1
    <3> QED BY <2>1, <3>3, <3>4
  <2> QED BY <1>11, <2>4 DEF DebtCoversFuture
<1> QED BY <1>1, <1>4, <1>12 DEF LearningInv

\* A step of the host part leaves the counters alone; it may forget the score.
LEMMA HostLearning ==
  ASSUME NoOverflow, LearningInv, HostStep,
         UNCHANGED <<predictorVars, pattern, surprises>>
  PROVE  LearningInv'
<1>1. IndInv' BY NextIndInv DEF LearningInv, Next
<1>2. UNCHANGED bhr BY DEF predictorVars
<1>3. num_instr' \in Nat /\ num_instr <= num_instr' /\ (wrong' = wrong \/ wrong' = 0)
  <2>1. CASE \E ins \in Instructions : Instruction(ins)
    BY <2>1, LearningTypes DEF Instruction, score, wrong
  <2>2. CASE \E ins \in Instructions : ExecuteOther(ins)
    BY <2>2, LearningTypes DEF ExecuteOther, docount, wrong
  <2>3. CASE Fini BY <2>3, LearningTypes DEF Fini, wrong
  <2> QED BY <2>1, <2>2, <2>3 DEF HostStep
<1>4. LearningTypeOK' BY <1>1, <1>3, LearningTypes DEF LearningTypeOK, IndInv, Patterns
<1>5. wrong >= 0
  BY LearningTypes DEF LearningInv, IndInv, TotalsMakeSense, NoOverflow, wrong
<1>6. TotalDebt(bhr)' = TotalDebt(bhr) /\ TotalDebt(fresh)' = TotalDebt(fresh)
  BY <1>2 DEF TotalDebt, fresh
<1>7. DebtCoversFuture' BY <1>3, <1>5, <1>6, LearningTypes DEF LearningInv, DebtCoversFuture
<1> QED BY <1>1, <1>4, <1>7 DEF LearningInv

LEMMA NextLearning ==
  ASSUME ContextIsIndex, NoOverflow, LearningInv, [LearningNext]_learningVars
  PROVE  LearningInv'
<1>1. CASE HostStep /\ UNCHANGED <<predictorVars, pattern, surprises>>
  BY <1>1, HostLearning
<1>2. ASSUME NEW ins \in Branches, Follow(ins) PROVE LearningInv'
  <2>1. Expected \in BOOLEAN
    BY ContextSize, PackBitsRange, LearningTypes DEF Expected, Patterns
  <2> QED BY <1>2, <2>1, BranchLearning DEF Follow
<1>3. ASSUME NEW ins \in Branches, Contradict(ins) PROVE LearningInv'
  <2>1. (~Expected) \in BOOLEAN OBVIOUS
  <2> QED BY <1>3, <2>1, BranchLearning DEF Contradict
<1>4. CASE UNCHANGED learningVars
  BY <1>4 DEF learningVars, vars, predictorVars, toolVars, LearningInv, LearningTypeOK,
              DebtCoversFuture, TotalDebt, fresh, wrong, IndInv, TypeOK, ToolTypeOK,
              NoNeutralCounter, UpperHalfUntouched, TotalsMakeSense, Patterns
<1> QED BY <1>1, <1>2, <1>3, <1>4 DEF LearningNext

-----------------------------------------------------------------------------

\* Whatever the application does, pinatrace.cpp's predictor is wrong at most
\* once per entry to be turned, plus twice per outcome that the best fixed
\* table with the same index would have got wrong.
THEOREM Competitive ==
  ContextIsIndex /\ NoOverflow => (LearningSpec => []CompetitiveWithEveryTable)
<1> SUFFICES ASSUME ContextIsIndex, NoOverflow
             PROVE  LearningSpec => []CompetitiveWithEveryTable
  OBVIOUS
<1>1. LearningInv /\ [LearningNext]_learningVars => LearningInv' BY NextLearning
<1>2. LearningInv => CompetitiveWithEveryTable
  BY LearningTypes DEF LearningInv, DebtCoversFuture, CompetitiveWithEveryTable
<1> QED BY InitLearning, <1>1, <1>2, PTL DEF LearningSpec

\* The bound is always already paid for: mispredictions made, and those the
\* counters still have in store, never exceed the allowance.
THEOREM DebtIsCovered ==
  ContextIsIndex /\ NoOverflow => (LearningSpec => []DebtCoversFuture)
<1> SUFFICES ASSUME ContextIsIndex, NoOverflow
             PROVE  LearningSpec => []DebtCoversFuture
  OBVIOUS
<1>1. LearningInv /\ [LearningNext]_learningVars => LearningInv' BY NextLearning
<1>2. LearningInv => DebtCoversFuture BY DEF LearningInv
<1> QED BY InitLearning, <1>1, <1>2, PTL DEF LearningSpec

=============================================================================

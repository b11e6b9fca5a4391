----------------------- MODULE DataCorrelated_proofs -----------------------
(***************************************************************************)
(* What holds of staticcount.cpp for every size of its tables, every width *)
(* of an int and every value a register may hold: what a negative index    *)
(* cannot break, and what the tool promises until it meets one.            *)
(***************************************************************************)
EXTENDS DataCorrelated, PredictorLemmas

-----------------------------------------------------------------------------
(***************************************************************************)
(* Sizes and ranges.                                                       *)
(***************************************************************************)

LEMMA Sizes ==
  /\ SATURATING_NUM \in Nat \ {0} /\ SATURATING_NUM <= INT_MAX /\ INT_MAX \in Nat
  /\ REG_TABLE_SIZE \in Nat \ {0} /\ REG_TABLE_SIZE - 1 \in Nat \ {0}
  /\ pow2(BHR_BITS - 1) \in Nat \ {0} /\ pow2(BHR_BITS) = 2 * pow2(BHR_BITS - 1)
<1>1. SATURATING_NUM \in Nat \ {0} /\ SATURATING_NUM <= INT_MAX /\ INT_MAX \in Nat
  BY PinToolAssumption, DataAssumption, SaturatingNumPositive DEF SATURATING_NUM
<1>2. pow2(BHR_BITS - 1) \in Nat \ {0} /\ pow2(BHR_BITS) = 2 * pow2(BHR_BITS - 1)
  BY DataAssumption, PowerHalf
<1>3. /\ pow2(REG_ENTRIES - 1) \in Nat \ {0}
      /\ REG_TABLE_SIZE = 2 * pow2(REG_ENTRIES - 1)
  BY DataAssumption, PowerHalf DEF REG_TABLE_SIZE
<1> QED BY <1>1, <1>2, <1>3

LEMMA IncrementRange ==
  ASSUME NEW n \in CInt
  PROVE  /\ Increment(n) \in CInt /\ Increment(n) <= n + 1
         /\ n < INT_MAX => Increment(n) = n + 1
BY PinToolAssumption DEF Increment, CInt

\* Whatever int is trained as a counter ends up in the range of one.
LEMMA TrainAny ==
  ASSUME NEW n \in Int, NEW taken \in BOOLEAN
  PROVE  Train(n, taken, SATURATING_NUM) \in -SATURATING_NUM .. SATURATING_NUM
<1>1. CASE taken BY <1>1, Sizes DEF Train, Clamp
<1>2. CASE ~taken BY <1>2, Sizes DEF Train, Clamp
<1> QED BY <1>1, <1>2

LEMMA AfterRange ==
  ASSUME NEW place, NEW n \in CInt, NEW struck, NEW taken \in BOOLEAN
  PROVE  /\ After(place, n, struck, taken) \in CInt
         /\ After(place, n, struck, taken) <= n
              \/ After(place, n, struck, taken) <= SATURATING_NUM
         /\ struck # place => After(place, n, struck, taken) = n
<1>1. n \in Int /\ -SATURATING_NUM .. SATURATING_NUM \subseteq CInt BY Sizes DEF CInt
<1>2. CASE struck = place
  BY <1>1, <1>2, Sizes, TrainAny DEF After
<1>3. CASE struck # place
  BY <1>1, <1>3, Sizes DEF After
<1> QED BY <1>2, <1>3

\* ToInt is an int, and an int is not changed by it.
LEMMA ToIntRange ==
  ASSUME NEW n \in Int
  PROVE  ToInt(n) \in CInt /\ (n \in CInt => ToInt(n) = n)
<1> DEFINE w == 2 * INT_MAX + 2
           m == n + INT_MAX + 1
<1>1. w \in Nat \ {0} /\ m \in Int /\ INT_MAX \in Nat BY PinToolAssumption
<1>2. m % w \in 0 .. w - 1 /\ (m \in 0 .. w - 1 => m % w = m)
  <2> HIDE DEF w, m
  <2> QED BY <1>1
<1>3. ToInt(n) = (m % w) - INT_MAX - 1 BY DEF ToInt
<1>4. n \in CInt <=> m \in 0 .. w - 1 BY <1>1 DEF CInt
<1>5. m % w \in 0 .. w - 1 => (m % w) - INT_MAX - 1 \in CInt
  <2> DEFINE r == m % w
  <2> HIDE DEF r, m
  <2> QED BY <1>1 DEF CInt
<1>6. n = m - INT_MAX - 1 BY <1>1
<1> HIDE DEF m, w
<1> QED BY <1>2, <1>3, <1>4, <1>5, <1>6

LEMMA RemainderRange ==
  ASSUME NEW n \in Int, NEW m \in Nat \ {0}
  PROVE  Remainder(n, m) \in 1 - m .. m - 1 /\ (n >= 0 => Remainder(n, m) >= 0)
<1>1. CASE n < 0
  <2> DEFINE r == (-n) % m
  <2>1. r \in 0 .. m - 1 BY <1>1
  <2>2. Remainder(n, m) = -r BY <1>1 DEF Remainder
  <2> HIDE DEF r
  <2> QED BY <1>1, <2>1, <2>2
<1>2. CASE ~(n < 0)
  <2> DEFINE r == n % m
  <2>1. r \in 0 .. m - 1 OBVIOUS
  <2>2. Remainder(n, m) = r BY <1>2 DEF Remainder
  <2> HIDE DEF r
  <2> QED BY <2>1, <2>2
<1> QED BY <1>1, <1>2

\* The weighted sum that reghash cuts to an int.
Weighted(h) == [i \in Cells |-> h[i] * pow2(i)]

LEMMA WeightedSum ==
  ASSUME NEW h, \A i \in Cells : h[i] \in Int
  PROVE  /\ SumBelow(Weighted(h), REG_ENTRIES) \in Int
         /\ \A i \in 0 .. REG_ENTRIES - 1 : Weighted(h)[i] \in Int
<1>1. \A i \in 0 .. REG_ENTRIES - 1 : Weighted(h)[i] \in Int
  <2> SUFFICES ASSUME NEW i \in 0 .. REG_ENTRIES - 1 PROVE Weighted(h)[i] \in Int OBVIOUS
  <2>1. i \in Cells /\ i \in Nat BY DataAssumption DEF Cells
  <2>2. pow2(i) \in Nat BY <2>1, PowerPositive
  <2>3. h[i] \in Int BY <2>1
  <2>4. Weighted(h)[i] = h[i] * pow2(i) BY <2>1 DEF Weighted
  <2> QED BY <2>2, <2>3, <2>4
<1> QED BY <1>1, SumType, DataAssumption

LEMMA RegHashRange ==
  ASSUME NEW h, \A i \in Cells : h[i] \in Int
  PROVE  reghash(h) \in 1 - REG_TABLE_SIZE .. REG_TABLE_SIZE - 1
<1> DEFINE s == SumBelow(Weighted(h), REG_ENTRIES)
<1>1. s \in Int BY WeightedSum
<1>2. reghash(h) = Remainder(ToInt(s), REG_TABLE_SIZE) BY DEF reghash, Weighted
<1> HIDE DEF s
<1>3. ToInt(s) \in Int BY <1>1, ToIntRange, PinToolAssumption DEF CInt
<1> QED BY <1>2, <1>3, Sizes, RemainderRange

-----------------------------------------------------------------------------
(***************************************************************************)
(* Types.                                                                  *)
(***************************************************************************)

LEMMA InitTypes == Init => TypeOK
<1> SUFFICES ASSUME Init PROVE TypeOK OBVIOUS
<1>1. ToolTypeOK BY ToolInitScores DEF Init
<1>2. 1 \in Learned /\ 0 \in CInt BY Sizes DEF Learned, CInt
<1>3. /\ 0 \in 0 .. pow2(BHR_BITS) - 1 /\ 0 \in 1 - REG_TABLE_SIZE .. REG_TABLE_SIZE - 1
  BY Sizes
<1> QED BY <1>1, <1>2, <1>3 DEF Init, TypeOK

\* What training does to one counter of a table.
LEMMA CounterTrained ==
  ASSUME NEW D, NEW table \in [D -> Learned], NEW k, NEW taken \in BOOLEAN
  PROVE  [table EXCEPT ![k] = Train(@, taken, SATURATING_NUM)] \in [D -> Learned]
<1> DEFINE c == Train(table[k], taken, SATURATING_NUM)
<1>1. k \in D => c \in Learned
  <2>1. SUFFICES ASSUME k \in D PROVE c \in Learned OBVIOUS
  <2>2. table[k] \in -SATURATING_NUM .. SATURATING_NUM /\ table[k] # 0 BY <2>1 DEF Learned
  <2> QED BY <2>2, Sizes, TrainCounter DEF Learned
<1> HIDE DEF c
<1>2. [table EXCEPT ![k] = c] \in [D -> Learned] BY <1>1
<1> QED BY <1>2 DEF c

LEMMA BranchTypes ==
  ASSUME TypeOK, NEW ins \in Branches, NEW taken \in BOOLEAN, NEW reg \in RegValues,
         RecordBranch(ins, taken, reg)
  PROVE  TypeOK'
<1>1. PICK struck \in Struck :
        /\ Count(ins, prediction' = taken, struck, taken)
        /\ updateRegisterHistory(ins, reg, struck, taken)
        /\ updateBranchHistory(struck, taken)
  BY DEF RecordBranch
<1>2. ToolTypeOK'
  <2>1. /\ num_instr' = num_instr + 1 /\ num_instr < MaxInstr
        /\ UNCHANGED <<instrumented, running>>
    BY DEF RecordBranch, docount
  <2>2. num_branches \in CInt /\ num_correct \in CInt /\ num_instr \in 0 .. MaxInstr
    BY DEF TypeOK, ToolTypeOK
  <2>3. num_branches' \in CInt BY <1>1, <2>2, IncrementRange, AfterRange DEF Count
  <2>4. num_correct' \in CInt BY <1>1, <2>2, IncrementRange, AfterRange DEF Count
  <2>5. num_instr' \in 0 .. MaxInstr BY <2>1, <2>2, PinToolAssumption
  <2> QED BY <2>1, <2>3, <2>4, <2>5 DEF TypeOK, ToolTypeOK
<1>3. reg_predictions' \in CInt
  BY <1>1, IncrementRange, AfterRange DEF Count, TypeOK
<1>4. bhr_current_index' \in 0 .. pow2(BHR_BITS) - 1
  <2>1. PackBits(branch_history, BHR_BITS - 1) \in 0 .. pow2(BHR_BITS - 1) - 1
    BY DataAssumption, PackBitsRange
  <2> QED BY <2>1, Sizes DEF RecordBranch, updateIndices
<1>5. bhr' \in [0 .. pow2(BHR_BITS) - 1 -> Learned]
  BY CounterTrained DEF RecordBranch, updateBHT, TypeOK
<1>6. branch_history' \in [0 .. BHR_BITS - 1 -> BOOLEAN]
  <2>1. PICK h \in [0 .. BHR_BITS - 1 -> BOOLEAN] :
          branch_history' = ShiftIn(h, BHR_BITS, taken)
    BY <1>1 DEF updateBranchHistory, TypeOK
  <2>2. \A i \in 0 .. BHR_BITS - 1 : i < BHR_BITS - 1 => h[i + 1] \in BOOLEAN
    BY DataAssumption
  <2> QED BY <2>1, <2>2 DEF ShiftIn
<1>7. prediction' \in BOOLEAN
  <2> DEFINE byTable == Predict(bhr[bhr_current_index'])
             byRegister == reg_history[reg_current_index'] > 0
  <2>1. byTable \in BOOLEAN /\ byRegister \in BOOLEAN BY DEF Predict
  <2>2. prediction' \in IF ~ByRegister(ins) THEN {byTable}
                        ELSE IF reg_current_index' \in Cells THEN {byRegister}
                        ELSE BOOLEAN
    BY DEF RecordBranch, setPrediction
  <2> HIDE DEF byTable, byRegister
  <2>3. prediction' \in {byTable, byRegister} \cup BOOLEAN BY <2>2, Zenon
  <2> QED BY <2>1, <2>3
<1>8. reg_history' \in [Cells -> CInt]
  <2> DEFINE shifted == IF ins \in RegBranches THEN ShiftIn(reg_history, REG_ENTRIES, reg)
                        ELSE reg_history
  <2>1. reg_history' = [i \in Cells |-> After(<<"reg_history", i>>, shifted[i], struck, taken)]
    BY <1>1 DEF updateRegisterHistory
  <2>2. ASSUME NEW i \in Cells PROVE shifted[i] \in CInt
    <3>1. reg_history \in [Cells -> CInt] /\ reg \in CInt BY DataAssumption DEF TypeOK
    <3>2. i < REG_ENTRIES - 1 => i + 1 \in Cells BY DataAssumption DEF Cells
    <3> QED BY <3>1, <3>2 DEF ShiftIn, Cells
  <2> HIDE DEF shifted
  <2> QED BY <2>1, <2>2, AfterRange
<1>9. reg_current_index' \in 1 - REG_TABLE_SIZE .. REG_TABLE_SIZE - 1
  <2>1. \A i \in Cells : reg_history[i] \in Int BY PinToolAssumption DEF TypeOK, CInt
  <2> QED BY <2>1, RegHashRange DEF RecordBranch, updateIndices
<1>10. reg_table' \in [0 .. REG_TABLE_SIZE - 1 -> Learned]
  BY CounterTrained DEF RecordBranch, updateRegTable, TypeOK
<1>11. strayed' \in BOOLEAN
  BY DEF RecordBranch, TypeOK, Strays
<1> QED BY <1>2, <1>3, <1>4, <1>5, <1>6, <1>7, <1>8, <1>9, <1>10, <1>11 DEF TypeOK

LEMMA NextTypes == TypeOK /\ [Next]_vars => TypeOK'
<1> SUFFICES ASSUME TypeOK, [Next]_vars PROVE TypeOK' OBVIOUS
<1>1. CASE HostStep /\ UNCHANGED predictorVars
  <2>1. ToolTypeOK' BY <1>1, HostScores DEF TypeOK
  <2> QED BY <1>1, <2>1 DEF TypeOK, predictorVars
<1>2. CASE \E ins \in Branches, taken \in BOOLEAN, reg \in RegValues :
             RecordBranch(ins, taken, reg)
  BY <1>2, BranchTypes
<1>3. CASE UNCHANGED vars
  BY <1>3 DEF vars, toolVars, predictorVars, TypeOK, ToolTypeOK
<1> QED BY <1>1, <1>2, <1>3 DEF Next, BranchExecuted

\* Whatever registers hold, and whatever a negative index trains, no counter
\* leaves its range or rests at 0, and the index for reg_table stays within
\* its size on either side of 0.
THEOREM DataTypeCorrect == Spec => []TypeOK
BY InitTypes, NextTypes, PTL DEF Spec

-----------------------------------------------------------------------------
(***************************************************************************)
(* The totals until an index strays: reg_predictions is ahead of           *)
(* num_branches by no more than start-up has made the latter forget, and   *)
(* that is at most as many as there were instructions.                     *)
(***************************************************************************)

Excess ==
  ~strayed /\ num_instr <= INT_MAX =>
    /\ 0 <= num_branches /\ num_branches <= num_instr
    /\ 0 <= reg_predictions /\ reg_predictions <= num_instr
    /\ reg_predictions <= num_branches + NUM_INSTR_SKIPPED

\* A stray write leaves a total at no more than a counter may hold.
Room ==
  /\ num_branches <= num_instr + SATURATING_NUM
  /\ num_correct <= num_instr + SATURATING_NUM

\* The inductive invariant.
DataInv == TypeOK /\ Excess /\ Room

LEMMA DataNumbers ==
  ASSUME TypeOK
  PROVE  /\ num_instr \in Nat /\ num_branches \in Int /\ num_correct \in Int
         /\ reg_predictions \in Int /\ INT_MAX \in Nat /\ NUM_INSTR_SKIPPED \in Nat
         /\ SATURATING_NUM \in Nat
BY PinToolAssumption, Sizes DEF TypeOK, ToolTypeOK, CInt

\* What a branch adds to the totals.
LEMMA BranchCounts ==
  ASSUME TypeOK, NEW ins \in Branches, NEW taken \in BOOLEAN, NEW reg \in RegValues,
         RecordBranch(ins, taken, reg)
  PROVE  \E b \in {Increment(num_branches)},
            c \in {num_correct, Increment(num_correct)},
            r \in {reg_predictions, Increment(reg_predictions)} :
           /\ b \in CInt /\ c \in CInt /\ r \in CInt
           /\ num_branches' <= b \/ num_branches' <= SATURATING_NUM
           /\ num_correct' <= c \/ num_correct' <= SATURATING_NUM
           /\ ~Strays => /\ num_branches' = b /\ num_correct' = c
                         /\ reg_predictions' = r
                         /\ branch_history' = ShiftIn(branch_history, BHR_BITS, taken)
<1>1. PICK struck \in Struck :
        /\ Count(ins, prediction' = taken, struck, taken)
        /\ updateBranchHistory(struck, taken)
  BY DEF RecordBranch
<1> DEFINE b == Increment(num_branches)
           c == IF prediction' = taken THEN Increment(num_correct) ELSE num_correct
           r == IF ByRegister(ins) THEN Increment(reg_predictions) ELSE reg_predictions
<1>2. b \in CInt /\ c \in CInt /\ r \in CInt
  BY IncrementRange DEF TypeOK, ToolTypeOK
<1>3. /\ num_branches' = After(<<"num_branches", 0>>, b, struck, taken)
      /\ num_correct' = After(<<"num_correct", 0>>, c, struck, taken)
      /\ reg_predictions' = After(<<"reg_predictions", 0>>, r, struck, taken)
  BY <1>1 DEF Count
<1>4. c \in {num_correct, Increment(num_correct)}
      /\ r \in {reg_predictions, Increment(reg_predictions)}
  OBVIOUS
<1> HIDE DEF b, c, r
<1>5. /\ num_branches' <= b \/ num_branches' <= SATURATING_NUM
      /\ num_correct' <= c \/ num_correct' <= SATURATING_NUM
  BY <1>2, <1>3, AfterRange
<1>6. ASSUME ~Strays
      PROVE  /\ num_branches' = b /\ num_correct' = c /\ reg_predictions' = r
             /\ branch_history' = ShiftIn(branch_history, BHR_BITS, taken)
  <2>1. struck = Nothing BY <1>6 DEF Struck
  <2>2. /\ struck # <<"num_branches", 0>> /\ struck # <<"num_correct", 0>>
        /\ struck # <<"reg_predictions", 0>> /\ struck # <<"branch_history", 0>>
    BY <2>1 DEF Nothing
  <2>3. branch_history' = ShiftIn(branch_history, BHR_BITS, taken)
    BY <1>1, <2>2 DEF updateBranchHistory
  <2> QED BY <1>2, <1>3, <2>2, <2>3, AfterRange
<1> QED BY <1>2, <1>4, <1>5, <1>6 DEF b

LEMMA BranchInv ==
  ASSUME DataInv, NEW ins \in Branches, NEW taken \in BOOLEAN, NEW reg \in RegValues,
         RecordBranch(ins, taken, reg)
  PROVE  Excess' /\ Room'
<1>1. TypeOK /\ Excess /\ Room /\ TypeOK' BY BranchTypes DEF DataInv
<1>2. PICK b \in {Increment(num_branches)},
           c \in {num_correct, Increment(num_correct)},
           r \in {reg_predictions, Increment(reg_predictions)} :
        /\ b \in CInt /\ c \in CInt /\ r \in CInt
        /\ num_branches' <= b \/ num_branches' <= SATURATING_NUM
        /\ num_correct' <= c \/ num_correct' <= SATURATING_NUM
        /\ ~Strays => num_branches' = b /\ num_correct' = c /\ reg_predictions' = r
  BY <1>1, BranchCounts
<1>3. /\ num_instr \in Nat /\ num_branches \in Int /\ num_correct \in Int
      /\ reg_predictions \in Int /\ INT_MAX \in Nat /\ NUM_INSTR_SKIPPED \in Nat
      /\ SATURATING_NUM \in Nat
  BY <1>1, DataNumbers
<1>4. /\ num_branches' \in Int /\ num_correct' \in Int
  BY <1>1, PinToolAssumption DEF TypeOK, ToolTypeOK, CInt
<1>5. num_instr' = num_instr + 1 /\ (~strayed' => ~strayed /\ ~Strays)
  BY DEF RecordBranch, docount
<1>6. /\ num_branches \in CInt /\ num_correct \in CInt /\ reg_predictions \in CInt
  BY <1>1 DEF TypeOK, ToolTypeOK
<1>7. /\ b \in Int /\ b <= num_branches + 1 /\ (num_branches < INT_MAX => b = num_branches + 1)
      /\ c \in Int /\ c <= num_correct + 1
      /\ r \in Int
      /\ reg_predictions < INT_MAX => r \in {reg_predictions, reg_predictions + 1}
  <2>1. CInt \subseteq Int BY PinToolAssumption DEF CInt
  <2> QED BY <1>2, <1>3, <1>6, <2>1, IncrementRange
<1>8. Room' BY <1>1, <1>2, <1>3, <1>4, <1>5, <1>7 DEF Room
<1>9. Excess'
  <2> SUFFICES ASSUME ~strayed', num_instr' <= INT_MAX
               PROVE  /\ 0 <= num_branches' /\ num_branches' <= num_instr'
                      /\ 0 <= reg_predictions' /\ reg_predictions' <= num_instr'
                      /\ reg_predictions' <= num_branches' + NUM_INSTR_SKIPPED
    BY DEF Excess
  <2>1. /\ 0 <= num_branches /\ num_branches <= num_instr
        /\ 0 <= reg_predictions /\ reg_predictions <= num_instr
        /\ reg_predictions <= num_branches + NUM_INSTR_SKIPPED
    BY <1>1, <1>3, <1>5 DEF Excess
  <2>2. num_branches' = b /\ reg_predictions' = r BY <1>2, <1>5
  <2> QED BY <1>3, <1>5, <1>7, <2>1, <2>2
<1> QED BY <1>8, <1>9

LEMMA HostInv ==
  ASSUME DataInv, HostStep, UNCHANGED predictorVars
  PROVE  Excess' /\ Room'
<1>1. /\ num_instr \in Nat /\ num_branches \in Int /\ num_correct \in Int
      /\ reg_predictions \in Int /\ INT_MAX \in Nat /\ NUM_INSTR_SKIPPED \in Nat
      /\ SATURATING_NUM \in Nat
  BY DataNumbers DEF DataInv
<1>2. Excess /\ Room /\ UNCHANGED <<reg_predictions, strayed>>
  BY DEF DataInv, predictorVars
<1>3. CASE \E ins \in Instructions : Instruction(ins)
  BY <1>1, <1>2, <1>3 DEF Instruction, score, Excess, Room
<1>4. CASE \E ins \in Instructions : ExecuteOther(ins)
  BY <1>1, <1>2, <1>4 DEF ExecuteOther, docount, Excess, Room
<1>5. CASE Fini BY <1>1, <1>2, <1>5 DEF Fini, Excess, Room
<1> QED BY <1>3, <1>4, <1>5 DEF HostStep

LEMMA NextInv == DataInv /\ [Next]_vars => DataInv'
<1> SUFFICES ASSUME DataInv, [Next]_vars PROVE DataInv' OBVIOUS
<1>1. TypeOK' BY NextTypes DEF DataInv
<1>2. CASE HostStep /\ UNCHANGED predictorVars BY <1>1, <1>2, HostInv DEF DataInv
<1>3. CASE \E ins \in Branches, taken \in BOOLEAN, reg \in RegValues :
             RecordBranch(ins, taken, reg)
  BY <1>1, <1>3, BranchInv DEF DataInv
<1>4. CASE UNCHANGED vars
  BY <1>1, <1>4 DEF vars, toolVars, predictorVars, DataInv, Excess, Room
<1> QED BY <1>2, <1>3, <1>4 DEF Next, BranchExecuted

LEMMA InitInv == Init => DataInv
<1> SUFFICES ASSUME Init PROVE DataInv OBVIOUS
<1>1. TypeOK BY InitTypes
<1>2. Excess /\ Room
  BY Sizes, PinToolAssumption DEF Init, ToolInit, Excess, Room
<1> QED BY <1>1, <1>2 DEF DataInv

\* The inductive invariant: the types, how far reg_predictions is ahead, and
\* how large a total can be after a stray write.
THEOREM DataInvariance == Spec => []DataInv
BY InitInv, NextInv, PTL DEF Spec

\* Until an index strays or an int cannot count the instructions, start-up is
\* all that the number of register predictions exceeds that of branches by.
THEOREM ExcessIsStartUp == Spec => []ExcessBounded
<1>1. DataInv => ExcessBounded BY DEF DataInv, Excess, ExcessBounded
<1> QED BY <1>1, DataInvariance, PTL

-----------------------------------------------------------------------------
(***************************************************************************)
(* Steps in which no index strays: the table learns each context by        *)
(* itself, and the totals are those of the abstract scoreboard.            *)
(***************************************************************************)

\* updateBHT moves a counter as the memory moves a level.
LEMMA TrainingMoves ==
  ASSUME NEW c \in -SATURATING_NUM .. SATURATING_NUM, NEW taken \in BOOLEAN
  PROVE  Memory!Moved(c, taken) = Train(c, taken, SATURATING_NUM)
<1> DEFINE beyond == {l \in Memory!Levels : IF taken THEN l > c ELSE l < c}
<1>1. beyond = Beyond(c, taken, SATURATING_NUM) BY DEF Memory!Levels, Beyond
<1>2. Memory!Moved(c, taken) = IF beyond = {} THEN c ELSE Memory!Nearest(c, beyond)
  BY DEF Memory!Moved
<1>3. Memory!Nearest(c, beyond) = Closest(c, beyond) BY DEF Memory!Nearest, Closest
<1> HIDE DEF beyond
<1>4. SATURATING_NUM \in Nat \ {0} BY Sizes
<1>5. Train(c, taken, SATURATING_NUM) = IF beyond = {} THEN c ELSE Closest(c, beyond)
  BY <1>1, <1>4, TrainedIsNearest
<1> QED BY <1>2, <1>3, <1>5

LEMMA InitMemory == Init => Memory!Init
<1> SUFFICES ASSUME Init PROVE Memory!Init OBVIOUS
<1> DEFINE index(c) == PackBits([i \in 0 .. BHR_BITS - 2 |-> c[i + 1]], BHR_BITS - 1)
<1>1. ASSUME NEW c PROVE bhr[index(c)] = 1
  <2>1. index(c) \in 0 .. pow2(BHR_BITS - 1) - 1
    BY DataAssumption, PackBitsRange
  <2>2. index(c) \in 0 .. pow2(BHR_BITS) - 1 BY <2>1, Sizes
  <2> HIDE DEF index
  <2> QED BY <2>2 DEF Init
<1>2. ByContext(bhr, BHR_BITS) = [c \in Memory!Contexts |-> 1]
  BY <1>1 DEF ByContext, Memory!Contexts
<1>3. AsSequence(branch_history, BHR_BITS) = [i \in 1 .. BHR_BITS |-> FALSE]
  BY DataAssumption DEF Init, AsSequence
<1> QED BY <1>2, <1>3 DEF Memory!Init

LEMMA BranchLearns ==
  ASSUME TypeOK, NEW ins \in Branches, NEW taken \in BOOLEAN, NEW reg \in RegValues,
         RecordBranch(ins, taken, reg), ~Strays
  PROVE  Memory!Learn(taken)
<1> DEFINE k == PackBits(branch_history, BHR_BITS - 1)
           c == Context(branch_history, BHR_BITS)
           v == Train(bhr[k], taken, SATURATING_NUM)
<1>1. k \in DOMAIN bhr /\ bhr' = [bhr EXCEPT ![k] = v]
  <2>1. bhr_current_index' = k /\ k \in 0 .. pow2(BHR_BITS - 1) - 1
    BY DataAssumption, PackBitsRange DEF RecordBranch, updateIndices
  <2>2. k \in DOMAIN bhr BY <2>1, Sizes DEF TypeOK
  <2> QED BY <2>1, <2>2 DEF RecordBranch, updateBHT
<1>2. DOMAIN bhr = 0 .. pow2(BHR_BITS) - 1 /\ branch_history \in [0 .. BHR_BITS - 1 -> BOOLEAN]
  BY DEF TypeOK
<1> HIDE DEF k, c, v
<1>3. /\ c \in Memory!Contexts
      /\ ByContext(bhr, BHR_BITS)[c] = bhr[k] /\ ByContext(bhr', BHR_BITS)[c] = v
      /\ \A d \in Memory!Contexts :
           d # c => ByContext(bhr', BHR_BITS)[d] = ByContext(bhr, BHR_BITS)[d]
  <2>1. k = PackBits(branch_history, BHR_BITS - 1) BY DEF k
  <2>2. bhr'[k] = v /\ \A i \in 0 .. pow2(BHR_BITS) - 1 : i # k => bhr'[i] = bhr[i]
    BY <1>1, <1>2
  <2>3. BHR_BITS \in Nat \ {0} BY DataAssumption
  <2>4. \A i \in 0 .. BHR_BITS - 1 : branch_history[i] \in BOOLEAN BY <1>2
  <2>5. /\ c \in ContextsOf(BHR_BITS)
        /\ ByContext(bhr, BHR_BITS)[c] = bhr[k] /\ ByContext(bhr', BHR_BITS)[c] = bhr'[k]
        /\ \A d \in ContextsOf(BHR_BITS) :
             d # c => ByContext(bhr', BHR_BITS)[d] = ByContext(bhr, BHR_BITS)[d]
    BY ONLY <2>1, <2>2, <2>3, <2>4, ContextTrained DEF c
  <2> QED BY <2>2, <2>5 DEF ContextsOf, Memory!Contexts
<1>4. v = Memory!Moved(bhr[k], taken)
  BY <1>1, <1>2, TrainingMoves DEF TypeOK, Learned, v
<1>5. branch_history' = ShiftIn(branch_history, BHR_BITS, taken)
  BY BranchCounts
<1>6. AsSequence(branch_history', BHR_BITS)
        = Append(Tail(AsSequence(branch_history, BHR_BITS)), taken)
  BY <1>2, <1>5, DataAssumption, AsSequenceShifts
<1>7. ByContext(bhr', BHR_BITS)
        = [ByContext(bhr, BHR_BITS) EXCEPT ![c] = Memory!Moved(@, taken)]
  <2> DEFINE before == ByContext(bhr, BHR_BITS)
             after == ByContext(bhr', BHR_BITS)
  <2>1. /\ before = [d \in Memory!Contexts |-> before[d]]
        /\ after = [d \in Memory!Contexts |-> after[d]]
    BY DEF ByContext, Memory!Contexts
  <2> HIDE DEF before, after
  <2>2. after = [before EXCEPT ![c] = v] BY <1>3, <2>1 DEF before, after
  <2> QED BY <1>3, <1>4, <2>2 DEF before, after
<1> QED BY <1>6, <1>7 DEF Memory!Learn, Context, c

\* bhr learns from the outcomes alone, each context by itself, whatever the
\* registers hold and whatever is predicted from them, in every step but one
\* in which the index is negative.
THEOREM DataRefinesMemory == Spec => ImplementsMemory
<1>1. ASSUME TypeOK, [Next]_vars
      PROVE  [Memory!Next \/ (Strays /\ num_instr' # num_instr)]_(Memory!vars)
  <2>1. CASE UNCHANGED predictorVars BY <2>1 DEF predictorVars, Memory!vars
  <2>2. ASSUME NEW ins \in Branches, NEW taken \in BOOLEAN, NEW reg \in RegValues,
               RecordBranch(ins, taken, reg)
        PROVE  Memory!Next \/ (Strays /\ num_instr' # num_instr)
    <3>1. num_instr' = num_instr + 1 /\ num_instr \in Nat
      BY <1>1, <2>2, DataNumbers DEF RecordBranch, docount
    <3>2. CASE Strays BY <3>1, <3>2
    <3>3. CASE ~Strays BY <1>1, <2>2, <3>3, BranchLearns DEF Memory!Next
    <3> QED BY <3>2, <3>3
  <2>3. CASE UNCHANGED vars BY <2>3 DEF vars, predictorVars, Memory!vars
  <2> QED BY <1>1, <2>1, <2>2, <2>3 DEF Next, BranchExecuted
<1> QED BY InitMemory, <1>1, DataTypeCorrect, PTL DEF Spec, ImplementsMemory

\* The totals are those of the abstract scoreboard in every step but those in
\* which the index is negative, as long as what a stray write leaves in them
\* cannot overflow.
THEOREM DataRefinesScoreboard ==
  ASSUME MaxInstr + SATURATING_NUM <= INT_MAX
  PROVE  Spec => ImplementsScoreboardUnlessStraying
<1>1. Init => Scoreboard!Init BY ToolInitScores DEF Init
<1>2. ASSUME DataInv, BranchExecuted, ~Strays PROVE Scoreboard!Branch
  <2>1. PICK ins \in Branches, taken \in BOOLEAN, reg \in RegValues :
               RecordBranch(ins, taken, reg)
    BY <1>2 DEF BranchExecuted
  <2>2. /\ num_instr \in Nat /\ num_branches \in Int /\ num_correct \in Int
        /\ INT_MAX \in Nat /\ MaxInstr \in Nat /\ SATURATING_NUM \in Nat
    BY <1>2, DataNumbers, PinToolAssumption DEF DataInv
  <2>3. /\ running /\ running' = running
        /\ num_instr' = num_instr + 1 /\ num_instr < MaxInstr
    BY <2>1 DEF RecordBranch, docount
  <2>4. num_branches < INT_MAX /\ num_correct < INT_MAX
    BY <1>2, <2>2, <2>3 DEF DataInv, Room
  <2>5. /\ num_branches' = Increment(num_branches)
        /\ num_correct' \in {num_correct, Increment(num_correct)}
    BY <1>2, <2>1, BranchCounts DEF DataInv
  <2> QED BY <2>2, <2>3, <2>4, <2>5 DEF Increment, Scoreboard!Branch
<1>3. ASSUME DataInv, [Next]_vars
      PROVE  [Scoreboard!Next \/ (Strays /\ num_instr' # num_instr)]_(Scoreboard!vars)
  <2>1. CASE HostStep /\ UNCHANGED predictorVars
    BY <1>3, <2>1, HostIsScoreboard DEF DataInv, TypeOK
  <2>2. CASE BranchExecuted
    <3>1. num_instr' = num_instr + 1 /\ num_instr \in Nat
      BY <1>3, <2>2, DataNumbers DEF DataInv, BranchExecuted, RecordBranch, docount
    <3>2. CASE Strays BY <3>1, <3>2
    <3>3. CASE ~Strays BY <1>2, <1>3, <2>2, <3>3 DEF Scoreboard!Next
    <3> QED BY <3>2, <3>3
  <2>3. CASE UNCHANGED vars BY <2>3 DEF vars, toolVars, Scoreboard!vars
  <2> QED BY <1>3, <2>1, <2>2, <2>3 DEF Next, BranchExecuted
<1>4. DataInv => [BranchExecuted /\ ~Strays => Scoreboard!Branch]_vars BY <1>2
<1> QED
  BY <1>1, <1>3, <1>4, DataInvariance, PTL DEF Spec, ImplementsScoreboardUnlessStraying

=============================================================================

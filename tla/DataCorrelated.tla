--------------------------- MODULE DataCorrelated ---------------------------
(***************************************************************************)
(* The data-correlated predictor (staticcount.cpp): the correlated         *)
(* predictor, except that a branch that reads a register is predicted from *)
(* the values recorded at earlier such branches when its counter is weak.  *)
(* Which analysis routine a branch gets, RecordBranch or                   *)
(* RecordBranchNoReg, depends on the instruction only.                     *)
(*                                                                         *)
(* reg_current_index is made for reg_table, but reg_history is read at it, *)
(* and it can be negative.  What is read beyond reg_history is whatever    *)
(* global lies there.  A negative index trains an int in front of          *)
(* reg_table.  Compilers lay the globals out in the order of definition or *)
(* in reverse, so that int is a cell of reg_history, part of               *)
(* branch_history or one of the totals, or nothing that is read again (the *)
(* dead half of bhr, the indices, prediction, padding).                    *)
(***************************************************************************)
EXTENDS PinTool, SaturatingCounter, HistoryIndex

CONSTANTS
  BHT_BITS, BHR_BITS,
  REG_ENTRIES,   \* cells of reg_history
  RegBranches,   \* branches for which INS_RegR finds a second register read
  RegValues      \* what those registers may hold, cut to an int

ASSUME DataAssumption ==
  /\ BHT_BITS \in Nat \ {0}
  /\ BHR_BITS \in Nat \ {0}
  /\ REG_ENTRIES \in Nat \ {0}
  /\ RegBranches \subseteq Branches
  /\ RegValues \subseteq CInt
  /\ SaturatingNum(BHT_BITS) <= INT_MAX  \* the counters are ints

SATURATING_NUM == SaturatingNum(BHT_BITS)

REG_TABLE_SIZE == pow2(REG_ENTRIES)

Cells == 0 .. REG_ENTRIES - 1

VARIABLES
  bhr, bhr_current_index, branch_history, prediction,
  reg_history, reg_table, reg_current_index, reg_predictions,
  strayed  \* history variable: something in front of reg_table was trained

predictorVars ==
  <<bhr, bhr_current_index, branch_history, prediction,
    reg_history, reg_table, reg_current_index, reg_predictions, strayed>>

vars == <<toolVars, predictorVars>>

Learned == (-SATURATING_NUM .. SATURATING_NUM) \ {0}

\* No counter is ever out of its range or neutral, not even when a negative
\* index makes updateRegTable train something else.
TypeOK ==
  /\ ToolTypeOK
  /\ bhr \in [0 .. pow2(BHR_BITS) - 1 -> Learned]
  /\ bhr_current_index \in 0 .. pow2(BHR_BITS) - 1
  /\ branch_history \in [0 .. BHR_BITS - 1 -> BOOLEAN]
  /\ prediction \in BOOLEAN
  /\ reg_history \in [Cells -> CInt]
  /\ reg_table \in [0 .. REG_TABLE_SIZE - 1 -> Learned]
  /\ reg_current_index \in 1 - REG_TABLE_SIZE .. REG_TABLE_SIZE - 1
  /\ reg_predictions \in CInt
  /\ strayed \in BOOLEAN

-----------------------------------------------------------------------------

Init ==
  /\ ToolInit
  /\ bhr = [i \in 0 .. pow2(BHR_BITS) - 1 |-> 1]
  /\ bhr_current_index = 0
  /\ branch_history = [i \in 0 .. BHR_BITS - 1 |-> FALSE]
  /\ prediction = FALSE
  /\ reg_history = [i \in Cells |-> 0]
  /\ reg_table = [i \in 0 .. REG_TABLE_SIZE - 1 |-> 1]
  /\ reg_current_index = 0
  /\ reg_predictions = 0
  /\ strayed = FALSE

\* A long cut to an int.
ToInt(n) == ((n + INT_MAX + 1) % (2 * INT_MAX + 2)) - INT_MAX - 1

\* % of C: it has the sign of n.
Remainder(n, m) == IF n < 0 THEN -((-n) % m) ELSE n % m

\* The cast binds tighter than %.  That each shift is an int already makes no
\* difference to the sum once it is cut to an int itself.
reghash(history) ==
  Remainder(ToInt(SumBelow([i \in Cells |-> history[i] * pow2(i)], REG_ENTRIES)),
            REG_TABLE_SIZE)

updateIndices ==
  /\ bhr_current_index' = PackBits(branch_history, BHR_BITS - 1)
  /\ reg_current_index' = reghash(reg_history)

Weak(c) == c \in {-1, 1}

ByRegister(ins) == ins \in RegBranches /\ Weak(bhr[bhr_current_index'])

\* setPredictionNoReg, and setPrediction for branches that read a register.
setPrediction(ins) ==
  prediction' \in
    IF ~ByRegister(ins) THEN {Predict(bhr[bhr_current_index'])}
    ELSE IF reg_current_index' \in Cells THEN {reg_history[reg_current_index'] > 0}
    ELSE BOOLEAN

updateBHT(taken) ==
  bhr' = [bhr EXCEPT ![bhr_current_index'] = Train(@, taken, SATURATING_NUM)]

Nothing == <<"nothing", 0>>

\* The int that a negative index may train.
Neighbours ==
  ({"num_branches", "num_correct", "reg_predictions", "branch_history"} \X {0})
    \cup ({"reg_history"} \X Cells) \cup {Nothing}

Strays == reg_current_index' < 0

\* What else updateRegTable may train.
Struck == IF Strays THEN Neighbours ELSE {Nothing}

updateRegTable(taken) ==
  reg_table' =
    IF Strays THEN reg_table
    ELSE [reg_table EXCEPT ![reg_current_index'] = Train(@, taken, SATURATING_NUM)]

\* The int at this place that had this value, after updateRegTable.
After(place, value, struck, taken) ==
  IF struck = place THEN Train(value, taken, SATURATING_NUM) ELSE value

updateRegisterHistory(ins, reg, struck, taken) ==
  LET shifted == IF ins \in RegBranches THEN ShiftIn(reg_history, REG_ENTRIES, reg)
                 ELSE reg_history
  IN  reg_history' = [i \in Cells |-> After(<<"reg_history", i>>, shifted[i], struck, taken)]

\* Bools that were trained as one int can end up as anything.
updateBranchHistory(struck, taken) ==
  \E h \in IF struck = <<"branch_history", 0>> THEN [0 .. BHR_BITS - 1 -> BOOLEAN]
           ELSE {branch_history} :
    branch_history' = ShiftIn(h, BHR_BITS, taken)

\* The three totals of this tool.
Count(ins, correct, struck, taken) ==
  /\ num_branches' = After(<<"num_branches", 0>>, Increment(num_branches), struck, taken)
  /\ num_correct' =
       After(<<"num_correct", 0>>, IF correct THEN Increment(num_correct) ELSE num_correct,
             struck, taken)
  /\ reg_predictions' =
       After(<<"reg_predictions", 0>>,
             IF ByRegister(ins) THEN Increment(reg_predictions) ELSE reg_predictions,
             struck, taken)

\* RecordBranch for RegBranches, RecordBranchNoReg for the others, for which
\* reg means nothing.
RecordBranch(ins, taken, reg) ==
  /\ running
  /\ ins \in instrumented \cap Branches
  /\ docount
  /\ updateIndices
  /\ setPrediction(ins)
  /\ updateBHT(taken)
  /\ updateRegTable(taken)
  /\ \E struck \in Struck :
       /\ Count(ins, prediction' = taken, struck, taken)
       /\ updateRegisterHistory(ins, reg, struck, taken)
       /\ updateBranchHistory(struck, taken)
  /\ strayed' = (strayed \/ Strays)
  /\ UNCHANGED <<instrumented, running>>

BranchExecuted ==
  \E ins \in Branches, taken \in BOOLEAN, reg \in RegValues : RecordBranch(ins, taken, reg)

Next == (HostStep /\ UNCHANGED predictorVars) \/ BranchExecuted

Spec == Init /\ [][Next]_vars

-----------------------------------------------------------------------------

Memory == INSTANCE ContextMemory WITH
            Window <- BHR_BITS, Most <- SATURATING_NUM, Start <- 1,
            learned <- ByContext(bhr, BHR_BITS),
            recent <- AsSequence(branch_history, BHR_BITS)

\* Registers change what is predicted, never what is learned: bhr learns from
\* the outcomes alone, as pinatrace.cpp does, but for what a negative index
\* does to the history in the step in which it is used.
ImplementsMemory ==
  Memory!Init /\ [][Memory!Next \/ (Strays /\ num_instr' # num_instr)]_(Memory!vars)

\* The totals are those of the abstract scoreboard, and every branch is one of
\* its branches, with the same exception.
ImplementsScoreboardUnlessStraying ==
  /\ Scoreboard!Init
  /\ [][Scoreboard!Next \/ (Strays /\ num_instr' # num_instr)]_(Scoreboard!vars)
  /\ [][BranchExecuted /\ ~Strays => Scoreboard!Branch]_vars

\* Fini prints reg_predictions as a share of num_branches, but start-up clears
\* the latter only.  What it forgets is at most the start-up phase.
ExcessBounded ==
  ~strayed /\ num_instr <= INT_MAX => reg_predictions <= num_branches + NUM_INSTR_SKIPPED

=============================================================================

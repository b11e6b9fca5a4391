-------------------------- MODULE CorrelatedThreads --------------------------
(***************************************************************************)
(* pinatrace.cpp in an application with several threads.  Pin runs the     *)
(* analysis routines in the thread that executes the instruction, several  *)
(* at a time; it compiles code, and so calls Instruction, under a lock of  *)
(* its own.  Nothing guards the globals.                                   *)
(*                                                                         *)
(* A step is one access of a global as the optimised build performs it:    *)
(* ++ loads and stores, updateBHT loads a counter once and stores it       *)
(* trained and clamped, and each helper loads bhr_current_index anew.      *)
(* Accesses are sequentially consistent; memmove is one load and one store *)
(* of all the cells it moves.                                              *)
(***************************************************************************)
EXTENDS SaturatingCounter, HistoryIndex, Sequences, FiniteSets

CONSTANTS
  Threads, Instructions, Branches, NUM_INSTR_SKIPPED, INT_MAX,
  BHT_BITS, BHR_BITS,
  MaxInstr  \* bound: instructions the threads begin

ASSUME ThreadsAssumption ==
  /\ IsFiniteSet(Threads)
  /\ Instructions # {} /\ Branches \subseteq Instructions
  /\ NUM_INSTR_SKIPPED \in Nat /\ INT_MAX \in Nat /\ MaxInstr \in Nat
  /\ BHT_BITS \in Nat \ {0} /\ BHR_BITS \in Nat \ {0}

VARIABLES
  instrumented, running,  \* as in PinTool
  shared,   \* the globals of the tool, by name
  pc,       \* what each thread does next
  local,    \* the registers of each thread
  begun,    \* instructions the threads have begun
  settled,  \* the globals when no thread was in the tool last
  raced     \* whether two threads have ever been in the tool at once

vars == <<instrumented, running, shared, pc, local, begun, settled, raced>>

\* The predictor that takes no notice of threads, on the globals as they are.
Tool == INSTANCE CorrelatedPredictor WITH
          num_instr <- shared.num_instr, num_branches <- shared.num_branches,
          num_correct <- shared.num_correct, bhr <- shared.bhr,
          bhr_current_index <- shared.bhr_current_index,
          branch_history <- shared.branch_history, prediction <- shared.prediction

Cells == 0 .. BHR_BITS - 1

-----------------------------------------------------------------------------

Idle == [ins |-> CHOOSE i \in Instructions : TRUE, taken |-> FALSE, number |-> 0,
         index |-> 0, cells |-> << >>]

Init ==
  /\ instrumented = {}
  /\ running = TRUE
  /\ shared = [num_instr |-> 0, num_branches |-> 0, num_correct |-> 0,
               bhr |-> [i \in 0 .. pow2(BHR_BITS) - 1 |-> 1], bhr_current_index |-> 0,
               branch_history |-> [i \in Cells |-> FALSE], prediction |-> FALSE]
  /\ pc = [t \in Threads |-> "application"]
  /\ local = [t \in Threads |-> Idle]
  /\ begun = 0
  /\ settled = shared
  /\ raced = FALSE

InTool == {t \in Threads : pc[t] # "application"}

\* Thread t goes from one point of its program to another.
Goto(t, from, to) ==
  /\ pc[t] = from
  /\ pc' = [pc EXCEPT ![t] = to]

Load(t, from, to, register, value) ==
  /\ Goto(t, from, to)
  /\ local' = [local EXCEPT ![t][register] = value]
  /\ UNCHANGED shared

Store(t, from, to, global, value) ==
  /\ Goto(t, from, to)
  /\ shared' = [shared EXCEPT ![global] = value]
  /\ local' = IF to = "application" THEN [local EXCEPT ![t] = Idle] ELSE local

LoadCounter(t, from, to) ==
  Load(t, from, to, "number", shared.bhr[local[t].index])

StoreCounter(t, from, to, value) ==
  Store(t, from, to, "bhr", [shared.bhr EXCEPT ![local[t].index] = value])

-----------------------------------------------------------------------------

\* The analysis calls of one instruction begin.
Execute(t, ins) ==
  /\ running
  /\ ins \in instrumented
  /\ begun < MaxInstr
  /\ begun' = begun + 1
  /\ Goto(t, "application", "load num_instr")
  /\ local' = [local EXCEPT ![t].ins = ins]
  /\ UNCHANGED <<instrumented, running, shared>>

\* Mutant: docount is called once more for each time the code was compiled.
docount_PerTrace(t) ==
  \/ Load(t, "load num_instr", "store num_instr", "number", shared.num_instr)
  \/ \E to \in {"load num_instr",
                IF local[t].ins \in Branches THEN "RecordBranch" ELSE "application"} :
       Store(t, "store num_instr", to, "num_instr", local[t].number + 1)

docount(t) ==
  \/ Load(t, "load num_instr", "store num_instr", "number", shared.num_instr)
  \/ Store(t, "store num_instr",
           IF local[t].ins \in Branches THEN "RecordBranch" ELSE "application",
           "num_instr", local[t].number + 1)

Count(t) ==
  \/ \E taken \in BOOLEAN :
       Load(t, "RecordBranch", "load num_branches", "taken", taken)
  \/ Load(t, "load num_branches", "store num_branches", "number", shared.num_branches)
  \/ Store(t, "store num_branches", "updateBHRIndex", "num_branches",
           Tool!Increment(local[t].number))

\* Mutant: the loop covers the whole history.
updateBHRIndex_All(t) ==
  LET read == Len(local[t].cells)
  IN  \/ /\ read < BHR_BITS
         /\ Load(t, "updateBHRIndex", "updateBHRIndex", "cells",
                 Append(local[t].cells, shared.branch_history[read]))
      \/ /\ read = BHR_BITS
         /\ Store(t, "updateBHRIndex", "setPrediction", "bhr_current_index",
                  PackBits([i \in 0 .. read - 1 |-> local[t].cells[i + 1]], read))

\* The index is collected from the cells one by one.
updateBHRIndex(t) ==
  LET read == Len(local[t].cells)
  IN  \/ /\ read < BHR_BITS - 1
         /\ Load(t, "updateBHRIndex", "updateBHRIndex", "cells",
                 Append(local[t].cells, shared.branch_history[read]))
      \/ /\ read = BHR_BITS - 1
         /\ Store(t, "updateBHRIndex", "setPrediction", "bhr_current_index",
                  PackBits([i \in 0 .. read - 1 |-> local[t].cells[i + 1]], read))

setPrediction(t) ==
  \/ Load(t, "setPrediction", "predict", "index", shared.bhr_current_index)
  \/ LoadCounter(t, "predict", "store prediction")
  \/ Store(t, "store prediction", "compare", "prediction", Predict(local[t].number))

\* The cells are read no more once prediction is.
Score(t) ==
  \/ Load(t, "compare",
          IF shared.prediction = local[t].taken THEN "load num_correct" ELSE "updateBHT",
          "cells", << >>)
  \/ Load(t, "load num_correct", "store num_correct", "number", shared.num_correct)
  \/ Store(t, "store num_correct", "updateBHT", "num_correct",
           Tool!Increment(local[t].number))

updateBHT(t) ==
  \/ Load(t, "updateBHT", "train", "index", shared.bhr_current_index)
  \/ LoadCounter(t, "train", "store counter")
  \/ StoreCounter(t, "store counter", "updateBranchHistory",
                  Train(local[t].number, local[t].taken, Tool!SATURATING_NUM))

\* Mutant: the last cell is written before the others have moved.
updateBranchHistory_LastFirst(t) ==
  \/ Store(t, "updateBranchHistory", "memmove", "branch_history",
           [shared.branch_history EXCEPT ![BHR_BITS - 1] = local[t].taken])
  \/ Load(t, "memmove", "moved", "cells",
          [i \in 1 .. BHR_BITS - 1 |-> shared.branch_history[i]])
  \/ Store(t, "moved", "application", "branch_history",
           [i \in Cells |-> IF i < BHR_BITS - 1 THEN local[t].cells[i + 1]
                            ELSE shared.branch_history[i]])

updateBranchHistory(t) ==
  \/ Load(t, "updateBranchHistory", "memmove", "cells",
          [i \in 1 .. BHR_BITS - 1 |-> shared.branch_history[i]])
  \/ Store(t, "memmove", "moved", "branch_history",
           [i \in Cells |-> IF i < BHR_BITS - 1 THEN local[t].cells[i + 1]
                            ELSE shared.branch_history[i]])
  \/ Store(t, "moved", "application", "branch_history",
           [shared.branch_history EXCEPT ![BHR_BITS - 1] = local[t].taken])

\* The accesses of docount and RecordBranch.
Analyse(t) ==
  /\ \/ docount(t) \/ Count(t) \/ updateBHRIndex(t) \/ setPrediction(t)
     \/ Score(t) \/ updateBHT(t) \/ updateBranchHistory(t)
  /\ UNCHANGED <<instrumented, running, begun>>

-----------------------------------------------------------------------------

Compiling == {"Instruction", "clear num_correct", "clear num_branches"}

\* Pin compiles an instruction, one thread at a time.
Compile(t, ins) ==
  /\ running
  /\ \A u \in Threads : pc[u] \notin Compiling
  /\ Goto(t, "application", "Instruction")
  /\ local' = [local EXCEPT ![t].ins = ins]
  /\ UNCHANGED <<instrumented, running, shared, begun>>

\* The callback; what it inserted is there when it has returned.
Instruction(t) ==
  /\ \/ Load(t, "Instruction",
             IF shared.num_instr <= NUM_INSTR_SKIPPED THEN "clear num_correct"
             ELSE "application", "number", 0)
     \/ Store(t, "clear num_correct", "clear num_branches", "num_correct", 0)
     \/ Store(t, "clear num_branches", "application", "num_branches", 0)
  /\ instrumented' = IF pc'[t] = "application" THEN instrumented \cup {local[t].ins}
                     ELSE instrumented
  /\ UNCHANGED <<running, begun>>

\* The application has exited when Pin calls Fini.
Fini ==
  /\ running
  /\ InTool = {}
  /\ running' = FALSE
  /\ UNCHANGED <<instrumented, shared, pc, local, begun>>

\* settled follows the globals whenever no thread is in the tool.
Next ==
  /\ \/ \E t \in Threads :
          \/ \E ins \in Instructions : Execute(t, ins) \/ Compile(t, ins)
          \/ Analyse(t) \/ Instruction(t)
     \/ Fini
  /\ settled' = IF InTool' = {} THEN shared' ELSE settled
  /\ raced' = (raced \/ \E t, u \in InTool' : t # u)

Spec == Init /\ [][Next]_vars

-----------------------------------------------------------------------------

Points ==
  {"application", "load num_instr", "store num_instr", "RecordBranch",
   "load num_branches", "store num_branches", "updateBHRIndex", "setPrediction",
   "predict", "store prediction", "compare", "load num_correct",
   "store num_correct", "updateBHT", "train", "store counter",
   "updateBranchHistory", "memmove", "moved"} \cup Compiling

\* However the accesses of the threads interleave, every index stays in the
\* table and no counter leaves its range or rests at 0: what updateBHT stores
\* was trained and clamped before.
TypeOK ==
  /\ Tool!TypeOK
  /\ \A i \in DOMAIN shared.bhr : shared.bhr[i] # 0
  /\ pc \in [Threads -> Points]
  /\ begun \in 0 .. MaxInstr

\* Races lose counts; they never make one up.
NeverOvercounts ==
  \A total \in {"num_instr", "num_branches", "num_correct"} : shared[total] <= begun

\* Races do not wake the dead half of the table either.
UpperHalfUntouched == Tool!UpperHalfUntouched

SettledTool == INSTANCE CorrelatedPredictor WITH
                 num_instr <- settled.num_instr, num_branches <- settled.num_branches,
                 num_correct <- settled.num_correct, bhr <- settled.bhr,
                 bhr_current_index <- settled.bhr_current_index,
                 branch_history <- settled.branch_history,
                 prediction <- settled.prediction

\* As long as no two threads are in the tool at once, which one thread never
\* is, the accesses of an analysis call or callback might as well be one step,
\* as they are in CorrelatedPredictor.
ImplementsToolUnlessRaced ==
  SettledTool!Init /\ [][SettledTool!Next \/ raced']_(SettledTool!vars)

\* The totals that are reported make sense unless threads have raced.
TotalsMakeSenseUnlessRaced == ~running => raced \/ Tool!TotalsMakeSense

=============================================================================

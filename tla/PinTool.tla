------------------------------- MODULE PinTool -------------------------------
(***************************************************************************)
(* The part that the six branch-predictor Pintools share word for word:    *)
(* the instrumentation callback Instruction, the analysis routine docount, *)
(* the scoreboard (num_instr, num_branches, num_correct) and Fini.  Lines  *)
(* are those of pinatrace.cpp.                                             *)
(*                                                                         *)
(* Pin calls Instruction when it compiles a piece of the application into  *)
(* its code cache, so before the instruction first runs, and again when it *)
(* compiles the same instruction into another trace or after a flush of    *)
(* the cache.  The analysis calls the callback inserts then run each time  *)
(* the instruction does.  A step of this module is one callback or one     *)
(* executed instruction of a single-threaded application.                  *)
(***************************************************************************)
EXTENDS Integers

CONSTANTS
  Instructions,       \* the application's instructions
  Branches,           \* those for which INS_IsBranch holds
  NUM_INSTR_SKIPPED,  \* the length of the start-up phase
  INT_MAX,            \* the largest int; num_branches and num_correct are ints
  MaxInstr            \* bound: instructions executed in a behaviour

ASSUME PinToolAssumption ==
  /\ Branches \subseteq Instructions
  /\ NUM_INSTR_SKIPPED \in Nat
  /\ INT_MAX \in Nat
  /\ MaxInstr \in Nat

VARIABLES
  instrumented,  \* instructions in the code cache, with their analysis calls
  running,       \* FALSE once Fini has written the totals and closed the log
  num_instr, num_branches, num_correct

CInt == -INT_MAX - 1 .. INT_MAX

score == <<num_branches, num_correct>>

toolVars == <<instrumented, running, num_instr, num_branches, num_correct>>

ToolTypeOK ==
  /\ instrumented \subseteq Instructions
  /\ running \in BOOLEAN
  /\ num_instr \in 0 .. MaxInstr
  /\ num_branches \in CInt
  /\ num_correct \in CInt

-----------------------------------------------------------------------------

ToolInit ==
  /\ instrumented = {}
  /\ running = TRUE
  /\ num_instr = 0
  /\ num_branches = 0
  /\ num_correct = 0

\* Mutant: the score is cleared whenever code is compiled.
Instruction_AlwaysClears(ins) ==
  /\ running
  /\ instrumented' = instrumented \cup {ins}
  /\ num_branches' = 0
  /\ num_correct' = 0
  /\ UNCHANGED <<running, num_instr>>

\* The instrumentation callback.  During start-up it clears the score, as a
\* side effect of compiling code; num_instr is not cleared.
Instruction(ins) ==
  /\ running
  /\ instrumented' = instrumented \cup {ins}
  /\ IF num_instr <= NUM_INSTR_SKIPPED
       THEN num_branches' = 0 /\ num_correct' = 0
       ELSE UNCHANGED score
  /\ UNCHANGED <<running, num_instr>>

\* The analysis routine in front of every instruction.
docount ==
  /\ num_instr < MaxInstr
  /\ num_instr' = num_instr + 1

\* Mutant: the counter wraps around one too early.
Increment_Early(n) == IF n + 1 >= INT_MAX THEN -INT_MAX - 1 ELSE n + 1

\* ++ on an int.  Overflow is undefined in C++; the build adds in a register
\* and stores it, so the value wraps around.
Increment(n) == IF n = INT_MAX THEN -INT_MAX - 1 ELSE n + 1

\* The application executes an instruction that is not a branch.
ExecuteOther(ins) ==
  /\ running
  /\ ins \in instrumented \ Branches
  /\ docount
  /\ UNCHANGED <<instrumented, running, num_branches, num_correct>>

\* Mutant: the branch is not counted.
ExecuteBranch_Uncounted(ins) ==
  /\ running
  /\ ins \in instrumented \cap Branches
  /\ docount
  /\ UNCHANGED <<instrumented, running, num_branches>>

\* The application executes a branch: docount, then what RecordBranch begins
\* with, whatever the predictor.
ExecuteBranch(ins) ==
  /\ running
  /\ ins \in instrumented \cap Branches
  /\ docount
  /\ num_branches' = Increment(num_branches)
  /\ UNCHANGED <<instrumented, running>>

\* RecordBranch compares the prediction with the outcome.
Score(correct) ==
  num_correct' = IF correct THEN Increment(num_correct) ELSE num_correct

\* The application exits; Fini writes the totals and closes the log.
Fini ==
  /\ running
  /\ running' = FALSE
  /\ UNCHANGED <<instrumented, num_instr, num_branches, num_correct>>

\* The steps in which no predictor takes part.
HostStep ==
  \/ \E ins \in Instructions : Instruction(ins) \/ ExecuteOther(ins)
  \/ Fini

-----------------------------------------------------------------------------

\* The totals make sense until as many instructions have run as an int can
\* count, in spite of the clearing during start-up: at most every instruction
\* is a branch, and at most every branch is predicted right.  Beyond that
\* point a total may have wrapped around.
TotalsMakeSense ==
  num_instr <= INT_MAX =>
    0 <= num_correct /\ num_correct <= num_branches /\ num_branches <= num_instr

\* The totals as BranchScoreboard has them.
Scoreboard == INSTANCE BranchScoreboard WITH
                Skip <- NUM_INSTR_SKIPPED, instr <- num_instr,
                branches <- num_branches, correct <- num_correct,
                reported <- ~running

=============================================================================

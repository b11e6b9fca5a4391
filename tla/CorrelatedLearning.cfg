\* A branch is all that matters to the predictor, so the application has one
\* branch and no other instruction.
CONSTANTS
  Instructions = {jnz}
  Branches = {jnz}
  NUM_INSTR_SKIPPED = 1
  INT_MAX = 100
  MaxInstr = 11
  BHT_BITS = 2
  BHR_BITS = 3
  PatternBits = 2

SPECIFICATION LearningSpec

INVARIANTS
  CompetitiveWithEveryTable
  DebtCoversFuture

\* The tool stops for good once Fini has run.
CHECK_DEADLOCK FALSE

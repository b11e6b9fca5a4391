CONSTANTS
  Instructions = {jnz}
  Branches = {jnz}
  Addresses <- Printed
  NUM_INSTR_SKIPPED = 0
  INT_MAX = 7
  MaxInstr = 7
  WORD_BITS = 8
  TABLE_BITS = 3
  COUNTER_BITS = 1
  NUM_TABLES = 2

SPECIFICATION LearningSpec

INVARIANTS
  LearningTypeOK
  SteadyBranchIsLearned

\* The tool stops for good once Fini has run.
CHECK_DEADLOCK FALSE

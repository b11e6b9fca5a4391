CONSTANTS
  Instructions = {jnz, jrcxz}
  Branches = {jnz, jrcxz}
  RegBranches = {jrcxz}
  RegValues = {0, 2, 3}
  NUM_INSTR_SKIPPED = 1
  INT_MAX = 7
  MaxInstr = 4
  BHT_BITS = 2
  BHR_BITS = 2
  REG_ENTRIES = 2

SPECIFICATION Spec

INVARIANTS
  TypeOK
  ExcessBounded

PROPERTIES
  ImplementsMemory
  ImplementsScoreboardUnlessStraying

\* The tool stops for good once Fini has run.
CHECK_DEADLOCK FALSE

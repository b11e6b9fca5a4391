CONSTANTS
  Instructions = {add, jnz}
  Branches = {jnz}
  NUM_INSTR_SKIPPED = 2
  INT_MAX = 8
  MaxInstr = 8
  BHT_BITS = 2
  BHR_BITS = 3

SPECIFICATION Spec

INVARIANTS
  TypeOK
  TotalsMakeSense
  UpperHalfUntouched

PROPERTIES
  FlipsOnlyWhenWeak
  ImplementsScoreboard
  ImplementsMemory

\* The tool stops for good once Fini has run.
CHECK_DEADLOCK FALSE

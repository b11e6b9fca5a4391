CONSTANTS
  Threads = {one, two}
  Instructions = {jnz}
  Branches = {jnz}
  NUM_INSTR_SKIPPED = 1
  INT_MAX = 3
  BHT_BITS = 2
  BHR_BITS = 2
  MaxInstr = 4

SPECIFICATION Spec

SYMMETRY AnyThread

INVARIANTS
  TypeOK
  NeverOvercounts
  UpperHalfUntouched
  TotalsMakeSenseUnlessRaced

PROPERTIES
  ImplementsToolUnlessRaced

\* The tool stops for good once Fini has run.
CHECK_DEADLOCK FALSE

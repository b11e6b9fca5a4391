CONSTANTS
  Instructions = {jnz}
  Branches = {jnz}
  Addresses = {loop, exit}
  NUM_INSTR_SKIPPED = 2
  INT_MAX = 4
  MaxInstr = 7
  BHT_BITS = 2
  PATH_DEPTH = 3
  TABLE_ENTRIES = 3

SPECIFICATION Spec

INVARIANTS
  TypeOK
  NoDuplicatePaths
  NoPredictionFromColdPath

PROPERTIES
  ImplementsFifo

\* The tool stops for good once Fini has run.
CHECK_DEADLOCK FALSE

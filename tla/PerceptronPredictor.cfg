CONSTANTS
  Instructions = {jnz}
  Branches = {jnz}
  Addresses = {a1, a2, a3}
  NoAddress = none
  NUM_INSTR_SKIPPED = 0
  INT_MAX = 100
  MaxInstr = 6
  HISTORY_LENGTH = 20
  TABLE_SIZE = 2

SPECIFICATION Spec

INVARIANTS
  TypeOK
  ConfidenceBounded

PROPERTIES
  ImplementsCounters

\* The tool stops for good once Fini has run or the application has faulted.
CHECK_DEADLOCK FALSE

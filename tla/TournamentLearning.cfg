CONSTANTS
  Instructions = {jnz}
  Branches = {jnz}
  Addresses <- Printed
  NoAddress = none
  Roaming = roaming
  NUM_INSTR_SKIPPED = 0
  INT_MAX = 100
  MaxInstr = 4
  BHT_BITS = 3
  BHR_BITS = 2
  PERCEPTRON_HISTORY_LENGTH = 20
  PERCEPTRON_TABLE_SIZE = 3
  WORD_BITS = 10
  TABLE_BITS = 4
  COUNTER_BITS = 3
  GEHL_NUM_TABLES = 4

SPECIFICATION LearningSpec

INVARIANTS
  TypeOK
  VoteLearns

PROPERTIES
  ImplementsMemory
  PartsLearn

\* The tool stops for good once Fini has run or the application has faulted.
CHECK_DEADLOCK FALSE

CONSTANTS
  Instructions = {jnz}
  Branches = {jnz}
  Addresses = {a1}
  NoAddress = none
  NUM_INSTR_SKIPPED = 0
  INT_MAX = 100
  MaxInstr = 4
  HISTORY_LENGTH = 4
  TABLE_SIZE = 2

SPECIFICATION HistorySpec

INVARIANTS
  HistoryRecordsTaken

CHECK_DEADLOCK FALSE

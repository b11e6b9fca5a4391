\* As many outcomes as Fini prints for BHR_BITS decide the next one.
CONSTANTS
  Instructions = {jnz}
  Branches = {jnz}
  NUM_INSTR_SKIPPED = 0
  INT_MAX = 100
  MaxInstr = 20
  BHT_BITS = 2
  BHR_BITS = 2
  PatternBits = 2

SPECIFICATION LoopSpec

INVARIANT WrongOnceEach

CHECK_DEADLOCK FALSE

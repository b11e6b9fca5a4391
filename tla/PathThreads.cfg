CONSTANTS
  Threads = {one, two}
  Paths = {empty, a, b, c}
  Blank = empty
  TABLE_ENTRIES = 2

SPECIFICATION Spec

INVARIANT IndexInTable

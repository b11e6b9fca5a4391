CONSTANTS
  WORD_BITS = 16
  TABLE_BITS = 6
  Addresses <- Printed

SPECIFICATION Spec

INVARIANTS
  IndexInTable

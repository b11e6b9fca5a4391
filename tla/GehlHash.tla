------------------------------ MODULE GehlHash ------------------------------
(***************************************************************************)
(* How strace.cpp and proccount.cpp hash a string to a table index: one    *)
(* unsigned word that takes in a character at a time, divided at the end.  *)
(* The width of the word (64 in the code) and the size of the table (1 <<  *)
(* 20) are parameters; the divisor is LLONG_MAX / (1<<19), so the largest  *)
(* signed word divided by half the table size.                             *)
(***************************************************************************)
EXTENDS Bits, Sequences

CONSTANTS WORD_BITS, TABLE_BITS

ASSUME HashAssumption ==
  /\ TABLE_BITS \in Nat \ {0}
  /\ WORD_BITS \in Nat
  /\ WORD_BITS > 2 * TABLE_BITS

\* TABLE_SIZE in strace.cpp, GEHL_TABLE_SIZE in proccount.cpp.
GEHL_TABLE_SIZE == pow2(TABLE_BITS)

Seed == 5381 % pow2(WORD_BITS)

\* ((hash << 5) + hash) + c
Absorb(hash, c) == (hash * 33 + c) % pow2(WORD_BITS)

Divisor == (pow2(WORD_BITS - 1) - 1) \div pow2(TABLE_BITS - 1)

Quotient(hash) == hash \div Divisor

\* The hash of a whole string.
HashOf(start, string) ==
  LET after[i \in 0 .. Len(string)] ==
        IF i = 0 THEN start ELSE Absorb(after[i - 1], string[i])
  IN  after[Len(string)]

hashing(string) == Quotient(HashOf(Seed, string))

=============================================================================

---------------------------- MODULE GehlHashing ----------------------------
(***************************************************************************)
(* hashing (strace.cpp) over the paths it is called with, one address at a *)
(* time: which indices can come out of it.                                 *)
(***************************************************************************)
EXTENDS GehlHash

CONSTANT
  Addresses  \* printed branch targets, as sequences of character codes

VARIABLE hash

Init == hash = Seed

\* The loop over the characters of the next address of the path.
TakeIn(address) == hash' = HashOf(hash, address)

Next == \E address \in Addresses : TakeIn(address)

Spec == Init /\ [][Next]_hash

-----------------------------------------------------------------------------

\* "size of each table" (strace.cpp:12): an index is below it.
IndexInTable == Quotient(hash) < GEHL_TABLE_SIZE

=============================================================================

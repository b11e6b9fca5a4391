-------------------------- MODULE AssociativeTable --------------------------
(***************************************************************************)
(* The table of strings that itrace.cpp (updateBHRIndex), nonstatica.cpp   *)
(* (RecordBranch) and proccount.cpp (updateIndex) search from the front    *)
(* and fill from the front.  The strings are keys here; Blank is the empty *)
(* string, which an entry holds until it is filled.                        *)
(***************************************************************************)
EXTENDS Integers

CONSTANTS Size, Keys, Blank

VARIABLES
  entries,  \* the strings (bhr_entries, address_history)
  used,     \* where the next new string goes (pathsUsed); Size means 0
  current   \* the entry found or filled last (bhr_current_index, current_index)

Slots == 0 .. Size - 1

TableTypeOK ==
  /\ entries \in [Slots -> Keys]
  /\ used \in 0 .. Size
  /\ current \in Slots

TableInit ==
  /\ entries = [i \in Slots |-> Blank]
  /\ used = 0
  /\ current = 0

\* Mutant: the search loop misses the last entry.
Matches_ShortLoop(key) == {i \in 0 .. Size - 2 : entries[i] = key}

Matches(key) == {i \in Slots : entries[i] = key}

\* Where a new string goes: past the last slot it is the first again.
NextSlot == IF used = Size THEN 0 ELSE used

\* The search stops at the first match.
Found(key) ==
  /\ \E i \in Matches(key) :
       /\ \A j \in Matches(key) : i <= j
       /\ current' = i
  /\ UNCHANGED entries

\* A string that is not there overwrites the one filled longest ago.
Filled(key) ==
  /\ Matches(key) = {}
  /\ entries' = [entries EXCEPT ![NextSlot] = key]
  /\ current' = NextSlot

\* Mutant: pathsUsed is not advanced.
UsedAfter_NoAdvance(key) == used

\* Mutant: the slot starts again at the front, pathsUsed does not.
UsedAfter_NoReset(key) == IF Matches(key) = {} THEN used + 1 ELSE used

UsedAfter(key) == IF Matches(key) = {} THEN NextSlot + 1 ELSE used

Place(key) == Found(key) \/ Filled(key)

Lookup(key) == Place(key) /\ used' = UsedAfter(key)

-----------------------------------------------------------------------------

\* The slot i places into the circle that is cut before slot ahead.
SlotOf(i, ahead) ==
  LET place == ahead + i - 1
  IN  IF place < Size THEN place ELSE place - Size

\* The slots in the order they were filled, oldest first: the circle cut at
\* used.  learned is what is kept for each slot beside its string.
InOrder(learned) ==
  [i \in 1 .. Size |->
     [key |-> entries[SlotOf(i, used)], learned |-> learned[SlotOf(i, used)]]]

\* No string is in the table twice: a lookup has one answer, and what was
\* learned under a string is not split over two entries.
NoDuplicates ==
  \A i, j \in Slots : entries[i] = entries[j] /\ entries[i] # Blank => i = j

=============================================================================

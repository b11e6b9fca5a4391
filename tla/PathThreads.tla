----------------------------- MODULE PathThreads -----------------------------
(***************************************************************************)
(* updateBHRIndex of itrace.cpp in an application with several threads,    *)
(* step by step: the search, entry by entry, and the three places that     *)
(* load pathsUsed when the path is not there.  A path is any string; that  *)
(* two threads may tear each other's branch_history is left out, and so is *)
(* that two strings assigned to at once may not survive it.                *)
(***************************************************************************)
EXTENDS Integers

CONSTANTS Threads, Paths, Blank, TABLE_ENTRIES

VARIABLES
  bhr_entries, pathsUsed, bhr_current_index,
  pc,         \* what each thread does next
  path,       \* the path each thread looks for
  slot        \* the entry each thread is at

vars == <<bhr_entries, pathsUsed, bhr_current_index, pc, path, slot>>

Slots == 0 .. TABLE_ENTRIES - 1

-----------------------------------------------------------------------------

Init ==
  /\ bhr_entries = [i \in Slots |-> Blank]
  /\ pathsUsed = 0
  /\ bhr_current_index = 0
  /\ pc = [t \in Threads |-> "outside"]
  /\ path = [t \in Threads |-> Blank]
  /\ slot = [t \in Threads |-> 0]

Goto(t, from, to) ==
  /\ pc[t] = from
  /\ pc' = [pc EXCEPT ![t] = to]

\* The empty path, which only the first branches look for, is found at once.
Call(t, currentPath) ==
  /\ currentPath # Blank
  /\ Goto(t, "outside", "search")
  /\ path' = [path EXCEPT ![t] = currentPath]
  /\ slot' = [slot EXCEPT ![t] = 0]
  /\ UNCHANGED <<bhr_entries, pathsUsed, bhr_current_index>>

\* One round of the loop.
Search(t) ==
  \/ /\ slot[t] \in Slots
     /\ bhr_entries[slot[t]] = path[t]
     /\ Goto(t, "search", "outside")
     /\ bhr_current_index' = slot[t]
     /\ UNCHANGED <<bhr_entries, pathsUsed, path, slot>>
  \/ /\ slot[t] \in Slots
     /\ bhr_entries[slot[t]] # path[t]
     /\ Goto(t, "search", "search")
     /\ slot' = [slot EXCEPT ![t] = @ + 1]
     /\ UNCHANGED <<bhr_entries, pathsUsed, bhr_current_index, path>>
  \/ /\ slot[t] = TABLE_ENTRIES
     /\ Goto(t, "search", "check")
     /\ UNCHANGED <<bhr_entries, pathsUsed, bhr_current_index, path, slot>>

\* if (pathsUsed == TABLE_ENTRIES) pathsUsed = 0, and the slot to assign to.
Check(t) ==
  \/ /\ pathsUsed # TABLE_ENTRIES
     /\ Goto(t, "check", "assign")
     /\ slot' = [slot EXCEPT ![t] = pathsUsed]
     /\ UNCHANGED <<bhr_entries, pathsUsed, bhr_current_index, path>>
  \/ /\ pathsUsed = TABLE_ENTRIES
     /\ Goto(t, "check", "reset")
     /\ UNCHANGED <<bhr_entries, pathsUsed, bhr_current_index, path, slot>>
  \/ /\ Goto(t, "reset", "assign")
     /\ pathsUsed' = 0
     /\ slot' = [slot EXCEPT ![t] = 0]
     /\ UNCHANGED <<bhr_entries, bhr_current_index, path>>

\* Beyond the table the assignment strikes something else.
Assign(t) ==
  /\ Goto(t, "assign", "load pathsUsed")
  /\ bhr_entries' = [bhr_entries EXCEPT ![slot[t]] = path[t]]
  /\ UNCHANGED <<pathsUsed, bhr_current_index, path, slot>>

\* pathsUsed is loaded again for the index and for += 1.
Advance(t) ==
  \/ /\ Goto(t, "load pathsUsed", "store index")
     /\ slot' = [slot EXCEPT ![t] = pathsUsed]
     /\ UNCHANGED <<bhr_entries, pathsUsed, bhr_current_index, path>>
  \/ /\ Goto(t, "store index", "store pathsUsed")
     /\ bhr_current_index' = slot[t]
     /\ UNCHANGED <<bhr_entries, pathsUsed, path, slot>>
  \/ /\ Goto(t, "store pathsUsed", "outside")
     /\ pathsUsed' = slot[t] + 1
     /\ UNCHANGED <<bhr_entries, bhr_current_index, path, slot>>

Next ==
  \E t \in Threads :
    \/ \E currentPath \in Paths : Call(t, currentPath)
    \/ Search(t) \/ Check(t) \/ Assign(t) \/ Advance(t)

Spec == Init /\ [][Next]_vars

-----------------------------------------------------------------------------

\* updateBHT and setPrediction use the index as an index of bhr, and the next
\* new path goes to pathsUsed or to the front.
IndexInTable ==
  bhr_current_index \in Slots /\ pathsUsed \in 0 .. TABLE_ENTRIES

=============================================================================

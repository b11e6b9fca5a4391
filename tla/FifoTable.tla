----------------------------- MODULE FifoTable -----------------------------
(***************************************************************************)
(* What the table of strings together with what is learned under each of   *)
(* them promises: a fixed number of slots in the order they were filled,   *)
(* oldest first.  A known key retrains its slot where it stands; an        *)
(* unknown key takes the oldest slot, moves it to the end, and goes on     *)
(* with what its predecessor had learned.                                  *)
(***************************************************************************)
EXTENDS Sequences, Integers

CONSTANTS
  Size, Keys, Blank,
  Fresh,        \* what an unused slot knows
  Retrained(_)  \* what it may know after one more outcome

VARIABLE queue  \* a sequence of Size slots [key, learned]

Init == queue = [i \in 1 .. Size |-> [key |-> Blank, learned |-> Fresh]]

Train(key) ==
  \E i \in 1 .. Size :
    /\ queue[i].key = key
    /\ \E learned \in Retrained(queue[i].learned) :
         queue' = [queue EXCEPT ![i].learned = learned]

Replace(key) ==
  /\ \A i \in 1 .. Size : queue[i].key # key
  /\ \E learned \in Retrained(Head(queue).learned) :
       queue' = Append(Tail(queue), [key |-> key, learned |-> learned])

Next == \E key \in Keys : Train(key) \/ Replace(key)

Spec == Init /\ [][Next]_queue

=============================================================================

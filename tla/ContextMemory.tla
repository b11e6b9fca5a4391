---------------------------- MODULE ContextMemory ----------------------------
(***************************************************************************)
(* What a predictor correlated with outcomes promises to learn, however it *)
(* lays its table out and whatever else it predicts with: how sure it is   *)
(* of "taken", separately for each context, that is for each run of        *)
(* outcomes before the most recent one.  Each branch moves the memory of   *)
(* the context it met one level towards its outcome; no level is neutral,  *)
(* but for a memory that starts without an opinion.                        *)
(***************************************************************************)
EXTENDS Integers, Sequences

CONSTANTS
  Window,  \* outcomes remembered
  Most,    \* the level of "surely taken"; "surely not taken" is -Most
  Start    \* the level of a context never met

VARIABLES
  learned,  \* the level of each context
  recent    \* the outcomes remembered, newest last

vars == <<learned, recent>>

Contexts == [1 .. Window - 1 -> BOOLEAN]

Levels == (-Most .. Most) \ {0}

Nearest(level, levels) ==
  CHOOSE l \in levels : \A m \in levels : (m - level) * (m - level) >= (l - level) * (l - level)

Moved(level, taken) ==
  LET beyond == {l \in Levels : IF taken THEN l > level ELSE l < level}
  IN  IF beyond = {} THEN level ELSE Nearest(level, beyond)

Init ==
  /\ learned = [c \in Contexts |-> Start]
  /\ recent = [i \in 1 .. Window |-> FALSE]

Learn(taken) ==
  /\ learned' = [learned EXCEPT ![SubSeq(recent, 1, Window - 1)] = Moved(@, taken)]
  /\ recent' = Append(Tail(recent), taken)

Next == \E taken \in BOOLEAN : Learn(taken)

Spec == Init /\ [][Next]_vars

=============================================================================

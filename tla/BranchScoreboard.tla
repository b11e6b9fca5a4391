-------------------------- MODULE BranchScoreboard --------------------------
(***************************************************************************)
(* What every branch-predictor Pintool promises of its totals, whatever it *)
(* predicts with: each executed instruction is counted once; a branch adds *)
(* one to the branches and at most one to the correct ones, in the same    *)
(* step; nothing is taken back except by forgetting the whole score, which *)
(* can only happen during the first Skip + 1 instructions; nothing changes *)
(* once the totals are reported.                                           *)
(***************************************************************************)
EXTENDS Integers

CONSTANT Skip

VARIABLES instr, branches, correct, reported

vars == <<instr, branches, correct, reported>>

Init ==
  /\ instr = 0
  /\ branches = 0
  /\ correct = 0
  /\ reported = FALSE

Forget ==
  /\ ~reported
  /\ instr <= Skip
  /\ branches' = 0
  /\ correct' = 0
  /\ UNCHANGED <<instr, reported>>

Branch ==
  /\ ~reported
  /\ instr' = instr + 1
  /\ branches' = branches + 1
  /\ correct' \in {correct, correct + 1}
  /\ UNCHANGED reported

Other ==
  /\ ~reported
  /\ instr' = instr + 1
  /\ UNCHANGED <<branches, correct, reported>>

Report ==
  /\ ~reported
  /\ reported' = TRUE
  /\ UNCHANGED <<instr, branches, correct>>

Next == Forget \/ Branch \/ Other \/ Report

Spec == Init /\ [][Next]_vars

=============================================================================

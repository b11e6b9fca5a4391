------------------------ MODULE MCCorrelatedThreads ------------------------
(***************************************************************************)
(* The threads run the same program.                                       *)
(***************************************************************************)
EXTENDS CorrelatedThreads, TLC

AnyThread == Permutations(Threads)

=============================================================================

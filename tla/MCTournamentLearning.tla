------------------------ MODULE MCTournamentLearning ------------------------
(***************************************************************************)
(* Values for TLC: two addresses, printed 0x4ff and 0x524.  By themselves  *)
(* each hashes into every table; some paths of both overrun a table, also  *)
(* the last.                                                               *)
(***************************************************************************)
EXTENDS TournamentLearning

Printed == {<<48, 120, 52, 102, 102>>, <<48, 120, 53, 50, 52>>}

=============================================================================

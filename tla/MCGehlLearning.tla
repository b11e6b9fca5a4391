--------------------------- MODULE MCGehlLearning ---------------------------
(***************************************************************************)
(* Values for TLC: three addresses, printed 0x4f0, 0x4fa and 0x51f.  The   *)
(* last overruns table 0 and, after 0x4fa, table 1.                        *)
(***************************************************************************)
EXTENDS GehlLearning

Printed == {<<48, 120, 52, 102, 48>>, <<48, 120, 52, 102, 97>>, <<48, 120, 53, 49, 102>>}

=============================================================================

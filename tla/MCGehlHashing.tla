--------------------------- MODULE MCGehlHashing ---------------------------
(***************************************************************************)
(* Values for TLC: three addresses, printed 0x4f0, 0x4f6 and 0x51a.        *)
(***************************************************************************)
EXTENDS GehlHashing

Printed == {<<48, 120, 52, 102, 48>>, <<48, 120, 52, 102, 54>>, <<48, 120, 53, 49, 97>>}

=============================================================================

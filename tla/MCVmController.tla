--------------------------- MODULE MCVmController ---------------------------
(* Instances of VmController for TLC.                                      *)
EXTENDS VmController

CONSTANTS c1, c2, c3

=============================================================================

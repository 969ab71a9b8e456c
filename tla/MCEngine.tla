------------------------------ MODULE MCEngine ------------------------------
(* The instances of Engine that TLC checks.  Slots are used in ring order    *)
(* and liveness is checked with two callers of Stop: there is no symmetry.   *)
EXTENDS Engine
=============================================================================

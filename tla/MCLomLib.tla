------------------------------- MODULE MCLomLib -------------------------------
(* Instances of LomLib for TLC.                                             *)
EXTENDS LomLib, TLC

Symmetry == Permutations(Clients)
=============================================================================

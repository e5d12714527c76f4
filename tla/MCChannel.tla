----------------------------- MODULE MCChannel -----------------------------
(* Constants of the runs of Channel: instances are symmetric where no       *)
(* temporal property is checked.                                            *)
EXTENDS Channel, TLC

Symmetry == Permutations(Instances)
=============================================================================

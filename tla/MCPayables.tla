----------------------------- MODULE MCPayables -----------------------------
(* Constants of the runs of Payables: users, bills and batches are          *)
(* interchangeable, so the three sets are symmetric.                        *)
EXTENDS Payables, TLC

Symmetry == Permutations(User) \cup Permutations(Bill) \cup Permutations(Batch)
=============================================================================

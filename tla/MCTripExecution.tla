-------------------------- MODULE MCTripExecution --------------------------
(* Constants of the runs of TripExecution; users and keys are symmetric.    *)
EXTENDS TripExecution, TLC

Symmetry == Permutations(User) \cup Permutations(Key)
=============================================================================

---------------------------- MODULE MCReceivables ----------------------------
(* Constants of the run of Receivables; ids that are interchangeable are    *)
(* symmetric.                                                               *)
EXTENDS Receivables, TLC

Symmetry == Permutations(User) \cup Permutations(Trip) \cup Permutations(Invoice)
            \cup Permutations(Session)
=============================================================================

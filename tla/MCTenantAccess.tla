---------------------------- MODULE MCTenantAccess ----------------------------
(* Constants of the runs of TenantAccess: sessions are symmetric, and so    *)
(* are the members who are invited.                                         *)
EXTENDS TenantAccess, TLC

Symmetry == Permutations(Sessions) \cup Permutations(Members \ {Founder})
=============================================================================

----------------------------- MODULE MCAdminAuth -----------------------------
(* AdminAuth with claims for different user names.  Claims differ in nothing *)
(* but their names, and resets in nothing at all.                            *)
EXTENDS AdminAuth, TLC

MCUsername == [c \in Claimers |-> c]
Symmetry == Permutations(Claimers) \cup Permutations(Resetters)
=============================================================================

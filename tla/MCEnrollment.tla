---------------------------- MODULE MCEnrollment ----------------------------
(* Enrollment for TLC: hosts and requests are interchangeable.              *)
EXTENDS Enrollment, TLC

Symmetry == Permutations(Hosts) \cup Permutations(Requests)
=============================================================================

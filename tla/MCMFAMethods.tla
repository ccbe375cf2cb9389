---------------------------- MODULE MCMFAMethods ----------------------------
(* Symmetry of the TLC instance of MFAMethods. *)
EXTENDS MFAMethods, TLC

Symmetric == Permutations(Requests) \cup Permutations(Users) \cup Permutations(Codes)
=============================================================================

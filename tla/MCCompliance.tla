--------------------------- MODULE MCCompliance ---------------------------
(* Symmetry of the TLC instance of Compliance. *)
EXTENDS Compliance, TLC

SlotSymmetry == Permutations(Ids) \cup Permutations(Requests) \cup Permutations(Tenants)
=============================================================================

------------------------- MODULE MCIdentityProvider -------------------------
(* Parameter values of the TLC instance of IdentityProvider. *)
EXTENDS IdentityProvider, TLC

Symmetric == Permutations(Requests) \cup Permutations(Tenants) \cup Permutations(Scopes)
=============================================================================

--------------------------- MODULE MCTenantSignup ---------------------------
(* Parameter values of the TLC instance of TenantSignup. *)
EXTENDS TenantSignup, TLC

Symmetric == Permutations(Signups) \cup Permutations(IPs)
=============================================================================

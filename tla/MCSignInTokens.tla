--------------------------- MODULE MCSignInTokens ---------------------------
(* Parameter values of the TLC instance of SignInTokens. *)
EXTENDS SignInTokens, TLC

CONSTANTS t1, t2, p1, r1, r2

Owners == [p \in Providers |-> IF p = p1 THEN t1 ELSE t2]

Symmetric == Permutations({r1, r2})
=============================================================================

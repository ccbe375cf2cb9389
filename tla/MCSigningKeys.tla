--------------------------- MODULE MCSigningKeys ---------------------------
(* Parameter values of the TLC instances of SigningKeys. *)
EXTENDS SigningKeys

CONSTANT n1

OnFirst == [r \in Requests |-> n1]
=============================================================================

-------------------------- MODULE MCAuthzStaleness --------------------------
(* The TLC instances of AuthzStaleness use the parameters of MCAuthz. *)
EXTENDS AuthzStaleness, MCAuthz

NoTeams == [g \in Teams |-> t1]

(* What the functions match: one pair, a tenant's, all, and nothing. *)
PatternScopes ==
  {{pair} : pair \in Pairs} \cup {Users \X {t} : t \in Tenants} \cup {Pairs, {}}
=============================================================================

------------------------------ MODULE MCAuthz ------------------------------
(* Parameter values and bounds of the TLC instances of Authz. *)
EXTENDS Authz, FiniteSets, TLC

CONSTANTS t1, t2,                        \* tenants
          allowing, denying, brokenRego  \* policies

PolicyOwner == [p \in Policies |-> t1]
Answers == [p \in Policies |-> IF p = allowing THEN "allow"
                               ELSE IF p = denying THEN "deny" ELSE "broken"]

(* How many rows there are in the tables. *)
Rows ==
  Cardinality({<<u, t>> \in Users \X Tenants : memberships[u][t] # NoRow})
    + Cardinality({<<u, g>> \in Users \X Teams : teamMemberships[u][g] # NoRow})
    + Cardinality({<<t, s>> \in Tenants \X Subjects : acl[t][s] # "none"})
    + Cardinality({p \in Policies : policies[p] # "absent"})
=============================================================================

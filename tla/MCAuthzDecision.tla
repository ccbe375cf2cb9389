-------------------------- MODULE MCAuthzDecision --------------------------
(***************************************************************************)
(* The TLC instance of AuthzDecision: one check over two tenants with a    *)
(* team each, of which only the tables of one of three shapes are explored. *)
(***************************************************************************)
EXTENDS AuthzDecision, MCAuthz

CONSTANTS u1, g1, g2,     \* the user, a team of t1, a team of t2
          editor, viewer  \* a role of Granting, a role that grants nothing

Homes == [g \in Teams |-> IF g = g1 THEN t1 ELSE t2]

RoleRows ==
  {memberships[u1][t] : t \in Tenants} \cup {teamMemberships[u1][g] : g \in Teams}

(* All five layers of t1; no role is RBAC's business. *)
AllLayers ==
  /\ memberships[u1][t2] = NoRow /\ teamMemberships[u1][g2] = NoRow
  /\ \A s \in Subjects : acl[t2][s] = "none"
  /\ \A s \in {editor, g2} : acl[t1][s] = "none"
  /\ \A row \in RoleRows : editor \notin row
  /\ policies[brokenRego] = "absent"

(* RBAC and foreign rows: the only team is one of t2. *)
BothTenants ==
  /\ teamMemberships[u1][g1] = NoRow
  /\ \A t \in Tenants, s \in {g1, viewer} : acl[t][s] = "none"
  /\ \A row \in RoleRows : viewer \notin row
  /\ policies[allowing] = "absent"

(* Of these, the larger tables list entries of the user only. *)
UserEntries ==
  /\ \A t \in Tenants, s \in {g2, editor} : acl[t][s] = "none"
  /\ policies[brokenRego] = "absent"

MostRows == IF AllLayers THEN 4 ELSE IF UserEntries THEN 3 ELSE 2

(* No decision of an earlier check is cached. *)
EmptyCache == \A u \in Users, t \in Tenants : cache[u][t] = NoEntry

(* Bound: a fact changes while a check reads the tables, at most one, and a *)
(* change counts as a row.                                                  *)
Changes == Cardinality(UNION {seen[c].some \ seen[c].all : c \in Checks})

(* The bounds stand in the guard of Next, where they come before the history. *)
MCNext ==
  /\ Next
  /\ (AllLayers \/ BothTenants)' /\ (Rows <= MostRows)' /\ EmptyCache'
  /\ Observe
  /\ (Changes <= 1)' /\ (Rows + Changes <= MostRows)'

MCSpec == DecisionInit /\ [][MCNext]_<<vars, seen>>
=============================================================================

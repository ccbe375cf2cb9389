--------------------------- MODULE AuthzDecision ---------------------------
(***************************************************************************)
(* What one authorization check may answer while the tables change under   *)
(* it.  The history variable seen[c] holds the facts about the user and    *)
(* tenant of check c that were true at some moment, and at every moment,   *)
(* from its beginning to its decision.                                     *)
(***************************************************************************)
EXTENDS Authz

(* A fact says by its first component what it is about. *)
ASSUME FactParameters ==
  /\ Tenants \cap Subjects = {} /\ {"allow", "deny"} \cap Roles = {}
  /\ {"member", "in", "active"} \cap (Tenants \cup Subjects) = {}

VARIABLE seen

(* What the tables say about user u in tenant t, fact by fact. *)
Facts(u, t) ==
  LET row == IF memberships[u][t] = NoRow THEN {} ELSE memberships[u][t]
  IN
  (IF memberships[u][t] = NoRow THEN {} ELSE {<<"member", t>>})
    \cup ({t} \X row)
    \cup ({"in"} \X TeamsIn(u, t))
    \cup (UNION {{g} \X teamMemberships[u][g] : g \in TeamsIn(u, t)})
    \cup {<<s, acl[t][s]>> : s \in {s \in Subjects : acl[t][s] # "none"}}
    \cup ({"active"} \X Active(t))

TrueNow == [u \in Users |-> [t \in Tenants |-> Facts(u, t)]]

NothingSeen == [some |-> {}, all |-> {}]

Observe ==
  seen' = [c \in Checks |->
    IF check'[c].step \in {"idle", "done"} THEN NothingSeen
    ELSE IF check[c].step = "store" THEN seen[c]
    ELSE LET u   == check'[c].user
             t   == check'[c].tenant
             old == IF check[c].step = "idle"
                      THEN [some |-> Facts(u, t), all |-> Facts(u, t)]
                      ELSE seen[c]
             now == TrueNow'[u][t]
         IN [some |-> old.some \cup now, all |-> old.all \cap now]]

DecisionInit == Init /\ seen = [c \in Checks |-> NothingSeen]

DecisionSpec == DecisionInit /\ [][Next /\ Observe]_<<vars, seen>>

-----------------------------------------------------------------------------
(* Some row gives role r, going by the facts f. *)
Holds(r, f) == \E row \in Tenants \cup Teams : <<row, r>> \in f

(* The layer has something to say to user u. *)
Speaks(layer, u, f) ==
  CASE layer = "rbac" -> \E r \in Granting : Holds(r, f)
    [] layer = "user" -> \E e \in {"allow", "deny"} : <<u, e>> \in f
    [] layer = "team" -> \E g \in Teams, e \in {"allow", "deny"} :
                           <<"in", g>> \in f /\ <<g, e>> \in f
    [] layer = "role" -> \E r \in Roles, e \in {"allow", "deny"} :
                           Holds(r, f) /\ <<r, e>> \in f
    [] layer = "abac" -> \E p \in Policies : <<"active", p>> \in f
    [] layer = "none" -> FALSE

Decided(c) == check[c].step = "store"

(* Every decision rests on rows of the tenant asked about that were in force *)
(* during the check: the membership, and what the deciding layer says it     *)
(* found.  No grant of another tenant decides.                               *)
DecisionsJustified ==
  \A c \in Checks : Decided(c) =>
    LET f  == seen[c].some
        e  == Effect(check[c].result.allowed)
        by == check[c].result.by
    IN
    /\ <<"member", check[c].tenant>> \in f
    /\ by = "rbac" => e = "allow" /\ Speaks("rbac", check[c].user, f)
    /\ by = "user" => <<check[c].user, e>> \in f
    /\ by = "team" => \E g \in Teams : {<<"in", g>>, <<g, e>>} \subseteq f
    /\ by = "role" => \E r \in Roles : Holds(r, f) /\ <<r, e>> \in f
    /\ by = "abac" => \E p \in Policies : <<"active", p>> \in f /\ Verdict[p] = e
    /\ by = "none" => e = "deny"

(* "Evaluates RBAC -> ACL -> ABAC" (PRD 6): a layer that had something to    *)
(* say from the first to the last moment of a check is overruled only by a   *)
(* layer before it, unless an error hid a row.                               *)
LayersInOrder ==
  \A c \in Checks : Decided(c) /\ ~check[c].lost =>
    \A i, j \in DOMAIN Layers :
      /\ check[c].result.by = Layers[i]
      /\ Speaks(Layers[j], check[c].user, seen[c].all)
      => i <= j
=============================================================================

---------------------------- MODULE AuthzProofs ----------------------------
(***************************************************************************)
(* Authorization checks, for any number of users, tenants, teams, roles,   *)
(* policies and checks.                                                    *)
(*                                                                         *)
(* AuthzDecision: a decision rests on rows that were in force during the   *)
(* check, and the layers are asked in their order.  Neither is inductive.  *)
(* Justified(c) says what the check has so far: the roles, teams and       *)
(* policies in its hands were seen in the tables.  Ordered(c) says what it *)
(* has left behind: as long as nothing was lost, a layer that was passed   *)
(* over has nothing to say by the facts that held all the time, and what a *)
(* layer may still find is on the list of what the loop has left.          *)
(*                                                                         *)
(* AuthzStaleness: a cached allow is old in bounds, and a sweep leaves no  *)
(* allow but a late one.  Fresh(c) says that what the check has in its     *)
(* hands was in the tables when its request began or since, and that it    *)
(* runs since before the keys were listed if it was swept meanwhile.       *)
(* Kept(u, t) says the same of the entry, which counts from the beginning  *)
(* of the check that stored it.                                            *)
(***************************************************************************)
EXTENDS AuthzDecision, AuthzStaleness, TLAPS

Slot ==
  [kind : {"check", "dryRun"}, user : Users \cup {None}, tenant : Tenants \cup {None},
   step : Steps, own : SUBSET Roles, roles : SUBSET Roles,
   todo : SUBSET (Teams \cup Roles \cup Policies), result : Results,
   hit : BOOLEAN, lost : BOOLEAN]

Entry == [result : Results, age : 0..TTL, took : 0..Patience]

(* The steps after the lookup of the membership, and those after RBAC. *)
Layered == {"userAcl", "teamList", "teamAcl", "roleAcl", "policies", "abac"}
Reading == {"membership", "teams"} \cup Layered

TablesOK ==
  /\ memberships \in [Users -> [Tenants -> RoleRowsOf]]
  /\ teamMemberships \in [Users -> [Teams -> RoleRowsOf]]
  /\ acl \in [Tenants -> [Subjects -> {"none", "allow", "deny"}]]
  /\ policies \in [Policies -> {"absent", "inactive", "active", "deleted"}]

SlotOK(s) ==
  /\ s \in Slot
  /\ s.step # "idle" => s.user \in Users /\ s.tenant \in Tenants
  /\ s.own \subseteq s.roles

(* What decision result of a check of user u in tenant t needs of the facts f. *)
Rests(result, u, t, f) ==
  LET e == Effect(result.allowed)
  IN
  /\ <<"member", t>> \in f
  /\ result.by = "rbac" => e = "allow" /\ Speaks("rbac", u, f)
  /\ result.by = "user" => <<u, e>> \in f
  /\ result.by = "team" => \E g \in Teams : {<<"in", g>>, <<g, e>>} \subseteq f
  /\ result.by = "role" => \E r \in Roles : Holds(r, f) /\ <<r, e>> \in f
  /\ result.by = "abac" => \E p \in Policies : <<"active", p>> \in f /\ Verdict[p] = e
  /\ result.by = "none" => e = "deny"

(* Slot value s, of a check that has seen f at some time. *)
Justified(s, f) ==
  /\ s.step \in {"teams"} \cup Layered =>
       <<"member", s.tenant>> \in f /\ \A r \in s.roles : Holds(r, f)
  /\ s.step = "teamAcl" => s.todo \subseteq Teams /\ \A g \in s.todo : <<"in", g>> \in f
  /\ s.step = "roleAcl" => s.todo \subseteq s.roles
  /\ s.step = "abac" => s.todo \subseteq Policies /\ \A p \in s.todo : <<"active", p>> \in f
  /\ s.step = "store" => Rests(s.result, s.user, s.tenant, f)

(* Somebody's entry says something. *)
HasEntry(s, f) == \E e \in {"allow", "deny"} : <<s, e>> \in f

(* Slot value s, of a check during which f held all the time. *)
Ordered(s, f) ==
  /\ s.step = "membership" => ~s.lost
  /\ s.step = "teams" => ~s.lost /\ \A t \in Tenants, r \in Roles : <<t, r>> \in f => r \in s.own
  /\ ~s.lost =>
       /\ s.step \in Layered =>
            ~Speaks("rbac", s.user, f) /\ \A r \in Roles : Holds(r, f) => r \in s.roles
       /\ s.step \in Layered \ {"userAcl"} => ~Speaks("user", s.user, f)
       /\ s.step = "teamAcl" =>
            \A g \in Teams : <<"in", g>> \in f /\ HasEntry(g, f) => g \in s.todo
       /\ s.step \in {"roleAcl", "policies", "abac"} => ~Speaks("team", s.user, f)
       /\ s.step = "roleAcl" =>
            \A r \in Roles : Holds(r, f) /\ HasEntry(r, f) => r \in s.todo
       /\ s.step \in {"policies", "abac"} => ~Speaks("role", s.user, f)
       /\ s.step = "store" =>
            \A i, j \in DOMAIN Layers :
              s.result.by = Layers[i] /\ Speaks(Layers[j], s.user, f) => i <= j

ChecksOK ==
  \A c \in Checks : Justified(check[c], seen[c].some) /\ Ordered(check[c], seen[c].all)

DecisionInvariant == TypeOK /\ ChecksOK

-----------------------------------------------------------------------------
(* Facts about the parts. *)

LEMMA TypeParts ==
  TypeOK <=> /\ TablesOK
             /\ prepared \in SUBSET Policies
             /\ cache \in [Users -> [Tenants -> Entry]]
             /\ check \in [Checks -> Slot] /\ \A c \in Checks : SlotOK(check[c])
             /\ age \in [Checks -> 0..Patience]
BY DEF TypeOK, TablesOK, Entry, Slot, SlotOK

LEMMA LayerNames ==
  /\ DOMAIN Layers = 1..6
  /\ Layers[1] = "rbac" /\ Layers[2] = "user" /\ Layers[3] = "team"
  /\ Layers[4] = "role" /\ Layers[5] = "abac" /\ Layers[6] = "none"
BY DEF Layers

LEMMA ResultTypes ==
  /\ Results = [allowed : BOOLEAN, by : {"rbac", "user", "team", "role", "abac", "none"}]
  /\ DefaultDeny \in Results
<1>1. {Layers[i] : i \in DOMAIN Layers} = {"rbac", "user", "team", "role", "abac", "none"}
  <2>1. \A i \in 1..6 : i = 1 \/ i = 2 \/ i = 3 \/ i = 4 \/ i = 5 \/ i = 6
    OBVIOUS
  <2> QED
    BY <2>1, LayerNames
<1> QED
  BY <1>1 DEF Results, DefaultDeny

LEMMA Speaking ==
  ASSUME NEW u, NEW f
  PROVE  /\ Speaks("rbac", u, f) <=> \E r \in Granting : Holds(r, f)
         /\ Speaks("user", u, f) <=> HasEntry(u, f)
         /\ Speaks("team", u, f) <=> \E g \in Teams : <<"in", g>> \in f /\ HasEntry(g, f)
         /\ Speaks("role", u, f) <=> \E r \in Roles : Holds(r, f) /\ HasEntry(r, f)
         /\ Speaks("abac", u, f) <=> \E p \in Policies : <<"active", p>> \in f
         /\ ~Speaks("none", u, f)
BY DEF Speaks, HasEntry

LEMMA HoldsMore ==
  ASSUME NEW f, NEW g, f \subseteq g
  PROVE  /\ \A r : Holds(r, f) => Holds(r, g)
         /\ \A s : HasEntry(s, f) => HasEntry(s, g)
BY DEF Holds, HasEntry

(* More facts, and every layer says at least as much. *)
LEMMA SpeaksMore ==
  ASSUME NEW f, NEW g, f \subseteq g, NEW u
  PROVE  \A i \in 1..6 : Speaks(Layers[i], u, f) => Speaks(Layers[i], u, g)
<1>1. /\ \A r : Holds(r, f) => Holds(r, g)
      /\ \A s : HasEntry(s, f) => HasEntry(s, g)
  BY HoldsMore
<1> SUFFICES ASSUME NEW i \in 1..6, Speaks(Layers[i], u, f)
             PROVE  Speaks(Layers[i], u, g)
  OBVIOUS
<1>2. CASE i = 1
  BY <1>1, <1>2, LayerNames, Speaking
<1>3. CASE i = 2
  BY <1>1, <1>3, LayerNames, Speaking
<1>4. CASE i = 3
  BY <1>1, <1>4, LayerNames, Speaking
<1>5. CASE i = 4
  BY <1>1, <1>5, LayerNames, Speaking
<1>6. CASE i = 5
  BY <1>1, <1>6, LayerNames, Speaking
<1>7. CASE i = 6
  BY <1>1, <1>7, LayerNames, Speaking
<1> QED
  BY <1>2, <1>3, <1>4, <1>5, <1>6, <1>7

(* What a check rests on stays seen, and what it passed over stays silent. *)
LEMMA StaysJustified ==
  ASSUME NEW s, NEW f, NEW g, f \subseteq g, Justified(s, f)
  PROVE  Justified(s, g)
<1>1. /\ \A r : Holds(r, f) => Holds(r, g)
      /\ Speaks("rbac", s.user, f) => Speaks("rbac", s.user, g)
  BY HoldsMore, Speaking
<1>2. Rests(s.result, s.user, s.tenant, f) => Rests(s.result, s.user, s.tenant, g)
  BY <1>1 DEF Rests
<1> QED
  BY <1>1, <1>2 DEF Justified

LEMMA StaysOrdered ==
  ASSUME NEW s, NEW f, NEW g, g \subseteq f, Ordered(s, f)
  PROVE  Ordered(s, g)
<1>1. /\ \A r : Holds(r, g) => Holds(r, f)
      /\ \A e : HasEntry(e, g) => HasEntry(e, f)
  BY HoldsMore
<1>2. \A i \in 1..6 : Speaks(Layers[i], s.user, g) => Speaks(Layers[i], s.user, f)
  BY SpeaksMore
<1>3. /\ Speaks("rbac", s.user, g) => Speaks("rbac", s.user, f)
      /\ Speaks("user", s.user, g) => Speaks("user", s.user, f)
      /\ Speaks("team", s.user, g) => Speaks("team", s.user, f)
      /\ Speaks("role", s.user, g) => Speaks("role", s.user, f)
  BY <1>1, Speaking
<1> QED
  BY <1>1, <1>2, <1>3, LayerNames DEF Ordered

-----------------------------------------------------------------------------
(* What the facts say of the tables. *)

(* The facts are of six sorts. *)
MemberFacts(u, t) == IF memberships[u][t] = NoRow THEN {} ELSE {<<"member", t>>}
RoleFacts(u, t) == {t} \X (IF memberships[u][t] = NoRow THEN {} ELSE memberships[u][t])
TeamFacts(u, t) == {"in"} \X TeamsIn(u, t)
TeamRoleFacts(u, t) == UNION {{g} \X teamMemberships[u][g] : g \in TeamsIn(u, t)}
EntryFacts(t) == {<<s, acl[t][s]>> : s \in {s \in Subjects : acl[t][s] # "none"}}
PolicyFacts(t) == {"active"} \X Active(t)

LEMMA FactSorts ==
  ASSUME NEW u, NEW t
  PROVE  Facts(u, t) = MemberFacts(u, t) \cup RoleFacts(u, t) \cup TeamFacts(u, t)
                         \cup TeamRoleFacts(u, t) \cup EntryFacts(t) \cup PolicyFacts(t)
BY DEF Facts, MemberFacts, RoleFacts, TeamFacts, TeamRoleFacts, EntryFacts, PolicyFacts

LEMMA SortOfFact ==
  ASSUME NEW u, NEW t, NEW a, NEW b, <<a, b>> \in Facts(u, t)
  PROVE  \/ memberships[u][t] # NoRow /\ a = "member" /\ b = t
         \/ memberships[u][t] # NoRow /\ a = t /\ b \in memberships[u][t]
         \/ a = "in" /\ b \in TeamsIn(u, t)
         \/ a \in TeamsIn(u, t) /\ b \in teamMemberships[u][a]
         \/ a \in Subjects /\ acl[t][a] # "none" /\ b = acl[t][a]
         \/ a = "active" /\ b \in Active(t)
<1>1. CASE <<a, b>> \in MemberFacts(u, t)
  BY <1>1 DEF MemberFacts
<1>2. CASE <<a, b>> \in RoleFacts(u, t)
  BY <1>2 DEF RoleFacts
<1>3. CASE <<a, b>> \in TeamFacts(u, t)
  BY <1>3 DEF TeamFacts
<1>4. CASE <<a, b>> \in TeamRoleFacts(u, t)
  BY <1>4 DEF TeamRoleFacts
<1>5. CASE <<a, b>> \in EntryFacts(t)
  BY <1>5 DEF EntryFacts
<1>6. CASE <<a, b>> \in PolicyFacts(t)
  BY <1>6 DEF PolicyFacts
<1> QED
  BY <1>1, <1>2, <1>3, <1>4, <1>5, <1>6, FactSorts

LEMMA FactsOfTables ==
  ASSUME NEW u, NEW t
  PROVE  /\ memberships[u][t] # NoRow => <<"member", t>> \in Facts(u, t)
         /\ memberships[u][t] # NoRow =>
              \A r \in memberships[u][t] : <<t, r>> \in Facts(u, t)
         /\ \A g \in TeamsIn(u, t) : <<"in", g>> \in Facts(u, t)
         /\ \A g \in TeamsIn(u, t) : \A r \in teamMemberships[u][g] :
              <<g, r>> \in Facts(u, t)
         /\ \A s \in Subjects : acl[t][s] # "none" => <<s, acl[t][s]>> \in Facts(u, t)
         /\ \A p \in Active(t) : <<"active", p>> \in Facts(u, t)
<1>1. memberships[u][t] # NoRow => <<"member", t>> \in MemberFacts(u, t)
  BY DEF MemberFacts
<1>2. memberships[u][t] # NoRow => \A r \in memberships[u][t] : <<t, r>> \in RoleFacts(u, t)
  BY DEF RoleFacts
<1>3. \A g \in TeamsIn(u, t) : <<"in", g>> \in TeamFacts(u, t)
  BY DEF TeamFacts
<1>4. \A g \in TeamsIn(u, t) : \A r \in teamMemberships[u][g] : <<g, r>> \in TeamRoleFacts(u, t)
  BY DEF TeamRoleFacts
<1>5. \A s \in Subjects : acl[t][s] # "none" => <<s, acl[t][s]>> \in EntryFacts(t)
  BY DEF EntryFacts
<1>6. \A p \in Active(t) : <<"active", p>> \in PolicyFacts(t)
  BY DEF PolicyFacts
<1> QED
  BY <1>1, <1>2, <1>3, <1>4, <1>5, <1>6, FactSorts

LEMMA RowRoles ==
  ASSUME NEW row \in RoleRowsOf, row # NoRow
  PROVE  row \subseteq Roles
BY DEF RoleRowsOf

(* A fact of a sort was read from the table of that sort. *)
LEMMA TablesOfFacts ==
  ASSUME TablesOK, NEW u \in Users, NEW t \in Tenants
  PROVE  /\ \A g : <<"in", g>> \in Facts(u, t) => g \in TeamsIn(u, t)
         /\ \A p : <<"active", p>> \in Facts(u, t) => p \in Active(t)
         /\ \A s \in Subjects : \A e \in {"allow", "deny"} :
              <<s, e>> \in Facts(u, t) => acl[t][s] = e
         /\ \A q \in Tenants, r \in Roles :
              <<q, r>> \in Facts(u, t) => r \in memberships[u][t]
         /\ \A g \in Teams, r \in Roles :
              <<g, r>> \in Facts(u, t) => g \in TeamsIn(u, t) /\ r \in teamMemberships[u][g]
<1> USE FactParameters
<1>1. \A s \in Tenants \cup Subjects : s \notin {"member", "in", "active"}
  OBVIOUS
<1>2. TeamsIn(u, t) \subseteq Teams /\ Teams \subseteq Subjects
  BY DEF TeamsIn, Subjects
<1>3. \A s \in Subjects : s # t
  OBVIOUS
<1>4. \A g : <<"in", g>> \in Facts(u, t) => g \in TeamsIn(u, t)
  <2> SUFFICES ASSUME NEW g, <<"in", g>> \in Facts(u, t)
               PROVE  g \in TeamsIn(u, t)
    OBVIOUS
  <2> QED
    BY <1>1, <1>2, SortOfFact
<1>5. \A p : <<"active", p>> \in Facts(u, t) => p \in Active(t)
  <2> SUFFICES ASSUME NEW p, <<"active", p>> \in Facts(u, t)
               PROVE  p \in Active(t)
    OBVIOUS
  <2> QED
    BY <1>1, <1>2, SortOfFact
<1>6. ASSUME NEW s \in Subjects, NEW e \in {"allow", "deny"}, <<s, e>> \in Facts(u, t)
      PROVE  acl[t][s] = e
  <2>1. ~(s \in TeamsIn(u, t) /\ e \in teamMemberships[u][s])
    <3> SUFFICES ASSUME s \in TeamsIn(u, t), e \in teamMemberships[u][s] PROVE FALSE
      OBVIOUS
    <3>1. teamMemberships[u][s] \in RoleRowsOf /\ teamMemberships[u][s] # NoRow
      BY DEF TablesOK, TeamsIn
    <3> QED
      BY <3>1, RowRoles
  <2> QED
    BY <1>1, <1>3, <1>6, <2>1, SortOfFact
<1>7. ASSUME NEW q \in Tenants, NEW r \in Roles, <<q, r>> \in Facts(u, t)
      PROVE  r \in memberships[u][t]
  <2>1. q \notin Subjects
    OBVIOUS
  <2> QED
    BY <1>1, <1>2, <1>7, <2>1, SortOfFact
<1>8. ASSUME NEW g \in Teams, NEW r \in Roles, <<g, r>> \in Facts(u, t)
      PROVE  g \in TeamsIn(u, t) /\ r \in teamMemberships[u][g]
  <2>1. g \in Subjects /\ acl[t][g] \in {"none", "allow", "deny"}
    BY <1>2 DEF TablesOK
  <2> QED
    BY <1>1, <1>3, <1>8, <2>1, SortOfFact
<1> QED
  BY <1>4, <1>5, <1>6, <1>7, <1>8

LEMMA FactsStay ==
  ASSUME UNCHANGED tables, NEW u, NEW t
  PROVE  Facts(u, t)' = Facts(u, t)
BY DEF Facts, TeamsIn, Active, tables

-----------------------------------------------------------------------------
(* What a step of one check must establish. *)

LEMMA Quiet ==
  ASSUME NEW s, NEW f, NEW g,
         s.step \in {"idle", "done"} \/ (s.step = "membership" /\ ~s.lost)
  PROVE  Justified(s, f) /\ Ordered(s, g)
BY DEF Justified, Ordered, Layered

LEMMA NoRequest == SlotOK(Idle) /\ Idle.step = "idle"
<1>1. Idle \in Slot
  BY ResultTypes DEF Idle, Slot, Steps
<1> QED
  BY <1>1 DEF Idle, SlotOK

(* A check that does not move keeps what it has, whatever else changes. *)
LEMMA Unmoved ==
  ASSUME Observe, NEW d \in Checks, UNCHANGED check[d],
         Justified(check[d], seen[d].some), Ordered(check[d], seen[d].all)
  PROVE  (Justified(check[d], seen[d].some) /\ Ordered(check[d], seen[d].all))'
<1>1. CASE check[d].step \in {"idle", "done"}
  BY <1>1, Quiet
<1>2. CASE check[d].step \notin {"idle", "done"}
  <2>1. seen[d].some \subseteq seen'[d].some /\ seen'[d].all \subseteq seen[d].all
    BY <1>2 DEF Observe
  <2>2. Justified(check[d], seen'[d].some)
    BY <2>1, StaysJustified
  <2>3. Ordered(check[d], seen'[d].all)
    BY <2>1, StaysOrdered
  <2> QED
    BY <2>2, <2>3
<1> QED
  BY <1>1, <1>2

(* One slot moves. *)
LEMMA Move ==
  ASSUME DecisionInvariant, Observe, NEW CONSTANT c \in Checks, NEW CONSTANT s,
         check' = [check EXCEPT ![c] = s],
         SlotOK(s), Justified(s, seen'[c].some), Ordered(s, seen'[c].all),
         TablesOK', prepared' \in SUBSET Policies,
         cache' \in [Users -> [Tenants -> Entry]], age' \in [Checks -> 0..Patience]
  PROVE  DecisionInvariant'
<1>1. check \in [Checks -> Slot] /\ \A d \in Checks : SlotOK(check[d])
  BY TypeParts DEF DecisionInvariant
<1>2. /\ check'[c] = s
      /\ \A d \in Checks : d # c => check'[d] = check[d]
  BY <1>1
<1>3. s \in Slot
  BY DEF SlotOK
<1>4. check' \in [Checks -> Slot]
  BY <1>1, <1>3
<1>5. \A d \in Checks : SlotOK(check'[d])
  BY <1>1, <1>2
<1>6. TypeOK'
  BY <1>4, <1>5 DEF TypeOK, TablesOK, Entry, Slot, SlotOK
<1>7. ASSUME NEW d \in Checks
      PROVE  (Justified(check[d], seen[d].some) /\ Ordered(check[d], seen[d].all))'
  <2>1. CASE d = c
    BY <1>2, <2>1
  <2>2. CASE d # c
    BY <1>2, <2>2, Unmoved DEF DecisionInvariant, ChecksOK
  <2> QED
    BY <2>1, <2>2
<1> QED
  BY <1>6, <1>7 DEF DecisionInvariant, ChecksOK

(* What a reading check has when it reads. *)
LEMMA AtReading ==
  ASSUME DecisionInvariant, NEW CONSTANT c \in Checks, check[c].step \in Reading
  PROVE  /\ SlotOK(check[c]) /\ check[c] \in Slot
         /\ check[c].user \in Users /\ check[c].tenant \in Tenants
         /\ TablesOK /\ prepared \in SUBSET Policies
         /\ LET F == Facts(check[c].user, check[c].tenant)
            IN /\ Justified(check[c], seen[c].some \cup F)
               /\ Ordered(check[c], seen[c].all \cap F)
<1>1. /\ SlotOK(check[c])
      /\ TablesOK /\ prepared \in SUBSET Policies
  BY TypeParts DEF DecisionInvariant
<1>2. check[c].step # "idle"
  BY DEF Reading, Layered
<1>3. Justified(check[c], seen[c].some) /\ Ordered(check[c], seen[c].all)
  BY DEF DecisionInvariant, ChecksOK
<1>4. Justified(check[c], seen[c].some \cup Facts(check[c].user, check[c].tenant))
  BY <1>3, StaysJustified
<1>5. Ordered(check[c], seen[c].all \cap Facts(check[c].user, check[c].tenant))
  BY <1>3, StaysOrdered
<1> QED
  BY <1>1, <1>2, <1>4, <1>5 DEF SlotOK

(* A check reads a table: what it saw now counts as seen. *)
LEMMA Read ==
  ASSUME DecisionInvariant, Observe, NEW CONSTANT c \in Checks, NEW CONSTANT s,
         check[c].step \in Reading, check' = [check EXCEPT ![c] = s],
         SlotOK(s), s.step \notin {"idle", "done"},
         s.user = check[c].user, s.tenant = check[c].tenant,
         Justified(s, seen[c].some \cup Facts(check[c].user, check[c].tenant)),
         Ordered(s, seen[c].all \cap Facts(check[c].user, check[c].tenant)),
         prepared' \in SUBSET Policies, UNCHANGED <<tables, cache, age>>
  PROVE  DecisionInvariant'
<1>1. PICK u, t : u = check[c].user /\ t = check[c].tenant
  OBVIOUS
<1>2. check'[c] = s
  BY TypeParts DEF DecisionInvariant
<1>3. TrueNow'[u][t] = Facts(u, t)
  <2>1. u \in Users /\ t \in Tenants
    BY <1>1, AtReading
  <2>2. Facts(u, t)' = Facts(u, t)
    BY FactsStay
  <2>3. TrueNow'[u][t] = Facts(u, t)'
    BY <2>1 DEF TrueNow
  <2> QED
    BY <2>2, <2>3
<1>4. check[c].step \notin {"idle", "store"}
  BY DEF Reading, Layered
<1>5. /\ seen'[c].some = seen[c].some \cup Facts(u, t)
      /\ seen'[c].all = seen[c].all \cap Facts(u, t)
  BY <1>1, <1>2, <1>3, <1>4 DEF Observe
<1>6. Justified(s, seen'[c].some) /\ Ordered(s, seen'[c].all)
  BY <1>1, <1>5
<1>7. TablesOK' /\ cache' \in [Users -> [Tenants -> Entry]] /\ age' \in [Checks -> 0..Patience]
  BY TypeParts DEF DecisionInvariant, TablesOK, tables
<1> QED
  BY <1>2, <1>6, <1>7, Move

(* A check gives up or answers. *)
LEMMA Aborted ==
  ASSUME DecisionInvariant, Observe, NEW CONSTANT c \in Checks, Abort(c),
         UNCHANGED <<tables, prepared, cache>>, age' \in [Checks -> 0..Patience]
  PROVE  DecisionInvariant'
<1>1. PICK s : s = Idle
  OBVIOUS
<1>2. SlotOK(s) /\ s.step = "idle" /\ check' = [check EXCEPT ![c] = s]
  BY <1>1, NoRequest DEF Abort
<1>3. Justified(s, seen'[c].some) /\ Ordered(s, seen'[c].all)
  BY <1>2, Quiet
<1>4. TablesOK' /\ prepared' \in SUBSET Policies /\ cache' \in [Users -> [Tenants -> Entry]]
  BY TypeParts DEF DecisionInvariant, TablesOK, tables
<1> QED
  BY <1>2, <1>3, <1>4, Move

-----------------------------------------------------------------------------
(* The steps of a check. *)

(* A fresh request starts with the cached decision or with nothing. *)
LEMMA Starting ==
  ASSUME TypeOK, NEW CONSTANT c \in Checks,
         NEW kind \in Kinds, NEW u \in Users, NEW t \in Tenants, StartCheck(c, kind, u, t)
  PROVE  \E s : /\ check' = [check EXCEPT ![c] = s] /\ SlotOK(s)
                /\ s.step = "done" \/ (s.step = "membership" /\ ~s.lost)
<1>1. kind \in {"check", "dryRun"} /\ cache[u][t].result \in Results
  BY TypeParts, CheckParameters DEF Entry
<1>2. CASE check' = [check EXCEPT ![c] = [[Idle EXCEPT !.kind = kind, !.user = u, !.tenant = t]
                       EXCEPT !.step = "done", !.result = cache[u][t].result, !.hit = TRUE]]
  <2>1. PICK s : s = [[Idle EXCEPT !.kind = kind, !.user = u, !.tenant = t]
                        EXCEPT !.step = "done", !.result = cache[u][t].result, !.hit = TRUE]
    OBVIOUS
  <2>2. s = [kind |-> kind, user |-> u, tenant |-> t, step |-> "done", own |-> {}, roles |-> {},
             todo |-> {}, result |-> cache[u][t].result, hit |-> TRUE, lost |-> FALSE]
    BY <2>1 DEF Idle
  <2>3. SlotOK(s) /\ s.step = "done"
    BY <1>1, <2>2 DEF SlotOK, Slot, Steps
  <2> QED
    BY <1>2, <2>1, <2>3
<1>3. CASE check' = [check EXCEPT ![c] = [[Idle EXCEPT !.kind = kind, !.user = u, !.tenant = t]
                       EXCEPT !.step = "membership"]]
  <2>1. PICK s : s = [[Idle EXCEPT !.kind = kind, !.user = u, !.tenant = t]
                        EXCEPT !.step = "membership"]
    OBVIOUS
  <2>2. s = [kind |-> kind, user |-> u, tenant |-> t, step |-> "membership", own |-> {},
             roles |-> {}, todo |-> {}, result |-> DefaultDeny, hit |-> FALSE, lost |-> FALSE]
    BY <2>1 DEF Idle
  <2>3. SlotOK(s) /\ s.step = "membership" /\ ~s.lost
    BY <1>1, <2>2, ResultTypes DEF SlotOK, Slot, Steps
  <2> QED
    BY <1>3, <2>1, <2>3
<1> QED
  BY <1>2, <1>3 DEF StartCheck

LEMMA StartCheckKeeps ==
  ASSUME DecisionInvariant, Observe, NEW CONSTANT c \in Checks,
         NEW kind \in Kinds, NEW u \in Users, NEW t \in Tenants, StartCheck(c, kind, u, t)
  PROVE  DecisionInvariant'
<1>1. /\ TablesOK /\ prepared \in SUBSET Policies
      /\ cache \in [Users -> [Tenants -> Entry]] /\ age \in [Checks -> 0..Patience]
  BY TypeParts DEF DecisionInvariant
<1>2. TablesOK' /\ prepared' \in SUBSET Policies /\ cache' \in [Users -> [Tenants -> Entry]]
  BY <1>1 DEF StartCheck, TablesOK, tables
<1>3. age' \in [Checks -> 0..Patience]
  BY <1>1, CheckParameters DEF StartCheck
<1>4. PICK s : /\ check' = [check EXCEPT ![c] = s] /\ SlotOK(s)
               /\ s.step = "done" \/ (s.step = "membership" /\ ~s.lost)
  BY Starting DEF DecisionInvariant
<1>5. Justified(s, seen'[c].some) /\ Ordered(s, seen'[c].all)
  BY <1>4, Quiet
<1> QED
  BY <1>2, <1>3, <1>4, <1>5, Move

LEMMA AbortsInPlace ==
  ASSUME DecisionInvariant, Observe, NEW CONSTANT c \in Checks, Abort(c),
         UNCHANGED <<tables, prepared, cache, age>>
  PROVE  DecisionInvariant'
<1>1. age' \in [Checks -> 0..Patience]
  BY TypeParts DEF DecisionInvariant
<1> QED
  BY <1>1, Aborted

LEMMA ReadMembershipKeeps ==
  ASSUME DecisionInvariant, Observe, NEW CONSTANT c \in Checks, ReadMembership(c)
  PROVE  DecisionInvariant'
<1>1. CASE Abort(c)
  BY <1>1, AbortsInPlace DEF ReadMembership
<1>2. CASE ~Abort(c)
  <2> DEFINE u == check[c].user
             t == check[c].tenant
             row == memberships[u][t]
             f == seen[c].some \cup Facts(u, t)
             g == seen[c].all \cap Facts(u, t)
  <2>1. check[c].step = "membership" /\ check[c].step \in Reading
    BY DEF ReadMembership, Reading
  <2>2. /\ row # NoRow
        /\ check' = [check EXCEPT ![c].step = "teams", ![c].own = row, ![c].roles = row]
        /\ UNCHANGED <<tables, prepared, cache, age>>
    BY <1>2 DEF ReadMembership, FindMembership
  <2>3. /\ check[c] \in Slot /\ u \in Users /\ t \in Tenants
        /\ TablesOK /\ prepared \in SUBSET Policies
        /\ Ordered(check[c], g)
    BY <2>1, AtReading
  <2>4. row \subseteq Roles
    BY <2>2, <2>3, RowRoles DEF TablesOK
  <2>5. PICK s : s = [check[c] EXCEPT !.step = "teams", !.own = row, !.roles = row]
    OBVIOUS
  <2>6. check' = [check EXCEPT ![c] = s]
    BY <2>2, <2>5
  <2>7. /\ s.step = "teams" /\ s.own = row /\ s.roles = row
        /\ s.user = u /\ s.tenant = t /\ s.lost = check[c].lost
    BY <2>3, <2>5 DEF Slot
  <2>8. SlotOK(s)
    BY <2>3, <2>4, <2>5 DEF SlotOK, Slot, Steps
  <2>9. Justified(s, f)
    <3>1. <<"member", t>> \in f /\ \A r \in row : <<t, r>> \in f
      BY <2>2, FactsOfTables
    <3>2. \A r \in row : Holds(r, f)
      BY <2>3, <3>1 DEF Holds
    <3> QED
      BY <2>7, <3>1, <3>2 DEF Justified, Layered
  <2>10. Ordered(s, g)
    <3>1. ~s.lost
      BY <2>1, <2>3, <2>7 DEF Ordered
    <3>2. \A q \in Tenants, r \in Roles : <<q, r>> \in g => r \in row
      BY <2>3, TablesOfFacts
    <3> QED
      BY <2>7, <3>1, <3>2 DEF Ordered, Layered
  <2> QED
    BY <2>1, <2>2, <2>3, <2>6, <2>7, <2>8, <2>9, <2>10, Read
<1> QED
  BY <1>1, <1>2

(* What Pass and Decide make of the slot. *)
LEMMA Passing ==
  ASSUME TypeOK, NEW CONSTANT c \in Checks, check[c].step \in Reading,
         NEW step \in Steps, NEW todo \in SUBSET (Teams \cup Roles \cup Policies),
         NEW failed \in BOOLEAN, Pass(c, step, todo, failed)
  PROVE  \E s : /\ check' = [check EXCEPT ![c] = s] /\ SlotOK(s)
                /\ s.step = step /\ s.todo = todo /\ (~s.lost => ~check[c].lost /\ ~failed)
                /\ s.user = check[c].user /\ s.tenant = check[c].tenant
                /\ s.own = check[c].own /\ s.roles = check[c].roles
<1>1. SlotOK(check[c]) /\ check[c] \in Slot /\ check[c].user \in Users /\ check[c].tenant \in Tenants
  BY TypeParts DEF Reading, Layered, SlotOK
<1>2. PICK s : s = [check[c] EXCEPT !.step = step, !.todo = todo, !.lost = @ \/ failed]
  OBVIOUS
<1>3. check' = [check EXCEPT ![c] = s]
  BY <1>2 DEF Pass
<1>4. /\ s.step = step /\ s.todo = todo /\ (~s.lost => ~check[c].lost /\ ~failed)
      /\ s.user = check[c].user /\ s.tenant = check[c].tenant
      /\ s.own = check[c].own /\ s.roles = check[c].roles
  BY <1>1, <1>2 DEF Slot
<1>5. s \in Slot
  BY <1>1, <1>2 DEF Slot
<1>6. SlotOK(s)
  BY <1>1, <1>4, <1>5 DEF SlotOK
<1> QED
  BY <1>3, <1>4, <1>6

LEMMA Deciding ==
  ASSUME TypeOK, NEW CONSTANT c \in Checks, check[c].step \in Reading,
         NEW allowed \in BOOLEAN, NEW by \in {"rbac", "user", "team", "role", "abac", "none"},
         Decide(c, allowed, by)
  PROVE  \E s : /\ check' = [check EXCEPT ![c] = s] /\ SlotOK(s)
                /\ s.step = "store" /\ s.lost = check[c].lost
                /\ s.result = [allowed |-> allowed, by |-> by]
                /\ s.user = check[c].user /\ s.tenant = check[c].tenant
<1>1. SlotOK(check[c]) /\ check[c] \in Slot /\ check[c].user \in Users /\ check[c].tenant \in Tenants
  BY TypeParts DEF Reading, Layered, SlotOK
<1>2. PICK s : s = [check[c] EXCEPT !.step = "store", !.todo = {},
                                    !.result = [allowed |-> allowed, by |-> by]]
  OBVIOUS
<1>3. check' = [check EXCEPT ![c] = s]
  BY <1>2 DEF Decide
<1>4. /\ s.step = "store" /\ s.lost = check[c].lost
      /\ s.result = [allowed |-> allowed, by |-> by]
      /\ s.user = check[c].user /\ s.tenant = check[c].tenant
      /\ s.own = check[c].own /\ s.roles = check[c].roles
  BY <1>1, <1>2 DEF Slot
<1>5. [allowed |-> allowed, by |-> by] \in Results
  BY ResultTypes
<1>6. s \in Slot
  BY <1>1, <1>2, <1>5 DEF Slot, Steps
<1>7. SlotOK(s)
  BY <1>1, <1>4, <1>6 DEF SlotOK
<1> QED
  BY <1>3, <1>4, <1>7

(* A decision stands if no layer before it has anything to say. *)
LEMMA Winner ==
  ASSUME NEW s, NEW g, NEW n \in 1..6, s.step = "store", s.result.by = Layers[n],
         ~s.lost => \A j \in 1..6 : j < n => ~Speaks(Layers[j], s.user, g)
  PROVE  Ordered(s, g)
<1>1. \A i \in 1..6 : Layers[i] = Layers[n] => i = n
  BY LayerNames
<1>2. ~s.lost => \A i, j \in DOMAIN Layers :
                   s.result.by = Layers[i] /\ Speaks(Layers[j], s.user, g) => i <= j
  BY <1>1, LayerNames
<1> QED
  BY <1>2 DEF Ordered, Layered

(* The roles that ReadTeamRoles collects from the teams it finds, and the slot. *)
Collected(c, found) ==
  check[c].roles \cup UNION {teamMemberships[check[c].user][q] : q \in found}

LEMMA TeamRolesRead ==
  ASSUME TypeOK, NEW CONSTANT c \in Checks, ReadTeamRoles(c)
  PROVE  \E found, s :
           /\ found \subseteq TeamsIn(check[c].user, check[c].tenant)
           /\ check' = [check EXCEPT ![c] = s] /\ SlotOK(s)
           /\ s.user = check[c].user /\ s.tenant = check[c].tenant
           /\ \/ /\ s.step = "store" /\ s.result = [allowed |-> TRUE, by |-> "rbac"]
                 /\ Collected(c, found) \cap Granting # {}
              \/ /\ s.step = "userAcl" /\ s.roles = Collected(c, found)
                 /\ ~s.lost => found = TeamsIn(check[c].user, check[c].tenant)
                 /\ Collected(c, found) \cap Granting = {}
<1> DEFINE u == check[c].user
           t == check[c].tenant
<1>1. check[c].step = "teams"
  BY DEF ReadTeamRoles
<1>2. /\ SlotOK(check[c]) /\ check[c] \in Slot /\ u \in Users /\ t \in Tenants /\ TablesOK
  BY <1>1, TypeParts DEF SlotOK
<1>3. PICK found \in SUBSET TeamsIn(u, t) :
        LET roles == check[c].roles \cup UNION {teamMemberships[u][q] : q \in found}
            first == FirstLayer(roles)
        IN check' = [check EXCEPT
             ![c].roles  = roles,
             ![c].lost   = (found # TeamsIn(u, t)),
             ![c].step   = IF first = "rbac" THEN "store" ELSE first,
             ![c].result = IF first = "rbac" THEN [allowed |-> TRUE, by |-> "rbac"] ELSE @]
  BY DEF ReadTeamRoles, TeamsListed
<1>4. PICK roles : roles = Collected(c, found)
  OBVIOUS
<1>5. \A q \in found : q \in Teams /\ teamMemberships[u][q] \subseteq Roles
  <2> SUFFICES ASSUME NEW q \in found
               PROVE  q \in Teams /\ teamMemberships[u][q] \subseteq Roles
    OBVIOUS
  <2>1. q \in Teams /\ teamMemberships[u][q] # NoRow
    BY <1>3 DEF TeamsIn
  <2>2. teamMemberships[u][q] \in RoleRowsOf
    BY <1>2, <2>1 DEF TablesOK
  <2> QED
    BY <2>1, <2>2, RowRoles
<1>6. roles \subseteq Roles /\ check[c].roles \subseteq roles
  <2>1. check[c].roles \subseteq Roles
    BY <1>2 DEF Slot
  <2> QED
    BY <1>4, <1>5, <2>1 DEF Collected
<1>7. CASE roles \cap Granting # {}
  <2>1. FirstLayer(roles) = "rbac"
    BY <1>7 DEF FirstLayer
  <2>2. PICK s : s = [check[c] EXCEPT !.roles = roles, !.lost = (found # TeamsIn(u, t)),
                        !.step = "store", !.result = [allowed |-> TRUE, by |-> "rbac"]]
    OBVIOUS
  <2>3. check' = [check EXCEPT ![c] = s]
    BY <1>3, <1>4, <2>1, <2>2 DEF Collected
  <2>4. /\ s.step = "store" /\ s.user = u /\ s.tenant = t
        /\ s.result = [allowed |-> TRUE, by |-> "rbac"]
    BY <1>2, <2>2 DEF Slot
  <2>5. SlotOK(s)
    <3>1. [allowed |-> TRUE, by |-> "rbac"] \in Results
      BY ResultTypes
    <3> QED
      BY <1>2, <1>6, <2>2, <3>1 DEF SlotOK, Slot, Steps
  <2> QED
    BY <1>3, <1>4, <1>7, <2>3, <2>4, <2>5
<1>8. CASE roles \cap Granting = {}
  <2>1. FirstLayer(roles) = "userAcl"
    BY <1>8 DEF FirstLayer
  <2>2. PICK s : s = [check[c] EXCEPT !.roles = roles, !.lost = (found # TeamsIn(u, t)),
                        !.step = "userAcl"]
    OBVIOUS
  <2>3. check' = [check EXCEPT ![c] = s]
    <3>1. check' = [check EXCEPT ![c].roles = roles, ![c].lost = (found # TeamsIn(u, t)),
                                 ![c].step = "userAcl", ![c].result = check[c].result]
      BY <1>3, <1>4, <2>1 DEF Collected
    <3>2. s = [check[c] EXCEPT !.roles = roles, !.lost = (found # TeamsIn(u, t)),
                               !.step = "userAcl", !.result = check[c].result]
      BY <1>2, <2>2 DEF Slot
    <3> QED
      BY <3>1, <3>2
  <2>4. /\ s.step = "userAcl" /\ s.user = u /\ s.tenant = t /\ s.roles = roles
        /\ s.lost = (found # TeamsIn(u, t))
    BY <1>2, <2>2 DEF Slot
  <2>5. SlotOK(s)
    BY <1>2, <1>6, <2>2 DEF SlotOK, Slot, Steps
  <2>6. ~s.lost => found = TeamsIn(u, t)
    BY <2>4
  <2> QED
    BY <1>3, <1>4, <1>8, <2>3, <2>4, <2>5, <2>6
<1> QED
  BY <1>7, <1>8

LEMMA ReadTeamRolesKeeps ==
  ASSUME DecisionInvariant, Observe, NEW CONSTANT c \in Checks, ReadTeamRoles(c)
  PROVE  DecisionInvariant'
<1> DEFINE u == check[c].user
           t == check[c].tenant
           f == seen[c].some \cup Facts(u, t)
           g == seen[c].all \cap Facts(u, t)
<1>1. check[c].step = "teams" /\ check[c].step \in Reading
  BY DEF ReadTeamRoles, Reading
<1>2. /\ SlotOK(check[c]) /\ u \in Users /\ t \in Tenants
      /\ TablesOK /\ prepared \in SUBSET Policies
      /\ Justified(check[c], f) /\ Ordered(check[c], g)
  BY <1>1, AtReading
<1>3. PICK found, s :
        /\ found \subseteq TeamsIn(u, t)
        /\ check' = [check EXCEPT ![c] = s] /\ SlotOK(s)
        /\ s.user = u /\ s.tenant = t
        /\ \/ /\ s.step = "store" /\ s.result = [allowed |-> TRUE, by |-> "rbac"]
              /\ Collected(c, found) \cap Granting # {}
           \/ /\ s.step = "userAcl" /\ s.roles = Collected(c, found)
              /\ ~s.lost => found = TeamsIn(u, t)
              /\ Collected(c, found) \cap Granting = {}
  BY TeamRolesRead DEF DecisionInvariant
<1>4. UNCHANGED <<tables, prepared, cache, age>>
  BY DEF ReadTeamRoles
<1>5. <<"member", t>> \in f /\ \A r \in Collected(c, found) : Holds(r, f)
  <2>1. <<"member", t>> \in f /\ \A r \in check[c].roles : Holds(r, f)
    BY <1>1, <1>2 DEF Justified
  <2>2. ASSUME NEW r \in Collected(c, found), r \notin check[c].roles
        PROVE  Holds(r, f)
    <3>1. PICK q \in found : r \in teamMemberships[u][q]
      BY <2>2 DEF Collected
    <3>2. <<q, r>> \in Facts(u, t)
      BY <1>3, <3>1, FactsOfTables
    <3> QED
      BY <1>3, <3>1, <3>2 DEF Holds, TeamsIn
  <2> QED
    BY <2>1, <2>2
<1>6. found = TeamsIn(u, t) => \A r \in Roles : Holds(r, g) => r \in Collected(c, found)
  <2> SUFFICES ASSUME found = TeamsIn(u, t), NEW r \in Roles,
                      NEW q \in Tenants \cup Teams, <<q, r>> \in g
               PROVE  r \in Collected(c, found)
    BY DEF Holds
  <2>1. CASE q \in Tenants
    <3>1. r \in check[c].own
      BY <1>1, <1>2, <2>1 DEF Ordered
    <3> QED
      BY <1>2, <3>1 DEF SlotOK, Collected
  <2>2. CASE q \in Teams
    <3>1. q \in TeamsIn(u, t) /\ r \in teamMemberships[u][q]
      BY <1>2, <2>2, TablesOfFacts
    <3> QED
      BY <3>1 DEF Collected
  <2> QED
    BY <2>1, <2>2
<1>7. CASE s.step = "store"
  <2>1. s.result = [allowed |-> TRUE, by |-> "rbac"] /\ Speaks("rbac", u, f)
    BY <1>3, <1>5, <1>7, Speaking
  <2>2. Rests(s.result, u, t, f)
    BY <1>5, <2>1 DEF Rests, Effect
  <2>3. Justified(s, f)
    BY <1>3, <1>7, <2>2 DEF Justified, Layered
  <2>4. Ordered(s, g)
    BY <1>7, <2>1, LayerNames, Winner
  <2> QED
    BY <1>1, <1>2, <1>3, <1>4, <1>7, <2>3, <2>4, Read
<1>8. CASE s.step = "userAcl"
  <2>1. s.roles = Collected(c, found) /\ Collected(c, found) \cap Granting = {} /\ (~s.lost => found = TeamsIn(u, t))
    BY <1>3, <1>8
  <2>2. Justified(s, f)
    BY <1>3, <1>5, <1>8, <2>1 DEF Justified, Layered
  <2>3. Ordered(s, g)
    <3>1. ~s.lost => \A r \in Roles : Holds(r, g) => r \in Collected(c, found)
      BY <1>6, <2>1
    <3>2. ~s.lost => ~Speaks("rbac", u, g)
      BY <2>1, <3>1, Speaking, CheckParameters
    <3> QED
      BY <1>3, <1>8, <2>1, <3>1, <3>2 DEF Ordered, Layered
  <2> QED
    BY <1>1, <1>2, <1>3, <1>4, <1>8, <2>2, <2>3, Read
<1> QED
  BY <1>3, <1>7, <1>8

(* What an entry found, or passed over without an error, says. *)
LEMMA EntryFound ==
  ASSUME TablesOK, NEW u \in Users, NEW t \in Tenants, NEW s \in Subjects, acl[t][s] # "none"
  PROVE  <<s, Effect(acl[t][s] = "allow")>> \in Facts(u, t)
<1>1. acl[t][s] \in {"allow", "deny"}
  BY DEF TablesOK
<1> QED
  BY <1>1, FactsOfTables DEF Effect

LEMMA EntryMissing ==
  ASSUME TablesOK, NEW u \in Users, NEW t \in Tenants, NEW s \in Subjects, acl[t][s] = "none",
         NEW g, g \subseteq Facts(u, t)
  PROVE  ~HasEntry(s, g)
<1> SUFFICES ASSUME NEW e \in {"allow", "deny"}, <<s, e>> \in g
             PROVE  FALSE
  BY DEF HasEntry
<1>1. acl[t][s] = e
  BY TablesOfFacts
<1> QED
  BY <1>1

LEMMA ReadUserAclKeeps ==
  ASSUME DecisionInvariant, Observe, NEW CONSTANT c \in Checks, ReadUserAcl(c)
  PROVE  DecisionInvariant'
<1> DEFINE u == check[c].user
           t == check[c].tenant
           f == seen[c].some \cup Facts(u, t)
           g == seen[c].all \cap Facts(u, t)
           found == acl[t][u]
<1>1. check[c].step = "userAcl" /\ check[c].step \in Reading
  BY DEF ReadUserAcl, Reading, Layered
<1>2. /\ u \in Users /\ t \in Tenants /\ TablesOK /\ prepared \in SUBSET Policies
      /\ Justified(check[c], f) /\ Ordered(check[c], g)
  BY <1>1, AtReading
<1>3. UNCHANGED <<tables, prepared, cache, age>>
  BY DEF ReadUserAcl
<1>4. u \in Subjects
  BY <1>2 DEF Subjects
<1>5. CASE found # "none" /\ Decide(c, found = "allow", "user")
  <2>1. PICK s : /\ check' = [check EXCEPT ![c] = s] /\ SlotOK(s)
                 /\ s.step = "store" /\ s.lost = check[c].lost
                 /\ s.result = [allowed |-> (found = "allow"), by |-> "user"]
                 /\ s.user = u /\ s.tenant = t
    <3>1. (found = "allow") \in BOOLEAN
      OBVIOUS
    <3> QED
      BY <1>1, <1>5, <3>1, Deciding DEF DecisionInvariant
  <2>2. <<u, Effect(found = "allow")>> \in f
    BY <1>2, <1>4, <1>5, EntryFound
  <2>3. Justified(s, f)
    <3>1. <<"member", t>> \in f
      BY <1>1, <1>2 DEF Justified, Layered
    <3>2. Rests(s.result, u, t, f)
      BY <2>1, <2>2, <3>1 DEF Rests
    <3> QED
      BY <2>1, <3>2 DEF Justified, Layered
  <2>4. Ordered(s, g)
    <3>1. ~s.lost => ~Speaks("rbac", u, g)
      BY <1>1, <1>2, <2>1 DEF Ordered, Layered
    <3>2. ~s.lost => \A j \in 1..6 : j < 2 => ~Speaks(Layers[j], s.user, g)
      BY <2>1, <3>1, LayerNames
    <3> QED
      BY <2>1, <3>2, LayerNames, Winner
  <2> QED
    BY <1>1, <1>2, <1>3, <2>1, <2>3, <2>4, Read
<1>6. CASE Pass(c, "teamList", {}, found # "none")
  <2>1. PICK s : /\ check' = [check EXCEPT ![c] = s] /\ SlotOK(s)
                 /\ s.step = "teamList" /\ (~s.lost => ~check[c].lost /\ found = "none")
                 /\ s.user = u /\ s.tenant = t /\ s.roles = check[c].roles
    <3>1. PICK failed \in BOOLEAN : failed = (found # "none")
      OBVIOUS
    <3>2. Pass(c, "teamList", {}, failed)
      BY <1>6, <3>1
    <3>3. \E s : /\ check' = [check EXCEPT ![c] = s] /\ SlotOK(s)
                /\ s.step = "teamList" /\ (~s.lost => ~check[c].lost /\ ~failed)
                /\ s.user = u /\ s.tenant = t /\ s.roles = check[c].roles
      BY <1>1, <3>2, Passing DEF DecisionInvariant, Steps
    <3> QED
      BY <3>1, <3>3
  <2>2. Justified(s, f)
    BY <1>1, <1>2, <2>1 DEF Justified, Layered
  <2>3. ~s.lost => ~Speaks("user", u, g)
    BY <1>2, <1>4, <2>1, EntryMissing, Speaking
  <2>4. Ordered(s, g)
    BY <1>1, <1>2, <2>1, <2>3 DEF Ordered, Layered
  <2> QED
    BY <1>1, <1>2, <1>3, <2>1, <2>2, <2>4, Read
<1> QED
  BY <1>5, <1>6 DEF ReadUserAcl, FindEntry

LEMMA ListTeamsKeeps ==
  ASSUME DecisionInvariant, Observe, NEW CONSTANT c \in Checks, ListTeams(c)
  PROVE  DecisionInvariant'
<1> DEFINE u == check[c].user
           t == check[c].tenant
           f == seen[c].some \cup Facts(u, t)
           g == seen[c].all \cap Facts(u, t)
<1>1. check[c].step = "teamList" /\ check[c].step \in Reading
  BY DEF ListTeams, Reading, Layered
<1>2. /\ u \in Users /\ t \in Tenants /\ TablesOK /\ prepared \in SUBSET Policies
      /\ Justified(check[c], f) /\ Ordered(check[c], g)
  BY <1>1, AtReading
<1>3. PICK found \in SUBSET TeamsIn(u, t) : Pass(c, "teamAcl", found, found # TeamsIn(u, t))
  BY DEF ListTeams, TeamsListed
<1>4. UNCHANGED <<tables, prepared, cache, age>>
  BY DEF ListTeams
<1>5. found \subseteq Teams
  BY <1>3 DEF TeamsIn
<1>6. PICK s : /\ check' = [check EXCEPT ![c] = s] /\ SlotOK(s)
               /\ s.step = "teamAcl" /\ s.todo = found
               /\ (~s.lost => ~check[c].lost /\ found = TeamsIn(u, t))
               /\ s.user = u /\ s.tenant = t /\ s.roles = check[c].roles
  <2>1. PICK failed \in BOOLEAN : failed = (found # TeamsIn(u, t))
    OBVIOUS
  <2>2. Pass(c, "teamAcl", found, failed)
    BY <1>3, <2>1
  <2>3. \E s : /\ check' = [check EXCEPT ![c] = s] /\ SlotOK(s)
              /\ s.step = "teamAcl" /\ s.todo = found /\ (~s.lost => ~check[c].lost /\ ~failed)
              /\ s.user = u /\ s.tenant = t /\ s.roles = check[c].roles
    BY <1>1, <1>5, <2>2, Passing DEF DecisionInvariant, Steps
  <2> QED
    BY <2>1, <2>3
<1>7. Justified(s, f)
  <2>1. \A q \in found : <<"in", q>> \in f
    BY <1>3, FactsOfTables
  <2> QED
    BY <1>1, <1>2, <1>5, <1>6, <2>1 DEF Justified, Layered
<1>8. Ordered(s, g)
  <2>1. \A q \in Teams : <<"in", q>> \in g => q \in TeamsIn(u, t)
    BY <1>2, TablesOfFacts
  <2> QED
    BY <1>1, <1>2, <1>6, <2>1 DEF Ordered, Layered
<1> QED
  BY <1>1, <1>2, <1>4, <1>6, <1>7, <1>8, Read

LEMMA ReadTeamAclKeeps ==
  ASSUME DecisionInvariant, Observe, NEW CONSTANT c \in Checks, ReadTeamAcl(c)
  PROVE  DecisionInvariant'
<1> DEFINE u == check[c].user
           t == check[c].tenant
           f == seen[c].some \cup Facts(u, t)
           g == seen[c].all \cap Facts(u, t)
<1>1. check[c].step = "teamAcl" /\ check[c].step \in Reading
  BY DEF ReadTeamAcl, Reading, Layered
<1>2. /\ u \in Users /\ t \in Tenants /\ TablesOK /\ prepared \in SUBSET Policies
      /\ SlotOK(check[c]) /\ check[c] \in Slot
      /\ Justified(check[c], f) /\ Ordered(check[c], g)
  BY <1>1, AtReading
<1>3. UNCHANGED <<tables, prepared, cache, age>>
  BY DEF ReadTeamAcl
<1>4. CASE check[c].todo = {} /\ Pass(c, "roleAcl", check[c].roles, FALSE)
  <2>1. check[c].roles \in SUBSET (Teams \cup Roles \cup Policies)
    BY <1>2 DEF Slot
  <2>2. PICK s : /\ check' = [check EXCEPT ![c] = s] /\ SlotOK(s)
                 /\ s.step = "roleAcl" /\ s.todo = check[c].roles
                 /\ (~s.lost => ~check[c].lost)
                 /\ s.user = u /\ s.tenant = t /\ s.roles = check[c].roles
    <3>1. PICK failed \in BOOLEAN : failed = FALSE
      OBVIOUS
    <3>2. Pass(c, "roleAcl", check[c].roles, failed)
      BY <1>4, <3>1
    <3> QED
      BY <1>1, <2>1, <3>1, <3>2, Passing DEF DecisionInvariant, Steps
  <2>3. Justified(s, f)
    BY <1>1, <1>2, <2>2 DEF Justified, Layered
  <2>4. ~s.lost => ~Speaks("team", u, g)
    BY <1>1, <1>2, <1>4, <2>2, Speaking DEF Ordered
  <2>5. Ordered(s, g)
    BY <1>1, <1>2, <2>2, <2>4 DEF Ordered, Layered
  <2> QED
    BY <1>1, <1>2, <1>3, <2>2, <2>3, <2>5, Read
<1>5. ASSUME NEW q \in check[c].todo, acl[t][q] # "none", Decide(c, acl[t][q] = "allow", "team")
      PROVE  DecisionInvariant'
  <2>1. PICK s : /\ check' = [check EXCEPT ![c] = s] /\ SlotOK(s)
                 /\ s.step = "store" /\ s.lost = check[c].lost
                 /\ s.result = [allowed |-> (acl[t][q] = "allow"), by |-> "team"]
                 /\ s.user = u /\ s.tenant = t
    <3>1. (acl[t][q] = "allow") \in BOOLEAN
      OBVIOUS
    <3> QED
      BY <1>1, <1>5, <3>1, Deciding DEF DecisionInvariant
  <2>2. q \in Teams /\ <<"in", q>> \in f
    BY <1>1, <1>2, <1>5 DEF Justified
  <2>3. <<q, Effect(acl[t][q] = "allow")>> \in f
    BY <1>2, <1>5, <2>2, EntryFound DEF Subjects
  <2>4. Justified(s, f)
    <3>1. <<"member", t>> \in f
      BY <1>1, <1>2 DEF Justified, Layered
    <3>2. Rests(s.result, u, t, f)
      BY <2>1, <2>2, <2>3, <3>1 DEF Rests
    <3> QED
      BY <2>1, <3>2 DEF Justified, Layered
  <2>5. Ordered(s, g)
    <3>1. ~s.lost => ~Speaks("rbac", u, g) /\ ~Speaks("user", u, g)
      BY <1>1, <1>2, <2>1 DEF Ordered, Layered
    <3>2. ~s.lost => \A j \in 1..6 : j < 3 => ~Speaks(Layers[j], s.user, g)
      BY <2>1, <3>1, LayerNames
    <3> QED
      BY <2>1, <3>2, LayerNames, Winner
  <2> QED
    BY <1>1, <1>2, <1>3, <2>1, <2>4, <2>5, Read
<1>6. ASSUME NEW q \in check[c].todo,
             Pass(c, "teamAcl", check[c].todo \ {q}, acl[t][q] # "none")
      PROVE  DecisionInvariant'
  <2>1. check[c].todo \ {q} \in SUBSET (Teams \cup Roles \cup Policies)
    BY <1>2 DEF Slot
  <2>2. PICK s : /\ check' = [check EXCEPT ![c] = s] /\ SlotOK(s)
                 /\ s.step = "teamAcl" /\ s.todo = check[c].todo \ {q}
                 /\ (~s.lost => ~check[c].lost /\ acl[t][q] = "none")
                 /\ s.user = u /\ s.tenant = t /\ s.roles = check[c].roles
    <3>1. PICK failed \in BOOLEAN : failed = (acl[t][q] # "none")
      OBVIOUS
    <3>2. Pass(c, "teamAcl", check[c].todo \ {q}, failed)
      BY <1>6, <3>1
    <3>3. \E s : /\ check' = [check EXCEPT ![c] = s] /\ SlotOK(s)
                /\ s.step = "teamAcl" /\ s.todo = check[c].todo \ {q}
                /\ (~s.lost => ~check[c].lost /\ ~failed)
                /\ s.user = u /\ s.tenant = t /\ s.roles = check[c].roles
      BY <1>1, <2>1, <3>2, Passing DEF DecisionInvariant, Steps
    <3> QED
      BY <3>1, <3>3
  <2>3. Justified(s, f)
    BY <1>1, <1>2, <2>2 DEF Justified, Layered
  <2>4. ~s.lost => ~HasEntry(q, g)
    <3>1. q \in Subjects
      BY <1>1, <1>2, <1>6 DEF Justified, Subjects
    <3> QED
      BY <1>2, <2>2, <3>1, EntryMissing
  <2>5. Ordered(s, g)
    BY <1>1, <1>2, <2>2, <2>4 DEF Ordered, Layered
  <2> QED
    BY <1>1, <1>2, <1>3, <2>2, <2>3, <2>5, Read
<1> QED
  BY <1>4, <1>5, <1>6 DEF ReadTeamAcl, FindEntry

LEMMA ReadRoleAclKeeps ==
  ASSUME DecisionInvariant, Observe, NEW CONSTANT c \in Checks, ReadRoleAcl(c)
  PROVE  DecisionInvariant'
<1> DEFINE u == check[c].user
           t == check[c].tenant
           f == seen[c].some \cup Facts(u, t)
           g == seen[c].all \cap Facts(u, t)
<1>1. check[c].step = "roleAcl" /\ check[c].step \in Reading
  BY DEF ReadRoleAcl, Reading, Layered
<1>2. /\ u \in Users /\ t \in Tenants /\ TablesOK /\ prepared \in SUBSET Policies
      /\ check[c] \in Slot
      /\ Justified(check[c], f) /\ Ordered(check[c], g)
  BY <1>1, AtReading
<1>3. UNCHANGED <<tables, prepared, cache, age>>
  BY DEF ReadRoleAcl
<1>4. CASE check[c].todo = {} /\ Pass(c, "policies", {}, FALSE)
  <2>1. PICK s : /\ check' = [check EXCEPT ![c] = s] /\ SlotOK(s)
                 /\ s.step = "policies" /\ (~s.lost => ~check[c].lost)
                 /\ s.user = u /\ s.tenant = t /\ s.roles = check[c].roles
    <3>1. PICK failed \in BOOLEAN : failed = FALSE
      OBVIOUS
    <3>2. Pass(c, "policies", {}, failed)
      BY <1>4, <3>1
    <3> QED
      BY <1>1, <3>1, <3>2, Passing DEF DecisionInvariant, Steps
  <2>2. Justified(s, f)
    BY <1>1, <1>2, <2>1 DEF Justified, Layered
  <2>3. ~s.lost => ~Speaks("role", u, g)
    BY <1>1, <1>2, <1>4, <2>1, Speaking DEF Ordered
  <2>4. Ordered(s, g)
    BY <1>1, <1>2, <2>1, <2>3 DEF Ordered, Layered
  <2> QED
    BY <1>1, <1>2, <1>3, <2>1, <2>2, <2>4, Read
<1>5. ASSUME NEW r \in check[c].todo, acl[t][r] # "none", Decide(c, acl[t][r] = "allow", "role")
      PROVE  DecisionInvariant'
  <2>1. PICK s : /\ check' = [check EXCEPT ![c] = s] /\ SlotOK(s)
                 /\ s.step = "store" /\ s.lost = check[c].lost
                 /\ s.result = [allowed |-> (acl[t][r] = "allow"), by |-> "role"]
                 /\ s.user = u /\ s.tenant = t
    <3>1. (acl[t][r] = "allow") \in BOOLEAN
      OBVIOUS
    <3> QED
      BY <1>1, <1>5, <3>1, Deciding DEF DecisionInvariant
  <2>2. r \in Roles /\ Holds(r, f)
    <3>1. r \in check[c].roles /\ \A q \in check[c].roles : Holds(q, f)
      BY <1>1, <1>2, <1>5 DEF Justified, Layered
    <3> QED
      BY <1>2, <3>1 DEF Slot
  <2>3. <<r, Effect(acl[t][r] = "allow")>> \in f
    BY <1>2, <1>5, <2>2, EntryFound DEF Subjects
  <2>4. Justified(s, f)
    <3>1. <<"member", t>> \in f
      BY <1>1, <1>2 DEF Justified, Layered
    <3>2. Rests(s.result, u, t, f)
      BY <2>1, <2>2, <2>3, <3>1 DEF Rests
    <3> QED
      BY <2>1, <3>2 DEF Justified, Layered
  <2>5. Ordered(s, g)
    <3>1. ~s.lost => ~Speaks("rbac", u, g) /\ ~Speaks("user", u, g) /\ ~Speaks("team", u, g)
      BY <1>1, <1>2, <2>1 DEF Ordered, Layered
    <3>2. ~s.lost => \A j \in 1..6 : j < 4 => ~Speaks(Layers[j], s.user, g)
      BY <2>1, <3>1, LayerNames
    <3> QED
      BY <2>1, <3>2, LayerNames, Winner
  <2> QED
    BY <1>1, <1>2, <1>3, <2>1, <2>4, <2>5, Read
<1>6. ASSUME NEW r \in check[c].todo,
             Pass(c, "roleAcl", check[c].todo \ {r}, acl[t][r] # "none")
      PROVE  DecisionInvariant'
  <2>1. check[c].todo \ {r} \in SUBSET (Teams \cup Roles \cup Policies)
    BY <1>2 DEF Slot
  <2>2. PICK s : /\ check' = [check EXCEPT ![c] = s] /\ SlotOK(s)
                 /\ s.step = "roleAcl" /\ s.todo = check[c].todo \ {r}
                 /\ (~s.lost => ~check[c].lost /\ acl[t][r] = "none")
                 /\ s.user = u /\ s.tenant = t /\ s.roles = check[c].roles
    <3>1. PICK failed \in BOOLEAN : failed = (acl[t][r] # "none")
      OBVIOUS
    <3>2. Pass(c, "roleAcl", check[c].todo \ {r}, failed)
      BY <1>6, <3>1
    <3>3. \E s : /\ check' = [check EXCEPT ![c] = s] /\ SlotOK(s)
                /\ s.step = "roleAcl" /\ s.todo = check[c].todo \ {r}
                /\ (~s.lost => ~check[c].lost /\ ~failed)
                /\ s.user = u /\ s.tenant = t /\ s.roles = check[c].roles
      BY <1>1, <2>1, <3>2, Passing DEF DecisionInvariant, Steps
    <3> QED
      BY <3>1, <3>3
  <2>3. Justified(s, f)
    BY <1>1, <1>2, <2>2 DEF Justified, Layered
  <2>4. ~s.lost => ~HasEntry(r, g)
    <3>1. r \in Subjects
      BY <1>1, <1>2, <1>6 DEF Justified, Subjects, Slot
    <3> QED
      BY <1>2, <2>2, <3>1, EntryMissing
  <2>5. Ordered(s, g)
    BY <1>1, <1>2, <2>2, <2>4 DEF Ordered, Layered
  <2> QED
    BY <1>1, <1>2, <1>3, <2>2, <2>3, <2>5, Read
<1> QED
  BY <1>4, <1>5, <1>6 DEF ReadRoleAcl, FindEntry

LEMMA ListPoliciesKeeps ==
  ASSUME DecisionInvariant, Observe, NEW CONSTANT c \in Checks, ListPolicies(c)
  PROVE  DecisionInvariant'
<1> DEFINE u == check[c].user
           t == check[c].tenant
           f == seen[c].some \cup Facts(u, t)
           g == seen[c].all \cap Facts(u, t)
<1>1. check[c].step = "policies" /\ check[c].step \in Reading
  BY DEF ListPolicies, Reading, Layered
<1>2. /\ u \in Users /\ t \in Tenants /\ TablesOK /\ prepared \in SUBSET Policies
      /\ SlotOK(check[c]) /\ check[c] \in Slot
      /\ Justified(check[c], f) /\ Ordered(check[c], g)
  BY <1>1, AtReading
<1>3. UNCHANGED <<tables, prepared, cache, age>>
  BY DEF ListPolicies
<1>4. Active(t) \subseteq Policies
  BY DEF Active
<1>5. CASE Active(t) # {} /\ Pass(c, "abac", Active(t), FALSE)
  <2>1. PICK s : /\ check' = [check EXCEPT ![c] = s] /\ SlotOK(s)
                 /\ s.step = "abac" /\ s.todo = Active(t) /\ (~s.lost => ~check[c].lost)
                 /\ s.user = u /\ s.tenant = t /\ s.roles = check[c].roles
    <3>1. PICK failed \in BOOLEAN : failed = FALSE
      OBVIOUS
    <3>2. Pass(c, "abac", Active(t), failed)
      BY <1>5, <3>1
    <3>3. Active(t) \in SUBSET (Teams \cup Roles \cup Policies)
      BY <1>4
    <3> QED
      BY <1>1, <3>1, <3>2, <3>3, Passing DEF DecisionInvariant, Steps
  <2>2. Justified(s, f)
    <3>1. \A p \in Active(t) : <<"active", p>> \in f
      BY FactsOfTables
    <3> QED
      BY <1>1, <1>2, <1>4, <2>1, <3>1 DEF Justified, Layered
  <2>3. Ordered(s, g)
    BY <1>1, <1>2, <2>1 DEF Ordered, Layered
  <2> QED
    BY <1>1, <1>2, <1>3, <2>1, <2>2, <2>3, Read
<1>6. CASE check' = [check EXCEPT ![c].step = "store", ![c].lost = @ \/ Active(t) # {},
                                  ![c].result = DefaultDeny]
  <2>1. PICK s : s = [check[c] EXCEPT !.step = "store", !.lost = @ \/ Active(t) # {},
                                      !.result = DefaultDeny]
    OBVIOUS
  <2>2. check' = [check EXCEPT ![c] = s]
    BY <1>6, <2>1
  <2>3. /\ s.step = "store" /\ s.result = DefaultDeny
        /\ s.user = u /\ s.tenant = t
    BY <1>2, <2>1 DEF Slot
  <2>4. ~s.lost => ~check[c].lost /\ Active(t) = {}
    BY <1>2, <2>1 DEF Slot
  <2>5. SlotOK(s)
    BY <1>2, <2>1, ResultTypes DEF SlotOK, Slot, Steps
  <2>6. Justified(s, f)
    <3>1. <<"member", t>> \in f
      BY <1>1, <1>2 DEF Justified, Layered
    <3>2. Rests(s.result, u, t, f)
      BY <2>3, <3>1 DEF Rests, DefaultDeny, Effect
    <3> QED
      BY <2>3, <3>2 DEF Justified, Layered
  <2>7. Ordered(s, g)
    <3>1. ~s.lost => /\ ~Speaks("rbac", u, g) /\ ~Speaks("user", u, g)
                     /\ ~Speaks("team", u, g) /\ ~Speaks("role", u, g)
      BY <1>1, <1>2, <2>4 DEF Ordered, Layered
    <3>2. ~s.lost => ~Speaks("abac", u, g)
      <4>1. \A p : <<"active", p>> \in g => p \in Active(t)
        BY <1>2, TablesOfFacts
      <4> QED
        BY <2>4, <4>1, Speaking
    <3>3. ~s.lost => \A j \in 1..6 : j < 6 => ~Speaks(Layers[j], s.user, g)
      BY <2>3, <3>1, <3>2, LayerNames
    <3>4. s.result.by = Layers[6]
      BY <2>3, LayerNames DEF DefaultDeny
    <3> QED
      BY <2>3, <3>3, <3>4, Winner
  <2> QED
    BY <1>1, <1>2, <1>3, <2>2, <2>3, <2>5, <2>6, <2>7, Read
<1> QED
  BY <1>5, <1>6 DEF ListPolicies, ActivePolicies

LEMMA EvaluatePoliciesKeeps ==
  ASSUME DecisionInvariant, Observe, NEW CONSTANT c \in Checks, EvaluatePolicies(c)
  PROVE  DecisionInvariant'
<1> DEFINE u == check[c].user
           t == check[c].tenant
           f == seen[c].some \cup Facts(u, t)
           g == seen[c].all \cap Facts(u, t)
           broken == {p \in check[c].todo : Verdict[p] = "broken"}
<1>1. check[c].step = "abac" /\ check[c].step \in Reading
  BY DEF EvaluatePolicies, Reading, Layered
<1>2. /\ u \in Users /\ t \in Tenants /\ TablesOK /\ prepared \in SUBSET Policies
      /\ SlotOK(check[c]) /\ check[c] \in Slot
      /\ Justified(check[c], f) /\ Ordered(check[c], g)
  BY <1>1, AtReading
<1>3. check[c].todo \subseteq Policies /\ <<"member", t>> \in f
  BY <1>1, <1>2 DEF Justified, Layered
<1>4. prepared' \in SUBSET Policies /\ UNCHANGED <<tables, cache, age>>
  BY <1>2, <1>3 DEF EvaluatePolicies
<1>5. ASSUME broken = {}, NEW p \in check[c].todo, Decide(c, Verdict[p] = "allow", "abac")
      PROVE  DecisionInvariant'
  <2>1. PICK s : /\ check' = [check EXCEPT ![c] = s] /\ SlotOK(s)
                 /\ s.step = "store" /\ s.lost = check[c].lost
                 /\ s.result = [allowed |-> (Verdict[p] = "allow"), by |-> "abac"]
                 /\ s.user = u /\ s.tenant = t
    <3>1. (Verdict[p] = "allow") \in BOOLEAN
      OBVIOUS
    <3> QED
      BY <1>1, <1>5, <3>1, Deciding DEF DecisionInvariant
  <2>2. p \in Policies /\ <<"active", p>> \in f
    BY <1>1, <1>2, <1>3, <1>5 DEF Justified
  <2>3. Verdict[p] = Effect(Verdict[p] = "allow")
    <3>1. Verdict[p] \in {"allow", "deny"}
      BY <1>5, <2>2, CheckParameters
    <3> QED
      BY <3>1 DEF Effect
  <2>4. Justified(s, f)
    <3>1. Rests(s.result, u, t, f)
      BY <1>3, <2>1, <2>2, <2>3 DEF Rests
    <3> QED
      BY <2>1, <3>1 DEF Justified, Layered
  <2>5. Ordered(s, g)
    <3>1. ~s.lost => /\ ~Speaks("rbac", u, g) /\ ~Speaks("user", u, g)
                     /\ ~Speaks("team", u, g) /\ ~Speaks("role", u, g)
      BY <1>1, <1>2, <2>1 DEF Ordered, Layered
    <3>2. ~s.lost => \A j \in 1..6 : j < 5 => ~Speaks(Layers[j], s.user, g)
      BY <2>1, <3>1, LayerNames
    <3> QED
      BY <2>1, <3>2, LayerNames, Winner
  <2> QED
    BY <1>1, <1>2, <1>4, <2>1, <2>4, <2>5, Read
<1>6. CASE check' = [check EXCEPT ![c].step = "store", ![c].todo = {},
                                  ![c].lost = TRUE, ![c].result = DefaultDeny]
  <2>1. PICK s : s = [check[c] EXCEPT !.step = "store", !.todo = {},
                                      !.lost = TRUE, !.result = DefaultDeny]
    OBVIOUS
  <2>2. check' = [check EXCEPT ![c] = s]
    BY <1>6, <2>1
  <2>3. /\ s.step = "store" /\ s.result = DefaultDeny /\ s.lost
        /\ s.user = u /\ s.tenant = t
    BY <1>2, <2>1 DEF Slot
  <2>4. SlotOK(s)
    BY <1>2, <2>1, ResultTypes DEF SlotOK, Slot, Steps
  <2>5. Justified(s, f)
    <3>1. Rests(s.result, u, t, f)
      BY <1>3, <2>3 DEF Rests, DefaultDeny, Effect
    <3> QED
      BY <2>3, <3>1 DEF Justified, Layered
  <2>6. Ordered(s, g)
    BY <2>3 DEF Ordered, Layered
  <2> QED
    BY <1>1, <1>2, <1>4, <2>2, <2>3, <2>4, <2>5, <2>6, Read
<1> QED
  BY <1>5, <1>6 DEF EvaluatePolicies

LEMMA Storing ==
  ASSUME TypeOK, NEW CONSTANT c \in Checks, StoreDecision(c)
  PROVE  cache' \in [Users -> [Tenants -> Entry]]
<1>1. /\ cache \in [Users -> [Tenants -> Entry]]
      /\ check[c] \in Slot /\ SlotOK(check[c]) /\ age \in [Checks -> 0..Patience]
  BY TypeParts
<1>2. [result |-> check[c].result, age |-> 0, took |-> age[c]] \in Entry
  <2>1. check[c].result \in Results /\ age[c] \in 0..Patience /\ 0 \in 0..TTL
    BY <1>1, CheckParameters DEF Slot
  <2> QED
    BY <2>1 DEF Entry
<1>3. check[c].user \in Users /\ check[c].tenant \in Tenants
  BY <1>1 DEF SlotOK, StoreDecision
<1>4. CASE cache' = [cache EXCEPT ![check[c].user][check[c].tenant] =
                 [result |-> check[c].result, age |-> 0, took |-> age[c]]]
  BY <1>1, <1>2, <1>3, <1>4
<1> QED
  BY <1>1, <1>4 DEF StoreDecision

LEMMA StoreDecisionKeeps ==
  ASSUME DecisionInvariant, Observe, NEW CONSTANT c \in Checks, StoreDecision(c)
  PROVE  DecisionInvariant'
<1>1. /\ TablesOK /\ prepared \in SUBSET Policies
      /\ check[c] \in Slot /\ SlotOK(check[c]) /\ age \in [Checks -> 0..Patience]
  BY TypeParts DEF DecisionInvariant
<1>2. check[c].step = "store" /\ Goto(c, "done") /\ UNCHANGED <<tables, prepared, age>>
  BY DEF StoreDecision
<1>3. TablesOK' /\ prepared' \in SUBSET Policies /\ age' \in [Checks -> 0..Patience]
  BY <1>1, <1>2 DEF TablesOK, tables
<1>4. cache' \in [Users -> [Tenants -> Entry]]
  BY Storing DEF DecisionInvariant
<1>5. PICK s : s = [check[c] EXCEPT !.step = "done"]
  OBVIOUS
<1>6. check' = [check EXCEPT ![c] = s]
  BY <1>2, <1>5 DEF Goto
<1>7. SlotOK(s) /\ s.step = "done"
  BY <1>1, <1>2, <1>5 DEF SlotOK, Slot, Steps
<1>8. Justified(s, seen'[c].some) /\ Ordered(s, seen'[c].all)
  BY <1>7, Quiet
<1> QED
  BY <1>3, <1>4, <1>6, <1>7, <1>8, Move

LEMMA RespondKeeps ==
  ASSUME DecisionInvariant, Observe, NEW CONSTANT c \in Checks, Respond(c)
  PROVE  DecisionInvariant'
<1>1. age' \in [Checks -> 0..Patience]
  <2>1. age \in [Checks -> 0..Patience] /\ 0 \in 0..Patience
    BY TypeParts, CheckParameters DEF DecisionInvariant
  <2> QED
    BY <2>1 DEF Respond
<1> QED
  BY <1>1, Aborted DEF Respond

LEMMA ContinueCheckKeeps ==
  ASSUME DecisionInvariant, Observe, NEW CONSTANT c \in Checks, ContinueCheck(c)
  PROVE  DecisionInvariant'
BY ReadMembershipKeeps, ReadTeamRolesKeeps, ReadUserAclKeeps, ListTeamsKeeps, ReadTeamAclKeeps,
   ReadRoleAclKeeps, ListPoliciesKeeps, EvaluatePoliciesKeeps, StoreDecisionKeeps, RespondKeeps
   DEF ContinueCheck

-----------------------------------------------------------------------------
(* The steps of everybody else. *)

LEMMA RestartKeeps ==
  ASSUME DecisionInvariant, Restart
  PROVE  DecisionInvariant'
<1>1. TablesOK /\ cache \in [Users -> [Tenants -> Entry]]
  BY TypeParts DEF DecisionInvariant
<1>2. /\ TablesOK' /\ prepared' \in SUBSET Policies
      /\ cache' \in [Users -> [Tenants -> Entry]]
  BY <1>1 DEF Restart, TablesOK, tables
<1>3. age' \in [Checks -> 0..Patience]
  BY CheckParameters DEF Restart
<1>4. check' \in [Checks -> Slot] /\ \A c \in Checks : check'[c] = Idle /\ SlotOK(check'[c])
  BY NoRequest DEF Restart, SlotOK
<1>5. TypeOK'
  BY <1>2, <1>3, <1>4 DEF TypeOK, TablesOK, Entry, Slot, SlotOK
<1>6. \A c \in Checks : (Justified(check[c], seen[c].some) /\ Ordered(check[c], seen[c].all))'
  BY <1>4, NoRequest, Quiet
<1> QED
  BY <1>5, <1>6 DEF DecisionInvariant, ChecksOK

(* No slot moves. *)
LEMMA Standing ==
  ASSUME DecisionInvariant, Observe, UNCHANGED check,
         TablesOK', prepared' \in SUBSET Policies,
         cache' \in [Users -> [Tenants -> Entry]], age' \in [Checks -> 0..Patience]
  PROVE  DecisionInvariant'
<1>1. check \in [Checks -> Slot] /\ \A c \in Checks : SlotOK(check[c])
  BY TypeParts DEF DecisionInvariant
<1>2. TypeOK'
  BY <1>1 DEF TypeOK, TablesOK, Entry, Slot, SlotOK
<1>3. \A c \in Checks : (Justified(check[c], seen[c].some) /\ Ordered(check[c], seen[c].all))'
  BY Unmoved DEF DecisionInvariant, ChecksOK
<1> QED
  BY <1>2, <1>3 DEF DecisionInvariant, ChecksOK

(* What the writes and the clock leave typed. *)
TypedNext ==
  /\ TablesOK' /\ prepared' \in SUBSET Policies
  /\ cache' \in [Users -> [Tenants -> Entry]] /\ age' \in [Checks -> 0..Patience]
  /\ UNCHANGED check

LEMMA WriteTyped ==
  ASSUME TypeOK, Write
  PROVE  TypedNext
<1>1. /\ TablesOK /\ prepared \in SUBSET Policies
      /\ cache \in [Users -> [Tenants -> Entry]] /\ age \in [Checks -> 0..Patience]
  BY TypeParts
<1>2. UNCHANGED <<prepared, cache, check, age>>
  BY DEF Write
<1>3. TablesOK'
  <2>1. ASSUME NEW u \in Users, NEW t \in Tenants, NEW row \in RoleRowsOf,
               WriteMembership(u, t, row)
        PROVE  TablesOK'
    BY <1>1, <2>1 DEF WriteMembership, TablesOK
  <2>2. ASSUME NEW u \in Users, NEW q \in Teams, NEW row \in RoleRowsOf,
               WriteTeamMembership(u, q, row)
        PROVE  TablesOK'
    BY <1>1, <2>2 DEF WriteTeamMembership, TablesOK
  <2>3. ASSUME NEW t \in Tenants, NEW s \in Subjects, Revoke(t, s)
        PROVE  TablesOK'
    BY <1>1, <2>3 DEF Revoke, TablesOK
  <2>4. ASSUME NEW t \in Tenants, NEW s \in Subjects, NEW e \in {"allow", "deny"}, Grant(t, s, e)
        PROVE  TablesOK'
    BY <1>1, <2>4 DEF Grant, TablesOK
  <2>5. ASSUME NEW p \in Policies, CreatePolicy(p) \/ DeactivatePolicy(p) \/ DeletePolicy(p)
        PROVE  TablesOK'
    BY <1>1, <2>5 DEF CreatePolicy, DeactivatePolicy, DeletePolicy, Updates, TablesOK
  <2>6. ASSUME NEW p \in Policies, ActivatePolicy(p)
        PROVE  TablesOK'
    <3>1. PICK updated :
            policies' = [q \in Policies |->
              IF q \in updated THEN Updates(policies[q], q = p) ELSE policies[q]]
      BY <2>6 DEF ActivatePolicy
    <3>2. \A q \in Policies : Updates(policies[q], q = p) \in {policies[q], "active"}
      BY DEF Updates
    <3>3. policies' \in [Policies -> {"absent", "inactive", "active", "deleted"}]
      BY <1>1, <3>1, <3>2 DEF TablesOK
    <3>4. UNCHANGED <<memberships, teamMemberships, acl>>
      BY <2>6 DEF ActivatePolicy
    <3> QED
      BY <1>1, <3>3, <3>4 DEF TablesOK
  <2> QED
    BY <2>1, <2>2, <2>3, <2>4, <2>5, <2>6 DEF Write
<1> QED
  BY <1>1, <1>2, <1>3 DEF TypedNext

LEMMA WriteKeeps ==
  ASSUME DecisionInvariant, Observe, Write
  PROVE  DecisionInvariant'
BY WriteTyped, Standing DEF TypedNext, DecisionInvariant

LEMMA TickTyped ==
  ASSUME TypeOK, Tick
  PROVE  TypedNext
<1>1. /\ TablesOK /\ prepared \in SUBSET Policies
      /\ cache \in [Users -> [Tenants -> Entry]] /\ age \in [Checks -> 0..Patience]
  BY TypeParts
<1>2. /\ UNCHANGED check /\ TablesOK' /\ prepared' \in SUBSET Policies
  BY <1>1 DEF Tick, TablesOK, tables
<1>3. age' \in [Checks -> 0..Patience]
  <2>1. \A c \in Checks : check[c].step # "idle" => age[c] + 1 \in 0..Patience
    BY <1>1, CheckParameters DEF Tick
  <2> QED
    BY <2>1, CheckParameters DEF Tick
<1>4. cache' \in [Users -> [Tenants -> Entry]]
  <2> DEFINE older(u, t) == [cache[u][t] EXCEPT !.age = IF @ < TTL THEN @ + 1 ELSE @]
  <2>1. NoEntry \in Entry
    BY ResultTypes, CheckParameters DEF NoEntry, Entry
  <2>2. \A u \in Users, t \in Tenants : older(u, t) \in Entry
    <3> SUFFICES ASSUME NEW u \in Users, NEW t \in Tenants
                 PROVE  older(u, t) \in Entry
      OBVIOUS
    <3>1. cache[u][t] \in [result : Results, age : 0..TTL, took : 0..Patience]
      BY <1>1 DEF Entry
    <3>2. (IF cache[u][t].age < TTL THEN cache[u][t].age + 1 ELSE cache[u][t].age) \in 0..TTL
      BY <3>1, CheckParameters
    <3> QED
      BY <3>1, <3>2 DEF Entry
  <2>3. cache' = [u \in Users |-> [t \in Tenants |->
                   IF Expired(older(u, t)) THEN NoEntry ELSE older(u, t)]]
    BY DEF Tick
  <2> HIDE DEF older
  <2> QED
    BY <2>1, <2>2, <2>3
<1> QED
  BY <1>2, <1>3, <1>4 DEF TypedNext

LEMMA TickKeeps ==
  ASSUME DecisionInvariant, Observe, Tick
  PROVE  DecisionInvariant'
BY TickTyped, Standing DEF TypedNext, DecisionInvariant

-----------------------------------------------------------------------------
(* The theorems. *)

LEMMA TypedInit == Init => TypeOK /\ \A c \in Checks : check[c] = Idle
<1> SUFFICES ASSUME Init
             PROVE  TypeOK /\ \A c \in Checks : check[c] = Idle
  OBVIOUS
<1>1. TablesOK
  BY DEF Init, TablesOK, RoleRowsOf, NoRow
<1>2. NoEntry \in Entry /\ 0 \in 0..Patience
  BY ResultTypes, CheckParameters DEF NoEntry, Entry
<1>3. /\ prepared \in SUBSET Policies /\ cache \in [Users -> [Tenants -> Entry]]
      /\ age \in [Checks -> 0..Patience]
  BY <1>2 DEF Init
<1>4. Idle \in Slot /\ \A c \in Checks : check[c] = Idle
  BY NoRequest DEF Init, SlotOK
<1>5. check \in [Checks -> Slot] /\ \A c \in Checks : SlotOK(check[c])
  BY <1>4, NoRequest DEF Init
<1> QED
  BY <1>1, <1>3, <1>4, <1>5, TypeParts

LEMMA DecisionInvariantStarts == DecisionInit => DecisionInvariant
<1> SUFFICES ASSUME DecisionInit
             PROVE  DecisionInvariant
  OBVIOUS
<1>1. TypeOK /\ \A c \in Checks : check[c] = Idle
  BY TypedInit DEF DecisionInit
<1>2. ChecksOK
  BY <1>1, NoRequest, Quiet DEF ChecksOK
<1> QED
  BY <1>1, <1>2 DEF DecisionInvariant

LEMMA DecisionInvariantStays ==
  DecisionInvariant /\ [Next /\ Observe]_<<vars, seen>> => DecisionInvariant'
<1> SUFFICES ASSUME DecisionInvariant, [Next /\ Observe]_<<vars, seen>>
             PROVE  DecisionInvariant'
  OBVIOUS
<1>1. CASE Next /\ Observe
  <2>1. ASSUME NEW c \in Checks, NEW k \in Kinds, NEW u \in Users, NEW t \in Tenants,
               StartCheck(c, k, u, t)
        PROVE  DecisionInvariant'
    BY <1>1, <2>1, StartCheckKeeps
  <2>2. ASSUME NEW c \in Checks, ContinueCheck(c)
        PROVE  DecisionInvariant'
    BY <1>1, <2>2, ContinueCheckKeeps
  <2>3. CASE Restart
    BY <2>3, RestartKeeps
  <2>4. CASE Write
    BY <1>1, <2>4, WriteKeeps
  <2>5. CASE Tick
    BY <1>1, <2>5, TickKeeps
  <2> QED
    BY <1>1, <2>1, <2>2, <2>3, <2>4, <2>5 DEF Next
<1>2. CASE UNCHANGED <<vars, seen>>
  <2>1. TypeOK'
    BY <1>2 DEF vars, DecisionInvariant, TypeOK
  <2>2. ChecksOK'
    BY <1>2 DEF vars, DecisionInvariant, ChecksOK
  <2> QED
    BY <2>1, <2>2 DEF DecisionInvariant
<1> QED
  BY <1>1, <1>2

(* The types hold, and every check has seen what its next step relies on.     *)
THEOREM DecisionInvariantHolds == DecisionSpec => []DecisionInvariant
<1>1. DecisionInit => DecisionInvariant
  BY DecisionInvariantStarts
<1>2. DecisionInvariant /\ [Next /\ Observe]_<<vars, seen>> => DecisionInvariant'
  BY DecisionInvariantStays
<1> QED
  BY <1>1, <1>2, PTL DEF DecisionSpec

(* Every decision of AuthorizationService.Check rests on rows of the tenant   *)
(* asked about that were in force during the check.                           *)
THEOREM AlwaysJustified == DecisionSpec => []DecisionsJustified
<1>1. DecisionInvariant => DecisionsJustified
  <2> SUFFICES ASSUME DecisionInvariant, NEW c \in Checks, Decided(c)
               PROVE  Rests(check[c].result, check[c].user, check[c].tenant, seen[c].some)
    BY DEF DecisionsJustified, Rests
  <2> QED
    BY DEF DecisionInvariant, ChecksOK, Justified, Decided
<1> QED
  BY <1>1, DecisionInvariantHolds, PTL

(* RBAC, then ACL, then ABAC: a layer that had something to say all the time   *)
(* is overruled only by a layer before it, unless an error hid a row.         *)
THEOREM AlwaysOrdered == DecisionSpec => []LayersInOrder
<1>1. DecisionInvariant => LayersInOrder
  <2> SUFFICES ASSUME DecisionInvariant, NEW c \in Checks, Decided(c), ~check[c].lost,
                      NEW i \in DOMAIN Layers, NEW j \in DOMAIN Layers,
                      check[c].result.by = Layers[i],
                      Speaks(Layers[j], check[c].user, seen[c].all)
               PROVE  i <= j
    BY DEF LayersInOrder
  <2>1. Ordered(check[c], seen[c].all)
    BY DEF DecisionInvariant, ChecksOK
  <2> QED
    BY <2>1 DEF Ordered, Decided
<1> QED
  BY <1>1, DecisionInvariantHolds, PTL

-----------------------------------------------------------------------------
(* Staleness.  What a check has in its hands: a membership, and something   *)
(* that may make it an allow.                                               *)

IsMember(s) == s.step \in {"teams", "store"} \cup Layered

Carries(s) ==
  \/ s.step \in {"teams"} \cup Layered /\ s.roles \cap Granting # {}
  \/ s.step = "abac" /\ \E p \in s.todo : Verdict[p] = "allow"
  \/ s.step = "store" /\ s.result.allowed

TodoOK(s) ==
  /\ s.step = "teamAcl" => s.todo \subseteq Teams
  /\ s.step = "roleAcl" => s.todo \subseteq Roles
  /\ s.step = "abac" => s.todo \subseteq Policies

WorkOK == TypeOK /\ \A c \in Checks : TodoOK(check[c])

(* Slot c may become s: what it has is what it had, or what the tables say. *)
Becomes(c, s) ==
  /\ SlotOK(s) /\ TodoOK(s)
  /\ s.step # "idle" => s.user = check[c].user /\ s.tenant = check[c].tenant
  /\ IsMember(s) => IsMember(check[c]) \/ memberships[check[c].user][check[c].tenant] # NoRow
  /\ Carries(s) => Carries(check[c]) \/ Grantable(check[c].user, check[c].tenant)

LEMMA WorkParts ==
  ASSUME WorkOK, NEW c \in Checks, check[c].step # "idle"
  PROVE  /\ TypeOK /\ TablesOK
         /\ SlotOK(check[c]) /\ check[c] \in Slot /\ TodoOK(check[c])
         /\ check[c].user \in Users /\ check[c].tenant \in Tenants
BY TypeParts DEF WorkOK, SlotOK

LEMMA BecomesNothing ==
  ASSUME NEW c, NEW s, SlotOK(s), s.step \in {"idle", "done"},
         s.step = "done" => s.user = check[c].user /\ s.tenant = check[c].tenant
  PROVE  Becomes(c, s)
BY DEF Becomes, TodoOK, IsMember, Carries, Layered

LEMMA AbortBecomes ==
  ASSUME NEW c \in Checks, Abort(c)
  PROVE  \E s : check' = [check EXCEPT ![c] = s] /\ Becomes(c, s)
<1>1. SlotOK(Idle) /\ Idle.step = "idle"
  BY NoRequest
<1>2. Becomes(c, Idle)
  BY <1>1, BecomesNothing
<1> QED
  BY <1>2 DEF Abort

LEMMA ReadMembershipBecomes ==
  ASSUME WorkOK, NEW CONSTANT c \in Checks, ReadMembership(c)
  PROVE  \E s : check' = [check EXCEPT ![c] = s] /\ Becomes(c, s)
<1>1. CASE Abort(c)
  BY <1>1, AbortBecomes
<1>2. CASE ~Abort(c)
  <2> DEFINE u == check[c].user
             t == check[c].tenant
             row == memberships[u][t]
  <2>1. /\ check[c].step = "membership" /\ row # NoRow
        /\ check' = [check EXCEPT ![c].step = "teams", ![c].own = row, ![c].roles = row]
    BY <1>2 DEF ReadMembership, FindMembership
  <2>2. /\ check[c] \in Slot /\ u \in Users /\ t \in Tenants /\ TablesOK
    BY <2>1, WorkParts
  <2>3. row \subseteq Roles
    BY <2>1, <2>2, RowRoles DEF TablesOK
  <2>4. PICK s : s = [check[c] EXCEPT !.step = "teams", !.own = row, !.roles = row]
    OBVIOUS
  <2>5. check' = [check EXCEPT ![c] = s]
    BY <2>1, <2>4
  <2>6. /\ s.step = "teams" /\ s.roles = row /\ s.user = u /\ s.tenant = t
    BY <2>2, <2>4 DEF Slot
  <2>7. SlotOK(s)
    BY <2>2, <2>3, <2>4 DEF SlotOK, Slot, Steps
  <2>8. Becomes(c, s)
    BY <2>1, <2>6, <2>7 DEF Becomes, TodoOK, Carries, Grantable, Layered
  <2> QED
    BY <2>5, <2>8
<1> QED
  BY <1>1, <1>2

LEMMA ReadTeamRolesBecomes ==
  ASSUME WorkOK, NEW CONSTANT c \in Checks, ReadTeamRoles(c)
  PROVE  \E s : check' = [check EXCEPT ![c] = s] /\ Becomes(c, s)
<1> DEFINE u == check[c].user
           t == check[c].tenant
<1>1. check[c].step = "teams"
  BY DEF ReadTeamRoles
<1>2. PICK found, s :
        /\ found \subseteq TeamsIn(u, t)
        /\ check' = [check EXCEPT ![c] = s] /\ SlotOK(s)
        /\ s.user = u /\ s.tenant = t
        /\ \/ s.step = "store" /\ Collected(c, found) \cap Granting # {}
           \/ s.step = "userAcl" /\ s.roles = Collected(c, found) /\ Collected(c, found) \cap Granting = {}
  BY TeamRolesRead DEF WorkOK
<1>3. Collected(c, found) \cap Granting # {} => Carries(check[c]) \/ Grantable(u, t)
  <2> SUFFICES ASSUME NEW r \in Collected(c, found), r \in Granting
               PROVE  Carries(check[c]) \/ Grantable(u, t)
    OBVIOUS
  <2>1. CASE r \in check[c].roles
    BY <1>1, <2>1 DEF Carries
  <2>2. CASE r \notin check[c].roles
    <3>1. PICK q \in found : r \in teamMemberships[u][q]
      BY <2>2 DEF Collected
    <3> QED
      BY <1>2, <3>1 DEF Grantable
  <2> QED
    BY <2>1, <2>2
<1>4. Becomes(c, s)
  BY <1>1, <1>2, <1>3 DEF Becomes, TodoOK, IsMember, Carries
<1> QED
  BY <1>2, <1>4

LEMMA PassBecomes ==
  ASSUME WorkOK, NEW CONSTANT c \in Checks, check[c].step \in Layered, NEW step \in Layered,
         NEW todo \in SUBSET (Teams \cup Roles \cup Policies),
         step = "teamAcl" => todo \subseteq Teams,
         step = "roleAcl" => todo \subseteq Roles,
         step = "abac" => todo \subseteq Policies,
         step = "abac" /\ (\E p \in todo : Verdict[p] = "allow")
           => Grantable(check[c].user, check[c].tenant),
         NEW failed \in BOOLEAN, Pass(c, step, todo, failed)
  PROVE  \E s : check' = [check EXCEPT ![c] = s] /\ Becomes(c, s)
<1>1. TypeOK /\ check[c].step \in Reading /\ step \in Steps
  BY DEF WorkOK, Reading, Layered, Steps
<1>2. PICK s : /\ check' = [check EXCEPT ![c] = s] /\ SlotOK(s)
               /\ s.step = step /\ s.todo = todo
               /\ s.user = check[c].user /\ s.tenant = check[c].tenant
               /\ s.roles = check[c].roles
  BY <1>1, Passing
<1>3. IsMember(check[c]) /\ TodoOK(s)
  BY <1>2 DEF IsMember, TodoOK
<1>4. Carries(s) => Carries(check[c]) \/ Grantable(check[c].user, check[c].tenant)
  BY <1>2 DEF Carries, Layered
<1>5. Becomes(c, s)
  BY <1>2, <1>3, <1>4 DEF Becomes
<1> QED
  BY <1>2, <1>5

LEMMA DefaultBecomes ==
  ASSUME WorkOK, NEW CONSTANT c \in Checks, check[c].step \in Layered,
         NEW s, SlotOK(s), s.step = "store",
         s.user = check[c].user, s.tenant = check[c].tenant, s.result = DefaultDeny
  PROVE  Becomes(c, s)
<1>1. s.result = [allowed |-> FALSE, by |-> "none"] /\ FALSE \in BOOLEAN
  BY DEF DefaultDeny
<1>2. ~s.result.allowed
  BY <1>1
<1>3. ~Carries(s)
  BY <1>2 DEF Carries, Layered
<1> QED
  BY <1>3 DEF Becomes, IsMember, TodoOK, Layered

(* A check of slot c may come to this decision. *)
Warranted(c, allowed) ==
  allowed => Carries(check[c]) \/ Grantable(check[c].user, check[c].tenant)

LEMMA DecisionBecomes ==
  ASSUME WorkOK, NEW CONSTANT c \in Checks, check[c].step \in Layered,
         NEW allowed \in BOOLEAN, NEW by \in {"rbac", "user", "team", "role", "abac", "none"},
         Decide(c, allowed, by), Warranted(c, allowed)
  PROVE  \E s : check' = [check EXCEPT ![c] = s] /\ Becomes(c, s)
<1>1. SlotOK(check[c]) /\ check[c] \in Slot /\ check[c].user \in Users /\ check[c].tenant \in Tenants
  BY WorkParts DEF Layered
<1>2. PICK s : s = [check[c] EXCEPT !.step = "store", !.todo = {},
                                    !.result = [allowed |-> allowed, by |-> by]]
  OBVIOUS
<1>3. check' = [check EXCEPT ![c] = s]
  BY <1>2 DEF Decide
<1>4. /\ s.step = "store" /\ s.result = [allowed |-> allowed, by |-> by]
      /\ s.user = check[c].user /\ s.tenant = check[c].tenant
      /\ s.own = check[c].own /\ s.roles = check[c].roles
  BY <1>1, <1>2 DEF Slot
<1>5. [allowed |-> allowed, by |-> by] \in Results
  BY ResultTypes
<1>6. s \in Slot
  BY <1>1, <1>2, <1>5 DEF Slot, Steps
<1>7. SlotOK(s)
  BY <1>1, <1>4, <1>6 DEF SlotOK
<1>8. Carries(s) => Carries(check[c]) \/ Grantable(check[c].user, check[c].tenant)
  <2>1. CASE allowed
    BY <2>1 DEF Warranted
  <2>2. CASE ~allowed
    <3>1. ~s.result.allowed
      BY <1>4, <2>2
    <3> QED
      BY <1>4, <3>1 DEF Carries, Layered
  <2> QED
    BY <2>1, <2>2
<1>9. Becomes(c, s)
  BY <1>4, <1>7, <1>8 DEF Becomes, IsMember, TodoOK, Layered
<1> QED
  BY <1>3, <1>9

(* An entry that allows is something grantable. *)
LEMMA EntryBecomes ==
  ASSUME WorkOK, NEW CONSTANT c \in Checks, check[c].step \in Layered,
         NEW e \in Subjects, NEW by \in {"user", "team", "role"},
         Decide(c, acl[check[c].tenant][e] = "allow", by)
  PROVE  \E s : check' = [check EXCEPT ![c] = s] /\ Becomes(c, s)
<1>1. Warranted(c, acl[check[c].tenant][e] = "allow")
  BY DEF Warranted, Grantable
<1>2. by \in {"rbac", "user", "team", "role", "abac", "none"}
  OBVIOUS
<1>3. (acl[check[c].tenant][e] = "allow") \in BOOLEAN
  OBVIOUS
<1> QED
  BY <1>1, <1>2, <1>3, DecisionBecomes

LEMMA ReadUserAclBecomes ==
  ASSUME WorkOK, NEW CONSTANT c \in Checks, ReadUserAcl(c)
  PROVE  \E s : check' = [check EXCEPT ![c] = s] /\ Becomes(c, s)
<1>1. check[c].step = "userAcl" /\ check[c].step \in Layered
  BY DEF ReadUserAcl, Layered
<1>2. check[c].user \in Subjects
  BY <1>1, WorkParts DEF Subjects
<1>3. CASE Decide(c, acl[check[c].tenant][check[c].user] = "allow", "user")
  BY <1>1, <1>2, <1>3, EntryBecomes
<1>4. CASE Pass(c, "teamList", {}, acl[check[c].tenant][check[c].user] # "none")
  <2>1. PICK failed \in BOOLEAN : failed = (acl[check[c].tenant][check[c].user] # "none")
    OBVIOUS
  <2>2. Pass(c, "teamList", {}, failed) /\ "teamList" \in Layered
    BY <1>4, <2>1 DEF Layered
  <2> QED
    BY <1>1, <2>2, PassBecomes
<1> QED
  BY <1>3, <1>4 DEF ReadUserAcl, FindEntry

LEMMA ListTeamsBecomes ==
  ASSUME WorkOK, NEW CONSTANT c \in Checks, ListTeams(c)
  PROVE  \E s : check' = [check EXCEPT ![c] = s] /\ Becomes(c, s)
<1>1. check[c].step \in Layered
  BY DEF ListTeams, Layered
<1>2. PICK found \in SUBSET TeamsIn(check[c].user, check[c].tenant) :
        Pass(c, "teamAcl", found, found # TeamsIn(check[c].user, check[c].tenant))
  BY DEF ListTeams, TeamsListed
<1>3. PICK failed \in BOOLEAN : failed = (found # TeamsIn(check[c].user, check[c].tenant))
  OBVIOUS
<1>4. Pass(c, "teamAcl", found, failed) /\ "teamAcl" \in Layered
  BY <1>2, <1>3 DEF Layered
<1>5. found \subseteq Teams
  BY <1>2 DEF TeamsIn
<1> QED
  BY <1>1, <1>4, <1>5, PassBecomes

LEMMA ReadTeamAclBecomes ==
  ASSUME WorkOK, NEW CONSTANT c \in Checks, ReadTeamAcl(c)
  PROVE  \E s : check' = [check EXCEPT ![c] = s] /\ Becomes(c, s)
<1>1. check[c].step = "teamAcl" /\ check[c].step \in Layered
  BY DEF ReadTeamAcl, Layered
<1>2. check[c] \in Slot /\ check[c].todo \subseteq Teams /\ check[c].roles \subseteq Roles
  BY <1>1, WorkParts DEF TodoOK, Slot
<1>3. CASE Pass(c, "roleAcl", check[c].roles, FALSE)
  <2>1. PICK failed \in BOOLEAN : failed = FALSE
    OBVIOUS
  <2>2. Pass(c, "roleAcl", check[c].roles, failed) /\ "roleAcl" \in Layered
    BY <1>3, <2>1 DEF Layered
  <2> QED
    BY <1>1, <1>2, <2>2, PassBecomes
<1>4. ASSUME NEW q \in check[c].todo, Decide(c, acl[check[c].tenant][q] = "allow", "team")
      PROVE  \E s : check' = [check EXCEPT ![c] = s] /\ Becomes(c, s)
  <2>1. q \in Subjects
    BY <1>2, <1>4 DEF Subjects
  <2> QED
    BY <1>1, <1>4, <2>1, EntryBecomes
<1>5. ASSUME NEW q \in check[c].todo,
             Pass(c, "teamAcl", check[c].todo \ {q}, acl[check[c].tenant][q] # "none")
      PROVE  \E s : check' = [check EXCEPT ![c] = s] /\ Becomes(c, s)
  <2>1. PICK failed \in BOOLEAN : failed = (acl[check[c].tenant][q] # "none")
    OBVIOUS
  <2>2. Pass(c, "teamAcl", check[c].todo \ {q}, failed) /\ "teamAcl" \in Layered
    BY <1>5, <2>1 DEF Layered
  <2>3. check[c].todo \ {q} \subseteq Teams
    BY <1>2
  <2> QED
    BY <1>1, <2>2, <2>3, PassBecomes
<1> QED
  BY <1>3, <1>4, <1>5 DEF ReadTeamAcl, FindEntry

LEMMA ReadRoleAclBecomes ==
  ASSUME WorkOK, NEW CONSTANT c \in Checks, ReadRoleAcl(c)
  PROVE  \E s : check' = [check EXCEPT ![c] = s] /\ Becomes(c, s)
<1>1. check[c].step = "roleAcl" /\ check[c].step \in Layered
  BY DEF ReadRoleAcl, Layered
<1>2. check[c].todo \subseteq Roles
  BY <1>1, WorkParts DEF TodoOK
<1>3. CASE Pass(c, "policies", {}, FALSE)
  <2>1. PICK failed \in BOOLEAN : failed = FALSE
    OBVIOUS
  <2>2. Pass(c, "policies", {}, failed) /\ "policies" \in Layered
    BY <1>3, <2>1 DEF Layered
  <2> QED
    BY <1>1, <2>2, PassBecomes
<1>4. ASSUME NEW r \in check[c].todo, Decide(c, acl[check[c].tenant][r] = "allow", "role")
      PROVE  \E s : check' = [check EXCEPT ![c] = s] /\ Becomes(c, s)
  <2>1. r \in Subjects
    BY <1>2, <1>4 DEF Subjects
  <2> QED
    BY <1>1, <1>4, <2>1, EntryBecomes
<1>5. ASSUME NEW r \in check[c].todo,
             Pass(c, "roleAcl", check[c].todo \ {r}, acl[check[c].tenant][r] # "none")
      PROVE  \E s : check' = [check EXCEPT ![c] = s] /\ Becomes(c, s)
  <2>1. PICK failed \in BOOLEAN : failed = (acl[check[c].tenant][r] # "none")
    OBVIOUS
  <2>2. Pass(c, "roleAcl", check[c].todo \ {r}, failed) /\ "roleAcl" \in Layered
    BY <1>5, <2>1 DEF Layered
  <2>3. check[c].todo \ {r} \subseteq Roles
    BY <1>2
  <2> QED
    BY <1>1, <2>2, <2>3, PassBecomes
<1> QED
  BY <1>3, <1>4, <1>5 DEF ReadRoleAcl, FindEntry

LEMMA ListPoliciesBecomes ==
  ASSUME WorkOK, NEW CONSTANT c \in Checks, ListPolicies(c)
  PROVE  \E s : check' = [check EXCEPT ![c] = s] /\ Becomes(c, s)
<1> DEFINE u == check[c].user
           t == check[c].tenant
<1>1. check[c].step = "policies" /\ check[c].step \in Layered
  BY DEF ListPolicies, Layered
<1>2. SlotOK(check[c]) /\ check[c] \in Slot
  BY <1>1, WorkParts
<1>3. CASE Pass(c, "abac", Active(t), FALSE)
  <2>1. PICK failed \in BOOLEAN : failed = FALSE
    OBVIOUS
  <2>2. Pass(c, "abac", Active(t), failed) /\ "abac" \in Layered
    BY <1>3, <2>1 DEF Layered
  <2>3. Active(t) \subseteq Policies
    BY DEF Active
  <2>4. (\E p \in Active(t) : Verdict[p] = "allow") => Grantable(u, t)
    BY DEF Grantable
  <2> QED
    BY <1>1, <2>2, <2>3, <2>4, PassBecomes
<1>4. CASE check' = [check EXCEPT ![c].step = "store", ![c].lost = @ \/ Active(t) # {},
                                  ![c].result = DefaultDeny]
  <2>1. PICK s : s = [check[c] EXCEPT !.step = "store", !.lost = @ \/ Active(t) # {},
                                      !.result = DefaultDeny]
    OBVIOUS
  <2>2. check' = [check EXCEPT ![c] = s]
    BY <1>4, <2>1
  <2>3. s.step = "store" /\ s.result = DefaultDeny /\ s.user = u /\ s.tenant = t
    BY <1>2, <2>1 DEF Slot
  <2>4. SlotOK(s)
    <3>1. s \in Slot
      BY <1>2, <2>1, ResultTypes DEF Slot, Steps
    <3>2. s.own = check[c].own /\ s.roles = check[c].roles
      BY <1>2, <2>1 DEF Slot
    <3> QED
      BY <1>1, <1>2, <2>3, <3>1, <3>2 DEF SlotOK
  <2> QED
    BY <1>1, <2>2, <2>3, <2>4, DefaultBecomes
<1> QED
  BY <1>3, <1>4 DEF ListPolicies, ActivePolicies

LEMMA EvaluatePoliciesBecomes ==
  ASSUME WorkOK, NEW CONSTANT c \in Checks, EvaluatePolicies(c)
  PROVE  \E s : check' = [check EXCEPT ![c] = s] /\ Becomes(c, s)
<1>1. check[c].step = "abac" /\ check[c].step \in Layered
  BY DEF EvaluatePolicies, Layered
<1>2. SlotOK(check[c]) /\ check[c] \in Slot
  BY <1>1, WorkParts
<1>3. ASSUME NEW p \in check[c].todo, Decide(c, Verdict[p] = "allow", "abac")
      PROVE  \E s : check' = [check EXCEPT ![c] = s] /\ Becomes(c, s)
  <2>1. Warranted(c, Verdict[p] = "allow")
    BY <1>1, <1>3 DEF Warranted, Carries
  <2>2. (Verdict[p] = "allow") \in BOOLEAN
    OBVIOUS
  <2> QED
    BY <1>1, <1>3, <2>1, <2>2, DecisionBecomes
<1>4. CASE check' = [check EXCEPT ![c].step = "store", ![c].todo = {},
                                  ![c].lost = TRUE, ![c].result = DefaultDeny]
  <2>1. PICK s : s = [check[c] EXCEPT !.step = "store", !.todo = {},
                                      !.lost = TRUE, !.result = DefaultDeny]
    OBVIOUS
  <2>2. check' = [check EXCEPT ![c] = s]
    BY <1>4, <2>1
  <2>3. /\ s.step = "store" /\ s.result = DefaultDeny
        /\ s.user = check[c].user /\ s.tenant = check[c].tenant
    BY <1>2, <2>1 DEF Slot
  <2>4. SlotOK(s)
    <3>1. s \in Slot
      BY <1>2, <2>1, ResultTypes DEF Slot, Steps
    <3>2. s.own = check[c].own /\ s.roles = check[c].roles
      BY <1>2, <2>1 DEF Slot
    <3> QED
      BY <1>1, <1>2, <2>3, <3>1, <3>2 DEF SlotOK
  <2> QED
    BY <1>1, <2>2, <2>3, <2>4, DefaultBecomes
<1> QED
  BY <1>3, <1>4 DEF EvaluatePolicies

LEMMA StoreDecisionBecomes ==
  ASSUME WorkOK, NEW CONSTANT c \in Checks, StoreDecision(c)
  PROVE  \E s : check' = [check EXCEPT ![c] = s] /\ Becomes(c, s)
<1>1. check[c].step = "store" /\ Goto(c, "done")
  BY DEF StoreDecision
<1>2. SlotOK(check[c]) /\ check[c] \in Slot
  BY <1>1, WorkParts
<1>3. PICK s : s = [check[c] EXCEPT !.step = "done"]
  OBVIOUS
<1>4. check' = [check EXCEPT ![c] = s]
  BY <1>1, <1>3 DEF Goto
<1>5. SlotOK(s) /\ s.step = "done" /\ s.user = check[c].user /\ s.tenant = check[c].tenant
  BY <1>1, <1>2, <1>3 DEF SlotOK, Slot, Steps
<1> QED
  BY <1>4, <1>5, BecomesNothing

LEMMA CheckBecomes ==
  ASSUME WorkOK, NEW CONSTANT c \in Checks, ContinueCheck(c)
  PROVE  \E s : check' = [check EXCEPT ![c] = s] /\ Becomes(c, s)
BY ReadMembershipBecomes, ReadTeamRolesBecomes, ReadUserAclBecomes, ListTeamsBecomes,
   ReadTeamAclBecomes, ReadRoleAclBecomes, ListPoliciesBecomes, EvaluatePoliciesBecomes,
   StoreDecisionBecomes, AbortBecomes
   DEF ContinueCheck, Respond

-----------------------------------------------------------------------------
(* The invariant behind StalenessBounded and SweptUnlessLate. *)

HistoryOK ==
  /\ gone \in [Users -> [Tenants -> [member : Nat, grant : Nat]]]
  /\ clean \in [Users -> [Tenants -> {"no", "listed", "swept"}]]
  /\ \A u \in Users, t \in Tenants : clean[u][t] # "no" => ~Grantable(u, t)

(* Slot value s of check c, whose request began a ticks ago. *)
Fresh(c, s, a) ==
  /\ IsMember(s) => gone[s.user][s.tenant].member <= a
  /\ Carries(s) => gone[s.user][s.tenant].grant <= a
  /\ Carries(s) => clean[s.user][s.tenant] = "no" \/ c \in old

(* Entry e of u in t. *)
Kept(u, t, e) ==
  e.result.allowed =>
    /\ e.age < TTL
    /\ gone[u][t].member <= e.age + e.took
    /\ gone[u][t].grant <= e.age + e.took
    /\ clean[u][t] = "swept" => <<u, t>> \in late
    /\ clean[u][t] = "listed" /\ sweep # None /\ <<u, t>> \in sweep.scope =>
         <<u, t>> \in sweep.keys \cup late

StaleInvariant ==
  /\ WorkOK /\ HistoryOK
  /\ \A c \in Checks : Fresh(c, check[c], age[c])
  /\ \A u \in Users, t \in Tenants : Kept(u, t, cache[u][t])

LEMMA GoneTypes ==
  ASSUME HistoryOK, NEW u \in Users, NEW t \in Tenants
  PROVE  /\ gone[u][t] \in [member : Nat, grant : Nat]
         /\ gone[u][t].member \in Nat /\ gone[u][t].grant \in Nat
         /\ clean[u][t] \in {"no", "listed", "swept"}
BY DEF HistoryOK

LEMMA LongGoneType == LongGone \in Nat
BY CheckParameters DEF LongGone

(* One row of the counts. *)
LEMMA CountRow ==
  ASSUME NEW m \in Nat, NEW g \in Nat, NEW row, row = [member |-> m, grant |-> g]
  PROVE  row.member = m /\ row.grant = g /\ row \in [member : Nat, grant : Nat]
OBVIOUS

(* What the counts do while nothing ticks. *)
LEMMA CountsStand ==
  ASSUME HistoryOK, CountTicks(FALSE)
  PROVE  /\ gone' \in [Users -> [Tenants -> [member : Nat, grant : Nat]]]
         /\ \A u \in Users, t \in Tenants :
              gone'[u][t].member <= gone[u][t].member /\ gone'[u][t].grant <= gone[u][t].grant
<1>1. ASSUME NEW u \in Users, NEW t \in Tenants
      PROVE  \E m, g \in Nat : /\ gone'[u][t] = [member |-> m, grant |-> g]
                               /\ m <= gone[u][t].member /\ g <= gone[u][t].grant
  <2>1. gone[u][t].member \in Nat /\ gone[u][t].grant \in Nat
    BY GoneTypes
  <2>2. PICK m : m = Count((memberships[u][t] # NoRow)', FALSE, gone[u][t].member)
    OBVIOUS
  <2>3. PICK g : g = Count(Grantable(u, t)', FALSE, gone[u][t].grant)
    OBVIOUS
  <2>4. gone'[u][t] = [member |-> m, grant |-> g]
    BY <2>2, <2>3 DEF CountTicks
  <2>5. m \in {0, gone[u][t].member} /\ g \in {0, gone[u][t].grant}
    BY <2>2, <2>3 DEF Count
  <2> QED
    BY <2>1, <2>4, <2>5
<1>2. ASSUME NEW u \in Users, NEW t \in Tenants
      PROVE  /\ gone'[u][t] \in [member : Nat, grant : Nat]
             /\ gone'[u][t].member <= gone[u][t].member
             /\ gone'[u][t].grant <= gone[u][t].grant
  <2>1. PICK m \in Nat, g \in Nat : /\ gone'[u][t] = [member |-> m, grant |-> g]
                                   /\ m <= gone[u][t].member /\ g <= gone[u][t].grant
    BY <1>1
  <2> QED
    BY <2>1, CountRow
<1>3. gone' \in [Users -> [Tenants -> [member : Nat, grant : Nat]]]
  BY <1>2 DEF CountTicks
<1> QED
  BY <1>2, <1>3

(* What they do otherwise. *)
LEMMA Counts ==
  ASSUME HistoryOK, CountTicks(Tick)
  PROVE  /\ gone' \in [Users -> [Tenants -> [member : Nat, grant : Nat]]]
         /\ \A u \in Users, t \in Tenants :
              /\ gone'[u][t].member <= gone[u][t].member + 1
              /\ gone'[u][t].grant <= gone[u][t].grant + 1
              /\ ~Tick => /\ gone'[u][t].member <= gone[u][t].member
                          /\ gone'[u][t].grant <= gone[u][t].grant
              /\ memberships'[u][t] # NoRow => gone'[u][t].member = 0
              /\ Grantable(u, t)' => gone'[u][t].grant = 0
<1>1. ASSUME NEW u \in Users, NEW t \in Tenants
      PROVE  \E m, g \in Nat :
               /\ gone'[u][t] = [member |-> m, grant |-> g]
               /\ m <= gone[u][t].member + 1 /\ g <= gone[u][t].grant + 1
               /\ ~Tick => m <= gone[u][t].member /\ g <= gone[u][t].grant
               /\ memberships'[u][t] # NoRow => m = 0
               /\ Grantable(u, t)' => g = 0
  <2>1. gone[u][t].member \in Nat /\ gone[u][t].grant \in Nat
    BY GoneTypes
  <2>2. PICK m : m = Count((memberships[u][t] # NoRow)', Tick, gone[u][t].member)
    OBVIOUS
  <2>3. PICK g : g = Count(Grantable(u, t)', Tick, gone[u][t].grant)
    OBVIOUS
  <2>4. gone'[u][t] = [member |-> m, grant |-> g]
    BY <2>2, <2>3 DEF CountTicks
  <2>5. /\ m \in Nat /\ m <= gone[u][t].member + 1
        /\ ~Tick => m <= gone[u][t].member
        /\ memberships'[u][t] # NoRow => m = 0
    BY <2>1, <2>2 DEF Count, NoRow
  <2>6. /\ g \in Nat /\ g <= gone[u][t].grant + 1
        /\ ~Tick => g <= gone[u][t].grant
        /\ Grantable(u, t)' => g = 0
    BY <2>1, <2>3 DEF Count
  <2> QED
    BY <2>4, <2>5, <2>6
<1>2. ASSUME NEW u \in Users, NEW t \in Tenants
      PROVE  /\ gone'[u][t] \in [member : Nat, grant : Nat]
             /\ gone'[u][t].member <= gone[u][t].member + 1
             /\ gone'[u][t].grant <= gone[u][t].grant + 1
             /\ ~Tick => /\ gone'[u][t].member <= gone[u][t].member
                         /\ gone'[u][t].grant <= gone[u][t].grant
             /\ memberships'[u][t] # NoRow => gone'[u][t].member = 0
             /\ Grantable(u, t)' => gone'[u][t].grant = 0
  <2>1. PICK m \in Nat, g \in Nat :
               /\ gone'[u][t] = [member |-> m, grant |-> g]
               /\ m <= gone[u][t].member + 1 /\ g <= gone[u][t].grant + 1
               /\ ~Tick => m <= gone[u][t].member /\ g <= gone[u][t].grant
               /\ memberships'[u][t] # NoRow => m = 0
               /\ Grantable(u, t)' => g = 0
    BY <1>1
  <2>2. gone'[u][t].member = m /\ gone'[u][t].grant = g
        /\ gone'[u][t] \in [member : Nat, grant : Nat]
    BY <2>1, CountRow
  <2> QED
    BY <2>1, <2>2
<1>3. gone' \in [Users -> [Tenants -> [member : Nat, grant : Nat]]]
  BY <1>2 DEF CountTicks
<1> QED
  BY <1>2, <1>3

LEMMA Cleaning ==
  ASSUME HistoryOK, ObserveNext
  PROVE  /\ clean' \in [Users -> [Tenants -> {"no", "listed", "swept"}]]
         /\ \A u \in Users, t \in Tenants :
              /\ clean'[u][t] \in {"no", clean[u][t]}
              /\ Grantable(u, t)' => clean'[u][t] = "no"
         /\ late \subseteq late'
         /\ \A c \in old : check'[c].step # "idle" => c \in old'
<1>1. ASSUME NEW u \in Users, NEW t \in Tenants
      PROVE  clean'[u][t] = IF Grantable(u, t)' THEN "no" ELSE clean[u][t]
  BY DEF ObserveNext
<1>2. \A u \in Users, t \in Tenants : clean'[u][t] \in {"no", "listed", "swept"}
  BY <1>1, GoneTypes
<1>3. clean' \in [Users -> [Tenants -> {"no", "listed", "swept"}]]
  BY <1>2 DEF ObserveNext
<1> QED
  BY <1>1, <1>3 DEF ObserveNext

LEMMA HistoryStays ==
  ASSUME HistoryOK, ObserveNext
  PROVE  HistoryOK'
BY Counts, Cleaning DEF HistoryOK, ObserveNext

-----------------------------------------------------------------------------
(* The steps of the program, under ObserveNext. *)

LEMMA StaleParts ==
  ASSUME StaleInvariant
  PROVE  /\ WorkOK /\ TypeOK /\ HistoryOK /\ TablesOK /\ prepared \in SUBSET Policies
         /\ cache \in [Users -> [Tenants -> Entry]]
         /\ check \in [Checks -> Slot] /\ age \in [Checks -> 0..Patience]
BY TypeParts DEF StaleInvariant, WorkOK

LEMMA NothingAtHand ==
  ASSUME NEW s, s.step \in {"idle", "membership", "done"}
  PROVE  ~IsMember(s) /\ ~Carries(s)
BY DEF IsMember, Carries, Layered

LEMMA NothingFresh ==
  ASSUME NEW c, NEW s, NEW a, ~IsMember(s), ~Carries(s)
  PROVE  Fresh(c, s, a)
BY DEF Fresh

(* What the check has, it has no longer than before. *)
LEMMA FreshLater ==
  ASSUME HistoryOK, ObserveNext, ~Tick, NEW CONSTANT c \in Checks, NEW CONSTANT s,
         NEW CONSTANT a \in Nat, s.user \in Users, s.tenant \in Tenants, Fresh(c, s, a),
         check'[c].step # "idle"
  PROVE  Fresh(c, s, a)'
<1>1. /\ gone'[s.user][s.tenant].member <= gone[s.user][s.tenant].member
      /\ gone'[s.user][s.tenant].grant <= gone[s.user][s.tenant].grant
  BY Counts DEF ObserveNext
<1>2. /\ gone[s.user][s.tenant].member \in Nat /\ gone[s.user][s.tenant].grant \in Nat
      /\ gone'[s.user][s.tenant].member \in Nat /\ gone'[s.user][s.tenant].grant \in Nat
  BY GoneTypes, HistoryStays DEF HistoryOK
<1>3. clean'[s.user][s.tenant] \in {"no", clean[s.user][s.tenant]} /\ (c \in old => c \in old')
  BY Cleaning
<1>4. (IsMember(s)' <=> IsMember(s)) /\ (Carries(s)' <=> Carries(s))
  BY DEF IsMember, Carries
<1> QED
  BY <1>1, <1>2, <1>3, <1>4 DEF Fresh

LEMMA FreshStays ==
  ASSUME StaleInvariant, ObserveNext, ~Tick, NEW CONSTANT d \in Checks,
         UNCHANGED check[d], check[d].step = "idle" \/ UNCHANGED age[d]
  PROVE  Fresh(d, check[d], age[d])'
<1>1. CASE check[d].step = "idle"
  <2>1. ~IsMember(check[d])' /\ ~Carries(check[d])'
    BY <1>1, NothingAtHand
  <2> QED
    BY <2>1 DEF Fresh
<1>2. CASE check[d].step # "idle"
  <2>1. PICK s, a : s = check[d] /\ a = age[d]
    OBVIOUS
  <2>2. s.user \in Users /\ s.tenant \in Tenants /\ a \in Nat
    BY <1>2, <2>1, WorkParts, StaleParts, CheckParameters
  <2>3. Fresh(d, s, a)
    BY <2>1 DEF StaleInvariant
  <2>4. Fresh(d, s, a)'
    BY <1>2, <2>1, <2>2, <2>3, FreshLater, StaleParts
  <2> QED
    BY <1>2, <2>1, <2>4 DEF Fresh
<1> QED
  BY <1>1, <1>2

(* What the tables say counts from now. *)
LEMMA FreshMoves ==
  ASSUME StaleInvariant, ObserveNext, ~Tick, UNCHANGED tables,
         NEW CONSTANT c \in Checks, NEW CONSTANT s,
         check' = [check EXCEPT ![c] = s], Becomes(c, s), s.step = "idle" \/ UNCHANGED age[c]
  PROVE  Fresh(c, check[c], age[c])'
<1>1. check'[c] = s
  BY StaleParts
<1>2. CASE s.step = "idle"
  <2>1. ~IsMember(check[c])' /\ ~Carries(check[c])'
    BY <1>1, <1>2, NothingAtHand
  <2> QED
    BY <2>1 DEF Fresh
<1>3. CASE s.step # "idle"
  <2> DEFINE u == s.user
             t == s.tenant
  <2>1. s.user = check[c].user /\ s.tenant = check[c].tenant /\ u \in Users /\ t \in Tenants
    BY <1>3 DEF Becomes, SlotOK
  <2>2. PICK a \in Nat : a = age[c] /\ a = age'[c]
    BY <1>3, StaleParts, CheckParameters
  <2>3. /\ gone'[u][t].member <= gone[u][t].member /\ gone'[u][t].grant <= gone[u][t].grant
        /\ memberships'[u][t] # NoRow => gone'[u][t].member = 0
        /\ Grantable(u, t)' => gone'[u][t].grant = 0
    BY <2>1, Counts, StaleParts DEF ObserveNext
  <2>4. /\ gone[u][t].member \in Nat /\ gone[u][t].grant \in Nat
        /\ gone'[u][t].member \in Nat /\ gone'[u][t].grant \in Nat
    BY <2>1, StaleParts, GoneTypes, HistoryStays DEF HistoryOK
  <2>5. /\ clean'[u][t] \in {"no", clean[u][t]} /\ (Grantable(u, t)' => clean'[u][t] = "no")
        /\ c \in old => c \in old'
    <3>1. HistoryOK /\ check'[c].step # "idle"
      BY <1>1, <1>3, StaleParts
    <3> QED
      BY <2>1, <3>1, Cleaning
  <2>6. Grantable(u, t)' <=> Grantable(u, t)
    BY DEF Grantable, TeamsIn, Active, tables
  <2>7. memberships' = memberships
    BY DEF tables
  <2>8. /\ IsMember(check[c]) => gone[u][t].member <= a
        /\ Carries(check[c]) => gone[u][t].grant <= a /\ (clean[u][t] = "no" \/ c \in old)
    BY <2>1, <2>2 DEF StaleInvariant, Fresh
  <2>9. IsMember(s) => gone'[u][t].member <= a
    <3>1. IsMember(s) => IsMember(check[c]) \/ memberships'[u][t] # NoRow
      BY <2>1, <2>7 DEF Becomes
    <3> QED
      BY <2>2, <2>3, <2>4, <2>8, <3>1
  <2>10. Carries(s) => gone'[u][t].grant <= a /\ (clean'[u][t] = "no" \/ c \in old')
    <3>1. Carries(s) => Carries(check[c]) \/ Grantable(u, t)'
      BY <2>1, <2>6 DEF Becomes
    <3>2. CASE Carries(check[c])
      BY <2>2, <2>3, <2>4, <2>5, <2>8, <3>2
    <3>3. CASE Grantable(u, t)'
      BY <2>2, <2>3, <2>5, <3>3
    <3> QED
      BY <3>1, <3>2, <3>3
  <2> QED
    BY <1>1, <2>2, <2>9, <2>10 DEF Fresh
<1> QED
  BY <1>2, <1>3

LEMMA KeptStays ==
  ASSUME StaleInvariant, ObserveNext, ~Tick, UNCHANGED sweep,
         NEW CONSTANT u \in Users, NEW CONSTANT t \in Tenants, UNCHANGED cache[u][t]
  PROVE  Kept(u, t, cache[u][t])'
<1>1. PICK e : e = cache[u][t]
  OBVIOUS
<1>2. e.age \in Nat /\ e.took \in Nat
  BY <1>1, StaleParts, CheckParameters DEF Entry
<1>3. gone'[u][t].member <= gone[u][t].member /\ gone'[u][t].grant <= gone[u][t].grant
  BY Counts, StaleParts DEF ObserveNext
<1>4. /\ gone[u][t].member \in Nat /\ gone[u][t].grant \in Nat
      /\ gone'[u][t].member \in Nat /\ gone'[u][t].grant \in Nat
  BY StaleParts, GoneTypes, HistoryStays DEF HistoryOK
<1>5. clean'[u][t] \in {"no", clean[u][t]} /\ late \subseteq late'
  BY Cleaning, StaleParts
<1>6. Kept(u, t, e)
  BY <1>1 DEF StaleInvariant
<1> QED
  BY <1>1, <1>2, <1>3, <1>4, <1>5, <1>6 DEF Kept

(* What else a step of a check changes. *)
LEMMA ContinueRest ==
  ASSUME WorkOK, NEW CONSTANT c \in Checks, ContinueCheck(c)
  PROVE  /\ UNCHANGED tables /\ prepared' \in SUBSET Policies
         /\ UNCHANGED cache \/ StoreDecision(c)
         /\ UNCHANGED age \/ (check'[c].step = "idle" /\ age' = [age EXCEPT ![c] = 0])
<1>1. TypeOK /\ prepared \in SUBSET Policies /\ check \in [Checks -> Slot]
  BY TypeParts DEF WorkOK
<1>2. CASE EvaluatePolicies(c)
  <2>1. check[c].todo \subseteq Policies
    BY <1>2 DEF WorkOK, TodoOK, EvaluatePolicies
  <2> QED
    BY <1>1, <1>2, <2>1 DEF EvaluatePolicies
<1>3. CASE Respond(c)
  <2>1. check'[c].step = "idle"
    BY <1>1, <1>3, NoRequest DEF Respond, Abort
  <2> QED
    BY <1>1, <1>3, <2>1 DEF Respond
<1>4. CASE StoreDecision(c)
  BY <1>1, <1>4 DEF StoreDecision
<1>5. CASE \/ ReadMembership(c) \/ ReadTeamRoles(c) \/ ReadUserAcl(c)  \/ ListTeams(c)
           \/ ReadTeamAcl(c)    \/ ReadRoleAcl(c)   \/ ListPolicies(c)
  BY <1>1, <1>5 DEF ReadMembership, ReadTeamRoles, ReadUserAcl, ListTeams, ReadTeamAcl,
                    ReadRoleAcl, ListPolicies
<1> QED
  BY <1>2, <1>3, <1>4, <1>5 DEF ContinueCheck

(* The entry that a check stores is as old as what it had in its hands. *)
LEMMA StoredKept ==
  ASSUME StaleInvariant, ObserveNext, ~Tick, NEW CONSTANT c \in Checks, StoreDecision(c),
         NEW CONSTANT u, NEW CONSTANT t, u = check[c].user, t = check[c].tenant,
         cache'[u][t] = [result |-> check[c].result, age |-> 0, took |-> age[c]]
  PROVE  Kept(u, t, cache[u][t])'
<1>1. check[c].step = "store"
  BY DEF StoreDecision
<1>2. u \in Users /\ t \in Tenants
  BY <1>1, WorkParts DEF StaleInvariant
<1>3. PICK e : e = [result |-> check[c].result, age |-> 0, took |-> age[c]]
  OBVIOUS
<1>4. e.result = check[c].result /\ e.age = 0 /\ e.took = age[c] /\ age[c] \in Nat
  BY <1>3, StaleParts, CheckParameters
<1>5. CASE ~e.result.allowed
  BY <1>3, <1>5 DEF Kept
<1>6. CASE e.result.allowed
  <2>1. IsMember(check[c]) /\ Carries(check[c])
    BY <1>1, <1>4, <1>6 DEF IsMember, Carries
  <2>2. /\ gone[u][t].member <= age[c] /\ gone[u][t].grant <= age[c]
        /\ clean[u][t] = "no" \/ c \in old
    <3>1. Fresh(c, check[c], age[c])
      BY DEF StaleInvariant
    <3> QED
      BY <2>1, <3>1 DEF Fresh
  <2>3. gone'[u][t].member <= gone[u][t].member /\ gone'[u][t].grant <= gone[u][t].grant
    BY <1>2, Counts, StaleParts DEF ObserveNext
  <2>4. /\ gone[u][t].member \in Nat /\ gone[u][t].grant \in Nat
        /\ gone'[u][t].member \in Nat /\ gone'[u][t].grant \in Nat
    BY <1>2, StaleParts, GoneTypes, HistoryStays DEF HistoryOK
  <2>5. clean'[u][t] \in {"no", clean[u][t]}
    BY <1>2, Cleaning, StaleParts
  <2>6. c \in old => <<u, t>> \in late'
    BY <1>4, <1>6 DEF ObserveNext
  <2>7. 0 < TTL
    BY CheckParameters
  <2>8. gone'[u][t].member <= e.age + e.took /\ gone'[u][t].grant <= e.age + e.took
    BY <1>4, <2>2, <2>3, <2>4
  <2>9. clean'[u][t] = "no" \/ <<u, t>> \in late'
    BY <2>2, <2>5, <2>6
  <2> QED
    BY <1>3, <1>4, <2>7, <2>8, <2>9 DEF Kept
<1> QED
  BY <1>5, <1>6

LEMMA WorkStays ==
  ASSUME WorkOK, NEW CONSTANT c \in Checks, NEW s, check' = [check EXCEPT ![c] = s],
         SlotOK(s), TodoOK(s), TablesOK', prepared' \in SUBSET Policies,
         cache' \in [Users -> [Tenants -> Entry]], age' \in [Checks -> 0..Patience]
  PROVE  WorkOK'
<1>1. check \in [Checks -> Slot] /\ \A d \in Checks : SlotOK(check[d]) /\ TodoOK(check[d])
  BY TypeParts DEF WorkOK
<1>2. check' \in [Checks -> Slot]
  BY <1>1 DEF SlotOK
<1>3. \A d \in Checks : check'[d] = IF d = c THEN s ELSE check[d]
  BY <1>1
<1>4. \A d \in Checks : SlotOK(check'[d]) /\ TodoOK(check'[d])
  BY <1>1, <1>3
<1>5. TypeOK'
  BY <1>2, <1>4 DEF TypeOK, TablesOK, Entry, Slot, SlotOK
<1> QED
  BY <1>4, <1>5 DEF WorkOK, TodoOK

LEMMA ContinueStale ==
  ASSUME StaleInvariant, ObserveNext, ~Tick, UNCHANGED sweep,
         NEW CONSTANT c \in Checks, ContinueCheck(c)
  PROVE  StaleInvariant'
<1>1. PICK s : check' = [check EXCEPT ![c] = s] /\ Becomes(c, s)
  BY CheckBecomes, StaleParts
<1>2. /\ UNCHANGED tables /\ prepared' \in SUBSET Policies
      /\ UNCHANGED cache \/ StoreDecision(c)
      /\ UNCHANGED age \/ (check'[c].step = "idle" /\ age' = [age EXCEPT ![c] = 0])
  BY ContinueRest, StaleParts
<1>3. check'[c] = s /\ \A d \in Checks \ {c} : check'[d] = check[d] /\ age'[d] = age[d]
  BY <1>1, <1>2, StaleParts
<1>4. WorkOK'
  <2>1. TablesOK'
    BY <1>2, StaleParts DEF TablesOK, tables
  <2>2. cache' \in [Users -> [Tenants -> Entry]]
    BY <1>2, StaleParts, Storing
  <2>3. age' \in [Checks -> 0..Patience]
    BY <1>2, StaleParts, CheckParameters
  <2> QED
    BY <1>1, <1>2, <2>1, <2>2, <2>3, StaleParts, WorkStays DEF Becomes
<1>5. \A d \in Checks : Fresh(d, check[d], age[d])'
  <2>1. Fresh(c, check[c], age[c])'
    BY <1>1, <1>2, <1>3, FreshMoves
  <2>2. ASSUME NEW CONSTANT d \in Checks \ {c}
        PROVE  Fresh(d, check[d], age[d])'
    BY <1>3, <2>2, FreshStays
  <2> QED
    BY <2>1, <2>2
<1>6. ASSUME NEW CONSTANT u \in Users, NEW CONSTANT t \in Tenants
      PROVE  Kept(u, t, cache[u][t])'
  <2>1. CASE UNCHANGED cache[u][t]
    BY <2>1, KeptStays
  <2>2. CASE ~ UNCHANGED cache[u][t]
    <3>1. StoreDecision(c) /\ cache' = [cache EXCEPT ![check[c].user][check[c].tenant] =
                    [result |-> check[c].result, age |-> 0, took |-> age[c]]]
      BY <1>2, <2>2 DEF StoreDecision
    <3>2. check[c].user \in Users /\ check[c].tenant \in Tenants
      BY <3>1, StaleParts, WorkParts DEF StoreDecision
    <3>3. /\ u = check[c].user /\ t = check[c].tenant
          /\ cache'[u][t] = [result |-> check[c].result, age |-> 0, took |-> age[c]]
      BY <2>2, <3>1, <3>2, StaleParts
    <3> QED
      BY <3>1, <3>3, StoredKept
  <2> QED
    BY <2>1, <2>2
<1> QED
  BY <1>4, <1>5, <1>6, HistoryStays, StaleParts DEF StaleInvariant

LEMMA StartStale ==
  ASSUME StaleInvariant, ObserveNext, ~Tick, UNCHANGED sweep, NEW CONSTANT c \in Checks,
         NEW kind \in Kinds, NEW u \in Users, NEW t \in Tenants, StartCheck(c, kind, u, t)
  PROVE  StaleInvariant'
<1>1. PICK s : /\ check' = [check EXCEPT ![c] = s] /\ SlotOK(s)
               /\ s.step = "done" \/ (s.step = "membership" /\ ~s.lost)
  BY Starting, StaleParts
<1>2. UNCHANGED <<tables, prepared, cache>> /\ age' = [age EXCEPT ![c] = 0]
  BY DEF StartCheck
<1>3. check'[c] = s /\ \A d \in Checks \ {c} : check'[d] = check[d] /\ age'[d] = age[d]
  BY <1>1, <1>2, StaleParts
<1>4. WorkOK'
  <2>1. TablesOK' /\ age' \in [Checks -> 0..Patience] /\ TodoOK(s)
    BY <1>1, <1>2, StaleParts, CheckParameters DEF TablesOK, tables, TodoOK
  <2> QED
    BY <1>1, <1>2, <2>1, StaleParts, WorkStays
<1>5. \A d \in Checks : Fresh(d, check[d], age[d])'
  <2>1. ~IsMember(check[c])' /\ ~Carries(check[c])'
    BY <1>1, <1>3, NothingAtHand
  <2>2. Fresh(c, check[c], age[c])'
    BY <2>1 DEF Fresh
  <2>3. ASSUME NEW CONSTANT d \in Checks \ {c}
        PROVE  Fresh(d, check[d], age[d])'
    BY <1>3, <2>3, FreshStays
  <2> QED
    BY <2>2, <2>3
<1>6. \A x \in Users, y \in Tenants : Kept(x, y, cache[x][y])'
  BY <1>2, KeptStays
<1> QED
  BY <1>4, <1>5, <1>6, HistoryStays, StaleParts DEF StaleInvariant

LEMMA RestartStale ==
  ASSUME StaleInvariant, ObserveNext, ~Tick, UNCHANGED sweep, Restart
  PROVE  StaleInvariant'
<1>1. UNCHANGED <<tables, cache>> /\ \A c \in Checks : check'[c] = Idle
  BY DEF Restart
<1>2. WorkOK'
  <2>1. /\ TablesOK' /\ prepared' \in SUBSET Policies
        /\ cache' \in [Users -> [Tenants -> Entry]] /\ age' \in [Checks -> 0..Patience]
    BY StaleParts, CheckParameters DEF Restart, TablesOK, tables
  <2>2. check' \in [Checks -> Slot] /\ \A c \in Checks : SlotOK(check'[c])
    BY NoRequest DEF Restart, SlotOK
  <2>3. TypeOK'
    BY <2>1, <2>2 DEF TypeOK, TablesOK, Entry, Slot, SlotOK
  <2>4. \A c \in Checks : TodoOK(check'[c])
    BY <1>1, NoRequest DEF TodoOK
  <2> QED
    BY <2>3, <2>4 DEF WorkOK, TodoOK
<1>3. ASSUME NEW CONSTANT c \in Checks
      PROVE  Fresh(c, check[c], age[c])'
  <2>1. ~IsMember(check[c])' /\ ~Carries(check[c])'
    BY <1>1, NoRequest, NothingAtHand
  <2> QED
    BY <2>1 DEF Fresh
<1>4. \A u \in Users, t \in Tenants : Kept(u, t, cache[u][t])'
  BY <1>1, KeptStays
<1> QED
  BY <1>2, <1>3, <1>4, HistoryStays, StaleParts DEF StaleInvariant

LEMMA TypedWork ==
  ASSUME WorkOK, TypedNext
  PROVE  WorkOK'
<1>1. check \in [Checks -> Slot] /\ \A c \in Checks : SlotOK(check[c]) /\ TodoOK(check[c])
  BY TypeParts DEF WorkOK
<1>2. TypeOK'
  BY <1>1 DEF TypedNext, TypeOK, TablesOK, Entry, Slot, SlotOK
<1> QED
  BY <1>1, <1>2 DEF TypedNext, WorkOK, TodoOK

LEMMA WriteStale ==
  ASSUME StaleInvariant, ObserveNext, ~Tick, UNCHANGED sweep, Write
  PROVE  StaleInvariant'
<1>1. UNCHANGED <<cache, check, age>>
  BY DEF Write
<1>2. WorkOK'
  BY WriteTyped, TypedWork, StaleParts
<1>3. \A c \in Checks : Fresh(c, check[c], age[c])'
  BY <1>1, FreshStays
<1>4. \A u \in Users, t \in Tenants : Kept(u, t, cache[u][t])'
  BY <1>1, KeptStays
<1> QED
  BY <1>2, <1>3, <1>4, HistoryStays, StaleParts DEF StaleInvariant

(* Everything gets older by one tick, and an entry may be gone. *)
LEMMA TickStale ==
  ASSUME StaleInvariant, ObserveNext, UNCHANGED sweep, Tick
  PROVE  StaleInvariant'
<1>1. WorkOK'
  BY TickTyped, TypedWork, StaleParts
<1>2. ASSUME NEW CONSTANT c \in Checks
      PROVE  Fresh(c, check[c], age[c])'
  <2>1. check'[c] = check[c]
    BY DEF Tick
  <2>2. CASE check[c].step = "idle"
    <3>1. ~IsMember(check[c])' /\ ~Carries(check[c])'
      BY <2>1, <2>2, NothingAtHand
    <3> QED
      BY <3>1 DEF Fresh
  <2>3. CASE check[c].step # "idle"
    <3>1. PICK s, u, t : s = check[c] /\ u = s.user /\ t = s.tenant
      OBVIOUS
    <3>2. u \in Users /\ t \in Tenants /\ age[c] \in Nat /\ age'[c] = age[c] + 1
      BY <2>3, <3>1, WorkParts, StaleParts, CheckParameters DEF Tick
    <3>3. gone'[u][t].member <= gone[u][t].member + 1 /\ gone'[u][t].grant <= gone[u][t].grant + 1
      BY <3>2, Counts, StaleParts DEF ObserveNext
    <3>4. /\ gone[u][t].member \in Nat /\ gone[u][t].grant \in Nat
          /\ gone'[u][t].member \in Nat /\ gone'[u][t].grant \in Nat
      BY <3>2, StaleParts, GoneTypes, HistoryStays DEF HistoryOK
    <3>5. clean'[u][t] \in {"no", clean[u][t]} /\ (c \in old => c \in old')
      BY <2>1, <2>3, <3>2, Cleaning, StaleParts
    <3>6. /\ IsMember(s) => gone[u][t].member <= age[c]
          /\ Carries(s) => gone[u][t].grant <= age[c] /\ (clean[u][t] = "no" \/ c \in old)
      BY <3>1 DEF StaleInvariant, Fresh
    <3>7. IsMember(s) => gone'[u][t].member <= age'[c]
      BY <3>2, <3>3, <3>4, <3>6
    <3>8. Carries(s) => gone'[u][t].grant <= age'[c] /\ (clean'[u][t] = "no" \/ c \in old')
      BY <3>2, <3>3, <3>4, <3>5, <3>6
    <3> QED
      BY <2>1, <3>1, <3>7, <3>8 DEF Fresh
  <2> QED
    BY <2>2, <2>3
<1>3. ASSUME NEW CONSTANT u \in Users, NEW CONSTANT t \in Tenants
      PROVE  Kept(u, t, cache[u][t])'
  <2>1. PICK older : older = [cache[u][t] EXCEPT !.age = IF @ < TTL THEN @ + 1 ELSE @]
    OBVIOUS
  <2>2. cache'[u][t] = IF Expired(older) THEN NoEntry ELSE older
    BY <2>1 DEF Tick
  <2>3. CASE Expired(older)
    <3>1. NoEntry.result = DefaultDeny
      BY DEF NoEntry
    <3>2. ~NoEntry.result.allowed
      BY <3>1 DEF DefaultDeny
    <3> QED
      BY <2>2, <2>3, <3>2 DEF Kept
  <2>4. CASE ~Expired(older)
    <3>1. PICK e : e = cache[u][t]
      OBVIOUS
    <3>2. e \in Entry /\ e.age \in Nat /\ e.took \in Nat /\ TTL \in Nat
      BY <3>1, StaleParts, CheckParameters DEF Entry
    <3>3. /\ older.result = e.result /\ older.took = e.took
          /\ older.age = IF e.age < TTL THEN e.age + 1 ELSE e.age
      BY <2>1, <3>1, <3>2 DEF Entry
    <3>4. older.age < TTL
      BY <2>4, <3>2, <3>3 DEF Expired
    <3>5. gone'[u][t].member <= gone[u][t].member + 1 /\ gone'[u][t].grant <= gone[u][t].grant + 1
      BY Counts, StaleParts DEF ObserveNext
    <3>6. /\ gone[u][t].member \in Nat /\ gone[u][t].grant \in Nat
          /\ gone'[u][t].member \in Nat /\ gone'[u][t].grant \in Nat
      BY StaleParts, GoneTypes, HistoryStays DEF HistoryOK
    <3>7. clean'[u][t] \in {"no", clean[u][t]} /\ late \subseteq late'
      BY Cleaning, StaleParts
    <3>8. Kept(u, t, e) /\ cache'[u][t] = older
      BY <2>2, <2>4, <3>1 DEF StaleInvariant
    <3>9. e.result.allowed => /\ gone'[u][t].member <= older.age + older.took
                              /\ gone'[u][t].grant <= older.age + older.took
      <4>1. e.result.allowed => /\ e.age < TTL /\ gone[u][t].member <= e.age + e.took
                                /\ gone[u][t].grant <= e.age + e.took
        BY <3>8 DEF Kept
      <4> QED
        BY <3>2, <3>3, <3>5, <3>6, <4>1
    <3> QED
      BY <3>3, <3>4, <3>7, <3>8, <3>9 DEF Kept
  <2> QED
    BY <2>3, <2>4
<1> QED
  BY <1>1, <1>2, <1>3, HistoryStays, StaleParts DEF StaleInvariant

-----------------------------------------------------------------------------
(* The sweeps. *)

LEMMA SameWork ==
  ASSUME WorkOK, UNCHANGED <<tables, prepared, check, age>>,
         cache' \in [Users -> [Tenants -> Entry]]
  PROVE  WorkOK' /\ \A u, t : Grantable(u, t)' <=> Grantable(u, t)
<1>1. TypedNext
  BY TypeParts DEF WorkOK, TypedNext, TablesOK, tables
<1> QED
  BY <1>1, TypedWork DEF Grantable, TeamsIn, Active, tables

(* What was listed is cached, whatever allows among it. *)
LEMMA StartSweepStale ==
  ASSUME StaleInvariant, NEW CONSTANT scope \in Scopes, StartSweep(scope), ObserveStart(scope)
  PROVE  StaleInvariant'
<1>1. /\ UNCHANGED <<tables, prepared, cache, check, age>>
      /\ sweep' = [scope |-> scope, keys |-> Matched(scope)]
  BY DEF StartSweep, vars, tables
<1>2. WorkOK' /\ \A u, t : Grantable(u, t)' <=> Grantable(u, t)
  BY <1>1, StaleParts, SameWork
<1>3. /\ gone' \in [Users -> [Tenants -> [member : Nat, grant : Nat]]]
      /\ \A u \in Users, t \in Tenants :
           gone'[u][t].member <= gone[u][t].member /\ gone'[u][t].grant <= gone[u][t].grant
  BY CountsStand, StaleParts DEF ObserveStart
<1>4. \A u \in Users, t \in Tenants :
        clean'[u][t] = IF <<u, t>> \in scope /\ ~Grantable(u, t) THEN "listed" ELSE clean[u][t]
  BY DEF ObserveStart
<1>5. HistoryOK'
  <2>1. \A u \in Users, t \in Tenants : clean'[u][t] \in {"no", "listed", "swept"}
    <3>1. \A u \in Users, t \in Tenants : clean[u][t] \in {"no", "listed", "swept"}
      BY GoneTypes, StaleParts
    <3> QED
      BY <1>4, <3>1
  <2>2. clean' \in [Users -> [Tenants -> {"no", "listed", "swept"}]]
    BY <2>1 DEF ObserveStart
  <2>3. \A u \in Users, t \in Tenants : clean'[u][t] # "no" => ~Grantable(u, t)
    BY <1>4, StaleParts DEF HistoryOK
  <2> QED
    BY <1>2, <1>3, <2>2, <2>3 DEF HistoryOK
<1>6. \A u \in Users, t \in Tenants :
        /\ gone[u][t].member \in Nat /\ gone[u][t].grant \in Nat
        /\ gone'[u][t].member \in Nat /\ gone'[u][t].grant \in Nat
  BY <1>5, StaleParts, GoneTypes DEF HistoryOK
<1>7. ASSUME NEW CONSTANT c \in Checks
      PROVE  Fresh(c, check[c], age[c])'
  <2>1. CASE check[c].step = "idle"
    <3>1. ~IsMember(check[c])' /\ ~Carries(check[c])'
      BY <1>1, <2>1, NothingAtHand
    <3> QED
      BY <3>1 DEF Fresh
  <2>2. CASE check[c].step # "idle"
    <3>1. PICK s, u, t, a : s = check[c] /\ u = s.user /\ t = s.tenant /\ a = age[c]
      OBVIOUS
    <3>2. u \in Users /\ t \in Tenants /\ a \in Nat
      BY <2>2, <3>1, WorkParts, StaleParts, CheckParameters
    <3>3. /\ IsMember(s) => gone[u][t].member <= a
          /\ Carries(s) => gone[u][t].grant <= a /\ (clean[u][t] = "no" \/ c \in old)
      BY <3>1 DEF StaleInvariant, Fresh
    <3>4. clean'[u][t] = clean[u][t] \/ c \in old'
      BY <1>4, <2>2, <3>1, <3>2 DEF ObserveStart, Running
    <3>5. c \in old => c \in old'
      BY DEF ObserveStart
    <3>6. IsMember(s) => gone'[u][t].member <= a
      BY <1>3, <1>6, <3>2, <3>3
    <3>7. Carries(s) => gone'[u][t].grant <= a /\ (clean'[u][t] = "no" \/ c \in old')
      BY <1>3, <1>6, <3>2, <3>3, <3>4, <3>5
    <3> QED
      BY <1>1, <3>1, <3>6, <3>7 DEF Fresh
  <2> QED
    BY <2>1, <2>2
<1>8. ASSUME NEW CONSTANT u \in Users, NEW CONSTANT t \in Tenants
      PROVE  Kept(u, t, cache[u][t])'
  <2>1. PICK e : e = cache[u][t]
    OBVIOUS
  <2>2. Kept(u, t, e) /\ e.age \in Nat /\ e.took \in Nat
    BY <2>1, StaleParts, CheckParameters DEF StaleInvariant, Entry
  <2>3. e.result.allowed => Cached(u, t)
    <3>1. NoEntry.result = DefaultDeny
      BY DEF NoEntry
    <3>2. ~NoEntry.result.allowed
      BY <3>1 DEF DefaultDeny
    <3> QED
      BY <2>1, <3>2 DEF Cached
  <2>4. sweep'.scope = scope /\ sweep'.keys = Matched(scope)
    BY <1>1
  <2>5. e.result.allowed /\ <<u, t>> \in scope => <<u, t>> \in Matched(scope)
    BY <2>3 DEF Matched
  <2>6. clean'[u][t] = "swept" => clean[u][t] = "swept" /\ (<<u, t>> \in late => <<u, t>> \in late')
    <3>1. clean[u][t] = "swept" => ~Grantable(u, t)
      BY StaleParts DEF HistoryOK
    <3> QED
      BY <1>4, <3>1 DEF ObserveStart
  <2> QED
    BY <1>1, <1>3, <1>6, <2>1, <2>2, <2>4, <2>5, <2>6 DEF Kept
<1> QED
  BY <1>2, <1>5, <1>7, <1>8 DEF StaleInvariant

(* While nothing but the sweep and the cache changes. *)
LEMMA SweepFresh ==
  ASSUME StaleInvariant, HistoryOK', CountTicks(FALSE), UNCHANGED <<check, age, old>>,
         \A u \in Users, t \in Tenants : clean'[u][t] = "no" <=> clean[u][t] = "no",
         NEW CONSTANT c \in Checks
  PROVE  Fresh(c, check[c], age[c])'
<1>1. CASE check[c].step = "idle"
  <2>1. ~IsMember(check[c])' /\ ~Carries(check[c])'
    BY <1>1, NothingAtHand
  <2> QED
    BY <2>1 DEF Fresh
<1>2. CASE check[c].step # "idle"
  <2>1. PICK s, u, t, a : s = check[c] /\ u = s.user /\ t = s.tenant /\ a = age[c]
    OBVIOUS
  <2>2. u \in Users /\ t \in Tenants /\ a \in Nat
    BY <1>2, <2>1, WorkParts, StaleParts, CheckParameters
  <2>3. gone'[u][t].member <= gone[u][t].member /\ gone'[u][t].grant <= gone[u][t].grant
    BY <2>2, CountsStand, StaleParts
  <2>4. /\ gone[u][t].member \in Nat /\ gone[u][t].grant \in Nat
        /\ gone'[u][t].member \in Nat /\ gone'[u][t].grant \in Nat
    BY <2>2, StaleParts, GoneTypes DEF HistoryOK
  <2>5. /\ IsMember(s) => gone[u][t].member <= a
        /\ Carries(s) => gone[u][t].grant <= a /\ (clean[u][t] = "no" \/ c \in old)
    BY <2>1 DEF StaleInvariant, Fresh
  <2>6. IsMember(s) => gone'[u][t].member <= a
    BY <2>2, <2>3, <2>4, <2>5
  <2>7. Carries(s) => gone'[u][t].grant <= a /\ (clean'[u][t] = "no" \/ c \in old')
    BY <2>2, <2>3, <2>4, <2>5
  <2> QED
    BY <2>1, <2>6, <2>7 DEF Fresh
<1> QED
  BY <1>1, <1>2

(* What allows was listed and is deleted, or came late. *)
LEMMA FinishSweepStale ==
  ASSUME StaleInvariant, FinishSweep, ObserveFinish
  PROVE  StaleInvariant'
<1>1. /\ UNCHANGED <<tables, prepared, check, age, old, late>>
      /\ sweep # None /\ sweep' = None
  BY DEF FinishSweep, ObserveFinish
<1>2. \A u \in Users, t \in Tenants :
        cache'[u][t] = IF <<u, t>> \in sweep.keys THEN NoEntry ELSE cache[u][t]
  BY DEF FinishSweep
<1>3. cache' \in [Users -> [Tenants -> Entry]]
  <2>1. NoEntry \in Entry
    BY ResultTypes, CheckParameters DEF NoEntry, Entry
  <2>2. \A u \in Users, t \in Tenants : cache'[u][t] \in Entry
    BY <1>2, <2>1, StaleParts
  <2> QED
    BY <2>2 DEF FinishSweep
<1>4. WorkOK' /\ \A u, t : Grantable(u, t)' <=> Grantable(u, t)
  BY <1>1, <1>3, StaleParts, SameWork
<1>5. /\ gone' \in [Users -> [Tenants -> [member : Nat, grant : Nat]]]
      /\ \A u \in Users, t \in Tenants :
           gone'[u][t].member <= gone[u][t].member /\ gone'[u][t].grant <= gone[u][t].grant
  BY CountsStand, StaleParts DEF ObserveFinish
<1>6. \A u \in Users, t \in Tenants :
        clean'[u][t] = IF <<u, t>> \in sweep.scope /\ clean[u][t] = "listed"
                       THEN "swept" ELSE clean[u][t]
  BY DEF ObserveFinish
<1>7. HistoryOK'
  <2>1. \A u \in Users, t \in Tenants : clean'[u][t] \in {"no", "listed", "swept"}
    <3>1. \A u \in Users, t \in Tenants : clean[u][t] \in {"no", "listed", "swept"}
      BY GoneTypes, StaleParts
    <3> QED
      BY <1>6, <3>1
  <2>2. clean' \in [Users -> [Tenants -> {"no", "listed", "swept"}]]
    BY <2>1 DEF ObserveFinish
  <2>3. \A u \in Users, t \in Tenants : clean'[u][t] # "no" => ~Grantable(u, t)
    BY <1>6, StaleParts DEF HistoryOK
  <2> QED
    BY <1>4, <1>5, <2>2, <2>3 DEF HistoryOK
<1>8. \A c \in Checks : Fresh(c, check[c], age[c])'
  <2>1. \A u \in Users, t \in Tenants : clean'[u][t] = "no" <=> clean[u][t] = "no"
    BY <1>6
  <2> QED
    BY <1>1, <1>7, <2>1, SweepFresh DEF ObserveFinish
<1>9. ASSUME NEW CONSTANT u \in Users, NEW CONSTANT t \in Tenants
      PROVE  Kept(u, t, cache[u][t])'
  <2>1. CASE <<u, t>> \in sweep.keys
    <3>1. NoEntry.result = DefaultDeny
      BY DEF NoEntry
    <3>2. ~NoEntry.result.allowed
      BY <3>1 DEF DefaultDeny
    <3> QED
      BY <1>2, <2>1, <3>2 DEF Kept
  <2>2. CASE <<u, t>> \notin sweep.keys
    <3>1. PICK e : e = cache[u][t]
      OBVIOUS
    <3>2. Kept(u, t, e) /\ e.age \in Nat /\ e.took \in Nat
      BY <3>1, StaleParts, CheckParameters DEF StaleInvariant, Entry
    <3>3. /\ gone[u][t].member \in Nat /\ gone[u][t].grant \in Nat
          /\ gone'[u][t].member \in Nat /\ gone'[u][t].grant \in Nat
      BY <1>7, StaleParts, GoneTypes DEF HistoryOK
    <3>4. cache'[u][t] = e
      BY <1>2, <2>2, <3>1
    <3> QED
      BY <1>1, <1>5, <1>6, <2>2, <3>2, <3>3, <3>4 DEF Kept
  <2> QED
    BY <2>1, <2>2
<1> QED
  BY <1>4, <1>7, <1>8, <1>9 DEF StaleInvariant

LEMMA SweepFailsStale ==
  ASSUME StaleInvariant, SweepFails, CountTicks(FALSE), UNCHANGED <<clean, old, late>>
  PROVE  StaleInvariant'
<1>1. UNCHANGED <<tables, prepared, cache, check, age>> /\ sweep' = None
  BY DEF SweepFails, vars, tables
<1>2. WorkOK' /\ \A u, t : Grantable(u, t)' <=> Grantable(u, t)
  BY <1>1, StaleParts, SameWork
<1>3. /\ gone' \in [Users -> [Tenants -> [member : Nat, grant : Nat]]]
      /\ \A u \in Users, t \in Tenants :
           gone'[u][t].member <= gone[u][t].member /\ gone'[u][t].grant <= gone[u][t].grant
  BY CountsStand, StaleParts
<1>4. HistoryOK'
  BY <1>2, <1>3, StaleParts DEF HistoryOK
<1>5. \A c \in Checks : Fresh(c, check[c], age[c])'
  BY <1>1, <1>4, SweepFresh
<1>6. ASSUME NEW CONSTANT u \in Users, NEW CONSTANT t \in Tenants
      PROVE  Kept(u, t, cache[u][t])'
  <2>1. PICK e : e = cache[u][t]
    OBVIOUS
  <2>2. Kept(u, t, e) /\ e.age \in Nat /\ e.took \in Nat
    BY <2>1, StaleParts, CheckParameters DEF StaleInvariant, Entry
  <2>3. /\ gone[u][t].member \in Nat /\ gone[u][t].grant \in Nat
        /\ gone'[u][t].member \in Nat /\ gone'[u][t].grant \in Nat
    BY <1>4, StaleParts, GoneTypes DEF HistoryOK
  <2> QED
    BY <1>1, <1>3, <2>1, <2>2, <2>3 DEF Kept
<1> QED
  BY <1>2, <1>4, <1>5, <1>6 DEF StaleInvariant

-----------------------------------------------------------------------------
LEMMA StaleInvariantStarts == StalenessInit => StaleInvariant
<1> SUFFICES ASSUME StalenessInit
             PROVE  StaleInvariant
  OBVIOUS
<1>1. TypeOK /\ \A c \in Checks : check[c] = Idle
  BY TypedInit DEF StalenessInit
<1>2. WorkOK /\ \A c \in Checks : Fresh(c, check[c], age[c])
  BY <1>1, NoRequest, NothingAtHand, NothingFresh DEF WorkOK, TodoOK
<1>3. HistoryOK
  <2>1. gone \in [Users -> [Tenants -> [member : Nat, grant : Nat]]]
    BY LongGoneType DEF StalenessInit
  <2>2. /\ clean \in [Users -> [Tenants -> {"no", "listed", "swept"}]]
        /\ \A u \in Users, t \in Tenants : clean[u][t] = "no"
    BY DEF StalenessInit
  <2> QED
    BY <2>1, <2>2 DEF HistoryOK
<1>4. \A u \in Users, t \in Tenants : Kept(u, t, cache[u][t])
  <2>1. \A u \in Users, t \in Tenants : cache[u][t] = NoEntry
    BY DEF StalenessInit, Init
  <2>2. NoEntry.result = DefaultDeny
    BY DEF NoEntry
  <2>3. ~NoEntry.result.allowed
    BY <2>2 DEF DefaultDeny
  <2> QED
    BY <2>1, <2>3 DEF Kept
<1> QED
  BY <1>2, <1>3, <1>4 DEF StaleInvariant

LEMMA StaleInvariantStays == StaleInvariant /\ [StalenessNext]_allVars => StaleInvariant'
<1> SUFFICES ASSUME StaleInvariant, [StalenessNext]_allVars
             PROVE  StaleInvariant'
  OBVIOUS
<1>1. CASE Next /\ UNCHANGED sweep /\ ObserveNext
  <2>1. CASE Tick
    BY <1>1, <2>1, TickStale
  <2>2. ASSUME ~Tick, NEW c \in Checks, NEW k \in Kinds, NEW u \in Users, NEW t \in Tenants,
               StartCheck(c, k, u, t)
        PROVE  StaleInvariant'
    BY <1>1, <2>2, StartStale
  <2>3. ASSUME ~Tick, NEW c \in Checks, ContinueCheck(c)
        PROVE  StaleInvariant'
    BY <1>1, <2>3, ContinueStale
  <2>4. CASE ~Tick /\ Restart
    BY <1>1, <2>4, RestartStale
  <2>5. CASE ~Tick /\ Write
    BY <1>1, <2>5, WriteStale
  <2> QED
    BY <1>1, <2>1, <2>2, <2>3, <2>4, <2>5 DEF Next
<1>2. ASSUME NEW scope \in Scopes, StartSweep(scope), ObserveStart(scope)
      PROVE  StaleInvariant'
  BY <1>2, StartSweepStale
<1>3. CASE FinishSweep /\ ObserveFinish
  BY <1>3, FinishSweepStale
<1>4. CASE SweepFails /\ CountTicks(FALSE) /\ UNCHANGED <<clean, old, late>>
  BY <1>4, SweepFailsStale
<1>5. CASE UNCHANGED allVars
  <2>1. UNCHANGED <<tables, prepared, cache, check, age, sweep, gone, clean, old, late>>
    BY <1>5 DEF allVars, vars, tables, history
  <2>2. WorkOK' /\ \A u, t : Grantable(u, t)' <=> Grantable(u, t)
    BY <2>1, StaleParts, SameWork
  <2>3. HistoryOK'
    BY <2>1, <2>2, StaleParts DEF HistoryOK
  <2>4. \A c \in Checks : Fresh(c, check[c], age[c])'
    BY <2>1 DEF StaleInvariant, Fresh
  <2>5. \A u \in Users, t \in Tenants : Kept(u, t, cache[u][t])'
    BY <2>1 DEF StaleInvariant, Kept
  <2> QED
    BY <2>2, <2>3, <2>4, <2>5 DEF StaleInvariant
<1> QED
  BY <1>1, <1>2, <1>3, <1>4, <1>5 DEF StalenessNext

THEOREM StaleInvariantHolds == StalenessSpec => []StaleInvariant
<1>1. StalenessInit => StaleInvariant
  BY StaleInvariantStarts
<1>2. StaleInvariant /\ [StalenessNext]_allVars => StaleInvariant'
  BY StaleInvariantStays
<1> QED
  BY <1>1, <1>2, PTL DEF StalenessSpec

(* A cached allow outlives the membership and the last grant by less than the *)
(* time to live and the duration of the check that computed it.               *)
THEOREM AlwaysBounded == StalenessSpec => []StalenessBounded
<1>1. StaleInvariant => StalenessBounded
  <2> SUFFICES ASSUME StaleInvariant, NEW u \in Users, NEW t \in Tenants,
                      cache[u][t].result.allowed
               PROVE  /\ gone[u][t].member < TTL + cache[u][t].took
                      /\ gone[u][t].grant < TTL + cache[u][t].took
    BY DEF StalenessBounded
  <2>1. Kept(u, t, cache[u][t])
    BY DEF StaleInvariant
  <2>2. /\ cache[u][t].age \in Nat /\ cache[u][t].took \in Nat /\ TTL \in Nat
        /\ gone[u][t].member \in Nat /\ gone[u][t].grant \in Nat
    BY StaleParts, GoneTypes, CheckParameters DEF Entry
  <2> QED
    BY <2>1, <2>2 DEF Kept
<1> QED
  BY <1>1, StaleInvariantHolds, PTL

(* The keys that Invalidate lists and deletes are all there are, but for the  *)
(* allow that a check running at the time stores afterwards.                  *)
THEOREM AlwaysSwept == StalenessSpec => []SweptUnlessLate
<1>1. StaleInvariant => SweptUnlessLate
  BY DEF StaleInvariant, Kept, SweptUnlessLate
<1> QED
  BY <1>1, StaleInvariantHolds, PTL
=============================================================================

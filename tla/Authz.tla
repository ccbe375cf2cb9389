------------------------------- MODULE Authz -------------------------------
(***************************************************************************)
(* POST /authz/check: RBAC, then ACL, then ABAC, behind a Redis decision   *)
(* cache (internal/service/authorization.go, authz_cache.go, abac.go,      *)
(* acl.go, policy.go).                                                     *)
(*                                                                         *)
(* A check is a goroutine that reads the cache, then one table after the   *)
(* other, and writes its decision back; the tables change under it.        *)
(* Cache keys of different resources and actions never meet, so all checks *)
(* are about one resource and one action.                                  *)
(*                                                                         *)
(*   memberships, teamMemberships   role sets of the rows, or NoRow        *)
(*   acl       acl[t][s]: the effect of the entry that CheckPermission     *)
(*             finds for subject s, the one with the least id, or "none"   *)
(*   policies  policies[p]: "absent", "inactive", "active" or "deleted"    *)
(*   prepared  the keys of the map preparedQueries of this process         *)
(*   cache     cache[u][t]: the entry of u in t, or NoEntry                *)
(*   check     check[c]: the request slot c is serving                     *)
(*   age       age[c]: ticks since that request began                      *)
(*                                                                         *)
(* AuthzDecision adds the history of one check, AuthzStaleness that of the *)
(* grants behind a cached decision.                                        *)
(***************************************************************************)
EXTENDS Naturals

CONSTANTS
  Users, Tenants, Teams, Roles, Policies, Checks,
  Kinds,     \* the endpoints in use, of "check" and "dryRun"
  Granting,  \* the roles whose entry in rolePermissions has the permission
  Home,      \* Home[g]: the tenant of team g
  Owner,     \* Owner[p]: the tenant of policy p
  Verdict,   \* Verdict[p]: "allow", "deny", or "broken" (Rego that fails)
  TTL,       \* AuthzCacheTTL, in ticks
  Patience,  \* bound: the ticks a check may take
  None       \* no role, no user, no tenant

Subjects == Users \cup Teams \cup Roles
NoRow == {None}

ASSUME CheckParameters ==
  /\ Kinds \subseteq {"check", "dryRun"}
  /\ Granting \subseteq Roles
  /\ Home \in [Teams -> Tenants]
  /\ Owner \in [Policies -> Tenants]
  /\ Verdict \in [Policies -> {"allow", "deny", "broken"}]
  /\ TTL \in Nat \ {0} /\ Patience \in Nat
  /\ None \notin Subjects \cup Tenants

VARIABLES memberships, teamMemberships, acl, policies, prepared, cache, check,
          age

tables == <<memberships, teamMemberships, acl, policies>>
vars == <<memberships, teamMemberships, acl, policies, prepared, cache, check,
          age>>

-----------------------------------------------------------------------------
Layers == <<"rbac", "user", "team", "role", "abac", "none">>
Results == [allowed : BOOLEAN, by : {Layers[i] : i \in DOMAIN Layers}]
DefaultDeny == [allowed |-> FALSE, by |-> "none"]

Steps == {"idle", "membership", "teams", "userAcl", "teamList", "teamAcl",
          "roleAcl", "policies", "abac", "store", "done"}

(* own is the part of roles that the membership row lists; todo what a loop  *)
(* has left; hit says that the cache answered, lost that an error or a race  *)
(* hid a row from the check.                                                 *)
Idle == [kind |-> "check", user |-> None, tenant |-> None, step |-> "idle",
         own |-> {}, roles |-> {}, todo |-> {}, result |-> DefaultDeny,
         hit |-> FALSE, lost |-> FALSE]

NoEntry == [result |-> DefaultDeny, age |-> TTL, took |-> 0]

(* Redis drops an entry when its time is up. *)
FaultyExpired(entry) == FALSE              \* SET without the expiration
Expired(entry) == entry.age >= TTL

Effect(allowed) == IF allowed THEN "allow" ELSE "deny"

(* A GORM Updates call with a struct skips the columns whose new value is    *)
(* FALSE.                                                                    *)
Updates(old, active) == IF active THEN "active" ELSE old

-----------------------------------------------------------------------------
(* The rows of user u, and the policies, that belong to tenant t. *)

TeamsIn(u, t) == {g \in Teams : Home[g] = t /\ teamMemberships[u][g] # NoRow}

Active(t) == {p \in Policies : Owner[p] = t /\ policies[p] = "active"}

-----------------------------------------------------------------------------
Init ==
  /\ memberships = [u \in Users |-> [t \in Tenants |-> NoRow]]
  /\ teamMemberships = [u \in Users |-> [g \in Teams |-> NoRow]]
  /\ acl = [t \in Tenants |-> [s \in Subjects |-> "none"]]
  /\ policies = [p \in Policies |-> "absent"]
  /\ prepared = {}
  /\ cache = [u \in Users |-> [t \in Tenants |-> NoEntry]]
  /\ check = [c \in Checks |-> Idle]
  /\ age = [c \in Checks |-> 0]

-----------------------------------------------------------------------------
(* AuthorizationService.Check, one action per call to a store. *)

Abort(c) == check' = [check EXCEPT ![c] = Idle]

Goto(c, step) == check' = [check EXCEPT ![c].step = step]

Decide(c, allowed, by) ==
  check' = [check EXCEPT ![c].step = "store", ![c].todo = {},
                         ![c].result = [allowed |-> allowed, by |-> by]]

(* A lookup that ends in "not found" or in an error is passed over; failed  *)
(* says that there was something to find.                                    *)
Pass(c, step, todo, failed) ==
  check' = [check EXCEPT ![c].step = step, ![c].todo = todo, ![c].lost = @ \/ failed]

(* What a faulty version of a lookup would return stands before the lookup. *)
FindMembership(u, t) == memberships[u][t]

FaultyTeamsListed(u, t) ==                 \* the tenant of the team not compared
  {g \in Teams : teamMemberships[u][g] # NoRow}
TeamsListed(u, t) == TeamsIn(u, t)

(* CheckPermission: the first row by id of the subject in the tenant.        *)
FindEntry(t, s) == acl[t][s]

FaultyFirstLayer(roles) == "userAcl"       \* RBAC consulted last
FirstLayer(roles) == IF roles \cap Granting # {} THEN "rbac" ELSE "userAcl"

ActivePolicies(t) == Active(t)

(* A fresh request: the cache answers, or has no entry, or cannot be asked. *)
StartCheck(c, kind, u, t) ==
  LET asked == [Idle EXCEPT !.kind = kind, !.user = u, !.tenant = t]
  IN
  /\ check[c].step = "idle"
  /\ \/ /\ ~Expired(cache[u][t])
        /\ check' = [check EXCEPT ![c] =
             [asked EXCEPT !.step = "done", !.result = cache[u][t].result, !.hit = TRUE]]
     \/ check' = [check EXCEPT ![c] = [asked EXCEPT !.step = "membership"]]
  /\ age' = [age EXCEPT ![c] = 0]
  /\ UNCHANGED <<tables, prepared, cache>>

(* getEffectiveRoles: without a membership there is no decision, only 404. *)
ReadMembership(c) ==
  LET row == FindMembership(check[c].user, check[c].tenant)
  IN
  /\ check[c].step = "membership"
  /\ \/ Abort(c)
     \/ /\ row # NoRow
        /\ check' = [check EXCEPT ![c].step = "teams", ![c].own = row, ![c].roles = row]
  /\ UNCHANGED <<tables, prepared, cache, age>>

(* The rest of getEffectiveRoles, and rbac.Allow. *)
ReadTeamRoles(c) ==
  LET u == check[c].user
      listed == TeamsListed(u, check[c].tenant)
  IN
  /\ check[c].step = "teams"
  /\ \E found \in SUBSET listed :
       LET roles == check[c].roles \cup UNION {teamMemberships[u][g] : g \in found}
           first == FirstLayer(roles)
       IN check' = [check EXCEPT
            ![c].roles  = roles,
            ![c].lost   = (found # listed),
            ![c].step   = IF first = "rbac" THEN "store" ELSE first,
            ![c].result = IF first = "rbac" THEN [allowed |-> TRUE, by |-> "rbac"] ELSE @]
  /\ UNCHANGED <<tables, prepared, cache, age>>

ReadUserAcl(c) ==
  LET found == FindEntry(check[c].tenant, check[c].user)
  IN
  /\ check[c].step = "userAcl"
  /\ \/ found # "none" /\ Decide(c, found = "allow", "user")
     \/ Pass(c, "teamList", {}, found # "none")
  /\ UNCHANGED <<tables, prepared, cache, age>>

(* The memberships are listed a second time. *)
ListTeams(c) ==
  LET listed == TeamsListed(check[c].user, check[c].tenant)
  IN
  /\ check[c].step = "teamList"
  /\ \E found \in SUBSET listed :
       Pass(c, "teamAcl", found, found # listed)
  /\ UNCHANGED <<tables, prepared, cache, age>>

(* The teams come in any order; the first that has an entry decides. *)
ReadTeamAcl(c) ==
  /\ check[c].step = "teamAcl"
  /\ \/ /\ check[c].todo = {}
        /\ Pass(c, "roleAcl", check[c].roles, FALSE)
     \/ \E g \in check[c].todo :
          LET found == FindEntry(check[c].tenant, g)
          IN \/ found # "none" /\ Decide(c, found = "allow", "team")
             \/ Pass(c, "teamAcl", check[c].todo \ {g}, found # "none")
  /\ UNCHANGED <<tables, prepared, cache, age>>

(* The roles of the membership come first. *)
ReadRoleAcl(c) ==
  LET own == check[c].todo \cap check[c].own
  IN
  /\ check[c].step = "roleAcl"
  /\ \/ /\ check[c].todo = {}
        /\ Pass(c, "policies", {}, FALSE)
     \/ \E r \in IF own # {} THEN own ELSE check[c].todo :
          LET found == FindEntry(check[c].tenant, r)
          IN \/ found # "none" /\ Decide(c, found = "allow", "role")
             \/ Pass(c, "roleAcl", check[c].todo \ {r}, found # "none")
  /\ UNCHANGED <<tables, prepared, cache, age>>

ListPolicies(c) ==
  LET active == ActivePolicies(check[c].tenant)
  IN
  /\ check[c].step = "policies"
  /\ \/ active # {} /\ Pass(c, "abac", active, FALSE)
     \/ /\ check' = [check EXCEPT ![c].step = "store", ![c].lost = @ \/ active # {},
                                  ![c].result = DefaultDeny]
  /\ UNCHANGED <<tables, prepared, cache, age>>

(* The map of prepared queries is read and written without a lock: a lookup *)
(* may miss while another check runs ABAC and one of them adds to the map.   *)
Racing(c) ==
  \E d \in Checks \ {c} :
    check[d].step = "abac" /\ ~(check[c].todo \cup check[d].todo \subseteq prepared)

(* PrepareQuery, EvaluateAll and the loop over its result, a map, which      *)
(* takes whichever policy comes first.  One failure discards all results.    *)
EvaluatePolicies(c) ==
  LET broken == {p \in check[c].todo : Verdict[p] = "broken"}
  IN
  /\ check[c].step = "abac"
  /\ prepared' = prepared \cup (check[c].todo \ broken)
  /\ \/ /\ broken = {}
        /\ \E p \in check[c].todo : Decide(c, Verdict[p] = "allow", "abac")
     \/ /\ broken # {} \/ Racing(c)
        /\ check' = [check EXCEPT ![c].step = "store", ![c].todo = {},
                                  ![c].lost = TRUE, ![c].result = DefaultDeny]
  /\ UNCHANGED <<tables, cache, age>>

(* cache.Set; its error is ignored.  DryRun is Check. *)
StoreDecision(c) ==
  LET u == check[c].user
      t == check[c].tenant
  IN
  /\ check[c].step = "store"
  /\ \/ cache' = [cache EXCEPT ![u][t] =
          [result |-> check[c].result, age |-> 0, took |-> age[c]]]
     \/ UNCHANGED cache
  /\ Goto(c, "done")
  /\ UNCHANGED <<tables, prepared, age>>

Respond(c) ==
  /\ check[c].step = "done"
  /\ Abort(c)
  /\ age' = [age EXCEPT ![c] = 0]
  /\ UNCHANGED <<tables, prepared, cache>>

ContinueCheck(c) ==
  \/ ReadMembership(c) \/ ReadTeamRoles(c) \/ ReadUserAcl(c)  \/ ListTeams(c)
  \/ ReadTeamAcl(c)    \/ ReadRoleAcl(c)   \/ ListPolicies(c) \/ EvaluatePolicies(c)
  \/ StoreDecision(c)  \/ Respond(c)

(* The process ends, by a deployment or by the fatal error that the runtime *)
(* raises when it notices a concurrent use of the map; Redis keeps its data. *)
Restart ==
  /\ prepared' = {}
  /\ check' = [c \in Checks |-> Idle]
  /\ age' = [c \in Checks |-> 0]
  /\ UNCHANGED <<tables, cache>>

-----------------------------------------------------------------------------
(* The writes.  None of them touches the cache. *)

(* A membership row is created or removed, never rewritten. *)
WriteMembership(u, t, row) ==
  /\ (memberships[u][t] = NoRow) # (row = NoRow)
  /\ memberships' = [memberships EXCEPT ![u][t] = row]
  /\ UNCHANGED <<teamMemberships, acl, policies>>

WriteTeamMembership(u, g, row) ==
  /\ teamMemberships[u][g] # row
  /\ teamMemberships' = [teamMemberships EXCEPT ![u][g] = row]
  /\ UNCHANGED <<memberships, acl, policies>>

(* Grant adds a row beside those that are there, whose random id makes it   *)
(* the one that is found or leaves things as they are.                      *)
Grant(t, s, effect) ==
  /\ acl[t][s] # effect
  /\ acl' = [acl EXCEPT ![t][s] = effect]
  /\ UNCHANGED <<memberships, teamMemberships, policies>>

(* Revoke deletes all rows of the subject on the resource. *)
Revoke(t, s) ==
  /\ acl[t][s] # "none"
  /\ acl' = [acl EXCEPT ![t][s] = "none"]
  /\ UNCHANGED <<memberships, teamMemberships, policies>>

CreatePolicy(p) ==
  /\ policies[p] = "absent"
  /\ policies' = [policies EXCEPT ![p] = "inactive"]
  /\ UNCHANGED <<memberships, teamMemberships, acl>>

(* One Update per listed policy; an error ends the loop on the way. *)
ActivatePolicy(p) ==
  LET listed == {q \in Policies : Owner[q] = Owner[p] /\ policies[q] \in {"inactive", "active"}}
      active == {q \in listed : policies[q] = "active"}
  IN
  /\ p \in listed
  /\ \E updated \in SUBSET (active \cup {p}) :
       policies' = [q \in Policies |->
         IF q \in updated THEN Updates(policies[q], q = p) ELSE policies[q]]
  /\ UNCHANGED <<memberships, teamMemberships, acl>>

DeactivatePolicy(p) ==
  /\ policies[p] \in {"inactive", "active"}
  /\ policies' = [policies EXCEPT ![p] = Updates(@, FALSE)]
  /\ UNCHANGED <<memberships, teamMemberships, acl>>

DeletePolicy(p) ==
  /\ policies[p] \in {"inactive", "active"}
  /\ policies' = [policies EXCEPT ![p] = "deleted"]
  /\ UNCHANGED <<memberships, teamMemberships, acl>>

RoleRowsOf == (SUBSET Roles) \cup {NoRow}

Write ==
  /\ \/ \E u \in Users, t \in Tenants, row \in RoleRowsOf : WriteMembership(u, t, row)
     \/ \E u \in Users, g \in Teams, row \in RoleRowsOf : WriteTeamMembership(u, g, row)
     \/ \E t \in Tenants, s \in Subjects :
          Revoke(t, s) \/ \E e \in {"allow", "deny"} : Grant(t, s, e)
     \/ \E p \in Policies : CreatePolicy(p) \/ ActivatePolicy(p) \/ DeactivatePolicy(p)
                              \/ DeletePolicy(p)
  /\ UNCHANGED <<prepared, cache, check, age>>

(* Time passes for the entries and the requests. *)
Tick ==
  /\ \A c \in Checks : check[c].step # "idle" => age[c] < Patience
  /\ age' = [c \in Checks |-> IF check[c].step = "idle" THEN 0 ELSE age[c] + 1]
  /\ cache' = [u \in Users |-> [t \in Tenants |->
       LET older == [cache[u][t] EXCEPT !.age = IF @ < TTL THEN @ + 1 ELSE @]
       IN IF Expired(older) THEN NoEntry ELSE older]]
  /\ UNCHANGED <<tables, prepared, check>>

Next ==
  \/ \E c \in Checks, k \in Kinds, u \in Users, t \in Tenants : StartCheck(c, k, u, t)
  \/ \E c \in Checks : ContinueCheck(c)
  \/ Restart
  \/ Write
  \/ Tick

Spec == Init /\ [][Next]_vars

-----------------------------------------------------------------------------
(* Properties. *)

(* Every variable has its type. *)
TypeOK ==
  /\ memberships \in [Users -> [Tenants -> RoleRowsOf]]
  /\ teamMemberships \in [Users -> [Teams -> RoleRowsOf]]
  /\ acl \in [Tenants -> [Subjects -> {"none", "allow", "deny"}]]
  /\ policies \in [Policies -> {"absent", "inactive", "active", "deleted"}]
  /\ prepared \in SUBSET Policies
  /\ cache \in [Users -> [Tenants ->
       [result : Results, age : 0..TTL, took : 0..Patience]]]
  /\ check \in [Checks ->
       [kind : {"check", "dryRun"}, user : Users \cup {None}, tenant : Tenants \cup {None},
        step : Steps, own : SUBSET Roles, roles : SUBSET Roles,
        todo : SUBSET (Teams \cup Roles \cup Policies), result : Results,
        hit : BOOLEAN, lost : BOOLEAN]]
  /\ \A c \in Checks :
       /\ check[c].step # "idle" => check[c].user \in Users /\ check[c].tenant \in Tenants
       /\ check[c].own \subseteq check[c].roles
  /\ age \in [Checks -> 0..Patience]
=============================================================================

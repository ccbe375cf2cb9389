----------------------------- MODULE TenantAuth -----------------------------
(***************************************************************************)
(* Accounts, tenants, memberships and teams, and the requests that turn    *)
(* them into tenant-scoped tokens, or provision them for a tenant          *)
(* (internal/service/auth.go, oauth2.go, passwordless.go, tenant.go,       *)
(* team.go, scim.go).                                                      *)
(*                                                                         *)
(* The server runs every HTTP request on its own goroutine and wraps       *)
(* nothing in a transaction, so a request that mints a token or provisions *)
(* an account is a sequence of repository calls with other requests in     *)
(* between.  A Requests slot is one such goroutine; the administrative     *)
(* operations are one repository write each and are single actions.        *)
(*                                                                         *)
(*   users           the accounts (an account is its unique email)         *)
(*   passwords       the accounts created with a password hash             *)
(*   status          status[t]: the row of tenant t, "none" before it is   *)
(*                   created and "deleted" after (ids are never reused)    *)
(*   memberships     memberships[u][t]: the role set of the row, or NoRow   *)
(*   teams           teams[g]: the tenant team g belongs to, or None      *)
(*   teamMemberships teamMemberships[u][g]: the role set of the row or NoRow*)
(*   magicLinks      pairs <<u,t>> with a live (unused, unexpired) link    *)
(*   req             req[r]: the request slot r is serving                 *)
(*   seen            history: what held for the request's user and tenant  *)
(*                   while the request ran                                 *)
(***************************************************************************)
CONSTANTS
  Users,     \* emails
  Tenants,   \* tenant ids
  Teams,     \* team ids
  TeamRoles, \* role names that team administrators hand out
  Requests,  \* request slots
  None       \* no user, tenant or role; the empty tenant_id of a request

(* The role names the code writes into membership rows itself. *)
Roles == TeamRoles \cup {"admin", "member"}

(* The role set of a row that does not exist. *)
NoRow == {None}

ASSUME NoneIsNothing == None \notin Users \cup Tenants \cup Roles

ASSUME DistinctIds == Tenants \cap Teams = {}

VARIABLES users, passwords, status, memberships, teams, teamMemberships,
          magicLinks, req, seen

rows == <<users, passwords, status, memberships, teams, teamMemberships,
          magicLinks>>
vars == <<users, passwords, status, memberships, teams, teamMemberships,
          magicLinks, req, seen>>

-----------------------------------------------------------------------------
(* Requests.  "done" holds the token: the claims (user, tenant, roles). *)

Kinds == {"register", "login", "switch", "callback", "magic", "scim"}
PasswordKinds == {"register", "login", "switch"}
Steps == {"idle", "exchange", "newUser", "ensure", "tenant", "newMember",
          "member", "teams", "done"}

Idle == [kind |-> "login", user |-> None, tenant |-> None,
         step |-> "idle", roles |-> {}, lost |-> FALSE]

Request(kind, u, t, step) ==
  [kind |-> kind, user |-> u, tenant |-> t, step |-> step,
   roles |-> {}, lost |-> FALSE]

Goto(r, step) == req' = [req EXCEPT ![r].step = step]

(* An error response: the request ends without a token. *)
Abort(r) == req' = [req EXCEPT ![r] = Idle]

-----------------------------------------------------------------------------
(* What user u holds in tenant t, each role with the row that grants it. *)

IsMember(u, t) == t # None /\ memberships[u][t] # NoRow

MembershipGrants(u, t) ==
  IF IsMember(u, t) THEN {t} \X memberships[u][t] ELSE {}

TeamsIn(u, t) ==
  {g \in Teams : t # None /\ teams[g] = t /\ teamMemberships[u][g] # NoRow}

TeamGrants(u, t) == UNION {{g} \X teamMemberships[u][g] : g \in TeamsIn(u, t)}

Grants(u, t) == MembershipGrants(u, t) \cup TeamGrants(u, t)

AllGrants == (Tenants \cup Teams) \X Roles

RolesOf(grants) == {g[2] : g \in grants}

(* The history of a request: the grants in force at some moment and at      *)
(* every moment since it began, and whether its tenant was ever active and  *)
(* its user ever a member meanwhile.                                        *)
Snapshot(u, t) ==
  [some   |-> Grants(u, t),
   all    |-> Grants(u, t),
   active |-> t # None /\ status[t] = "active",
   member |-> IsMember(u, t)]

NothingSeen == [some |-> {}, all |-> {}, active |-> FALSE, member |-> FALSE]

Extend(old, new) ==
  [some   |-> old.some \cup new.some,
   all    |-> old.all \cap new.all,
   active |-> old.active \/ new.active,
   member |-> old.member \/ new.member]

Observe ==
  seen' = [r \in Requests |->
    IF req'[r].step = "idle" THEN NothingSeen
    ELSE Extend(IF req[r].step = "idle"
                  THEN Snapshot(req'[r].user, req'[r].tenant)
                  ELSE seen[r],
                Snapshot(req[r].user, req[r].tenant)')]

-----------------------------------------------------------------------------
Init ==
  /\ users = {}
  /\ passwords = {}
  /\ status = [t \in Tenants |-> "none"]
  /\ memberships = [u \in Users |-> [t \in Tenants |-> NoRow]]
  /\ teams = [g \in Teams |-> None]
  /\ teamMemberships = [u \in Users |-> [g \in Teams |-> NoRow]]
  /\ magicLinks = {}
  /\ req = [r \in Requests |-> Idle]
  /\ seen = [r \in Requests |-> NothingSeen]

-----------------------------------------------------------------------------
(* Repository lookups.  After each one whose absence a run would notice     *)
(* stands its faulty form (Faulty...), which no action uses.                *)

EmailFree(u) == u \notin users

FaultyTenantOpen(t) == status[t] \notin {"none", "deleted"}   \* row found, status ignored
TenantOpen(t) == status[t] = "active"

FaultyKeyFree(u, t) == TRUE                \* an upsert
KeyFree(u, t) == memberships[u][t] = NoRow

(* FindByUserAndTenant. *)
FaultyFindMembership(u, t) ==              \* not found treated as no roles
  IF memberships[u][t] = NoRow THEN {} ELSE memberships[u][t]
FindMembership(u, t) == memberships[u][t]

(* The loop of rolesForTenant over the listed teams that were found. *)
FaultySameTenant(g, t) == teams[g] # None \* every team of the user counts
SameTenant(g, t) == teams[g] = t

FaultyAppendTeams(roles, u, found) ==      \* assigned, not appended
  IF found = {} THEN roles ELSE UNION {teamMemberships[u][g] : g \in found}
AppendTeams(roles, u, found) == roles \cup UNION {teamMemberships[u][g] : g \in found}

-----------------------------------------------------------------------------
(* The first step of each token request.  One that is refused at once      *)
(* (unknown email, wrong password, duplicate email) changes nothing.  Ids   *)
(* are random, so a request names a tenant that was created, or none.       *)

Named(t) == t # None => status[t] # "none"

(* users.Create; the account row stays whatever becomes of the request. *)
Register(r, u, t) ==
  /\ req[r].step = "idle"
  /\ Named(t)
  /\ EmailFree(u)
  /\ users' = users \cup {u}
  /\ passwords' = passwords \cup {u}
  /\ req' = [req EXCEPT ![r] =
       Request("register", u, t, IF t = None THEN "done" ELSE "tenant")]
  /\ UNCHANGED <<status, memberships, teams, teamMemberships, magicLinks>>
  /\ Observe

(* FindByEmail and the password comparison, which the empty hash of an     *)
(* account made by an OAuth2 callback or by SCIM never passes.             *)
Login(r, u, t) ==
  /\ req[r].step = "idle"
  /\ Named(t)
  /\ u \in passwords
  /\ req' = [req EXCEPT ![r] =
       Request("login", u, t, IF t = None THEN "done" ELSE "tenant")]
  /\ UNCHANGED rows
  /\ Observe

SwitchTenant(r, u, t) ==
  /\ req[r].step = "idle"
  /\ Named(t)
  /\ u \in users
  /\ req' = [req EXCEPT ![r] = Request("switch", u, t, "tenant")]
  /\ UNCHANGED rows
  /\ Observe

(* The provider of tenant t will answer the code exchange with email u. *)
HandleCallback(r, u, t) ==
  /\ req[r].step = "idle"
  /\ Named(t)
  /\ req' = [req EXCEPT ![r] = Request("callback", u, t, "exchange")]
  /\ UNCHANGED rows
  /\ Observe

(* A live link is accepted; how it is spent is LinkSpent. *)
VerifyMagicLink(r, u, t) ==
  /\ req[r].step = "idle"
  /\ <<u, t>> \in magicLinks
  /\ req' = [req EXCEPT ![r] = Request("magic", u, t, "member")]
  /\ UNCHANGED rows
  /\ Observe

(* SCIM's CreateUser: FindByEmail refuses an email that is known already.   *)
ProvisionUser(r, u, t) ==
  /\ req[r].step = "idle"
  /\ Named(t)
  /\ u \notin users
  /\ req' = [req EXCEPT ![r] = Request("scim", u, t, "newUser")]
  /\ UNCHANGED rows
  /\ Observe

-----------------------------------------------------------------------------
(* The repository calls that follow. *)

(* tenants.FindByID and the status test, in Register and rolesForTenant. *)
CheckTenant(r) ==
  /\ req[r].step = "tenant"
  /\ IF TenantOpen(req[r].tenant)
       THEN Goto(r, IF req[r].kind = "register" THEN "newMember" ELSE "member")
       ELSE Abort(r)
  /\ UNCHANGED rows
  /\ Observe

(* findOrCreateUser, once the code exchange has answered: FindByEmail. *)
FindUser(r) ==
  /\ req[r].step = "exchange"
  /\ Goto(r, IF req[r].user \in users THEN "ensure" ELSE "newUser")
  /\ UNCHANGED rows
  /\ Observe

(* users.Create, in findOrCreateUser and in SCIM's CreateUser, fails on a    *)
(* duplicate email.                                                         *)
CreateUser(r) ==
  /\ req[r].step = "newUser"
  /\ IF EmailFree(req[r].user)
       THEN /\ Goto(r, IF req[r].kind = "scim" THEN "newMember" ELSE "ensure")
            /\ users' = users \cup {req[r].user}
       ELSE Abort(r) /\ UNCHANGED users
  /\ UNCHANGED <<passwords, status, memberships, teams, teamMemberships, magicLinks>>
  /\ Observe

(* findOrCreateUser: FindByUserAndTenant. *)
EnsureMembership(r) ==
  /\ req[r].step = "ensure"
  /\ Goto(r, IF IsMember(req[r].user, req[r].tenant) THEN "member" ELSE "newMember")
  /\ UNCHANGED rows
  /\ Observe

FaultyJoinRoles(kind) ==                   \* a social login founds a tenant too
  IF kind = "scim" THEN {"member"} ELSE {"admin"}
JoinRoles(kind) == IF kind = "register" THEN {"admin"} ELSE {"member"}

(* memberships.Create, which fails when the row exists by now.  Register    *)
(* then issues its token, a callback goes on to read the roles back, and    *)
(* SCIM answers with the user it made.                                      *)
CreateMembership(r) ==
  LET u == req[r].user
      t == req[r].tenant
      joined == JoinRoles(req[r].kind)
  IN
  /\ req[r].step = "newMember"
  /\ \/ /\ ~KeyFree(u, t)
        /\ Abort(r)
        /\ UNCHANGED memberships
     \/ /\ KeyFree(u, t)
        /\ memberships' = [memberships EXCEPT ![u][t] = joined]
        /\ \/ /\ req[r].kind = "register"
              /\ req' = [req EXCEPT ![r].step = "done", ![r].roles = joined]
           \/ /\ req[r].kind = "callback"
              /\ Goto(r, "member")
           \/ /\ req[r].kind = "scim"
              /\ Abort(r)
  /\ UNCHANGED <<users, passwords, status, teams, teamMemberships, magicLinks>>
  /\ Observe

(* memberships.FindByUserAndTenant: the roles start with the membership's. *)
ReadMembership(r) ==
  LET u == req[r].user
      t == req[r].tenant
  IN
  /\ req[r].step = "member"
  /\ IF FindMembership(u, t) = NoRow
       THEN Abort(r)
       ELSE req' = [req EXCEPT ![r].step = "teams", ![r].roles = FindMembership(u, t)]
  /\ UNCHANGED rows
  /\ Observe

(* ListByUser and the loop over its rows.  A team's row never changes, so   *)
(* the lookups of the loop are one step; a lookup that fails is skipped.    *)
ReadTeams(r) ==
  LET u == req[r].user
      t == req[r].tenant
      listed == {g \in Teams : teamMemberships[u][g] # NoRow}
  IN
  /\ req[r].step = "teams"
  /\ \E found \in SUBSET listed :
       req' = [req EXCEPT
         ![r].step  = "done",
         ![r].roles = AppendTeams(@, u, {g \in found : SameTenant(g, t)}),
         ![r].lost  = (found # listed)]
  /\ UNCHANGED rows
  /\ Observe

(* A repository call, or the provider, answers with an error.  Only the      *)
(* ListByUser of a callback or a magic link is survived, without the teams.  *)
RepositoryError(r) ==
  /\ req[r].step \notin {"idle", "done"}
  /\ IF req[r].step = "teams" /\ req[r].kind \notin PasswordKinds
       THEN req' = [req EXCEPT ![r].step = "done", ![r].lost = TRUE]
       ELSE Abort(r)
  /\ UNCHANGED rows
  /\ Observe

(* The token leaves the server. *)
Respond(r) ==
  /\ req[r].step = "done"
  /\ Abort(r)
  /\ UNCHANGED rows
  /\ Observe

-----------------------------------------------------------------------------
(* Administrative operations. *)

FaultyLeaveTenant(u, t) ==                 \* deleted by user, without the tenant
  /\ memberships[u][t] # NoRow
  /\ memberships' = [memberships EXCEPT ![u] = [k \in Tenants |-> NoRow]]
  /\ UNCHANGED <<users, passwords, status, teams, teamMemberships, magicLinks, req>>
  /\ Observe
LeaveTenant(u, t) ==
  /\ memberships[u][t] # NoRow
  /\ memberships' = [memberships EXCEPT ![u][t] = NoRow]
  /\ UNCHANGED <<users, passwords, status, teams, teamMemberships, magicLinks, req>>
  /\ Observe

(* SCIM's DeleteUser, behind two lookups that change nothing: the account    *)
(* stays, and so do the rows of its teams.                                  *)
DeleteUser(u, t) == u \in users /\ LeaveTenant(u, t)

(* Create, for self-service signup, and CreateActive. *)
CreateTenant(t) ==
  /\ status[t] = "none"
  /\ \E s \in {"pending", "active"} : status' = [status EXCEPT ![t] = s]
  /\ UNCHANGED <<users, passwords, memberships, teams, teamMemberships, magicLinks, req>>
  /\ Observe

(* Activate and Reactivate write "active", Suspend "suspended", over any     *)
(* status; Delete leaves memberships and teams behind.                       *)
UpdateStatus(t, s) ==
  /\ status[t] \notin {"none", "deleted"}
  /\ status' = [status EXCEPT ![t] = s]
  /\ UNCHANGED <<users, passwords, memberships, teams, teamMemberships, magicLinks, req>>
  /\ Observe

(* teams.Create does not look the tenant up. *)
CreateTeam(g, t) ==
  /\ teams[g] = None
  /\ Named(t)
  /\ teams' = [teams EXCEPT ![g] = t]
  /\ UNCHANGED <<users, passwords, status, memberships, teamMemberships, magicLinks, req>>
  /\ Observe

(* The user need not be a member of the team's tenant. *)
AddMember(u, g, rs) ==
  /\ u \in users
  /\ teams[g] # None
  /\ teamMemberships[u][g] = NoRow
  /\ teamMemberships' = [teamMemberships EXCEPT ![u][g] = rs]
  /\ UNCHANGED <<users, passwords, status, memberships, teams, magicLinks, req>>
  /\ Observe

(* UpdateRoles and RemoveMember. *)
ChangeMember(u, g, row) ==
  /\ teamMemberships[u][g] # NoRow
  /\ teamMemberships' = [teamMemberships EXCEPT ![u][g] = row]
  /\ UNCHANGED <<users, passwords, status, memberships, teams, magicLinks, req>>
  /\ Observe

SendMagicLink(u, t) ==
  /\ memberships[u][t] # NoRow
  /\ magicLinks' = magicLinks \cup {<<u, t>>}
  /\ UNCHANGED <<users, passwords, status, memberships, teams, teamMemberships, req>>
  /\ Observe

(* The last live link of the pair was marked used or ran out. *)
LinkSpent(u, t) ==
  /\ <<u, t>> \in magicLinks
  /\ magicLinks' = magicLinks \ {<<u, t>>}
  /\ UNCHANGED <<users, passwords, status, memberships, teams, teamMemberships, req>>
  /\ Observe

-----------------------------------------------------------------------------
StartRequest(r) ==
  \E u \in Users :
    \/ \E t \in Tenants \cup {None} : Register(r, u, t) \/ Login(r, u, t)
    \/ \E t \in Tenants : \/ SwitchTenant(r, u, t)
                          \/ HandleCallback(r, u, t)
                          \/ VerifyMagicLink(r, u, t)
                          \/ ProvisionUser(r, u, t)

ContinueRequest(r) ==
  \/ CheckTenant(r)      \/ FindUser(r)         \/ CreateUser(r)
  \/ EnsureMembership(r) \/ CreateMembership(r) \/ ReadMembership(r)
  \/ ReadTeams(r)        \/ RepositoryError(r)  \/ Respond(r)

Administer ==
  \/ \E t \in Tenants :
       \/ CreateTenant(t)
       \/ \E s \in {"active", "suspended", "deleted"} : UpdateStatus(t, s)
       \/ \E g \in Teams : CreateTeam(g, t)
       \/ \E u \in Users : \/ LeaveTenant(u, t)   \/ DeleteUser(u, t)
                         \/ SendMagicLink(u, t) \/ LinkSpent(u, t)
  \/ \E u \in Users, g \in Teams :
       \/ \E rs \in SUBSET TeamRoles : AddMember(u, g, rs)
       \/ \E row \in (SUBSET TeamRoles) \cup {NoRow} : ChangeMember(u, g, row)

Next ==
  \/ \E r \in Requests : StartRequest(r) \/ ContinueRequest(r)
  \/ Administer

Spec == Init /\ [][Next]_vars

-----------------------------------------------------------------------------
(* Properties. *)

(* Every variable has its type.  A request without a tenant is answered by   *)
(* its first step, with a token without roles.                               *)
RowsOK ==
  /\ users \in SUBSET Users
  /\ passwords \in SUBSET users
  /\ status \in [Tenants -> {"none", "pending", "active", "suspended", "deleted"}]
  /\ memberships \in [Users -> [Tenants -> (SUBSET Roles) \cup {NoRow}]]
  /\ teams \in [Teams -> Tenants \cup {None}]
  /\ teamMemberships \in [Users -> [Teams -> (SUBSET TeamRoles) \cup {NoRow}]]
  /\ magicLinks \in SUBSET (Users \X Tenants)

ScopedRequests ==
  [kind : Kinds, user : Users, tenant : Tenants, step : Steps \ {"idle"},
   roles : SUBSET Roles, lost : BOOLEAN]

UnscopedRequests ==
  [kind : {"register", "login"}, user : Users, tenant : {None}, step : {"done"},
   roles : {{}}, lost : {FALSE}]

RequestRecords == {Idle} \cup ScopedRequests \cup UnscopedRequests

Histories ==
  [some : SUBSET AllGrants, all : SUBSET AllGrants, active : BOOLEAN, member : BOOLEAN]

TypeOK ==
  /\ RowsOK
  /\ req \in [Requests -> RequestRecords]
  /\ seen \in [Requests -> Histories]

(* "A user's permissions in tenant A never leak into tenant B" (PRD 6): a     *)
(* token minted for tenant t, by whichever login path and whatever other     *)
(* requests run in between, carries only roles that its user held in t, by   *)
(* the membership or a team of t, at some moment of that very request.       *)
TokenRolesWereHeld ==
  \A r \in Requests : req[r].step = "done" => req[r].roles \subseteq RolesOf(seen[r].some)

(* Conversely, a role row that was there from the first to the last moment   *)
(* of a request is in its token, unless a repository error was swallowed.    *)
TokenRolesComplete ==
  \A r \in Requests :
    req[r].step = "done" /\ ~req[r].lost => RolesOf(seen[r].all) \subseteq req[r].roles

(* AuthService mints no tenant token over a tenant that was pending,          *)
(* suspended or deleted during the whole request.                            *)
TokenTenantWasActive ==
  \A r \in Requests :
    req[r].step = "done" /\ req[r].kind \in PasswordKinds /\ req[r].tenant # None
      => seen[r].active

(* No login, switch, registration, callback or magic link mints a tenant     *)
(* token for a user who was not a member at some moment of that request:     *)
(* after leaving a tenant none of them succeeds.  The token endpoint of      *)
(* module IdentityProvider looks no membership up.                           *)
TokenUserWasMember ==
  \A r \in Requests :
    req[r].step = "done" /\ req[r].tenant # None => seen[r].member

(* Only the registration that made an account, with its password, ever       *)
(* makes it an admin, and of one tenant: the one that registration names.    *)
(* Accounts that SCIM or a callback made, or found, join as members,         *)
(* whichever request gets to create the row.                                 *)
Registers(r, u) == req[r].kind = "register" /\ req[r].user = u

AdminsRegistered ==
  [][\A u \in Users, t \in Tenants :
       "admin" \in memberships'[u][t] /\ "admin" \notin memberships[u][t] =>
         /\ u \in passwords
         /\ \A k \in Tenants : "admin" \notin memberships[u][k]
         /\ \E r \in Requests :
              /\ Registers(r, u) /\ req[r].tenant = t
              /\ \A q \in Requests \ {r} : ~Registers(q, u)]_vars

(* No interleaving of logins and registrations rewrites the roles of a       *)
(* membership that exists: a row is created once and only ever removed.      *)
MembershipNeverRewritten ==
  [][\A u \in Users, t \in Tenants :
       memberships[u][t] # NoRow => memberships'[u][t] \in {memberships[u][t], NoRow}]_vars

(* The rows as module Authz has them: the writes of its rows read nothing of *)
(* what stands here for its other variables and constants.                   *)
Decisions == INSTANCE Authz WITH
  Policies <- {}, Checks <- {}, Kinds <- {}, Granting <- {}, Owner <- <<>>, Verdict <- <<>>,
  Home <- <<>>, TTL <- 1, Patience <- 0,
  acl <- <<>>, policies <- <<>>, prepared <- {}, cache <- <<>>, check <- <<>>, age <- <<>>

RowWritten ==
  \/ \E u \in Users, t \in Tenants : Decisions!WriteMembership(u, t, memberships'[u][t])
  \/ \E u \in Users, g \in Teams : Decisions!WriteTeamMembership(u, g, teamMemberships'[u][g])

(* What a check may meet between two of its reads is what module Authz lets  *)
(* it meet: whichever requests interleave, a step that changes rows creates  *)
(* or removes one membership row, or writes one team row, never two rows;    *)
(* and a team with rows keeps its tenant, which Authz takes for a constant.  *)
RowsAsDecided ==
  /\ [][RowWritten]_<<memberships, teamMemberships>>
  /\ [][\A g \in Teams :
         (\E u \in Users : teamMemberships'[u][g] # NoRow) => teams[g] # None /\ teams'[g] = teams[g]]_vars
=============================================================================

-------------------------- MODULE TenantAuthProofs --------------------------
(***************************************************************************)
(* What TenantAuth guarantees for any number of users, tenants, teams and  *)
(* concurrent requests, and, in the last two parts, what TenantSignup      *)
(* does for any number of addresses and concurrent signups.  The two share *)
(* no variable and no definition.                                          *)
(*                                                                         *)
(* Signup.  LimiterExact speaks of all the times a key was let pass, the   *)
(* limiter only knows its pruned list: KeyInv says that the list holds     *)
(* what the window holds.  FlaggedOnlyIfForgotten compares two counts that *)
(* no variable relates, the times of tenantVelocity and the times the      *)
(* limiter let pass: ShareInv relates them for every set of ticks.         *)
(***************************************************************************)
EXTENDS TenantAuth, TenantSignup, FiniteSetTheorems, TLAPS

(* What a user holds in a tenant is made of role names and of rows of that *)
(* user: the history records of TenantAuth are well typed.                 *)
LEMMA SnapshotType ==
  RowsOK => \A u \in Users, t \in Tenants \cup {None} : Snapshot(u, t) \in Histories
<1> SUFFICES ASSUME RowsOK, NEW u \in Users, NEW t \in Tenants \cup {None}
             PROVE  Snapshot(u, t) \in Histories
  OBVIOUS
<1>1. MembershipGrants(u, t) \in SUBSET AllGrants
  <2>1. CASE IsMember(u, t)
    <3>1. t \in Tenants /\ memberships[u][t] # NoRow
      BY <2>1 DEF IsMember
    <3>2. memberships[u][t] \in SUBSET Roles
      BY <3>1 DEF RowsOK
    <3> QED
      BY <2>1, <3>1, <3>2 DEF MembershipGrants, AllGrants
  <2>2. CASE ~IsMember(u, t)
    BY <2>2 DEF MembershipGrants
  <2> QED
    BY <2>1, <2>2
<1>2. TeamGrants(u, t) \in SUBSET AllGrants
  <2> SUFFICES ASSUME NEW g \in TeamsIn(u, t)
               PROVE  {g} \X teamMemberships[u][g] \in SUBSET AllGrants
    BY DEF TeamGrants
  <2>1. g \in Teams /\ teamMemberships[u][g] # NoRow
    BY DEF TeamsIn
  <2>2. teamMemberships[u][g] \in SUBSET Roles
    BY <2>1 DEF RowsOK, Roles
  <2> QED
    BY <2>1, <2>2 DEF AllGrants
<1>3. IsMember(u, t) \in BOOLEAN
  BY DEF IsMember
<1> QED
  BY <1>1, <1>2, <1>3 DEF Snapshot, Grants, Histories

(* A slot that is not idle serves a user, and one that has repository calls *)
(* left also names a tenant.                                                *)
LEMMA LiveRequest ==
  ASSUME NEW q \in RequestRecords
  PROVE  /\ q.step # "idle" => q.user \in Users /\ q.tenant \in Tenants \cup {None}
         /\ q.step \notin {"idle", "done"} => q \in ScopedRequests
         /\ q.step \in Steps
<1>1. CASE q = Idle
  BY <1>1 DEF Idle, Steps
<1>2. CASE q \in ScopedRequests
  BY <1>2 DEF ScopedRequests
<1>3. CASE q \in UnscopedRequests
  BY <1>3 DEF UnscopedRequests, Steps
<1> QED
  BY <1>1, <1>2, <1>3 DEF RequestRecords

(* Writing one row of a table keeps the table typed. *)
LEMMA RowUpdate ==
  ASSUME NEW A, NEW B, NEW C, NEW f \in [A -> [B -> C]],
         NEW a \in A, NEW b \in B, NEW c \in C
  PROVE  [f EXCEPT ![a][b] = c] \in [A -> [B -> C]]
OBVIOUS

(* What a step may write into a request that names a tenant. *)
LEMMA RequestUpdate ==
  ASSUME NEW q \in ScopedRequests, NEW step \in Steps \ {"idle"},
         NEW rs \in SUBSET Roles, NEW lost \in BOOLEAN
  PROVE  /\ [q EXCEPT !.step = step] \in ScopedRequests
         /\ [q EXCEPT !.step = step, !.roles = rs] \in ScopedRequests
         /\ [q EXCEPT !.step = step, !.lost = lost] \in ScopedRequests
         /\ [q EXCEPT !.step = step, !.roles = rs, !.lost = lost] \in ScopedRequests
BY DEF ScopedRequests

(* Extending a history keeps its type. *)
LEMMA ExtendType ==
  \A old, new \in Histories : Extend(old, new) \in Histories
BY DEF Extend, Histories

(* Observe records typed histories. *)
LEMMA ObserveType ==
  ASSUME TypeOK, RowsOK', req' \in [Requests -> RequestRecords], Observe
  PROVE  seen' \in [Requests -> Histories]
<1> SUFFICES ASSUME NEW r \in Requests, req'[r].step # "idle"
             PROVE  Extend(IF req[r].step = "idle"
                             THEN Snapshot(req'[r].user, req'[r].tenant)
                             ELSE seen[r],
                           Snapshot(req[r].user, req[r].tenant)') \in Histories
  BY DEF Observe, NothingSeen, Histories
<1>1. req'[r].user \in Users /\ req'[r].tenant \in Tenants \cup {None}
  BY LiveRequest
<1>2. Snapshot(req'[r].user, req'[r].tenant) \in Histories
  BY <1>1, SnapshotType DEF TypeOK
<1>3. (RowsOK => \A u \in Users, t \in Tenants \cup {None} : Snapshot(u, t) \in Histories)'
  BY SnapshotType, PTL
<1>4. Snapshot(req[r].user, req[r].tenant)' \in Histories
  BY <1>1, <1>3
<1>5. seen[r] \in Histories
  BY DEF TypeOK
<1> QED
  BY <1>2, <1>4, <1>5, ExtendType

(* The first step of a request stores a typed record and at most an account. *)
LEMMA StartTyped ==
  ASSUME TypeOK, NEW r \in Requests, StartRequest(r)
  PROVE  RowsOK' /\ req' \in [Requests -> RequestRecords] /\ Observe
<1> USE DEF TypeOK
<1>1. \A kind \in Kinds, u \in Users, t \in Tenants, step \in Steps \ {"idle"} :
        Request(kind, u, t, step) \in RequestRecords
  BY DEF Request, RequestRecords, ScopedRequests
<1>2. \A kind \in {"register", "login"}, u \in Users :
        Request(kind, u, None, "done") \in RequestRecords
  BY DEF Request, RequestRecords, UnscopedRequests
<1>3. ASSUME NEW u \in Users, NEW t \in Tenants \cup {None}, Register(r, u, t)
      PROVE  RowsOK' /\ req' \in [Requests -> RequestRecords] /\ Observe
  BY <1>1, <1>2, <1>3 DEF Register, RowsOK, Kinds, Steps
<1>4. ASSUME NEW u \in Users, NEW t \in Tenants \cup {None}, Login(r, u, t)
      PROVE  RowsOK' /\ req' \in [Requests -> RequestRecords] /\ Observe
  BY <1>1, <1>2, <1>4 DEF Login, RowsOK, rows, Kinds, Steps
<1>5. ASSUME NEW u \in Users, NEW t \in Tenants, SwitchTenant(r, u, t)
      PROVE  RowsOK' /\ req' \in [Requests -> RequestRecords] /\ Observe
  BY <1>1, <1>5 DEF SwitchTenant, RowsOK, rows, Kinds, Steps
<1>6. ASSUME NEW u \in Users, NEW t \in Tenants, HandleCallback(r, u, t)
      PROVE  RowsOK' /\ req' \in [Requests -> RequestRecords] /\ Observe
  BY <1>1, <1>6 DEF HandleCallback, RowsOK, rows, Kinds, Steps
<1>7. ASSUME NEW u \in Users, NEW t \in Tenants, VerifyMagicLink(r, u, t)
      PROVE  RowsOK' /\ req' \in [Requests -> RequestRecords] /\ Observe
  BY <1>1, <1>7 DEF VerifyMagicLink, RowsOK, rows, Kinds, Steps
<1>8. ASSUME NEW u \in Users, NEW t \in Tenants, ProvisionUser(r, u, t)
      PROVE  RowsOK' /\ req' \in [Requests -> RequestRecords] /\ Observe
  BY <1>1, <1>8 DEF ProvisionUser, RowsOK, rows, Kinds, Steps
<1> QED
  BY <1>3, <1>4, <1>5, <1>6, <1>7, <1>8 DEF StartRequest

(* Every later step keeps the record of its slot typed. *)
LEMMA ContinueTyped ==
  ASSUME TypeOK, NEW r \in Requests, ContinueRequest(r)
  PROVE  RowsOK' /\ req' \in [Requests -> RequestRecords] /\ Observe
<1> DEFINE Goal == RowsOK' /\ req' \in [Requests -> RequestRecords] /\ Observe
<1> USE DEF TypeOK
<1>0. /\ Idle \in RequestRecords
      /\ ScopedRequests \subseteq RequestRecords
      /\ req[r] \in RequestRecords
  BY DEF RequestRecords
<1>1. CASE CheckTenant(r)
  <2>1. req[r] \in ScopedRequests
    BY <1>0, <1>1, LiveRequest DEF CheckTenant
  <2>2. \A step \in Steps \ {"idle"} : [req[r] EXCEPT !.step = step] \in RequestRecords
    BY <1>0, <2>1, RequestUpdate
  <2>3. \/ Abort(r)
        \/ \E step \in Steps \ {"idle"} : Goto(r, step)
    BY <1>1 DEF CheckTenant, Steps
  <2>4. req' \in [Requests -> RequestRecords]
    BY <1>0, <2>2, <2>3 DEF Goto, Abort
  <2> QED
    BY <1>1, <2>4 DEF CheckTenant, RowsOK, rows
<1>2. CASE FindUser(r)
  <2>1. req[r] \in ScopedRequests
    BY <1>0, <1>2, LiveRequest DEF FindUser
  <2>2. \A step \in Steps \ {"idle"} : [req[r] EXCEPT !.step = step] \in RequestRecords
    BY <1>0, <2>1, RequestUpdate
  <2> QED
    BY <1>0, <1>2, <2>2 DEF FindUser, Goto, RowsOK, rows, Steps
<1>3. CASE CreateUser(r)
  <2>1. req[r] \in ScopedRequests /\ req[r].user \in Users
    BY <1>0, <1>3, LiveRequest DEF CreateUser
  <2>2. \A step \in Steps \ {"idle"} : [req[r] EXCEPT !.step = step] \in RequestRecords
    BY <1>0, <2>1, RequestUpdate
  <2>3. /\ \/ Abort(r)
           \/ \E step \in Steps \ {"idle"} : Goto(r, step)
        /\ users' \in {users, users \cup {req[r].user}}
    BY <1>3 DEF CreateUser, Steps
  <2>4. req' \in [Requests -> RequestRecords]
    BY <1>0, <2>2, <2>3 DEF Goto, Abort
  <2>5. RowsOK'
    BY <1>3, <2>1, <2>3 DEF CreateUser, RowsOK
  <2> QED
    BY <1>3, <2>4, <2>5 DEF CreateUser
<1>4. CASE EnsureMembership(r)
  <2>1. req[r] \in ScopedRequests
    BY <1>0, <1>4, LiveRequest DEF EnsureMembership
  <2>2. \A step \in Steps \ {"idle"} : [req[r] EXCEPT !.step = step] \in RequestRecords
    BY <1>0, <2>1, RequestUpdate
  <2> QED
    BY <1>0, <1>4, <2>2 DEF EnsureMembership, Goto, RowsOK, rows, Steps
<1>5. CASE CreateMembership(r)
  <2>1. /\ req[r] \in ScopedRequests
        /\ req[r].user \in Users /\ req[r].tenant \in Tenants
    BY <1>0, <1>5, LiveRequest DEF CreateMembership, ScopedRequests
  <2>2. JoinRoles(req[r].kind) \in SUBSET Roles
    BY DEF JoinRoles, Roles
  <2>3. /\ [req[r] EXCEPT !.step = "done", !.roles = JoinRoles(req[r].kind)] \in RequestRecords
        /\ [req[r] EXCEPT !.step = "member"] \in RequestRecords
    BY <1>0, <2>1, <2>2, RequestUpdate DEF Steps
  <2>4. req' \in [Requests -> RequestRecords]
    BY <1>0, <1>5, <2>3 DEF CreateMembership, Goto, Abort
  <2>5. memberships' \in [Users -> [Tenants -> (SUBSET Roles) \cup {NoRow}]]
    <3>1. \/ memberships' = memberships
          \/ memberships' = [memberships EXCEPT
                ![req[r].user][req[r].tenant] = JoinRoles(req[r].kind)]
      BY <1>5 DEF CreateMembership
    <3>2. JoinRoles(req[r].kind) \in (SUBSET Roles) \cup {NoRow}
      BY <2>2
    <3>3. memberships \in [Users -> [Tenants -> (SUBSET Roles) \cup {NoRow}]]
      BY DEF RowsOK
    <3>4. [memberships EXCEPT ![req[r].user][req[r].tenant] = JoinRoles(req[r].kind)]
            \in [Users -> [Tenants -> (SUBSET Roles) \cup {NoRow}]]
      BY <2>1, <3>2, <3>3, RowUpdate
    <3> QED
      BY <3>1, <3>3, <3>4
  <2>6. RowsOK'
    BY <1>5, <2>5 DEF CreateMembership, RowsOK
  <2> QED
    BY <1>5, <2>4, <2>6 DEF CreateMembership
<1>6. CASE ReadMembership(r)
  <2>1. /\ req[r] \in ScopedRequests
        /\ req[r].user \in Users /\ req[r].tenant \in Tenants
    BY <1>0, <1>6, LiveRequest DEF ReadMembership, ScopedRequests
  <2>2. FindMembership(req[r].user, req[r].tenant) \in (SUBSET Roles) \cup {NoRow}
    BY <2>1 DEF FindMembership, RowsOK
  <2>3. \A rs \in SUBSET Roles :
          [req[r] EXCEPT !.step = "teams", !.roles = rs] \in RequestRecords
    BY <1>0, <2>1, RequestUpdate DEF Steps
  <2> QED
    BY <1>0, <1>6, <2>2, <2>3 DEF ReadMembership, Abort, RowsOK, rows
<1>7. CASE ReadTeams(r)
  <2>1. /\ req[r] \in ScopedRequests
        /\ req[r].user \in Users /\ req[r].roles \in SUBSET Roles
    BY <1>0, <1>7, LiveRequest DEF ReadTeams, ScopedRequests
  <2> DEFINE listed == {g \in Teams : teamMemberships[req[r].user][g] # NoRow}
             counted(found) == {g \in found : SameTenant(g, req[r].tenant)}
  <2>2. PICK found \in SUBSET listed :
          req' = [req EXCEPT
            ![r].step  = "done",
            ![r].roles = AppendTeams(@, req[r].user, counted(found)),
            ![r].lost  = (found # listed)]
    BY <1>7 DEF ReadTeams
  <2>3. AppendTeams(req[r].roles, req[r].user, counted(found)) \in SUBSET Roles
    <3>1. \A g \in counted(found) : teamMemberships[req[r].user][g] \in SUBSET Roles
      BY <2>1 DEF RowsOK, Roles
    <3> QED
      BY <2>1, <3>1 DEF AppendTeams
  <2>4. req' \in [Requests -> RequestRecords]
    BY <1>0, <2>1, <2>2, <2>3, RequestUpdate DEF Steps
  <2> QED
    BY <1>7, <2>4 DEF ReadTeams, RowsOK, rows
<1>8. CASE RepositoryError(r)
  <2>1. req[r] \in ScopedRequests
    BY <1>0, <1>8, LiveRequest DEF RepositoryError
  <2>2. [req[r] EXCEPT !.step = "done", !.lost = TRUE] \in RequestRecords
    BY <1>0, <2>1, RequestUpdate DEF Steps
  <2> QED
    BY <1>0, <1>8, <2>2 DEF RepositoryError, Abort, RowsOK, rows
<1>rows. CASE Respond(r)
  BY <1>0, <1>rows DEF Respond, Abort, RowsOK, rows
<1> QED
  BY <1>1, <1>2, <1>3, <1>4, <1>5, <1>6, <1>7, <1>8, <1>rows DEF ContinueRequest

(* Administrative operations leave the requests alone. *)
LEMMA AdministerTyped ==
  ASSUME TypeOK, Administer
  PROVE  RowsOK' /\ req' = req /\ Observe
<1> USE DEF TypeOK, RowsOK
<1>1. ASSUME NEW t \in Tenants, CreateTenant(t)
      PROVE  RowsOK' /\ req' = req /\ Observe
  BY <1>1 DEF CreateTenant
<1>2. ASSUME NEW t \in Tenants, NEW s \in {"active", "suspended", "deleted"}, UpdateStatus(t, s)
      PROVE  RowsOK' /\ req' = req /\ Observe
  BY <1>2 DEF UpdateStatus
<1>3. ASSUME NEW t \in Tenants, NEW g \in Teams, CreateTeam(g, t)
      PROVE  RowsOK' /\ req' = req /\ Observe
  BY <1>3 DEF CreateTeam
<1>4. ASSUME NEW u \in Users, NEW t \in Tenants, LeaveTenant(u, t)
      PROVE  RowsOK' /\ req' = req /\ Observe
  BY <1>4 DEF LeaveTenant
<1>8. ASSUME NEW u \in Users, NEW t \in Tenants, DeleteUser(u, t)
      PROVE  RowsOK' /\ req' = req /\ Observe
  BY <1>4, <1>8 DEF DeleteUser
<1>5. ASSUME NEW u \in Users, NEW t \in Tenants, SendMagicLink(u, t) \/ LinkSpent(u, t)
      PROVE  RowsOK' /\ req' = req /\ Observe
  BY <1>5 DEF SendMagicLink, LinkSpent
<1>6. ASSUME NEW u \in Users, NEW g \in Teams, NEW rs \in SUBSET TeamRoles, AddMember(u, g, rs)
      PROVE  RowsOK' /\ req' = req /\ Observe
  BY <1>6 DEF AddMember
<1>7. ASSUME NEW u \in Users, NEW g \in Teams,
             NEW row \in (SUBSET TeamRoles) \cup {NoRow}, ChangeMember(u, g, row)
      PROVE  RowsOK' /\ req' = req /\ Observe
  BY <1>7 DEF ChangeMember
<1> QED
  BY <1>1, <1>2, <1>3, <1>4, <1>5, <1>6, <1>7, <1>8 DEF Administer

(* Every variable of TenantAuth keeps its type. *)
THEOREM TypeCorrect == Spec => []TypeOK
<1>1. Init => TypeOK
  BY DEF Init, TypeOK, RowsOK, RequestRecords, NothingSeen, Histories
<1>2. TypeOK /\ [Next]_vars => TypeOK'
  <2> SUFFICES ASSUME TypeOK, [Next]_vars
               PROVE  TypeOK'
    OBVIOUS
  <2>1. CASE Next
    <3>1. RowsOK' /\ req' \in [Requests -> RequestRecords] /\ Observe
      BY <2>1, StartTyped, ContinueTyped, AdministerTyped DEF Next, TypeOK
    <3> QED
      BY <3>1, ObserveType DEF TypeOK
  <2>2. CASE UNCHANGED vars
    BY <2>2 DEF vars, TypeOK, RowsOK
  <2> QED
    BY <2>1, <2>2
<1> QED
  BY <1>1, <1>2, PTL DEF Spec

-----------------------------------------------------------------------------
(* The inductive invariant behind the token theorems: how far a request has *)
(* come says what its history already holds, and the roles it has collected *)
(* were all seen in force.                                                  *)
MintInv(r) ==
  LET q == req[r]
      s == seen[r]
  IN
  q.step # "idle" =>
    /\ q.step \in {"exchange", "newUser", "ensure"} => q.kind \in {"callback", "scim"}
    /\ q.kind \in PasswordKinds /\ q.tenant # None /\ q.step # "tenant" => s.active
    /\ q.tenant # None /\ q.step \in {"teams", "done"} => s.member
    /\ q.roles \subseteq RolesOf(s.some)

MintInvariant == \A r \in Requests : MintInv(r)

(* More grants, more roles. *)
LEMMA RolesOfMonotone ==
  ASSUME NEW A, NEW B, A \subseteq B
  PROVE  RolesOf(A) \subseteq RolesOf(B)
BY DEF RolesOf

(* A row's roles are among the roles of the grants it makes. *)
LEMMA RowGrants ==
  ASSUME NEW g, NEW row, NEW grants, {g} \X row \subseteq grants
  PROVE  row \subseteq RolesOf(grants)
<1> SUFFICES ASSUME NEW role \in row
             PROVE  role \in RolesOf(grants)
  OBVIOUS
<1>1. <<g, role>> \in grants /\ <<g, role>>[2] = role
  OBVIOUS
<1> QED
  BY <1>1 DEF RolesOf

(* Whatever row grants a role is among the grants of its tenant. *)
LEMMA MemberGrants ==
  \A v \in Users, k \in Tenants \cup {None} :
    IsMember(v, k) => memberships[v][k] \subseteq RolesOf(Grants(v, k))
<1> SUFFICES ASSUME NEW u \in Users, NEW t \in Tenants \cup {None}, IsMember(u, t)
             PROVE  memberships[u][t] \subseteq RolesOf(Grants(u, t))
  OBVIOUS
<1>1. {t} \X memberships[u][t] \subseteq Grants(u, t)
  BY DEF Grants, MembershipGrants
<1> DEFINE row    == memberships[u][t]
           grants == Grants(u, t)
<1> HIDE DEF row, grants
<1>2. {t} \X row \subseteq grants
  BY <1>1 DEF row, grants
<1>3. row \subseteq RolesOf(grants)
  BY <1>2, RowGrants
<1> QED
  BY <1>3 DEF row, grants

(* The same for the rows of the teams. *)
LEMMA TeamGrantsRoles ==
  \A v \in Users, k \in Tenants \cup {None} :
    \A g \in TeamsIn(v, k) : teamMemberships[v][g] \subseteq RolesOf(Grants(v, k))
<1> SUFFICES ASSUME NEW u \in Users, NEW t \in Tenants \cup {None}, NEW g \in TeamsIn(u, t)
             PROVE  teamMemberships[u][g] \subseteq RolesOf(Grants(u, t))
  OBVIOUS
<1>1. {g} \X teamMemberships[u][g] \subseteq Grants(u, t)
  BY DEF Grants, TeamGrants
<1> QED
  BY <1>1, RowGrants

(* What Observe records about a request that is running after the step: the *)
(* present, and all it had recorded before.                                 *)
LEMMA ObserveGrows ==
  ASSUME TypeOK, TypeOK', Observe, NEW r \in Requests, req'[r].step # "idle",
         NEW u \in Users, NEW t \in Tenants \cup {None},
         u = req'[r].user, t = req'[r].tenant
  PROVE  /\ Grants(u, t)' \subseteq seen'[r].some
         /\ t # None /\ status'[t] = "active" => seen'[r].active
         /\ IsMember(u, t)' => seen'[r].member
         /\ req[r].step # "idle" =>
              /\ seen[r].some \subseteq seen'[r].some
              /\ seen[r].active => seen'[r].active
              /\ seen[r].member => seen'[r].member
<1> DEFINE old == IF req[r].step = "idle"
                    THEN Snapshot(req'[r].user, req'[r].tenant)
                    ELSE seen[r]
           new == Snapshot(req[r].user, req[r].tenant)'
<1>1. seen'[r] = Extend(old, new)
  BY DEF Observe
<1>2. /\ new.some = Grants(u, t)'
      /\ new.active = (t # None /\ status'[t] = "active")
      /\ new.member = IsMember(u, t)'
  BY DEF Snapshot
<1>3. /\ seen'[r].some = old.some \cup new.some
      /\ seen'[r].active = (old.active \/ new.active)
      /\ seen'[r].member = (old.member \/ new.member)
  BY <1>1 DEF Extend
<1> QED
  BY <1>2, <1>3

(* A request that a step leaves alone keeps its invariant. *)
LEMMA MintFrame ==
  ASSUME TypeOK, TypeOK', Observe, NEW r \in Requests, req'[r] = req[r], MintInv(r)
  PROVE  MintInv(r)'
<1> SUFFICES ASSUME req[r].step # "idle"
             PROVE  MintInv(r)'
  BY DEF MintInv
<1>1. req'[r].user \in Users /\ req'[r].tenant \in Tenants \cup {None}
  BY LiveRequest DEF TypeOK
<1>2. /\ seen[r].some \subseteq seen'[r].some
      /\ seen[r].active => seen'[r].active
      /\ seen[r].member => seen'[r].member
  BY <1>1, ObserveGrows
<1>3. RolesOf(seen[r].some) \subseteq RolesOf(seen'[r].some)
  BY <1>2, RolesOfMonotone
<1> QED
  BY <1>2, <1>3 DEF MintInv

(* A request that was just refused, or answered, has nothing to keep. *)
LEMMA MintIdle ==
  ASSUME TypeOK, NEW r \in Requests, Abort(r)
  PROVE  MintInv(r)'
BY DEF MintInv, Abort, Idle, TypeOK

(* The first step of a request collects no role, and names a tenant whose    *)
(* status it has not looked at only to look at it next.                      *)
LEMMA MintStart ==
  ASSUME TypeOK, TypeOK', Observe, NEW r \in Requests, StartRequest(r)
  PROVE  MintInv(r)'
<1> USE DEF TypeOK
<1>1. ASSUME NEW u \in Users, NEW t \in Tenants \cup {None},
             Register(r, u, t) \/ Login(r, u, t)
      PROVE  MintInv(r)'
  <2>1. /\ req'[r].step = (IF t = None THEN "done" ELSE "tenant")
        /\ req'[r].tenant = t /\ req'[r].roles = {}
    BY <1>1 DEF Register, Login, Request
  <2> QED
    BY <2>1 DEF MintInv
<1>2. ASSUME NEW u \in Users, NEW t \in Tenants, SwitchTenant(r, u, t)
      PROVE  MintInv(r)'
  BY <1>2 DEF SwitchTenant, Request, MintInv
<1>3. ASSUME NEW u \in Users, NEW t \in Tenants,
             HandleCallback(r, u, t) \/ VerifyMagicLink(r, u, t) \/ ProvisionUser(r, u, t)
      PROVE  MintInv(r)'
  BY <1>3 DEF HandleCallback, VerifyMagicLink, ProvisionUser, Request, MintInv, PasswordKinds
<1> QED
  BY <1>1, <1>2, <1>3 DEF StartRequest

(* The steps that read or write what the token will say: each looks at a    *)
(* row at a moment that Observe records.                                    *)
LEMMA MintContinue ==
  ASSUME TypeOK, TypeOK', Observe, NEW r \in Requests, ContinueRequest(r), MintInv(r),
         NEW u, NEW t, u = req[r].user, t = req[r].tenant
  PROVE  MintInv(r)'
<1> SUFFICES ASSUME ~Abort(r)
             PROVE  MintInv(r)'
  BY MintIdle
<1>0. /\ req \in [Requests -> RequestRecords]
      /\ req[r].step \in Steps \ {"idle"}
      /\ u \in Users /\ t \in Tenants \cup {None}
      /\ req[r].step # "done" => req[r] \in ScopedRequests /\ t \in Tenants
  <2>1. req[r].step # "idle"
    BY DEF ContinueRequest, CheckTenant, FindUser, CreateUser, EnsureMembership,
           CreateMembership, ReadMembership, ReadTeams, RepositoryError, Respond
  <2> QED
    BY <2>1, LiveRequest DEF TypeOK, ScopedRequests
<1>1. ASSUME req'[r].user = u, req'[r].tenant = t, req'[r].step # "idle"
      PROVE  /\ Grants(u, t)' \subseteq seen'[r].some
             /\ t # None /\ status'[t] = "active" => seen'[r].active
             /\ IsMember(u, t)' => seen'[r].member
             /\ RolesOf(seen[r].some) \subseteq RolesOf(seen'[r].some)
             /\ seen[r].active => seen'[r].active
             /\ seen[r].member => seen'[r].member
  <2>1. /\ Grants(u, t)' \subseteq seen'[r].some
        /\ t # None /\ status'[t] = "active" => seen'[r].active
        /\ IsMember(u, t)' => seen'[r].member
        /\ seen[r].some \subseteq seen'[r].some
        /\ seen[r].active => seen'[r].active
        /\ seen[r].member => seen'[r].member
    BY <1>0, <1>1, ObserveGrows
  <2> QED
    BY <2>1, RolesOfMonotone
<1>rows. /\ IsMember(u, t)' => memberships'[u][t] \subseteq RolesOf(Grants(u, t))'
      /\ \A g \in TeamsIn(u, t)' : teamMemberships'[u][g] \subseteq RolesOf(Grants(u, t))'
  <2>1. (\A v \in Users, k \in Tenants \cup {None} : IsMember(v, k) =>
           memberships[v][k] \subseteq RolesOf(Grants(v, k)))'
    BY MemberGrants, PTL
  <2>2. (\A v \in Users, k \in Tenants \cup {None} : \A g \in TeamsIn(v, k) :
           teamMemberships[v][g] \subseteq RolesOf(Grants(v, k)))'
    BY TeamGrantsRoles, PTL
  <2> QED
    BY <1>0, <2>1, <2>2
<1>2. CASE CheckTenant(r)
  <2>1. /\ status' = status /\ status[t] = "active"
        /\ \E step \in {"newMember", "member"} : Goto(r, step)
    BY <1>2 DEF CheckTenant, TenantOpen, rows
  <2>2. /\ req'[r].user = u /\ req'[r].tenant = t /\ req'[r].kind = req[r].kind
        /\ req'[r].roles = req[r].roles /\ req'[r].step \in {"newMember", "member"}
    BY <1>0, <2>1 DEF Goto, RequestRecords, Idle, ScopedRequests, UnscopedRequests
  <2> QED
    BY <1>0, <1>1, <2>1, <2>2 DEF MintInv
<1>3. CASE FindUser(r) \/ CreateUser(r) \/ EnsureMembership(r)
  <2>1. /\ req[r].step \in {"exchange", "newUser", "ensure"}
        /\ \E step \in {"ensure", "newUser", "member", "newMember"} : Goto(r, step)
    BY <1>3 DEF FindUser, CreateUser, EnsureMembership
  <2>2. /\ req'[r].user = u /\ req'[r].tenant = t /\ req'[r].kind = req[r].kind
        /\ req'[r].roles = req[r].roles
        /\ req'[r].step \in {"ensure", "newUser", "member", "newMember"}
    BY <1>0, <2>1 DEF Goto, RequestRecords, Idle, ScopedRequests, UnscopedRequests
  <2>3. req[r].kind \in {"callback", "scim"}
    BY <1>0, <2>1 DEF MintInv
  <2> QED
    BY <1>0, <1>1, <2>2, <2>3 DEF MintInv, PasswordKinds
<1>4. CASE CreateMembership(r)
  <2> DEFINE joined == JoinRoles(req[r].kind)
  <2>1. /\ req[r].step = "newMember"
        /\ memberships' = [memberships EXCEPT ![u][t] = joined]
        /\ \/ req' = [req EXCEPT ![r].step = "done", ![r].roles = joined]
           \/ req[r].kind = "callback" /\ Goto(r, "member")
    BY <1>4 DEF CreateMembership
  <2>2. t \in Tenants /\ t # None
    BY <1>0, <2>1, NoneIsNothing
  <2>3. memberships'[u][t] = joined
    BY <1>0, <2>1, <2>2 DEF TypeOK, RowsOK
  <2>4. joined # NoRow
    BY NoneIsNothing DEF JoinRoles, Roles, NoRow
  <2>5. IsMember(u, t)'
    BY <2>2, <2>3, <2>4 DEF IsMember
  <2>6. joined \subseteq RolesOf(Grants(u, t))'
    BY <1>rows, <2>3, <2>5
  <2>7. CASE req' = [req EXCEPT ![r].step = "done", ![r].roles = joined]
    <3>1. /\ req'[r].user = u /\ req'[r].tenant = t /\ req'[r].kind = req[r].kind
          /\ req'[r].roles = joined /\ req'[r].step = "done"
      BY <1>0, <2>7 DEF RequestRecords, Idle, ScopedRequests, UnscopedRequests
    <3>2. joined \subseteq RolesOf(seen'[r].some)
      BY <1>1, <2>6, <3>1, RolesOfMonotone
    <3> QED
      BY <1>0, <1>1, <2>1, <2>2, <2>5, <3>1, <3>2 DEF MintInv
  <2>8. CASE req[r].kind = "callback" /\ Goto(r, "member")
    <3>1. /\ req'[r].user = u /\ req'[r].tenant = t /\ req'[r].kind = "callback"
          /\ req'[r].roles = req[r].roles /\ req'[r].step = "member"
      BY <1>0, <2>8 DEF Goto, RequestRecords, Idle, ScopedRequests, UnscopedRequests
    <3> QED
      BY <1>0, <1>1, <3>1 DEF MintInv, PasswordKinds
  <2> QED
    BY <2>1, <2>7, <2>8
<1>5. CASE ReadMembership(r)
  <2>1. /\ req[r].step = "member" /\ memberships' = memberships
        /\ memberships[u][t] # NoRow
        /\ req' = [req EXCEPT ![r].step = "teams", ![r].roles = memberships[u][t]]
    BY <1>5 DEF ReadMembership, FindMembership, rows
  <2>2. t \in Tenants /\ t # None
    BY <1>0, <2>1, NoneIsNothing
  <2>3. IsMember(u, t)'
    BY <2>1, <2>2 DEF IsMember
  <2>4. memberships[u][t] \subseteq RolesOf(Grants(u, t))'
    BY <1>rows, <2>1, <2>3
  <2>5. /\ req'[r].user = u /\ req'[r].tenant = t /\ req'[r].kind = req[r].kind
        /\ req'[r].roles = memberships[u][t] /\ req'[r].step = "teams"
    BY <1>0, <2>1 DEF RequestRecords, Idle, ScopedRequests, UnscopedRequests
  <2>6. memberships[u][t] \subseteq RolesOf(seen'[r].some)
    BY <1>1, <2>4, <2>5, RolesOfMonotone
  <2> QED
    BY <1>0, <1>1, <2>1, <2>3, <2>5, <2>6 DEF MintInv
<1>6. CASE ReadTeams(r)
  <2> DEFINE listed == {g \in Teams : teamMemberships[req[r].user][g] # NoRow}
             counted(found) == {g \in found : SameTenant(g, req[r].tenant)}
  <2>1. /\ req[r].step = "teams"
        /\ teams' = teams /\ teamMemberships' = teamMemberships
    BY <1>6 DEF ReadTeams, rows
  <2>2. PICK found \in SUBSET listed :
          req' = [req EXCEPT
            ![r].step  = "done",
            ![r].roles = AppendTeams(@, req[r].user, counted(found)),
            ![r].lost  = (found # listed)]
    BY <1>6 DEF ReadTeams
  <2>3. t \in Tenants /\ t # None
    BY <1>0, <2>1, NoneIsNothing
  <2>4. /\ req'[r].user = u /\ req'[r].tenant = t /\ req'[r].kind = req[r].kind
        /\ req'[r].roles = AppendTeams(req[r].roles, u, counted(found))
        /\ req'[r].step = "done"
    <3> HIDE DEF counted, listed
    <3> QED
      BY <1>0, <2>1, <2>2 DEF ScopedRequests
  <2>5. \A g \in counted(found) : teamMemberships[u][g] \subseteq RolesOf(Grants(u, t))'
    <3> SUFFICES ASSUME NEW g \in counted(found)
                 PROVE  teamMemberships[u][g] \subseteq RolesOf(Grants(u, t))'
      OBVIOUS
    <3>1. g \in TeamsIn(u, t)'
      BY <2>1, <2>3 DEF TeamsIn, SameTenant
    <3> QED
      BY <1>rows, <2>1, <3>1
  <2>6. AppendTeams(req[r].roles, u, counted(found)) \subseteq RolesOf(seen'[r].some)
    <3>1. req[r].roles \subseteq RolesOf(seen'[r].some)
      BY <1>0, <1>1, <2>4 DEF MintInv
    <3>2. RolesOf(Grants(u, t))' \subseteq RolesOf(seen'[r].some)
      BY <1>1, <2>4, RolesOfMonotone DEF RolesOf
    <3> QED
      BY <2>5, <3>1, <3>2 DEF AppendTeams
  <2> QED
    BY <1>0, <1>1, <2>1, <2>4, <2>6 DEF MintInv
<1>7. CASE RepositoryError(r)
  <2>1. /\ req[r].step = "teams"
        /\ req' = [req EXCEPT ![r].step = "done", ![r].lost = TRUE]
    BY <1>7 DEF RepositoryError
  <2>2. /\ req'[r].user = u /\ req'[r].tenant = t /\ req'[r].kind = req[r].kind
        /\ req'[r].roles = req[r].roles /\ req'[r].step = "done"
    BY <1>0, <2>1 DEF RequestRecords, Idle, ScopedRequests, UnscopedRequests
  <2> QED
    BY <1>0, <1>1, <2>1, <2>2 DEF MintInv
<1>8. CASE Respond(r)
  BY <1>8 DEF Respond
<1> QED
  BY <1>2, <1>3, <1>4, <1>5, <1>6, <1>7, <1>8 DEF ContinueRequest

(* The steps of one request leave the slots of the others alone. *)
LEMMA OtherSlots ==
  ASSUME TypeOK, NEW r \in Requests, StartRequest(r) \/ ContinueRequest(r),
         NEW other \in Requests, other # r
  PROVE  req'[other] = req[other]
<1>1. CASE StartRequest(r)
  BY <1>1 DEF StartRequest, Register, Login, SwitchTenant, HandleCallback,
     VerifyMagicLink, ProvisionUser, TypeOK
<1>2. CASE ContinueRequest(r)
  <2>1. CASE CheckTenant(r) \/ FindUser(r) \/ CreateUser(r) \/ EnsureMembership(r)
    BY <2>1 DEF CheckTenant, FindUser, CreateUser, EnsureMembership, Goto, Abort, TypeOK
  <2>2. CASE CreateMembership(r) \/ ReadMembership(r)
    BY <2>2 DEF CreateMembership, ReadMembership, Goto, Abort, TypeOK
  <2>3. CASE ReadTeams(r) \/ RepositoryError(r) \/ Respond(r)
    BY <2>3 DEF ReadTeams, RepositoryError, Respond, Abort, TypeOK
  <2> QED
    BY <1>2, <2>1, <2>2, <2>3 DEF ContinueRequest
<1> QED
  BY <1>1, <1>2

(* How far every request has come matches what its history holds. *)
THEOREM MintInvariantHolds == Spec => []MintInvariant
<1>1. Init => MintInvariant
  BY DEF Init, MintInvariant, MintInv, Idle
<1>2. TypeOK /\ TypeOK' /\ MintInvariant /\ [Next]_vars => MintInvariant'
  <2> SUFFICES ASSUME TypeOK, TypeOK', MintInvariant, [Next]_vars, NEW r \in Requests
               PROVE  MintInv(r)'
    BY DEF MintInvariant
  <2>0. MintInv(r)
    BY DEF MintInvariant
  <2>1. CASE UNCHANGED vars
    BY <2>0, <2>1 DEF vars, MintInv
  <2>2. CASE Administer
    BY <2>0, <2>2, AdministerTyped, MintFrame
  <2>3. ASSUME NEW q \in Requests, StartRequest(q) \/ ContinueRequest(q)
        PROVE  MintInv(r)'
    <3>1. Observe
      BY <2>3, StartTyped, ContinueTyped
    <3>2. CASE q # r
      BY <2>0, <2>3, <3>1, <3>2, OtherSlots, MintFrame
    <3>3. CASE q = r
      BY <2>0, <2>3, <3>1, <3>3, MintStart, MintContinue
    <3> QED
      BY <3>2, <3>3
  <2> QED
    BY <2>1, <2>2, <2>3 DEF Next
<1> QED
  BY <1>1, <1>2, TypeCorrect, PTL DEF Spec

(* No token carries a role of another tenant, or one that its user did not  *)
(* hold while the request ran.                                              *)
THEOREM RolesHeld == Spec => []TokenRolesWereHeld
<1>1. MintInvariant => TokenRolesWereHeld
  BY DEF MintInvariant, MintInv, TokenRolesWereHeld
<1> QED
  BY <1>1, MintInvariantHolds, PTL

(* Password logins and switches mint tokens for active tenants only. *)
THEOREM TenantActive == Spec => []TokenTenantWasActive
<1>1. MintInvariant => TokenTenantWasActive
  BY DEF MintInvariant, MintInv, TokenTenantWasActive
<1> QED
  BY <1>1, MintInvariantHolds, PTL

(* Every tenant token goes to somebody who was a member of the tenant. *)
THEOREM UserMember == Spec => []TokenUserWasMember
<1>1. MintInvariant => TokenUserWasMember
  BY DEF MintInvariant, MintInv, TokenUserWasMember
<1> QED
  BY <1>1, MintInvariantHolds, PTL

-----------------------------------------------------------------------------
(* Only CreateMembership gives a membership row roles; otherwise a step keeps *)
(* a row or removes it.                                                       *)
LEMMA MembershipWrites ==
  ASSUME TypeOK, [Next]_vars, NEW u \in Users, NEW t \in Tenants
  PROVE  \/ memberships'[u][t] \in {memberships[u][t], NoRow}
         \/ \E r \in Requests : CreateMembership(r)
<1>1. ASSUME NEW v \in Users, NEW k \in Tenants, LeaveTenant(v, k) \/ DeleteUser(v, k)
      PROVE  memberships'[u][t] \in {memberships[u][t], NoRow}
  <2>1. memberships' = [memberships EXCEPT ![v][k] = NoRow]
    BY <1>1 DEF DeleteUser, LeaveTenant
  <2>2. memberships \in [Users -> [Tenants -> (SUBSET Roles) \cup {NoRow}]]
    BY DEF TypeOK, RowsOK
  <2> QED
    BY ONLY <2>1, <2>2, <1>1
<1>2. ASSUME NEW r \in Requests, StartRequest(r)
      PROVE  memberships' = memberships
  BY <1>2 DEF StartRequest, Register, Login, SwitchTenant, HandleCallback,
     VerifyMagicLink, ProvisionUser, rows
<1>3. ASSUME NEW r \in Requests, ContinueRequest(r), ~CreateMembership(r)
      PROVE  memberships' = memberships
  BY <1>3 DEF ContinueRequest, CheckTenant, FindUser, CreateUser, EnsureMembership,
     ReadMembership, ReadTeams, RepositoryError, Respond, rows
<1>4. ASSUME Administer, \A v \in Users, k \in Tenants : ~LeaveTenant(v, k)
      PROVE  memberships' = memberships
  BY <1>4 DEF Administer, DeleteUser, CreateTenant, UpdateStatus, CreateTeam, AddMember,
     ChangeMember, SendMagicLink, LinkSpent
<1>5. CASE UNCHANGED vars
  BY <1>5 DEF vars
<1> QED
  BY <1>1, <1>2, <1>3, <1>4, <1>5 DEF Next

(* CreateMembership writes the row of its own request, and only a missing one. *)
LEMMA WrittenOnce ==
  ASSUME TypeOK, NEW r \in Requests, CreateMembership(r),
         NEW u \in Users, NEW t \in Tenants, memberships'[u][t] # memberships[u][t]
  PROVE  /\ req[r].step = "newMember" /\ req[r].user = u /\ req[r].tenant = t
         /\ memberships[u][t] = NoRow
         /\ memberships'[u][t] = JoinRoles(req[r].kind)
<1> DEFINE v == req[r].user
           k == req[r].tenant
           joined == JoinRoles(req[r].kind)
<1>1. /\ req[r].step = "newMember"
      /\ memberships[v][k] = NoRow
      /\ memberships' = [memberships EXCEPT ![v][k] = joined]
  BY DEF CreateMembership, KeyFree
<1>2. memberships \in [Users -> [Tenants -> (SUBSET Roles) \cup {NoRow}]]
  BY DEF TypeOK, RowsOK
<1>3. v \in Users /\ k \in Tenants
  BY <1>1, LiveRequest DEF TypeOK, ScopedRequests
<1> HIDE DEF v, k, joined
<1>4. v = u /\ k = t
  BY ONLY <1>1, <1>2, <1>3, memberships'[u][t] # memberships[u][t], u \in Users, t \in Tenants
<1>5. memberships'[u][t] = joined
  BY ONLY <1>1, <1>2, <1>3, <1>4
<1> QED
  BY <1>1, <1>4, <1>5 DEF v, k, joined

(* A membership row is written when there is none and otherwise only        *)
(* removed, whichever requests race for it.                                 *)
THEOREM NeverRewritten == Spec => MembershipNeverRewritten
<1> DEFINE Unrewritten == \A u \in Users, t \in Tenants :
             memberships[u][t] # NoRow => memberships'[u][t] \in {memberships[u][t], NoRow}
<1>1. TypeOK /\ [Next]_vars => Unrewritten
  <2> SUFFICES ASSUME TypeOK, [Next]_vars, NEW u \in Users, NEW t \in Tenants,
                      memberships[u][t] # NoRow
               PROVE  memberships'[u][t] \in {memberships[u][t], NoRow}
    OBVIOUS
  <2>1. ASSUME NEW r \in Requests, CreateMembership(r)
        PROVE  memberships'[u][t] \in {memberships[u][t], NoRow}
    BY <2>1, WrittenOnce
  <2> QED
    BY <2>1, MembershipWrites
<1> QED
  BY <1>1, TypeCorrect, PTL DEF Spec, MembershipNeverRewritten

-----------------------------------------------------------------------------
(* A request that registers has stored its password before anything else,   *)
(* and passwords are never taken away.                                      *)
Registering ==
  \A r \in Requests :
    req[r].step # "idle" /\ req[r].kind = "register" => req[r].user \in passwords

(* Passwords stay. *)
LEMMA PasswordsStay ==
  ASSUME TypeOK, [Next]_vars
  PROVE  passwords \subseteq passwords'
<1>1. ASSUME NEW r \in Requests, StartRequest(r)
      PROVE  passwords \subseteq passwords'
  BY <1>1 DEF StartRequest, Register, Login, SwitchTenant, HandleCallback,
     VerifyMagicLink, ProvisionUser, rows
<1>2. ASSUME NEW r \in Requests, ContinueRequest(r)
      PROVE  passwords' = passwords
  BY <1>2 DEF ContinueRequest, CheckTenant, FindUser, CreateUser, EnsureMembership,
     CreateMembership, ReadMembership, ReadTeams, RepositoryError, Respond, rows
<1>3. ASSUME Administer
      PROVE  passwords' = passwords
  BY <1>3 DEF Administer, LeaveTenant, DeleteUser, CreateTenant, UpdateStatus, CreateTeam,
     AddMember, ChangeMember, SendMagicLink, LinkSpent
<1>4. CASE UNCHANGED vars
  BY <1>4 DEF vars
<1> QED
  BY <1>1, <1>2, <1>3, <1>4 DEF Next

(* A step of a request either keeps whose it is and of which kind, ends it,  *)
(* or starts one: one that registers makes the account and its password.     *)
LEMMA WhoseRequest ==
  ASSUME TypeOK, NEW r \in Requests, StartRequest(r) \/ ContinueRequest(r)
  PROVE  \/ req'[r].step = "idle"
         \/ /\ req[r].step \notin {"idle", "done"}
            /\ req'[r].kind = req[r].kind /\ req'[r].user = req[r].user
         \/ req'[r].kind # "register"
         \/ req'[r].user \in passwords' /\ req'[r].user \in Users \ users
<1> USE DEF TypeOK
<1>1. ASSUME NEW u \in Users, NEW t \in Tenants \cup {None}, Register(r, u, t)
      PROVE  req'[r].user \in passwords' /\ req'[r].user \in Users \ users
  BY <1>1 DEF Register, EmailFree, Request
<1>2. ASSUME NEW u \in Users, NEW t \in Tenants \cup {None},
             \/ Login(r, u, t) \/ SwitchTenant(r, u, t) \/ HandleCallback(r, u, t)
             \/ VerifyMagicLink(r, u, t) \/ ProvisionUser(r, u, t)
      PROVE  req'[r].kind # "register"
  BY <1>2 DEF Login, SwitchTenant, HandleCallback, VerifyMagicLink, ProvisionUser, Request
<1>3. CASE StartRequest(r)
  BY <1>1, <1>2, <1>3 DEF StartRequest
<1>4. ASSUME Abort(r)
      PROVE  req'[r].step = "idle"
  BY <1>4 DEF Abort, Idle
<1>5. ASSUME req[r].step \notin {"idle", "done"}, req[r] \in RequestRecords,
             \/ \E step \in Steps : Goto(r, step)
             \/ \E step, rs : req' = [req EXCEPT ![r].step = step, ![r].roles = rs]
             \/ \E step, lost : req' = [req EXCEPT ![r].step = step, ![r].lost = lost]
             \/ \E step, rs, lost :
                  req' = [req EXCEPT ![r].step = step, ![r].roles = rs, ![r].lost = lost]
      PROVE  req'[r].kind = req[r].kind /\ req'[r].user = req[r].user
  <2>1. DOMAIN req[r] = {"kind", "user", "tenant", "step", "roles", "lost"}
    BY <1>5 DEF RequestRecords, Idle, ScopedRequests, UnscopedRequests
  <2>2. req \in [Requests -> RequestRecords]
    OBVIOUS
  <2>3. CASE \E step \in Steps : Goto(r, step)
    BY ONLY <2>1, <2>2, <2>3, r \in Requests DEF Goto
  <2>4. CASE \E step, rs : req' = [req EXCEPT ![r].step = step, ![r].roles = rs]
    BY ONLY <2>1, <2>2, <2>4, r \in Requests
  <2>5. CASE \E step, lost : req' = [req EXCEPT ![r].step = step, ![r].lost = lost]
    BY ONLY <2>1, <2>2, <2>5, r \in Requests
  <2>6. CASE \E step, rs, lost :
               req' = [req EXCEPT ![r].step = step, ![r].roles = rs, ![r].lost = lost]
    BY ONLY <2>1, <2>2, <2>6, r \in Requests
  <2> QED
    BY <1>5, <2>3, <2>4, <2>5, <2>6
<1>6. req[r] \in RequestRecords
  OBVIOUS
<1>7. CASE CheckTenant(r) \/ FindUser(r) \/ CreateUser(r) \/ EnsureMembership(r)
  <2>1. req[r].step \notin {"idle", "done"} /\ (Abort(r) \/ \E step \in Steps : Goto(r, step))
    BY <1>7 DEF CheckTenant, FindUser, CreateUser, EnsureMembership, Steps
  <2> QED
    BY <1>4, <1>5, <1>6, <2>1
<1>8. CASE CreateMembership(r)
  <2>1. /\ req[r].step \notin {"idle", "done"}
        /\ \/ Abort(r)
           \/ \E step \in Steps : Goto(r, step)
           \/ \E step, rs : req' = [req EXCEPT ![r].step = step, ![r].roles = rs]
    BY <1>8 DEF CreateMembership, Steps
  <2> QED
    BY <1>4, <1>5, <1>6, <2>1
<1>9. CASE ReadMembership(r)
  <2>1. /\ req[r].step \notin {"idle", "done"}
        /\ \/ Abort(r)
           \/ \E rs : req' = [req EXCEPT ![r].step = "teams", ![r].roles = rs]
    BY <1>9 DEF ReadMembership
  <2> QED
    BY <1>4, <1>5, <1>6, <2>1
<1>10. CASE ReadTeams(r)
  <2>1. req[r].step \notin {"idle", "done"}
        /\ \E rs, lost : req' = [req EXCEPT ![r].step = "done", ![r].roles = rs, ![r].lost = lost]
    <3>1. PICK found \in SUBSET {g \in Teams : teamMemberships[req[r].user][g] # NoRow} :
            req' = [req EXCEPT
              ![r].step  = "done",
              ![r].roles = AppendTeams(req[r].roles, req[r].user,
                                       {g \in found : SameTenant(g, req[r].tenant)}),
              ![r].lost  = (found # {g \in Teams : teamMemberships[req[r].user][g] # NoRow})]
      BY <1>10 DEF ReadTeams
    <3> QED
      BY <1>10, <3>1 DEF ReadTeams
  <2> QED
    BY <1>5, <1>6, <2>1
<1>11. CASE RepositoryError(r) \/ Respond(r)
  BY <1>4, <1>5, <1>6, <1>11 DEF RepositoryError, Respond
<1> QED
  BY <1>3, <1>7, <1>8, <1>9, <1>10, <1>11 DEF ContinueRequest

(* A registering request has stored its password.                            *)
THEOREM RegisteringHolds == Spec => []Registering
<1>1. Init => Registering
  BY DEF Init, Registering, Idle
<1>2. TypeOK /\ Registering /\ [Next]_vars => Registering'
  <2> SUFFICES ASSUME TypeOK, Registering, [Next]_vars,
                      NEW r \in Requests, req'[r].step # "idle", req'[r].kind = "register"
               PROVE  req'[r].user \in passwords'
    BY DEF Registering
  <2>1. passwords \subseteq passwords'
    BY PasswordsStay
  <2>2. CASE req'[r] = req[r]
    BY <2>1, <2>2 DEF Registering
  <2>3. CASE StartRequest(r) \/ ContinueRequest(r)
    BY <2>1, <2>3, WhoseRequest DEF Registering
  <2>4. ASSUME NEW q \in Requests, StartRequest(q) \/ ContinueRequest(q), q # r
        PROVE  req'[r] = req[r]
    BY <2>4, OtherSlots
  <2>5. CASE Administer \/ UNCHANGED vars
    BY <2>2, <2>5, AdministerTyped DEF vars
  <2> QED
    BY <2>2, <2>3, <2>4, <2>5 DEF Next
<1> QED
  BY <1>1, <1>2, TypeCorrect, PTL DEF Spec

-----------------------------------------------------------------------------
(* Rows belong to accounts: a membership or a team row names a user who has  *)
(* an account, and so does a request that is about to write one.             *)
RowsOfUsers ==
  \A u \in Users : u \notin users =>
    /\ \A t \in Tenants : memberships[u][t] = NoRow
    /\ \A g \in Teams : teamMemberships[u][g] = NoRow

Joining == {"ensure", "newMember"}

JoinersKnown == \A r \in Requests : req[r].step \in Joining => req[r].user \in users

AccountInvariant == RowsOfUsers /\ JoinersKnown

(* Accounts stay. *)
LEMMA UsersStay ==
  ASSUME TypeOK, [Next]_vars
  PROVE  users \subseteq users'
<1>1. ASSUME NEW r \in Requests, StartRequest(r)
      PROVE  users \subseteq users'
  BY <1>1 DEF StartRequest, Register, Login, SwitchTenant, HandleCallback,
     VerifyMagicLink, ProvisionUser, rows
<1>2. ASSUME NEW r \in Requests, ContinueRequest(r)
      PROVE  users \subseteq users'
  BY <1>2 DEF ContinueRequest, CheckTenant, FindUser, CreateUser, EnsureMembership,
     CreateMembership, ReadMembership, ReadTeams, RepositoryError, Respond, rows
<1>3. ASSUME Administer
      PROVE  users' = users
  BY <1>3 DEF Administer, LeaveTenant, DeleteUser, CreateTenant, UpdateStatus, CreateTeam,
     AddMember, ChangeMember, SendMagicLink, LinkSpent
<1>4. CASE UNCHANGED vars
  BY <1>4 DEF vars
<1> QED
  BY <1>1, <1>2, <1>3, <1>4 DEF Next

(* A team row appears only for an account. *)
LEMMA TeamRowWrites ==
  ASSUME TypeOK, [Next]_vars, NEW u \in Users, NEW g \in Teams,
         teamMemberships'[u][g] # teamMemberships[u][g]
  PROVE  u \in users \/ teamMemberships[u][g] # NoRow
<1>0. teamMemberships \in [Users -> [Teams -> (SUBSET TeamRoles) \cup {NoRow}]]
  BY DEF TypeOK, RowsOK
<1>1. ASSUME NEW v \in Users, NEW h \in Teams, NEW rs \in SUBSET TeamRoles, AddMember(v, h, rs)
      PROVE  u \in users
  <2>1. v \in users /\ teamMemberships' = [teamMemberships EXCEPT ![v][h] = rs]
    BY <1>1 DEF AddMember
  <2>2. v = u
    BY <1>0, <2>1
  <2> QED
    BY <2>1, <2>2
<1>2. ASSUME NEW v \in Users, NEW h \in Teams,
             NEW row \in (SUBSET TeamRoles) \cup {NoRow}, ChangeMember(v, h, row)
      PROVE  teamMemberships[u][g] # NoRow
  <2>1. /\ teamMemberships[v][h] # NoRow
        /\ teamMemberships' = [teamMemberships EXCEPT ![v][h] = row]
    BY <1>2 DEF ChangeMember
  <2>2. v = u /\ h = g
    BY <1>0, <2>1
  <2> QED
    BY <2>1, <2>2
<1>3. ASSUME NEW r \in Requests, StartRequest(r)
      PROVE  FALSE
  BY <1>3 DEF StartRequest, Register, Login, SwitchTenant, HandleCallback,
     VerifyMagicLink, ProvisionUser, rows
<1>4. ASSUME NEW r \in Requests, ContinueRequest(r)
      PROVE  FALSE
  BY <1>4 DEF ContinueRequest, CheckTenant, FindUser, CreateUser, EnsureMembership,
     CreateMembership, ReadMembership, ReadTeams, RepositoryError, Respond, rows
<1>5. ASSUME NEW t \in Tenants,
             \/ CreateTenant(t)
             \/ \E s \in {"active", "suspended", "deleted"} : UpdateStatus(t, s)
             \/ \E h \in Teams : CreateTeam(h, t)
             \/ \E v \in Users : \/ LeaveTenant(v, t)   \/ DeleteUser(v, t)
                               \/ SendMagicLink(v, t) \/ LinkSpent(v, t)
      PROVE  FALSE
  BY <1>5 DEF CreateTenant, UpdateStatus, CreateTeam, LeaveTenant, DeleteUser,
     SendMagicLink, LinkSpent
<1>6. CASE UNCHANGED vars
  BY <1>6 DEF vars
<1> QED
  BY <1>1, <1>2, <1>3, <1>4, <1>5, <1>6 DEF Next, Administer

(* A request comes to write a row only for an account: the one it registered *)
(* or made, or one it found.                                                 *)
LEMMA JoinerKnown ==
  ASSUME TypeOK, Registering, JoinersKnown, NEW r \in Requests,
         StartRequest(r) \/ ContinueRequest(r), req'[r].step \in Joining
  PROVE  req'[r].user \in users'
<1> USE DEF TypeOK, Joining
<1>1. CASE StartRequest(r)
  <2>1. ASSUME NEW u \in Users, NEW t \in Tenants \cup {None},
               Register(r, u, t) \/ Login(r, u, t)
        PROVE  req'[r].step \in {"done", "tenant"}
    BY <2>1 DEF Register, Login, Request
  <2>2. ASSUME NEW u \in Users, NEW t \in Tenants,
               \/ SwitchTenant(r, u, t) \/ HandleCallback(r, u, t)
               \/ VerifyMagicLink(r, u, t) \/ ProvisionUser(r, u, t)
        PROVE  req'[r].step \in {"tenant", "exchange", "member", "newUser"}
    BY <2>2 DEF SwitchTenant, HandleCallback, VerifyMagicLink, ProvisionUser, Request
  <2> QED
    BY <1>1, <2>1, <2>2 DEF StartRequest
<1>0. req[r] \in RequestRecords /\ users \in SUBSET Users /\ passwords \subseteq users
  BY DEF RowsOK
<1>2. ASSUME NEW step \in Steps, Goto(r, step)
      PROVE  req'[r].user = req[r].user /\ req'[r].step = step
  <2>1. DOMAIN req[r] = {"kind", "user", "tenant", "step", "roles", "lost"}
    BY <1>0 DEF RequestRecords, Idle, ScopedRequests, UnscopedRequests
  <2> QED
    BY <1>2, <2>1 DEF Goto
<1>3. ~Abort(r)
  BY DEF Abort, Idle
<1>4. CASE CheckTenant(r)
  <2>1. /\ req[r].step = "tenant" /\ users' = users
        /\ Goto(r, IF req[r].kind = "register" THEN "newMember" ELSE "member")
    BY <1>3, <1>4 DEF CheckTenant, rows
  <2>2. CASE req[r].kind = "register"
    BY <1>0, <1>2, <2>1, <2>2 DEF Registering, Steps
  <2>3. CASE req[r].kind # "register"
    BY <1>2, <2>1, <2>3 DEF Steps
  <2> QED
    BY <2>2, <2>3
<1>5. CASE FindUser(r)
  BY <1>2, <1>5 DEF FindUser, rows, Steps
<1>6. CASE CreateUser(r)
  BY <1>2, <1>3, <1>6 DEF CreateUser, Steps
<1>7. CASE EnsureMembership(r)
  BY <1>2, <1>7 DEF EnsureMembership, rows, Steps, JoinersKnown
<1>8. CASE CreateMembership(r)
  <2>1. \/ req' = [req EXCEPT ![r].step = "done", ![r].roles = JoinRoles(req[r].kind)]
        \/ Goto(r, "member")
    BY <1>3, <1>8 DEF CreateMembership
  <2>2. req[r].step = "newMember"
    BY <1>8 DEF CreateMembership
  <2>3. req[r] \in ScopedRequests
    BY <1>0, <2>2, LiveRequest
  <2>4. req'[r].step \in {"done", "member"}
    BY <2>1, <2>3, <1>2 DEF Steps, ScopedRequests
  <2> QED
    BY <2>4
<1>9. CASE ReadMembership(r) \/ ReadTeams(r)
  <2>1. /\ req[r].step # "idle" /\ req[r].step # "done"
        /\ \E rs, lost :
             \/ req' = [req EXCEPT ![r].step = "teams", ![r].roles = rs]
             \/ req' = [req EXCEPT ![r].step = "done", ![r].roles = rs, ![r].lost = lost]
    <3>1. CASE ReadMembership(r)
      BY <1>3, <3>1 DEF ReadMembership
    <3>2. CASE ReadTeams(r)
      <4>1. PICK found \in SUBSET {g \in Teams : teamMemberships[req[r].user][g] # NoRow} :
              req' = [req EXCEPT
                ![r].step  = "done",
                ![r].roles = AppendTeams(req[r].roles, req[r].user,
                                         {g \in found : SameTenant(g, req[r].tenant)}),
                ![r].lost  = (found # {g \in Teams : teamMemberships[req[r].user][g] # NoRow})]
        BY <3>2 DEF ReadTeams
      <4> QED
        BY <3>2, <4>1 DEF ReadTeams
    <3> QED
      BY <1>9, <3>1, <3>2
  <2>2. req[r] \in ScopedRequests
    BY <1>0, <2>1, LiveRequest
  <2>3. req'[r].step \in {"teams", "done"}
    BY <2>1, <2>2 DEF ScopedRequests
  <2> QED
    BY <2>3
<1>10. CASE RepositoryError(r) \/ Respond(r)
  <2>1. req[r].step = "teams" /\ req' = [req EXCEPT ![r].step = "done", ![r].lost = TRUE]
    BY <1>3, <1>10 DEF RepositoryError, Respond
  <2>2. req[r] \in ScopedRequests
    BY <1>0, <2>1, LiveRequest
  <2> QED
    BY <2>1, <2>2 DEF ScopedRequests
<1> QED
  BY <1>1, <1>4, <1>5, <1>6, <1>7, <1>8, <1>9, <1>10 DEF ContinueRequest

(* No row without an account. *)
THEOREM AccountInvariantHolds == Spec => []AccountInvariant
<1>1. Init => AccountInvariant
  BY DEF Init, AccountInvariant, RowsOfUsers, JoinersKnown, Joining, Idle
<1>2. TypeOK /\ Registering /\ AccountInvariant /\ [Next]_vars => AccountInvariant'
  <2> SUFFICES ASSUME TypeOK, Registering, AccountInvariant, [Next]_vars
               PROVE  AccountInvariant'
    OBVIOUS
  <2>0. users \subseteq users' /\ Registering /\ RowsOfUsers /\ JoinersKnown
    BY UsersStay DEF AccountInvariant
  <2>1. ASSUME NEW u \in Users, NEW t \in Tenants, u \notin users'
        PROVE  memberships'[u][t] = NoRow
    <3>1. memberships[u][t] = NoRow
      BY <2>0, <2>1 DEF RowsOfUsers
    <3>2. ASSUME NEW r \in Requests, CreateMembership(r), memberships'[u][t] # memberships[u][t]
          PROVE  FALSE
      BY <2>0, <2>1, <3>2, WrittenOnce DEF JoinersKnown, Joining
    <3> QED
      BY <3>1, <3>2, MembershipWrites
  <2>2. ASSUME NEW u \in Users, NEW g \in Teams, u \notin users'
        PROVE  teamMemberships'[u][g] = NoRow
    BY <2>0, <2>2, TeamRowWrites DEF RowsOfUsers
  <2>3. ASSUME NEW r \in Requests, req'[r].step \in Joining
        PROVE  req'[r].user \in users'
    <3>1. CASE req'[r] = req[r]
      BY <2>0, <2>3, <3>1 DEF JoinersKnown
    <3>2. CASE StartRequest(r) \/ ContinueRequest(r)
      BY <2>0, <2>3, <3>2, JoinerKnown
    <3>3. ASSUME NEW q \in Requests, StartRequest(q) \/ ContinueRequest(q), q # r
          PROVE  req'[r] = req[r]
      BY <3>3, OtherSlots
    <3>4. CASE Administer \/ UNCHANGED vars
      BY <3>1, <3>4, AdministerTyped DEF vars
    <3> QED
      BY <3>1, <3>2, <3>3, <3>4 DEF Next
  <2> QED
    BY <2>1, <2>2, <2>3 DEF AccountInvariant, RowsOfUsers, JoinersKnown
<1> QED
  BY <1>1, <1>2, TypeCorrect, RegisteringHolds, PTL DEF Spec

-----------------------------------------------------------------------------
(* What makes an admin.  An email is registered once, so no two requests      *)
(* register one user; and until the registration creates its membership, its *)
(* account is admin of nothing, for its rows were none when it was made and  *)
(* all others that join write member.                                        *)
SoleRegistration ==
  \A r, q \in Requests :
    r # q /\ req[r].kind = "register" /\ req[q].kind = "register" => req[r].user # req[q].user

NotYetAdmin(r) ==
  req[r].kind = "register" /\ req[r].step # "done" =>
    \A k \in Tenants : "admin" \notin memberships[req[r].user][k]

AdminInvariant == SoleRegistration /\ \A r \in Requests : NotYetAdmin(r)

(* An idle slot registers nobody. *)
LEMMA RegisteringRuns ==
  ASSUME NEW q \in RequestRecords, q.kind = "register"
  PROVE  q.step # "idle" /\ q.user \in Users
<1>1. q # Idle
  BY DEF Idle
<1>2. CASE q \in ScopedRequests
  BY <1>2 DEF ScopedRequests
<1>3. CASE q \in UnscopedRequests
  BY <1>3 DEF UnscopedRequests
<1> QED
  BY <1>1, <1>2, <1>3 DEF RequestRecords

(* A registration after a step: it was one before, and not answered yet, or  *)
(* its account is new.                                                       *)
LEMMA RegisteringBefore ==
  ASSUME TypeOK, TypeOK', [Next]_vars, NEW r \in Requests, req'[r].kind = "register"
  PROVE  \/ req'[r] = req[r]
         \/ /\ StartRequest(r) \/ ContinueRequest(r)
            /\ \/ /\ req[r].kind = "register" /\ req[r].user = req'[r].user
                  /\ req[r].step # "done"
               \/ req'[r].user \in Users \ users
<1>1. req'[r].step # "idle"
  BY RegisteringRuns DEF TypeOK
<1>2. CASE StartRequest(r) \/ ContinueRequest(r)
  BY <1>1, <1>2, WhoseRequest
<1>3. ASSUME NEW q \in Requests, StartRequest(q) \/ ContinueRequest(q), q # r
      PROVE  req'[r] = req[r]
  BY <1>3, OtherSlots
<1>4. CASE Administer \/ UNCHANGED vars
  BY <1>4, AdministerTyped DEF vars
<1> QED
  BY <1>2, <1>3, <1>4 DEF Next

(* A step that makes an admin is the last of the registration of that user. *)
LEMMA AdminWritten ==
  ASSUME TypeOK, [Next]_vars, NEW u \in Users, NEW t \in Tenants,
         "admin" \in memberships'[u][t], "admin" \notin memberships[u][t]
  PROVE  \E r \in Requests :
           /\ CreateMembership(r) /\ Registers(r, u) /\ req[r].tenant = t
           /\ req[r].step = "newMember"
<1>1. "admin" \notin NoRow
  BY NoneIsNothing DEF NoRow, Roles
<1>2. PICK r \in Requests : CreateMembership(r)
  BY <1>1, MembershipWrites
<1>3. /\ req[r].step = "newMember" /\ req[r].user = u /\ req[r].tenant = t
      /\ memberships'[u][t] = JoinRoles(req[r].kind)
  BY <1>2, WrittenOnce
<1>4. req[r].kind = "register"
  BY <1>3 DEF JoinRoles
<1> QED
  BY <1>2, <1>3, <1>4 DEF Registers

(* One registration for a user, who is admin of nothing before it ends.      *)
THEOREM AdminInvariantHolds == Spec => []AdminInvariant
<1>1. Init => AdminInvariant
  BY DEF Init, AdminInvariant, SoleRegistration, NotYetAdmin, Idle
<1>2. TypeOK /\ TypeOK' /\ Registering /\ AccountInvariant /\ AdminInvariant /\ [Next]_vars
        => AdminInvariant'
  <2> SUFFICES ASSUME TypeOK, TypeOK', Registering, AccountInvariant, AdminInvariant, [Next]_vars
               PROVE  AdminInvariant'
    OBVIOUS
  <2>1. \A q \in Requests : req[q].kind = "register" => req[q].user \in users
    BY RegisteringRuns DEF Registering, TypeOK, RowsOK
  <2>2. \A u \in Users \ users, k \in Tenants : memberships[u][k] = NoRow
    BY DEF AccountInvariant, RowsOfUsers
  <2>3. "admin" \notin NoRow
    BY NoneIsNothing DEF NoRow, Roles
  <2>4. ASSUME NEW r \in Requests, NEW q \in Requests, r # q,
               req'[r].kind = "register", req'[q].kind = "register"
        PROVE  req'[r].user # req'[q].user
    <3>1. CASE req'[q] = req[q]
      <4>1. req[q].user \in users
        BY <2>1, <2>4, <3>1
      <4>2. CASE req[r].kind = "register" /\ req[r].user = req'[r].user
        BY <2>4, <3>1, <4>2 DEF AdminInvariant, SoleRegistration
      <4>3. CASE req'[r].user \notin users
        BY <3>1, <4>1, <4>3
      <4> QED
        BY <2>4, <4>2, <4>3, RegisteringBefore
    <3>2. CASE req'[q] # req[q]
      <4>1. StartRequest(q) \/ ContinueRequest(q)
        BY <2>4, <3>2, RegisteringBefore
      <4>2. req'[r] = req[r]
        BY <2>4, <4>1, OtherSlots
      <4>3. req[r].user \in users
        BY <2>1, <2>4, <4>2
      <4>4. CASE req[q].kind = "register" /\ req[q].user = req'[q].user
        BY <2>4, <4>2, <4>4 DEF AdminInvariant, SoleRegistration
      <4>5. CASE req'[q].user \notin users
        BY <4>2, <4>3, <4>5
      <4> QED
        BY <2>4, <3>2, <4>4, <4>5, RegisteringBefore
    <3> QED
      BY <3>1, <3>2
  <2>5. ASSUME NEW r \in Requests, req'[r].kind = "register", req'[r].step # "done",
               NEW k \in Tenants, "admin" \in memberships'[req'[r].user][k]
        PROVE  FALSE
    <3> DEFINE u == req'[r].user
    <3>0. u \in Users
      BY <2>5, RegisteringRuns DEF TypeOK
    <3>1. "admin" \notin memberships[u][k]
      <4>1. CASE req[r].kind = "register" /\ req[r].user = u /\ req[r].step # "done"
        BY <4>1 DEF AdminInvariant, NotYetAdmin
      <4>2. CASE u \in Users \ users
        BY <2>2, <2>3, <4>2
      <4> QED
        BY <2>5, <4>1, <4>2, RegisteringBefore
    <3> HIDE DEF u
    <3>2. PICK q \in Requests : CreateMembership(q) /\ Registers(q, u) /\ req[q].step = "newMember"
      BY <2>5, <3>0, <3>1, AdminWritten DEF u
    <3>3. u \in users
      BY <2>1, <3>2 DEF Registers
    <3>4. req[r].kind = "register" /\ req[r].user = u
      BY <2>5, <3>3, RegisteringBefore DEF u
    <3>5. q = r
      BY <3>2, <3>4 DEF Registers, AdminInvariant, SoleRegistration
    <3>6. req'[r].step = "done" \/ req'[r].kind = "login"
      <4>1. \/ Abort(r)
            \/ req' = [req EXCEPT ![r].step = "done", ![r].roles = JoinRoles(req[r].kind)]
        BY <3>2, <3>4, <3>5 DEF CreateMembership
      <4>2. req[r] \in ScopedRequests
        BY <3>2, <3>5, LiveRequest DEF TypeOK
      <4> QED
        BY <4>1, <4>2 DEF Abort, Idle, TypeOK, ScopedRequests
    <3> QED
      BY <2>5, <3>6
  <2> QED
    BY <2>4, <2>5 DEF AdminInvariant, SoleRegistration, NotYetAdmin
<1> QED
  BY <1>1, <1>2, TypeCorrect, RegisteringHolds, AccountInvariantHolds, PTL DEF Spec

(* Whoever becomes admin of a tenant does so by the one registration of that *)
(* account, which names the tenant: SCIM and the social logins hand out      *)
(* plain membership, in whatever order they run.                             *)
THEOREM AdminsCameByRegistration == Spec => AdminsRegistered
<1> DEFINE ByRegistration == \A u \in Users, t \in Tenants :
             "admin" \in memberships'[u][t] /\ "admin" \notin memberships[u][t] =>
               /\ u \in passwords
               /\ \A k \in Tenants : "admin" \notin memberships[u][k]
               /\ \E r \in Requests :
                    /\ Registers(r, u) /\ req[r].tenant = t
                    /\ \A q \in Requests \ {r} : ~Registers(q, u)
<1>1. TypeOK /\ Registering /\ AdminInvariant /\ [Next]_vars => ByRegistration
  <2> SUFFICES ASSUME TypeOK, Registering, AdminInvariant, [Next]_vars,
                      NEW u \in Users, NEW t \in Tenants,
                      "admin" \in memberships'[u][t], "admin" \notin memberships[u][t]
               PROVE  /\ u \in passwords
                      /\ \A k \in Tenants : "admin" \notin memberships[u][k]
                      /\ \E r \in Requests :
                           /\ Registers(r, u) /\ req[r].tenant = t
                           /\ \A q \in Requests \ {r} : ~Registers(q, u)
    OBVIOUS
  <2>1. PICK r \in Requests :
          /\ Registers(r, u) /\ req[r].tenant = t /\ req[r].step = "newMember"
    BY AdminWritten
  <2>2. u \in passwords
    BY <2>1 DEF Registering, Registers
  <2>3. \A k \in Tenants : "admin" \notin memberships[u][k]
    BY <2>1 DEF AdminInvariant, NotYetAdmin, Registers
  <2>4. \A q \in Requests \ {r} : ~Registers(q, u)
    BY <2>1 DEF AdminInvariant, SoleRegistration, Registers
  <2> QED
    BY <2>1, <2>2, <2>3, <2>4
<1>2. AdminsRegistered <=> [][ByRegistration]_vars
  BY DEF AdminsRegistered, ByRegistration
<1> HIDE DEF ByRegistration
<1> QED
  BY <1>1, <1>2, TypeCorrect, RegisteringHolds, AdminInvariantHolds, PTL DEF Spec

-----------------------------------------------------------------------------
(* The inductive invariant behind completeness.  What a request has seen all *)
(* along only ever shrinks, so each lookup settles one source for good: once *)
(* the membership is read, every grant of it that is left is in the token,   *)
(* and the teams follow.  A registration has nothing to miss: its account is *)
(* new.                                                                      *)
CompleteInv(r) ==
  LET q   == req[r]
      all == seen[r].all
  IN
  q.step # "idle" =>
    /\ q.step = "teams" => \A role : <<q.tenant, role>> \in all => role \in q.roles
    /\ q.kind = "register" => all = {}
    /\ q.step = "done" /\ ~q.lost => RolesOf(all) \subseteq q.roles

CompleteInvariant == \A r \in Requests : CompleteInv(r)

(* What Observe keeps of a request that is running after the step: nothing   *)
(* that is not in force now, and nothing that was lost before.               *)
LEMMA ObserveShrinks ==
  ASSUME TypeOK, Observe, NEW r \in Requests, req'[r].step # "idle",
         NEW u \in Users, NEW t \in Tenants \cup {None},
         u = req'[r].user, t = req'[r].tenant
  PROVE  /\ seen'[r].all \subseteq Grants(u, t)'
         /\ req[r].step = "idle" => seen'[r].all \subseteq Grants(u, t)
         /\ req[r].step # "idle" => seen'[r].all \subseteq seen[r].all
<1> DEFINE old == IF req[r].step = "idle"
                    THEN Snapshot(req'[r].user, req'[r].tenant)
                    ELSE seen[r]
           new == Snapshot(req[r].user, req[r].tenant)'
<1>1. seen'[r] = Extend(old, new)
  BY DEF Observe
<1>2. new.all = Grants(u, t)'
  BY DEF Snapshot
<1>3. seen'[r].all = old.all \cap new.all
  BY <1>1 DEF Extend
<1>4. req[r].step = "idle" => old.all = Grants(u, t)
  BY DEF Snapshot
<1> QED
  BY <1>2, <1>3, <1>4

(* A grant comes from the membership or from the row of a team of the tenant.*)
LEMMA GrantSources ==
  \A v \in Users, k \in Tenants \cup {None} : \A x \in Grants(v, k) :
    \/ IsMember(v, k) /\ x[1] = k /\ x[2] \in memberships[v][k]
    \/ \E g \in TeamsIn(v, k) : x[1] = g /\ x[2] \in teamMemberships[v][g]
BY DEF Grants, MembershipGrants, TeamGrants

(* Nobody holds anything without a tenant, nor without an account.           *)
LEMMA NoTenantNoGrants ==
  \A v \in Users : Grants(v, None) = {}
BY DEF Grants, MembershipGrants, TeamGrants, IsMember, TeamsIn

LEMMA NoAccountNoGrants ==
  ASSUME RowsOfUsers, NEW u \in Users, NEW t \in Tenants \cup {None}, u \notin users
  PROVE  Grants(u, t) = {}
<1>1. ~IsMember(u, t)
  BY DEF RowsOfUsers, IsMember
<1>2. TeamsIn(u, t) = {}
  BY DEF RowsOfUsers, TeamsIn
<1> QED
  BY <1>1, <1>2 DEF Grants, MembershipGrants, TeamGrants

(* A request that a step leaves alone keeps its invariant. *)
LEMMA CompleteFrame ==
  ASSUME TypeOK, TypeOK', Observe, NEW r \in Requests, req'[r] = req[r], CompleteInv(r)
  PROVE  CompleteInv(r)'
<1> SUFFICES ASSUME req[r].step # "idle"
             PROVE  CompleteInv(r)'
  BY DEF CompleteInv
<1>1. req'[r].user \in Users /\ req'[r].tenant \in Tenants \cup {None}
  BY LiveRequest DEF TypeOK
<1>2. seen'[r].all \subseteq seen[r].all
  BY <1>1, ObserveShrinks
<1>3. RolesOf(seen'[r].all) \subseteq RolesOf(seen[r].all)
  BY <1>2, RolesOfMonotone
<1> QED
  BY <1>2, <1>3 DEF CompleteInv

(* A request that was just refused, or answered, has nothing to keep. *)
LEMMA CompleteIdle ==
  ASSUME TypeOK, NEW r \in Requests, Abort(r)
  PROVE  CompleteInv(r)'
BY DEF CompleteInv, Abort, Idle, TypeOK

(* The first step of a request mints a token only without a tenant, where    *)
(* there is nothing to hold, and registers only an account without rows.     *)
LEMMA CompleteStart ==
  ASSUME TypeOK, TypeOK', RowsOfUsers, Observe, NEW r \in Requests, StartRequest(r)
  PROVE  CompleteInv(r)'
<1> USE DEF TypeOK
<1>1. ASSUME NEW u \in Users, NEW t \in Tenants \cup {None},
             Register(r, u, t) \/ Login(r, u, t)
      PROVE  CompleteInv(r)'
  <2>1. /\ req'[r].step = (IF t = None THEN "done" ELSE "tenant")
        /\ req'[r].tenant = t /\ req'[r].user = u /\ req[r].step = "idle"
        /\ req'[r].kind = "register" => u \notin users
    BY <1>1 DEF Register, Login, Request, EmailFree
  <2>2. /\ seen'[r].all \subseteq Grants(u, t)
        /\ seen'[r].all \subseteq Grants(u, t)'
    BY <2>1, ObserveShrinks
  <2>3. u \notin users => seen'[r].all = {}
    BY <2>2, NoAccountNoGrants
  <2>4. t = None => seen'[r].all = {}
    BY <2>2, NoTenantNoGrants
  <2>5. RolesOf({}) = {}
    BY DEF RolesOf
  <2> QED
    BY <2>1, <2>3, <2>4, <2>5 DEF CompleteInv
<1>2. ASSUME NEW u \in Users, NEW t \in Tenants,
             \/ SwitchTenant(r, u, t) \/ HandleCallback(r, u, t)
             \/ VerifyMagicLink(r, u, t) \/ ProvisionUser(r, u, t)
      PROVE  CompleteInv(r)'
  BY <1>2 DEF SwitchTenant, HandleCallback, VerifyMagicLink, ProvisionUser, Request, CompleteInv
<1> QED
  BY <1>1, <1>2 DEF StartRequest

(* Later steps: reading the membership settles its grants, reading the teams *)
(* all of them.                                                              *)
LEMMA CompleteContinue ==
  ASSUME TypeOK, TypeOK', Observe, NEW r \in Requests, ContinueRequest(r), CompleteInv(r),
         NEW u, NEW t, u = req[r].user, t = req[r].tenant
  PROVE  CompleteInv(r)'
<1> SUFFICES ASSUME ~Abort(r)
             PROVE  CompleteInv(r)'
  BY CompleteIdle
<1>0. /\ req \in [Requests -> RequestRecords]
      /\ req[r].step \in Steps \ {"idle"}
      /\ u \in Users /\ t \in Tenants \cup {None}
      /\ req[r].step # "done" => req[r] \in ScopedRequests /\ t \in Tenants
  <2>1. req[r].step # "idle"
    BY DEF ContinueRequest, CheckTenant, FindUser, CreateUser, EnsureMembership,
           CreateMembership, ReadMembership, ReadTeams, RepositoryError, Respond
  <2> QED
    BY <2>1, LiveRequest DEF TypeOK, ScopedRequests
<1>1. ASSUME req'[r].user = u, req'[r].tenant = t, req'[r].step # "idle"
      PROVE  seen'[r].all \subseteq Grants(u, t)' /\ seen'[r].all \subseteq seen[r].all
  BY <1>0, <1>1, ObserveShrinks
<1>sources. (\A v \in Users, k \in Tenants \cup {None} : \A x \in Grants(v, k) :
               \/ IsMember(v, k) /\ x[1] = k /\ x[2] \in memberships[v][k]
               \/ \E g \in TeamsIn(v, k) : x[1] = g /\ x[2] \in teamMemberships[v][g])'
  BY GrantSources, PTL
<1>2. ASSUME NEW step \in Steps \ {"teams", "done", "idle"}, Goto(r, step), req[r].step # "done"
      PROVE  CompleteInv(r)'
  <2>1. /\ req'[r].user = u /\ req'[r].tenant = t /\ req'[r].kind = req[r].kind
        /\ req'[r].step = step
    BY <1>0, <1>2 DEF Goto, ScopedRequests
  <2>2. req[r].kind = "register" => seen'[r].all = {}
    BY <1>0, <1>1, <2>1 DEF CompleteInv
  <2> QED
    BY <2>1, <2>2 DEF CompleteInv
<1>3. CASE CheckTenant(r) \/ FindUser(r) \/ CreateUser(r) \/ EnsureMembership(r)
  <2>1. /\ req[r].step # "done"
        /\ \E step \in Steps \ {"teams", "done", "idle"} : Goto(r, step)
    BY <1>3 DEF CheckTenant, FindUser, CreateUser, EnsureMembership, Steps
  <2> QED
    BY <1>2, <2>1
<1>4. CASE CreateMembership(r)
  <2>1. /\ req[r].step = "newMember"
        /\ \/ /\ req[r].kind = "register"
              /\ req' = [req EXCEPT ![r].step = "done", ![r].roles = JoinRoles(req[r].kind)]
           \/ Goto(r, "member")
    BY <1>4 DEF CreateMembership
  <2>2. CASE Goto(r, "member")
    BY <1>2, <2>1, <2>2 DEF Steps
  <2>3. CASE /\ req[r].kind = "register"
             /\ req' = [req EXCEPT ![r].step = "done", ![r].roles = JoinRoles(req[r].kind)]
    <3>1. /\ req'[r].user = u /\ req'[r].tenant = t /\ req'[r].kind = "register"
          /\ req'[r].step = "done"
      BY <1>0, <2>1, <2>3 DEF ScopedRequests
    <3>2. seen'[r].all = {}
      BY <1>0, <1>1, <2>3, <3>1 DEF CompleteInv
    <3>3. RolesOf(seen'[r].all) = {}
      BY <3>2 DEF RolesOf
    <3> QED
      BY <3>1, <3>2, <3>3 DEF CompleteInv
  <2> QED
    BY <2>1, <2>2, <2>3
<1>5. CASE ReadMembership(r)
  <2>1. /\ req[r].step = "member" /\ memberships' = memberships
        /\ req' = [req EXCEPT ![r].step = "teams", ![r].roles = memberships[u][t]]
    BY <1>5 DEF ReadMembership, FindMembership, rows
  <2>2. /\ req'[r].user = u /\ req'[r].tenant = t /\ req'[r].kind = req[r].kind
        /\ req'[r].roles = memberships[u][t] /\ req'[r].step = "teams"
    BY <1>0, <2>1 DEF ScopedRequests
  <2>3. ASSUME NEW role, <<t, role>> \in seen'[r].all
        PROVE  role \in memberships[u][t]
    <3>1. <<t, role>> \in Grants(u, t)'
      BY <1>1, <2>2, <2>3
    <3>2. t \notin Teams
      BY <1>0, <2>1, DistinctIds
    <3>3. \/ <<t, role>>[2] \in memberships'[u][t]
          \/ \E g \in TeamsIn(u, t)' : <<t, role>>[1] = g
      BY <1>0, <1>sources, <3>1
    <3> QED
      BY <2>1, <3>2, <3>3 DEF TeamsIn
  <2>4. req[r].kind = "register" => seen'[r].all = {}
    BY <1>0, <1>1, <2>2 DEF CompleteInv
  <2> QED
    BY <2>2, <2>3, <2>4 DEF CompleteInv
<1>6. CASE ReadTeams(r)
  <2> DEFINE listed == {g \in Teams : teamMemberships[req[r].user][g] # NoRow}
             counted(found) == {g \in found : SameTenant(g, req[r].tenant)}
  <2>1. /\ req[r].step = "teams"
        /\ teams' = teams /\ teamMemberships' = teamMemberships
    BY <1>6 DEF ReadTeams, rows
  <2>2. PICK found \in SUBSET listed :
          req' = [req EXCEPT
            ![r].step  = "done",
            ![r].roles = AppendTeams(@, req[r].user, counted(found)),
            ![r].lost  = (found # listed)]
    BY <1>6 DEF ReadTeams
  <2>3. /\ req'[r].user = u /\ req'[r].tenant = t /\ req'[r].kind = req[r].kind
        /\ req'[r].roles = AppendTeams(req[r].roles, u, counted(found))
        /\ req'[r].step = "done"
        /\ ~req'[r].lost => found = listed
    <3> HIDE DEF counted, listed
    <3> QED
      BY <1>0, <2>1, <2>2 DEF ScopedRequests
  <2>4. ASSUME found = listed, NEW grant \in seen'[r].all
        PROVE  grant[2] \in AppendTeams(req[r].roles, u, counted(found))
    <3>1. grant \in Grants(u, t)' /\ grant \in seen[r].all
      BY <1>1, <2>3, <2>4
    <3>2. grant \in AllGrants
      BY <3>1 DEF TypeOK, Histories
    <3>3. CASE grant[1] = t
      <4>1. grant = <<t, grant[2]>>
        BY <3>2, <3>3 DEF AllGrants
      <4>2. grant[2] \in req[r].roles
        BY <1>0, <2>1, <3>1, <4>1 DEF CompleteInv
      <4> QED
        BY <4>2 DEF AppendTeams
    <3>4. ASSUME NEW g \in TeamsIn(u, t)', grant[2] \in teamMemberships'[u][g]
          PROVE  grant[2] \in AppendTeams(req[r].roles, u, counted(found))
      <4>1. g \in counted(found)
        BY <2>1, <2>4, <3>4 DEF TeamsIn, SameTenant
      <4> QED
        BY <2>1, <3>4, <4>1 DEF AppendTeams
    <3> QED
      BY <1>0, <1>sources, <3>1, <3>3, <3>4
  <2>5. found = listed => RolesOf(seen'[r].all) \subseteq req'[r].roles
    BY <2>3, <2>4 DEF RolesOf
  <2>6. req[r].kind = "register" => seen'[r].all = {}
    BY <1>0, <1>1, <2>3 DEF CompleteInv
  <2> QED
    BY <2>3, <2>5, <2>6 DEF CompleteInv
<1>7. CASE RepositoryError(r) \/ Respond(r)
  <2>1. /\ req[r].step = "teams" /\ req[r].kind \notin PasswordKinds
        /\ req' = [req EXCEPT ![r].step = "done", ![r].lost = TRUE]
    BY <1>7 DEF RepositoryError, Respond
  <2>2. /\ req'[r].kind = req[r].kind /\ req'[r].lost /\ req'[r].step = "done"
    BY <1>0, <2>1 DEF ScopedRequests
  <2> QED
    BY <2>1, <2>2 DEF CompleteInv, PasswordKinds
<1> QED
  BY <1>3, <1>4, <1>5, <1>6, <1>7 DEF ContinueRequest

(* What every request has collected covers what it has seen all along. *)
THEOREM CompleteInvariantHolds == Spec => []CompleteInvariant
<1>1. Init => CompleteInvariant
  BY DEF Init, CompleteInvariant, CompleteInv, Idle
<1>2. TypeOK /\ TypeOK' /\ AccountInvariant /\ CompleteInvariant /\ [Next]_vars
        => CompleteInvariant'
  <2> SUFFICES ASSUME TypeOK, TypeOK', AccountInvariant, CompleteInvariant, [Next]_vars,
                      NEW r \in Requests
               PROVE  CompleteInv(r)'
    BY DEF CompleteInvariant
  <2>0. CompleteInv(r) /\ RowsOfUsers
    BY DEF CompleteInvariant, AccountInvariant
  <2>1. CASE UNCHANGED vars
    BY <2>0, <2>1 DEF vars, CompleteInv
  <2>2. CASE Administer
    BY <2>0, <2>2, AdministerTyped, CompleteFrame
  <2>3. ASSUME NEW q \in Requests, StartRequest(q) \/ ContinueRequest(q)
        PROVE  CompleteInv(r)'
    <3>1. Observe
      BY <2>3, StartTyped, ContinueTyped
    <3>2. CASE q # r
      BY <2>0, <2>3, <3>1, <3>2, OtherSlots, CompleteFrame
    <3>3. CASE q = r
      BY <2>0, <2>3, <3>1, <3>3, CompleteStart, CompleteContinue
    <3> QED
      BY <3>2, <3>3
  <2> QED
    BY <2>1, <2>2, <2>3 DEF Next
<1> QED
  BY <1>1, <1>2, TypeCorrect, AccountInvariantHolds, PTL DEF Spec

(* No token misses a role that its user held from the first to the last      *)
(* moment of the request, unless a repository error was swallowed.           *)
THEOREM RolesComplete == Spec => []TokenRolesComplete
<1>1. CompleteInvariant => TokenRolesComplete
  BY DEF CompleteInvariant, CompleteInv, TokenRolesComplete
<1> QED
  BY <1>1, CompleteInvariantHolds, PTL

-----------------------------------------------------------------------------
(* The refinement of the row writes of module Authz.  A team that has a row  *)
(* exists: only so can a change of that row count as one of a known team.    *)
RowsInvariant == \A u \in Users, g \in Teams : teamMemberships[u][g] # NoRow => teams[g] # None

(* One membership row. *)
LEMMA MembershipRowWritten ==
  ASSUME NEW u \in Users, NEW t \in Tenants, NEW row,
         (memberships[u][t] = NoRow) # (row = NoRow),
         memberships \in [Users -> [Tenants -> (SUBSET Roles) \cup {NoRow}]],
         memberships' = [memberships EXCEPT ![u][t] = row],
         UNCHANGED teamMemberships
  PROVE  RowWritten
<1>1. memberships'[u][t] = row
  BY Zenon
<1>2. Decisions!WriteMembership(u, t, memberships'[u][t])
  BY <1>1 DEF Decisions!WriteMembership, Decisions!NoRow, NoRow
<1> QED
  BY <1>2 DEF RowWritten

(* One team row. *)
LEMMA TeamRowWritten ==
  ASSUME NEW u \in Users, NEW g \in Teams, NEW row,
         teamMemberships[u][g] # row,
         teamMemberships \in [Users -> [Teams -> (SUBSET TeamRoles) \cup {NoRow}]],
         teamMemberships' = [teamMemberships EXCEPT ![u][g] = row],
         UNCHANGED memberships
  PROVE  RowWritten
<1>1. teamMemberships'[u][g] = row
  BY Zenon
<1>2. Decisions!WriteTeamMembership(u, g, teamMemberships'[u][g])
  BY <1>1 DEF Decisions!WriteTeamMembership
<1> QED
  BY <1>2 DEF RowWritten

(* Every step writes one row or none. *)
LEMMA StepWritesOneRow ==
  ASSUME TypeOK, [Next]_vars
  PROVE  RowWritten \/ UNCHANGED <<memberships, teamMemberships>>
<1>0. /\ memberships \in [Users -> [Tenants -> (SUBSET Roles) \cup {NoRow}]]
      /\ teamMemberships \in [Users -> [Teams -> (SUBSET TeamRoles) \cup {NoRow}]]
  BY DEF TypeOK, RowsOK
<1>1. ASSUME NEW u \in Users, NEW t \in Tenants, LeaveTenant(u, t) \/ DeleteUser(u, t)
      PROVE  RowWritten
  <2>1. /\ memberships[u][t] # NoRow
        /\ memberships' = [memberships EXCEPT ![u][t] = NoRow]
        /\ UNCHANGED teamMemberships
    BY <1>1 DEF DeleteUser, LeaveTenant
  <2> QED
    BY <1>0, <2>1, MembershipRowWritten
<1>2. ASSUME NEW u \in Users, NEW g \in Teams, NEW rs \in SUBSET TeamRoles, AddMember(u, g, rs)
      PROVE  RowWritten
  <2>1. /\ teamMemberships[u][g] = NoRow
        /\ teamMemberships' = [teamMemberships EXCEPT ![u][g] = rs]
        /\ UNCHANGED memberships
    BY <1>2 DEF AddMember
  <2>2. rs # NoRow
    BY NoneIsNothing DEF NoRow, Roles
  <2> QED
    BY <1>0, <2>1, <2>2, TeamRowWritten
<1>3. ASSUME NEW u \in Users, NEW g \in Teams,
             NEW row \in (SUBSET TeamRoles) \cup {NoRow}, ChangeMember(u, g, row)
      PROVE  RowWritten \/ UNCHANGED <<memberships, teamMemberships>>
  <2>1. /\ teamMemberships' = [teamMemberships EXCEPT ![u][g] = row]
        /\ UNCHANGED memberships
    BY <1>3 DEF ChangeMember
  <2>2. CASE teamMemberships[u][g] = row
    BY <1>0, <2>1, <2>2
  <2>3. CASE teamMemberships[u][g] # row
    BY <1>0, <2>1, <2>3, TeamRowWritten
  <2> QED
    BY <2>2, <2>3
<1>4. ASSUME NEW r \in Requests, CreateMembership(r)
      PROVE  RowWritten \/ UNCHANGED <<memberships, teamMemberships>>
  <2> DEFINE u == req[r].user
             t == req[r].tenant
             joined == JoinRoles(req[r].kind)
  <2>1. /\ req[r].step = "newMember" /\ UNCHANGED teamMemberships
        /\ \/ UNCHANGED memberships
           \/ /\ memberships[u][t] = NoRow
              /\ memberships' = [memberships EXCEPT ![u][t] = joined]
    BY <1>4 DEF CreateMembership, KeyFree
  <2>2. u \in Users /\ t \in Tenants
    BY <2>1, LiveRequest DEF TypeOK, ScopedRequests
  <2>3. joined # NoRow
    BY NoneIsNothing DEF JoinRoles, Roles, NoRow
  <2> HIDE DEF u, t, joined
  <2>4. CASE UNCHANGED memberships
    BY <2>1, <2>4
  <2>5. CASE /\ memberships[u][t] = NoRow
             /\ memberships' = [memberships EXCEPT ![u][t] = joined]
    BY <1>0, <2>1, <2>2, <2>3, <2>5, MembershipRowWritten
  <2> QED
    BY <2>1, <2>4, <2>5
<1>5. ASSUME NEW r \in Requests, StartRequest(r)
      PROVE  UNCHANGED <<memberships, teamMemberships>>
  BY <1>5 DEF StartRequest, Register, Login, SwitchTenant, HandleCallback,
     VerifyMagicLink, ProvisionUser, rows
<1>6. ASSUME NEW r \in Requests, ContinueRequest(r), ~CreateMembership(r)
      PROVE  UNCHANGED <<memberships, teamMemberships>>
  BY <1>6 DEF ContinueRequest, CheckTenant, FindUser, CreateUser, EnsureMembership,
     ReadMembership, ReadTeams, RepositoryError, Respond, rows
<1>7. ASSUME NEW t \in Tenants,
             \/ CreateTenant(t)
             \/ \E s \in {"active", "suspended", "deleted"} : UpdateStatus(t, s)
             \/ \E g \in Teams : CreateTeam(g, t)
             \/ \E u \in Users : SendMagicLink(u, t) \/ LinkSpent(u, t)
      PROVE  UNCHANGED <<memberships, teamMemberships>>
  BY <1>7 DEF CreateTenant, UpdateStatus, CreateTeam, SendMagicLink, LinkSpent
<1>8. CASE Administer
  BY <1>1, <1>2, <1>3, <1>7, <1>8 DEF Administer
<1>9. CASE UNCHANGED vars
  BY <1>9 DEF vars
<1> QED
  BY <1>4, <1>5, <1>6, <1>8, <1>9 DEF Next

(* A team that exists stays in its tenant. *)
LEMMA TeamsStay ==
  ASSUME TypeOK, [Next]_vars, NEW g \in Teams, teams[g] # None
  PROVE  teams'[g] = teams[g]
<1>0. teams \in [Teams -> Tenants \cup {None}]
  BY DEF TypeOK, RowsOK
<1>1. ASSUME NEW h \in Teams, NEW t \in Tenants, CreateTeam(h, t)
      PROVE  teams'[g] = teams[g]
  <2>1. teams[h] = None /\ teams' = [teams EXCEPT ![h] = t]
    BY <1>1 DEF CreateTeam
  <2> QED
    BY <1>0, <2>1
<1>2. ASSUME NEW r \in Requests, StartRequest(r)
      PROVE  UNCHANGED teams
  BY <1>2 DEF StartRequest, Register, Login, SwitchTenant, HandleCallback,
     VerifyMagicLink, ProvisionUser, rows
<1>3. ASSUME NEW r \in Requests, ContinueRequest(r)
      PROVE  UNCHANGED teams
  BY <1>3 DEF ContinueRequest, CheckTenant, FindUser, CreateUser, EnsureMembership,
     CreateMembership, ReadMembership, ReadTeams, RepositoryError, Respond, rows
<1>4. ASSUME Administer, \A h \in Teams, t \in Tenants : ~CreateTeam(h, t)
      PROVE  UNCHANGED teams
  BY <1>4 DEF Administer, DeleteUser, LeaveTenant, CreateTenant, UpdateStatus, AddMember,
     ChangeMember, SendMagicLink, LinkSpent
<1>5. CASE UNCHANGED vars
  BY <1>5 DEF vars
<1> QED
  BY <1>1, <1>2, <1>3, <1>4, <1>5 DEF Next

(* A team row appears only in a team that exists. *)
LEMMA TeamOfRow ==
  ASSUME TypeOK, RowsInvariant, [Next]_vars, NEW u \in Users, NEW g \in Teams,
         teamMemberships'[u][g] # NoRow
  PROVE  teams[g] # None
<1>0. teamMemberships \in [Users -> [Teams -> (SUBSET TeamRoles) \cup {NoRow}]]
  BY DEF TypeOK, RowsOK
<1>1. CASE teamMemberships[u][g] # NoRow
  BY <1>1 DEF RowsInvariant
<1>2. CASE teamMemberships'[u][g] # teamMemberships[u][g] /\ teamMemberships[u][g] = NoRow
  <2>1. ASSUME NEW v \in Users, NEW h \in Teams, NEW rs \in SUBSET TeamRoles, AddMember(v, h, rs)
        PROVE  teams[g] # None
    <3>1. teams[h] # None /\ teamMemberships' = [teamMemberships EXCEPT ![v][h] = rs]
      BY <2>1 DEF AddMember
    <3>2. h = g
      BY <1>0, <1>2, <3>1
    <3> QED
      BY <3>1, <3>2
  <2>2. ASSUME NEW v \in Users, NEW h \in Teams,
               NEW row \in (SUBSET TeamRoles) \cup {NoRow}, ChangeMember(v, h, row)
        PROVE  FALSE
    <3>1. /\ teamMemberships[v][h] # NoRow
          /\ teamMemberships' = [teamMemberships EXCEPT ![v][h] = row]
      BY <2>2 DEF ChangeMember
    <3> QED
      BY <1>0, <1>2, <3>1
  <2>3. ASSUME NEW r \in Requests, StartRequest(r) \/ ContinueRequest(r)
        PROVE  UNCHANGED teamMemberships
    BY <2>3 DEF StartRequest, Register, Login, SwitchTenant, HandleCallback,
       VerifyMagicLink, ProvisionUser, ContinueRequest, CheckTenant, FindUser, CreateUser,
       EnsureMembership, CreateMembership, ReadMembership, ReadTeams, RepositoryError,
       Respond, rows
  <2>4. ASSUME NEW t \in Tenants,
               \/ CreateTenant(t)
               \/ \E s \in {"active", "suspended", "deleted"} : UpdateStatus(t, s)
               \/ \E h \in Teams : CreateTeam(h, t)
               \/ \E v \in Users : \/ LeaveTenant(v, t)   \/ DeleteUser(v, t)
                                   \/ SendMagicLink(v, t) \/ LinkSpent(v, t)
        PROVE  UNCHANGED teamMemberships
    BY <2>4 DEF CreateTenant, UpdateStatus, CreateTeam, DeleteUser, LeaveTenant,
       SendMagicLink, LinkSpent
  <2>5. CASE Administer
    BY <1>2, <2>1, <2>2, <2>4, <2>5 DEF Administer
  <2>6. CASE UNCHANGED vars
    BY <1>2, <2>6 DEF vars
  <2> QED
    BY <1>2, <2>3, <2>5, <2>6 DEF Next
<1> QED
  BY <1>1, <1>2

(* Only teams that exist have rows. *)
THEOREM RowsInvariantHolds == Spec => []RowsInvariant
<1>1. Init => RowsInvariant
  BY DEF Init, RowsInvariant
<1>2. TypeOK /\ RowsInvariant /\ [Next]_vars => RowsInvariant'
  <2> SUFFICES ASSUME TypeOK, RowsInvariant, [Next]_vars, NEW u \in Users, NEW g \in Teams,
                      teamMemberships'[u][g] # NoRow
               PROVE  teams'[g] # None
    BY DEF RowsInvariant
  <2> QED
    BY TeamOfRow, TeamsStay
<1> QED
  BY <1>1, <1>2, TypeCorrect, PTL DEF Spec

(* Requests and administration write the rows as module Authz has them       *)
(* written while its checks read them: one at a time, in teams whose tenant  *)
(* never changes.                                                            *)
THEOREM RowsWrittenAsDecided == Spec => RowsAsDecided
<1> DEFINE Stays == \A g \in Teams :
             (\E u \in Users : teamMemberships'[u][g] # NoRow) => teams[g] # None /\ teams'[g] = teams[g]
<1>1. TypeOK /\ [Next]_vars => [RowWritten]_<<memberships, teamMemberships>>
  BY StepWritesOneRow
<1>2. TypeOK /\ RowsInvariant /\ [Next]_vars => Stays
  BY TeamOfRow, TeamsStay
<1>3. RowsAsDecided <=> [][RowWritten]_<<memberships, teamMemberships>> /\ [][Stays]_vars
  BY DEF RowsAsDecided
<1> HIDE DEF Stays
<1> QED
  BY <1>1, <1>2, <1>3, TypeCorrect, RowsInvariantHolds, PTL DEF Spec

-----------------------------------------------------------------------------
(* Signup: types.  The sets whose sizes the code compares are finite. *)
SignupFinite ==
  /\ \A k \in Keys : IsFiniteSet(passed[k]) /\ IsFiniteSet(requests[k])
  /\ \A ip \in IPs : IsFiniteSet(velocity[ip])
  /\ IsFiniteSet({r \in Signups : signup[r].step # "idle"})

(* A signup that is under way has the address it came from. *)
SignupAddressed == \A r \in Signups : signup[r].step # "idle" => signup[r].ip \in IPs

SignupTyped == SignupTypeOK /\ SignupFinite /\ SignupAddressed

(* One more in a finite set. *)
LEMMA Added ==
  ASSUME NEW S, NEW x, IsFiniteSet(S)
  PROVE  /\ IsFiniteSet(S \cup {x})
         /\ Cardinality(S) \in Nat
         /\ Cardinality(S \cup {x}) \in Nat
         /\ Cardinality(S \cup {x}) <= Cardinality(S) + 1
         /\ x \notin S => Cardinality(S \cup {x}) = Cardinality(S) + 1
<1>1. Cardinality(S) \in Nat /\ Cardinality(S \cup {x}) \in Nat
  BY FS_CardinalityType, FS_AddElement
<1>2. Cardinality(S \cup {x}) = IF x \in S THEN Cardinality(S) ELSE Cardinality(S) + 1
  BY FS_AddElement
<1> QED
  BY <1>1, <1>2, FS_AddElement

(* What is left of a list is no more than the list. *)
LEMMA Smaller ==
  ASSUME NEW S, NEW T, IsFiniteSet(S), T \subseteq S
  PROVE  /\ IsFiniteSet(T) /\ Cardinality(T) \in Nat /\ Cardinality(S) \in Nat
         /\ Cardinality(T) <= Cardinality(S)
BY FS_Subset, FS_CardinalityType

(* The lists of the limiter stay typed, finite and within the limit. *)
LEMMA LimiterTyped ==
  ASSUME SignupTyped, NEW k \in Keys, Pass(k) \/ Refuse(k)
  PROVE  /\ requests' \in [Keys -> SUBSET Times]
         /\ passed' \in [Keys -> SUBSET Times]
         /\ \A j \in Keys : /\ Cardinality(requests'[j]) <= Limit
                            /\ IsFiniteSet(passed'[j]) /\ IsFiniteSet(requests'[j])
         /\ refused' \subseteq Keys
<1> DEFINE kept == Kept(k)
           new  == Now(kept)
<1>0. /\ requests \in [Keys -> SUBSET Times] /\ passed \in [Keys -> SUBSET Times]
      /\ \A j \in Keys : /\ Cardinality(requests[j]) <= Limit
                         /\ IsFiniteSet(passed[j]) /\ IsFiniteSet(requests[j])
      /\ now \in Ticks /\ Limit \in Nat
  BY SignupParameters DEF SignupTyped, SignupTypeOK, SignupFinite
<1>1. kept \subseteq requests[k]
  BY DEF Kept, Within
<1>2. IsFiniteSet(kept) /\ Cardinality(kept) \in Nat /\ Cardinality(kept) <= Limit
  BY <1>0, <1>1, Smaller
<1>3. new \in Times /\ kept \in SUBSET Times
  BY <1>0, <1>1, <1>2 DEF Now, Times
<1>4. IsFiniteSet(kept \cup {new}) /\ Cardinality(kept \cup {new}) <= Cardinality(kept) + 1
  BY <1>2, Added
<1>5. IsFiniteSet(passed[k] \cup {new})
  BY <1>0, Added
<1>6. CASE Pass(k)
  <2>1. /\ Cardinality(kept) < Limit
        /\ requests' = [requests EXCEPT ![k] = kept \cup {new}]
        /\ passed' = [passed EXCEPT ![k] = passed[k] \cup {new}]
        /\ refused' = {}
    BY <1>6 DEF Pass, Allowed
  <2>2. Cardinality(kept \cup {new}) <= Limit
    <3>1. Cardinality(kept \cup {new}) \in Nat
      BY <1>4, FS_CardinalityType
    <3> HIDE DEF kept, new
    <3> QED
      BY <1>0, <1>2, <1>4, <2>1, <3>1
  <2> HIDE DEF kept, new
  <2> QED
    BY <1>0, <1>3, <1>4, <1>5, <2>1, <2>2
<1>7. CASE Refuse(k)
  <2>1. requests' = [requests EXCEPT ![k] = kept] /\ passed' = passed /\ refused' = {k}
    BY <1>7 DEF Refuse
  <2> HIDE DEF kept
  <2> QED
    BY <1>0, <1>2, <1>3, <2>1
<1> QED
  BY <1>6, <1>7

Running == {r \in Signups : signup[r].step # "idle"}

(* A step of one slot adds at most that slot to the running ones. *)
LEMMA RunningFinite ==
  ASSUME IsFiniteSet(Running), NEW r \in Signups,
         \A q \in Signups : q # r => signup'[q] = signup[q]
  PROVE  IsFiniteSet(Running')
<1>1. IsFiniteSet(Running \cup {r})
  BY Added
<1>2. Running' \subseteq Running \cup {r}
  BY DEF Running
<1> QED
  BY <1>1, <1>2, FS_Subset

SignupRecords ==
  [step : {"idle", "email", "assess", "create"}, ip : IPs \cup {NoIP}, at : Ticks,
   disposable : BOOLEAN, velocity : BOOLEAN]

(* One step of a slot, or of nobody, keeps everything typed. *)
LEMMA SignupTypedStep ==
  ASSUME SignupTyped, SignupNext
  PROVE  SignupTyped'
<1> DEFINE Table(S) == [S -> SUBSET Times]
<1>0. /\ requests \in [Keys -> SUBSET Times] /\ passed \in [Keys -> SUBSET Times]
      /\ velocity \in [IPs -> SUBSET Creations] /\ now \in Ticks
      /\ \A j \in Keys : /\ Cardinality(requests[j]) <= Limit
                         /\ IsFiniteSet(passed[j]) /\ IsFiniteSet(requests[j])
      /\ \A ip \in IPs : IsFiniteSet(velocity[ip])
      /\ signup \in [Signups -> SignupRecords]
      /\ refused \subseteq Keys
      /\ IsFiniteSet(Running) /\ MaxNow \in Nat
      /\ \A r \in Signups : signup[r].step # "idle" => signup[r].ip \in IPs
  BY SignupParameters
     DEF SignupTyped, SignupTypeOK, SignupFinite, SignupAddressed, SignupRecords, Running
<1>idle. NoSignup \in SignupRecords
  BY <1>0 DEF NoSignup, SignupRecords, Ticks
<1>1. ASSUME requests' \in [Keys -> SUBSET Times], passed' \in [Keys -> SUBSET Times],
             velocity' \in [IPs -> SUBSET Creations], now' \in Ticks,
             \A j \in Keys : /\ Cardinality(requests'[j]) <= Limit
                            /\ IsFiniteSet(passed'[j]) /\ IsFiniteSet(requests'[j]),
             \A ip \in IPs : IsFiniteSet(velocity'[ip]),
             signup' \in [Signups -> SignupRecords],
             refused' \subseteq Keys, IsFiniteSet(Running'),
             \A r \in Signups : signup'[r].step # "idle" => signup'[r].ip \in IPs
      PROVE  SignupTyped'
  BY <1>1 DEF SignupTyped, SignupTypeOK, SignupFinite, SignupAddressed, SignupRecords, Running
<1>2. ASSUME NEW r \in Signups, NEW ip \in IPs, NEW body \in BOOLEAN, LimitByIP(r, ip, body)
      PROVE  SignupTyped'
  <2>1. ip \in Keys /\ (Pass(ip) \/ Refuse(ip))
    BY <1>2 DEF LimitByIP, Keys
  <2>2. /\ requests' \in [Keys -> SUBSET Times] /\ passed' \in [Keys -> SUBSET Times]
        /\ \A j \in Keys : /\ Cardinality(requests'[j]) <= Limit
                           /\ IsFiniteSet(passed'[j]) /\ IsFiniteSet(requests'[j])
        /\ refused' \subseteq Keys
    BY <2>1, LimiterTyped
  <2>3. PICK step \in {"email", "assess"} :
          signup' \in {signup,
            [signup EXCEPT ![r] = [NoSignup EXCEPT !.step = step, !.ip = ip, !.at = now]]}
    BY <1>2 DEF LimitByIP
  <2>4. [NoSignup EXCEPT !.step = step, !.ip = ip, !.at = now] \in SignupRecords
    BY <1>0, <1>idle DEF SignupRecords
  <2>5. /\ signup' \in [Signups -> SignupRecords]
        /\ \A q \in Signups : q # r => signup'[q] = signup[q]
        /\ signup'[r].step # "idle" => signup'[r].ip \in IPs
    BY <1>0, <2>3, <2>4 DEF NoSignup
  <2>6. IsFiniteSet(Running')
    BY <1>0, <2>5, RunningFinite
  <2>7. UNCHANGED <<velocity, now>>
    BY <1>2 DEF LimitByIP
  <2> QED
    BY <1>0, <1>1, <2>2, <2>5, <2>6, <2>7
<1>3. ASSUME NEW r \in Signups, LimitByEmail(r)
      PROVE  SignupTyped'
  <2>1. Email \in Keys /\ (Pass(Email) \/ Refuse(Email))
    BY <1>3 DEF LimitByEmail, Keys
  <2>2. /\ requests' \in [Keys -> SUBSET Times] /\ passed' \in [Keys -> SUBSET Times]
        /\ \A j \in Keys : /\ Cardinality(requests'[j]) <= Limit
                           /\ IsFiniteSet(passed'[j]) /\ IsFiniteSet(requests'[j])
        /\ refused' \subseteq Keys
    BY <2>1, LimiterTyped
  <2>3. PICK slot \in {[signup[r] EXCEPT !.step = "assess"], NoSignup} :
          signup' = [signup EXCEPT ![r] = slot]
    BY <1>0, <1>3 DEF LimitByEmail, End
  <2>4. [signup[r] EXCEPT !.step = "assess"] \in SignupRecords
    BY <1>0 DEF SignupRecords
  <2>address. signup'[r].step # "idle" => signup'[r].ip \in IPs
    <3>1. signup[r].ip \in IPs /\ signup[r] \in SignupRecords
      BY <1>0, <1>3 DEF LimitByEmail
    <3>2. [signup[r] EXCEPT !.step = "assess"].ip = signup[r].ip
      BY <3>1 DEF SignupRecords
    <3>3. signup'[r] = slot
      BY <1>0, <2>3
    <3>4. CASE slot = NoSignup
      BY <3>3, <3>4 DEF NoSignup
    <3>5. CASE slot = [signup[r] EXCEPT !.step = "assess"]
      <4>1. slot.ip = signup[r].ip
        BY <3>2, <3>5
      <4> QED
        BY <3>1, <3>3, <4>1
    <3> QED
      BY <2>3, <3>4, <3>5
  <2>5. signup' \in [Signups -> SignupRecords] /\ \A q \in Signups : q # r => signup'[q] = signup[q]
    <3>1. slot \in SignupRecords
      BY <1>idle, <2>3, <2>4
    <3> QED
      BY <1>0, <2>3, <3>1
  <2>6. IsFiniteSet(Running')
    BY <1>0, <2>5, RunningFinite
  <2>7. UNCHANGED <<velocity, now>>
    BY <1>3 DEF LimitByEmail
  <2> QED
    BY <1>0, <1>1, <2>2, <2>address, <2>5, <2>6, <2>7
<1>4. ASSUME NEW r \in Signups, NEW disposable \in BOOLEAN, AssessSignup(r, disposable)
      PROVE  SignupTyped'
  <2> DEFINE fast == (Cardinality(Within(velocity[signup[r].ip])) >= Velocity)
  <2>0. fast \in BOOLEAN
    OBVIOUS
  <2>1. signup' = [signup EXCEPT ![r].step = "create", ![r].disposable = disposable,
                           ![r].velocity = fast]
    BY <1>4 DEF AssessSignup
  <2> HIDE DEF fast
  <2>2. [signup[r] EXCEPT !.step = "create", !.disposable = disposable, !.velocity = fast]
          \in SignupRecords
    BY <1>0, <2>0 DEF SignupRecords
  <2>address. signup'[r].ip \in IPs
    <3>1. signup[r].ip \in IPs /\ signup[r] \in SignupRecords
      BY <1>0, <1>4 DEF AssessSignup
    <3> QED
      BY <1>0, <2>1, <3>1 DEF SignupRecords
  <2>3. signup' \in [Signups -> SignupRecords] /\ \A q \in Signups : q # r => signup'[q] = signup[q]
    BY <1>0, <2>1, <2>2
  <2>4. IsFiniteSet(Running')
    BY <1>0, <2>3, RunningFinite
  <2>6. UNCHANGED <<requests, velocity, now, passed>> /\ refused' = {}
    BY <1>4 DEF AssessSignup
  <2> QED
    BY <1>0, <1>1, <2>3, <2>address, <2>4, <2>6
<1>5. ASSUME NEW r \in Signups, RecordTenantCreation(r)
      PROVE  SignupTyped'
  <2> DEFINE ip    == signup[r].ip
             new   == <<now, Cardinality(velocity[ip]), signup[r].at>>
             added == velocity[ip] \cup {new}
  <2>0. ip \in IPs
    BY <1>0, <1>5 DEF RecordTenantCreation
  <2>1. /\ velocity' = [velocity EXCEPT ![ip] = added]
        /\ signup' = [signup EXCEPT ![r] = NoSignup]
    BY <1>5 DEF RecordTenantCreation, End
  <2>2. IsFiniteSet(velocity[ip]) /\ Cardinality(velocity[ip]) \in Nat
    BY <1>0, <2>0, FS_CardinalityType
  <2>3. new \in Creations
    BY <1>0, <2>2 DEF Creations, SignupRecords
  <2>4. IsFiniteSet(added) /\ added \in SUBSET Creations
    BY <1>0, <2>0, <2>2, <2>3, Added
  <2>5. /\ signup' \in [Signups -> SignupRecords]
        /\ \A q \in Signups : q # r => signup'[q] = signup[q]
        /\ signup'[r].step = "idle"
    BY <1>0, <1>idle, <2>1 DEF NoSignup
  <2>6. IsFiniteSet(Running')
    BY <1>0, <2>5, RunningFinite
  <2>7. velocity' \in [IPs -> SUBSET Creations] /\ \A j \in IPs : IsFiniteSet(velocity'[j])
    <3> HIDE DEF added, ip
    <3> QED
      BY <1>0, <2>0, <2>1, <2>4
  <2>9. UNCHANGED <<requests, now, passed>> /\ refused' = {}
    BY <1>5 DEF RecordTenantCreation
  <2> QED
    BY <1>0, <1>1, <2>5, <2>6, <2>7, <2>9
<1>6. ASSUME NEW r \in Signups, Fail(r)
      PROVE  SignupTyped'
  <2>1. /\ signup' \in [Signups -> SignupRecords]
        /\ \A q \in Signups : q # r => signup'[q] = signup[q]
        /\ signup'[r].step = "idle"
    BY <1>0, <1>idle, <1>6 DEF Fail, End, NoSignup
  <2>2. IsFiniteSet(Running')
    BY <1>0, <2>1, RunningFinite
  <2>3. UNCHANGED <<requests, velocity, now, passed>> /\ refused' = {}
    BY <1>6 DEF Fail
  <2> QED
    BY <1>0, <1>1, <2>1, <2>2, <2>3
<1>7. CASE Tick
  <2>1. now' \in Ticks
    BY <1>0, <1>7 DEF Tick, Ticks
  <2>2. UNCHANGED <<requests, velocity, signup, passed>> /\ refused' = {}
    BY <1>7 DEF Tick
  <2>3. Running' = Running
    BY <2>2 DEF Running
  <2> QED
    BY <1>0, <1>1, <2>1, <2>2, <2>3
<1>8. CASE Restart
  <2>1. /\ requests' = [k \in Keys |-> {}] /\ passed' = [k \in Keys |-> {}]
        /\ velocity' = [ip \in IPs |-> {}] /\ signup' = [r \in Signups |-> NoSignup]
        /\ refused' = {} /\ now' = now
    BY <1>8 DEF Restart, NoTimes
  <2>2. IsFiniteSet({}) /\ Cardinality({}) = 0
    BY FS_EmptySet
  <2>3. Running' = {}
    BY <2>1 DEF Running, NoSignup
  <2>4. 0 <= Limit /\ \A r \in Signups : signup'[r].step = "idle"
    BY <2>1, SignupParameters DEF NoSignup
  <2> QED
    BY <1>0, <1>1, <1>idle, <2>1, <2>2, <2>3, <2>4
<1> QED
  BY <1>2, <1>3, <1>4, <1>5, <1>6, <1>7, <1>8 DEF SignupNext

(* Every variable keeps its type, and the lists are finite. *)
THEOREM SignupInvariantHolds == SignupSpec => []SignupTyped
<1>1. SignupInit => SignupTyped
  <2> SUFFICES ASSUME SignupInit
               PROVE  SignupTyped
    OBVIOUS
  <2>1. \A k \in Keys : requests[k] = {} /\ passed[k] = {}
    BY DEF SignupInit, NoTimes
  <2>2. \A ip \in IPs : velocity[ip] = {}
    BY DEF SignupInit, NoTimes
  <2>3. {r \in Signups : signup[r].step # "idle"} = {}
    BY DEF SignupInit, NoSignup
  <2>4. SignupFinite
    BY <2>1, <2>2, <2>3, FS_EmptySet DEF SignupFinite
  <2>5. SignupTypeOK
    BY <2>1, FS_EmptySet, SignupParameters DEF SignupInit, SignupTypeOK, NoTimes, NoSignup, Ticks
  <2> QED
    BY <2>4, <2>5 DEF SignupTyped, SignupAddressed, SignupInit, NoSignup
<1>2. SignupTyped /\ [SignupNext]_signupVars => SignupTyped'
  <2>1. SignupTyped /\ UNCHANGED signupVars => SignupTyped'
    BY DEF SignupTyped, SignupTypeOK, SignupFinite, SignupAddressed, signupVars, history
  <2> QED
    BY <2>1, SignupTypedStep
<1> QED
  BY <1>1, <1>2, PTL DEF SignupSpec

(* Every variable has its type in every reachable state. *)
THEOREM SignupTypeCorrect == SignupSpec => []SignupTypeOK
<1>1. SignupTyped => SignupTypeOK
  BY DEF SignupTyped
<1> QED
  BY <1>1, SignupInvariantHolds, PTL

-----------------------------------------------------------------------------
(* What the pruned list of a key has to do with all the times at which it    *)
(* was let pass: everything within the window is still in the list, so the   *)
(* list counts what the window counts.  The places of one tick are used up   *)
(* in order, so the next one is new.                                         *)
KeyInv(k) ==
  /\ requests[k] \subseteq passed[k]
  /\ \A s \in passed[k] : s[1] <= now /\ (s[1] + Window > now => s \in requests[k])
  /\ \A s \in requests[k] : s[1] = now => s[2] < Cardinality(Kept(k))
  /\ \A t \in Ticks : Cardinality(InWindow(k, t)) <= Limit

RefusedInv == \A k \in refused : Cardinality(InWindow(k, now)) >= Limit

LimiterInvariant == (\A k \in Keys : KeyInv(k)) /\ RefusedInv

(* The time that a key is let pass at is one it was not let pass at before. *)
LEMMA Fresh ==
  ASSUME SignupTyped, NEW k \in Keys, KeyInv(k)
  PROVE  Now(Kept(k)) \notin passed[k]
<1> DEFINE n == Cardinality(Kept(k))
<1>1. now \in Nat /\ Window \in Nat \ {0} /\ IsFiniteSet(requests[k])
  BY SignupParameters DEF SignupTyped, SignupTypeOK, SignupFinite, Ticks
<1>2. n \in Nat
  BY <1>1, Smaller DEF Kept, Within
<1> HIDE DEF n
<1>3. Now(Kept(k)) = <<now, n>>
  BY DEF Now, n
<1>4. ASSUME <<now, n>> \in passed[k]
      PROVE  FALSE
  <2>1. <<now, n>>[1] = now /\ <<now, n>>[2] = n
    OBVIOUS
  <2>2. <<now, n>> \in requests[k]
    BY <1>1, <1>4, <2>1 DEF KeyInv
  <2>3. n < n
    BY <2>1, <2>2 DEF KeyInv, n
  <2> QED
    BY <1>2, <2>3
<1> QED
  BY <1>3, <1>4

(* A key that a step does not touch. *)
LEMMA KeyFrame ==
  ASSUME NEW k \in Keys, KeyInv(k), now' = now,
         requests'[k] = requests[k], passed'[k] = passed[k]
  PROVE  KeyInv(k)'
<1>1. Kept(k)' = Kept(k)
  BY DEF Kept, Within
<1>2. \A t \in Ticks : InWindow(k, t)' = InWindow(k, t)
  BY DEF InWindow
<1> QED
  BY <1>1, <1>2 DEF KeyInv

(* A key that is let pass: the window holds no more than the list. *)
LEMMA KeyPassed ==
  ASSUME SignupTyped, SignupTyped', NEW k \in Keys, KeyInv(k), Pass(k), now' = now
  PROVE  KeyInv(k)'
<1> DEFINE kept == Kept(k)
           n    == Cardinality(kept)
           new  == <<now, n>>
<1>0. /\ requests \in [Keys -> SUBSET Times] /\ passed \in [Keys -> SUBSET Times]
      /\ IsFiniteSet(requests[k]) /\ IsFiniteSet(passed'[k])
      /\ now \in Nat /\ Window \in Nat \ {0} /\ Limit \in Nat
  BY SignupParameters DEF SignupTyped, SignupTypeOK, SignupFinite, Ticks
<1>1. /\ n < Limit
      /\ requests'[k] = kept \cup {new} /\ passed'[k] = passed[k] \cup {new}
  BY <1>0 DEF Pass, Allowed, Now
<1>2. kept \subseteq requests[k] /\ \A s \in requests[k] : s \in kept <=> s[1] + Window > now
  BY DEF Kept, Within
<1>3. IsFiniteSet(kept) /\ n \in Nat
  BY <1>0, <1>2, Smaller
<1>4. new \notin kept
  BY <1>2, Fresh DEF Now, KeyInv
<1>5. new[1] = now /\ new[2] = n
  OBVIOUS
<1>6. Cardinality(kept \cup {new}) = n + 1 /\ IsFiniteSet(kept \cup {new})
  BY <1>3, <1>4, Added
<1>7. Kept(k)' = kept \cup {new}
  <2> HIDE DEF kept, new
  <2>1. Kept(k)' = {s \in kept \cup {new} : s[1] + Window > now}
    BY <1>1 DEF Kept, Within
  <2>2. \A s \in kept \cup {new} : s[1] + Window > now
    BY <1>0, <1>2, <1>5
  <2> QED
    BY <2>1, <2>2
<1> HIDE DEF n, new
<1>8. requests'[k] \subseteq passed'[k]
  BY <1>1, <1>2 DEF KeyInv
<1>9. ASSUME NEW s \in passed'[k]
      PROVE  s[1] <= now' /\ (s[1] + Window > now' => s \in requests'[k])
  <2>1. CASE s = new
    BY <1>0, <1>1, <1>5, <2>1
  <2>2. CASE s \in passed[k]
    BY <1>1, <1>2, <2>2 DEF KeyInv
  <2> QED
    BY <1>1, <2>1, <2>2
<1>10. ASSUME NEW s \in requests'[k], s[1] = now'
       PROVE  s[2] < Cardinality(Kept(k)')
  <2>1. CASE s = new
    BY <1>3, <1>5, <1>6, <1>7, <2>1
  <2>2. CASE s \in kept
    <3>1. s \in Times
      BY <1>0, <1>2, <2>2
    <3>2. s[2] < n /\ s[2] \in Nat
      BY <1>2, <1>10, <2>2, <3>1 DEF KeyInv, n, Times
    <3> QED
      BY <1>3, <1>6, <1>7, <3>2
  <2> QED
    BY <1>1, <2>1, <2>2
<1>11. ASSUME NEW t \in Ticks
       PROVE  Cardinality(InWindow(k, t)') <= Limit
  <2>0. t \in Nat
    BY DEF Ticks
  <2>1. InWindow(k, t)' = {s \in passed[k] \cup {new} : s[1] <= t /\ s[1] + Window > t}
    BY <1>1 DEF InWindow
  <2>2. CASE t < now
    <3>1. InWindow(k, t)' = InWindow(k, t)
      BY <1>0, <1>5, <2>0, <2>1, <2>2 DEF InWindow
    <3> QED
      BY <3>1 DEF KeyInv
  <2>3. CASE t >= now
    <3>1. ASSUME NEW s \in passed[k], s[1] <= t, s[1] + Window > t
          PROVE  s \in kept
      <4>1. s[1] \in Nat
        BY <1>0 DEF Times, Ticks
      <4>2. s[1] + Window > now
        BY <1>0, <2>0, <2>3, <3>1, <4>1
      <4> QED
        BY <1>2, <4>2 DEF KeyInv
    <3>2. InWindow(k, t)' \subseteq kept \cup {new}
      BY <2>1, <3>1
    <3>3. Cardinality(InWindow(k, t)') <= n + 1 /\ Cardinality(InWindow(k, t)') \in Nat
      BY <1>6, <3>2, Smaller
    <3> QED
      BY <1>0, <1>1, <1>3, <3>3
  <2> QED
    BY <1>0, <2>0, <2>2, <2>3
<1> QED
  BY <1>8, <1>9, <1>10, <1>11 DEF KeyInv, Ticks

(* A key that is refused: only what is past the window leaves its list, and  *)
(* what is left is in the window.                                            *)
LEMMA KeyRefused ==
  ASSUME SignupTyped, NEW k \in Keys, KeyInv(k), Refuse(k), now' = now
  PROVE  KeyInv(k)' /\ Cardinality(InWindow(k, now)') >= Limit
<1>0. /\ requests \in [Keys -> SUBSET Times] /\ passed \in [Keys -> SUBSET Times]
      /\ IsFiniteSet(requests[k]) /\ IsFiniteSet(passed[k])
      /\ now \in Nat /\ Window \in Nat \ {0} /\ Limit \in Nat
  BY SignupParameters DEF SignupTyped, SignupTypeOK, SignupFinite, Ticks
<1>1. /\ ~(Cardinality(Kept(k)) < Limit)
      /\ requests'[k] = Kept(k) /\ passed'[k] = passed[k]
  BY <1>0 DEF Refuse, Allowed
<1>2. /\ Kept(k) \subseteq requests[k]
      /\ \A s \in requests[k] : s \in Kept(k) <=> s[1] + Window > now
  BY DEF Kept, Within
<1>3. Kept(k)' = Kept(k)
  <2>1. Kept(k)' = {s \in Kept(k) : s[1] + Window > now}
    BY <1>1 DEF Kept, Within
  <2> QED
    BY <1>2, <2>1
<1>4. \A t : InWindow(k, t)' = InWindow(k, t)
  BY <1>1 DEF InWindow
<1>5. KeyInv(k)'
  BY <1>1, <1>2, <1>3, <1>4 DEF KeyInv, Ticks
<1>6. Kept(k) \subseteq InWindow(k, now)
  BY <1>2 DEF InWindow, KeyInv
<1>7. IsFiniteSet(InWindow(k, now))
  BY <1>0, Smaller DEF InWindow
<1>8. /\ Cardinality(Kept(k)) <= Cardinality(InWindow(k, now))
      /\ Cardinality(Kept(k)) \in Nat /\ Cardinality(InWindow(k, now)) \in Nat
  BY <1>6, <1>7, Smaller
<1>9. Cardinality(InWindow(k, now)) >= Limit
  BY <1>0, <1>1, <1>8
<1> QED
  BY <1>4, <1>5, <1>9

(* Every step keeps what ties the lists to the history. *)
LEMMA LimiterStep ==
  ASSUME SignupTyped, SignupTyped', LimiterInvariant, SignupNext
  PROVE  LimiterInvariant'
<1>0. (\A k \in Keys : KeyInv(k)) /\ requests \in [Keys -> SUBSET Times]
      /\ passed \in [Keys -> SUBSET Times]
  BY DEF LimiterInvariant, SignupTyped, SignupTypeOK
<1>1. ASSUME NEW k \in Keys, Pass(k) \/ Refuse(k), now' = now
      PROVE  LimiterInvariant'
  <2>1. \A j \in Keys : j # k => requests'[j] = requests[j] /\ passed'[j] = passed[j]
    BY <1>0, <1>1 DEF Pass, Refuse
  <2>2. \A j \in Keys : j # k => KeyInv(j)'
    BY <1>0, <1>1, <2>1, KeyFrame
  <2>3. CASE Pass(k)
    <3>1. KeyInv(k)' /\ refused' = {}
      BY <1>0, <1>1, <2>3, KeyPassed DEF Pass
    <3> QED
      BY <2>2, <3>1 DEF LimiterInvariant, RefusedInv, Keys
  <2>4. CASE Refuse(k)
    <3>1. KeyInv(k)' /\ Cardinality(InWindow(k, now)') >= Limit /\ refused' = {k}
      BY <1>0, <1>1, <2>4, KeyRefused DEF Refuse
    <3>2. RefusedInv'
      BY <1>1, <3>1 DEF RefusedInv, InWindow
    <3> QED
      BY <2>2, <3>1, <3>2 DEF LimiterInvariant, Keys
  <2> QED
    BY <1>1, <2>3, <2>4
<1>2. ASSUME requests' = requests, passed' = passed, now' = now, refused' = {}
      PROVE  LimiterInvariant'
  <2>1. \A k \in Keys : KeyInv(k)'
    BY <1>0, <1>2, KeyFrame
  <2> QED
    BY <1>2, <2>1 DEF LimiterInvariant, RefusedInv, Keys
<1>3. CASE Tick
  <2>0. now \in Nat /\ now' = now + 1 /\ Window \in Nat
    BY <1>3, SignupParameters DEF Tick, SignupTyped, SignupTypeOK, Ticks
  <2>1. ASSUME NEW k \in Keys
        PROVE  KeyInv(k)'
    <3>1. requests'[k] = requests[k] /\ passed'[k] = passed[k] /\ KeyInv(k)
      BY <1>0, <1>3 DEF Tick
    <3>2. \A t \in Ticks : InWindow(k, t)' = InWindow(k, t)
      BY <3>1 DEF InWindow
    <3>3. \A s \in passed[k] : s[1] \in Nat
      BY <1>0 DEF Times, Ticks
    <3>4. ASSUME NEW s \in passed'[k]
          PROVE  s[1] <= now' /\ (s[1] + Window > now' => s \in requests'[k])
      BY <2>0, <3>1, <3>3, <3>4 DEF KeyInv
    <3>5. \A s \in requests'[k] : s[1] # now'
      BY <2>0, <3>1, <3>3 DEF KeyInv
    <3>6. requests'[k] \subseteq passed'[k] /\ \A t \in Ticks : Cardinality(InWindow(k, t)) <= Limit
      BY <3>1 DEF KeyInv
    <3> QED
      BY <3>2, <3>4, <3>5, <3>6 DEF KeyInv, Ticks
  <2> QED
    BY <1>3, <2>1 DEF Tick, LimiterInvariant, RefusedInv, Keys
<1>4. CASE Restart
  <2>1. ASSUME NEW k \in Keys
        PROVE  KeyInv(k)'
    <3>1. requests'[k] = {} /\ passed'[k] = {}
      BY <1>4 DEF Restart, NoTimes
    <3>2. \A t : InWindow(k, t)' = {}
      BY <3>1 DEF InWindow
    <3>3. Cardinality({}) <= Limit
      BY FS_EmptySet, SignupParameters
    <3> QED
      BY <3>1, <3>2, <3>3 DEF KeyInv, Ticks
  <2> QED
    BY <1>4, <2>1 DEF Restart, LimiterInvariant, RefusedInv, Keys
<1>5. ASSUME NEW r \in Signups, NEW ip \in IPs, NEW body \in BOOLEAN, LimitByIP(r, ip, body)
      PROVE  LimiterInvariant'
  BY <1>1, <1>5 DEF LimitByIP, Keys
<1>6. ASSUME NEW r \in Signups, LimitByEmail(r)
      PROVE  LimiterInvariant'
  BY <1>1, <1>6 DEF LimitByEmail, Keys
<1>7. ASSUME NEW r \in Signups, NEW disposable \in BOOLEAN,
             AssessSignup(r, disposable) \/ RecordTenantCreation(r) \/ Fail(r)
      PROVE  LimiterInvariant'
  BY <1>2, <1>7 DEF AssessSignup, RecordTenantCreation, Fail
<1> QED
  BY <1>3, <1>4, <1>5, <1>6, <1>7 DEF SignupNext

(* The pruned lists count what the full history counts. *)
THEOREM LimiterInvariantHolds == SignupSpec => []LimiterInvariant
<1>1. SignupInit => LimiterInvariant
  <2> SUFFICES ASSUME SignupInit, NEW k \in Keys
               PROVE  KeyInv(k)
    BY DEF SignupInit, LimiterInvariant, RefusedInv
  <2>1. requests[k] = {} /\ passed[k] = {}
    BY DEF SignupInit, NoTimes
  <2>2. \A t : InWindow(k, t) = {}
    BY <2>1 DEF InWindow
  <2>3. Cardinality({}) <= Limit
    BY FS_EmptySet, SignupParameters
  <2> QED
    BY <2>1, <2>2, <2>3 DEF KeyInv
<1>2. SignupTyped /\ SignupTyped' /\ LimiterInvariant /\ [SignupNext]_signupVars
        => LimiterInvariant'
  <2>1. LimiterInvariant /\ UNCHANGED signupVars => LimiterInvariant'
    BY DEF LimiterInvariant, KeyInv, RefusedInv, Kept, Within, InWindow, Keys, Ticks,
       signupVars, history
  <2> QED
    BY <2>1, LimiterStep
<1> QED
  BY <1>1, <1>2, SignupInvariantHolds, PTL DEF SignupSpec

(* No window lets a key pass more often than the limit, and no key is        *)
(* refused that has not used it up.                                          *)
THEOREM LimiterIsExact == SignupSpec => []LimiterExact
<1>1. LimiterInvariant => LimiterExact
  BY DEF LimiterInvariant, KeyInv, RefusedInv, LimiterExact
<1> QED
  BY <1>1, LimiterInvariantHolds, PTL
-----------------------------------------------------------------------------
(* Why the scorer flags no address on what the limiter still counts.  Each   *)
(* time in tenantVelocity, and each signup under way, stands for one at      *)
(* which the limiter let the address pass, whichever ticks are looked at.    *)
At(times, T) == {s \in times : s[1] \in T}
Recorded(ip, T) == {c \in velocity[ip] : c[3] \in T}
Live(ip, T) == {r \in Signups : /\ signup[r].step # "idle" /\ signup[r].ip = ip
                                 /\ signup[r].at \in T}

ShareInv(ip) ==
  /\ \A s \in velocity[ip] : s[2] < Cardinality(velocity[ip])
  /\ \A T \in SUBSET Ticks :
       Cardinality(Recorded(ip, T)) + Cardinality(Live(ip, T)) <= Cardinality(At(passed[ip], T))

VelocityInvariant == \A ip \in IPs : ShareInv(ip)

(* All the sets that are counted are finite. *)
LEMMA CountsTyped ==
  ASSUME SignupTyped, NEW ip \in IPs, NEW T
  PROVE  /\ IsFiniteSet(Recorded(ip, T)) /\ Cardinality(Recorded(ip, T)) \in Nat
         /\ IsFiniteSet(Live(ip, T)) /\ Cardinality(Live(ip, T)) \in Nat
         /\ IsFiniteSet(At(passed[ip], T)) /\ Cardinality(At(passed[ip], T)) \in Nat
<1>1. IsFiniteSet(velocity[ip]) /\ IsFiniteSet(passed[ip]) /\ IsFiniteSet(Running)
  BY DEF SignupTyped, SignupFinite, Running, Keys
<1>2. Recorded(ip, T) \subseteq velocity[ip] /\ At(passed[ip], T) \subseteq passed[ip]
  BY DEF At, Recorded
<1>3. Live(ip, T) \subseteq Running
  BY DEF Live, Running
<1> QED
  BY <1>1, <1>2, <1>3, Smaller

(* A step that lets an address pass no less often, and starts no signup. *)
LEMMA ShareFrame ==
  ASSUME SignupTyped, SignupTyped', NEW ip \in IPs, ShareInv(ip),
         velocity'[ip] = velocity[ip], passed[ip] \subseteq passed'[ip],
         \A T \in SUBSET Ticks : Live(ip, T)' \subseteq Live(ip, T)
  PROVE  ShareInv(ip)'
<1>1. ASSUME NEW T \in SUBSET Ticks
      PROVE  Cardinality(Recorded(ip, T)') + Cardinality(Live(ip, T)')
               <= Cardinality(At(passed'[ip], T))
  <2>1. /\ Cardinality(Recorded(ip, T)) \in Nat
        /\ IsFiniteSet(Live(ip, T)) /\ Cardinality(At(passed[ip], T)) \in Nat
    BY CountsTyped
  <2>2. IsFiniteSet(passed'[ip])
    BY DEF SignupTyped, SignupFinite, Keys
  <2>3. /\ Cardinality(Live(ip, T)') <= Cardinality(Live(ip, T))
        /\ Cardinality(Live(ip, T)') \in Nat /\ Cardinality(Live(ip, T)) \in Nat
    BY <2>1, Smaller
  <2>4. At(passed[ip], T) \subseteq At(passed'[ip], T) /\ At(passed'[ip], T) \subseteq passed'[ip]
    BY DEF At
  <2>5. IsFiniteSet(At(passed'[ip], T))
    BY <2>2, <2>4, Smaller
  <2>6. /\ Cardinality(At(passed[ip], T)) <= Cardinality(At(passed'[ip], T))
        /\ Cardinality(At(passed'[ip], T)) \in Nat
    BY <2>4, <2>5, Smaller
  <2>7. Cardinality(Recorded(ip, T)) + Cardinality(Live(ip, T))
          <= Cardinality(At(passed[ip], T))
    BY <1>1 DEF ShareInv
  <2>8. Recorded(ip, T)' = Recorded(ip, T)
    BY DEF Recorded
  <2> QED
    BY <2>1, <2>3, <2>6, <2>7, <2>8
<1>2. \A s \in velocity'[ip] : s[2] < Cardinality(velocity'[ip])
  BY DEF ShareInv
<1> QED
  BY <1>1, <1>2 DEF ShareInv, Ticks

(* A slot that goes on with its signup, or ends it. *)
LEMMA LiveShrinks ==
  ASSUME NEW r \in Signups, \A q \in Signups : q # r => signup'[q] = signup[q],
         \/ signup'[r].step = "idle"
         \/ signup[r].step # "idle" /\ signup'[r].ip = signup[r].ip /\ signup'[r].at = signup[r].at
  PROVE  \A ip, T : Live(ip, T)' \subseteq Live(ip, T)
BY DEF Live

(* An address that is let pass gains a time, and a signup of the same tick. *)
LEMMA ShareAdmitted ==
  ASSUME SignupTyped, SignupTyped', NEW ip \in IPs, ShareInv(ip), KeyInv(ip), NEW r \in Signups,
         signup[r].step = "idle", Pass(ip),
         signup'[r].at = now, \A q \in Signups : q # r => signup'[q] = signup[q],
         UNCHANGED <<velocity, now>>
  PROVE  ShareInv(ip)'
<1> DEFINE new == Now(Kept(ip))
<1>1. ASSUME NEW T \in SUBSET Ticks
      PROVE  Cardinality(Recorded(ip, T)) + Cardinality(Live(ip, T)')
               <= Cardinality(At(passed'[ip], T))
  <2>0. ip \in Keys /\ new \notin passed[ip] /\ new[1] = now
    BY Fresh DEF Keys, Now
  <2>1. passed'[ip] = passed[ip] \cup {new}
    BY <2>0 DEF Pass, SignupTyped, SignupTypeOK
  <2> HIDE DEF new
  <2>2. /\ Cardinality(Recorded(ip, T)) \in Nat
        /\ IsFiniteSet(Live(ip, T)) /\ Cardinality(Live(ip, T)) \in Nat
        /\ IsFiniteSet(At(passed[ip], T)) /\ Cardinality(At(passed[ip], T)) \in Nat
    BY CountsTyped
  <2>3. Cardinality(Recorded(ip, T)) + Cardinality(Live(ip, T))
          <= Cardinality(At(passed[ip], T))
    BY <1>1 DEF ShareInv
  <2>4. CASE now \in T
    <3>1. At(passed'[ip], T) = At(passed[ip], T) \cup {new} /\ new \notin At(passed[ip], T)
      BY <2>0, <2>1, <2>4 DEF At
    <3>2. Cardinality(At(passed'[ip], T)) = Cardinality(At(passed[ip], T)) + 1
      BY <2>2, <3>1, Added
    <3>3. Live(ip, T)' \subseteq Live(ip, T) \cup {r}
      BY DEF Live
    <3>4. /\ IsFiniteSet(Live(ip, T) \cup {r})
          /\ Cardinality(Live(ip, T) \cup {r}) <= Cardinality(Live(ip, T)) + 1
      BY <2>2, Added
    <3>5. /\ Cardinality(Live(ip, T)') <= Cardinality(Live(ip, T) \cup {r})
          /\ Cardinality(Live(ip, T)') \in Nat /\ Cardinality(Live(ip, T) \cup {r}) \in Nat
      BY <3>3, <3>4, Smaller
    <3> QED
      BY <2>2, <2>3, <3>2, <3>4, <3>5
  <2>5. CASE now \notin T
    <3>1. At(passed'[ip], T) = At(passed[ip], T)
      BY <2>0, <2>1, <2>5 DEF At
    <3>2. Live(ip, T)' \subseteq Live(ip, T)
      BY <2>5 DEF Live
    <3>3. /\ Cardinality(Live(ip, T)') <= Cardinality(Live(ip, T))
          /\ Cardinality(Live(ip, T)') \in Nat
      BY <2>2, <3>2, Smaller
    <3> QED
      BY <2>2, <2>3, <3>1, <3>3
  <2> QED
    BY <2>4, <2>5
<1>2. \A s \in velocity[ip] : s[2] < Cardinality(velocity[ip])
  BY DEF ShareInv
<1> QED
  BY <1>1, <1>2 DEF ShareInv, Recorded, Ticks

(* A tenant that is recorded takes over the time of its signup. *)
LEMMA ShareRecorded ==
  ASSUME SignupTyped, SignupTyped', NEW r \in Signups, NEW ip \in IPs, signup[r].ip = ip,
         ShareInv(ip), RecordTenantCreation(r)
  PROVE  ShareInv(ip)'
<1> DEFINE n   == Cardinality(velocity[ip])
           at  == signup[r].at
           new == <<now, n, at>>
<1>1. /\ velocity' = [velocity EXCEPT ![ip] = velocity[ip] \cup {new}]
      /\ signup' = [signup EXCEPT ![r] = NoSignup] /\ passed' = passed /\ now' = now
      /\ signup[r].step # "idle"
  BY DEF RecordTenantCreation, End
<1>2. velocity'[ip] = velocity[ip] \cup {new} /\ signup'[r] = NoSignup
  BY <1>1 DEF SignupTyped, SignupTypeOK
<1>3. IsFiniteSet(velocity[ip]) /\ n \in Nat /\ new[2] = n /\ new[3] = at
  BY FS_CardinalityType DEF SignupTyped, SignupFinite
<1>4. ShareInv(ip)
  OBVIOUS
<1>5. new \notin velocity[ip]
  BY <1>3, <1>4 DEF ShareInv
<1>6. Cardinality(velocity'[ip]) = n + 1
  BY <1>2, <1>3, <1>5, Added
<1> HIDE DEF new, n, at
<1>7. ASSUME NEW s \in velocity'[ip]
      PROVE  s[2] < Cardinality(velocity'[ip])
  <2>1. CASE s = new
    BY <1>3, <1>6, <2>1
  <2>2. CASE s \in velocity[ip]
    <3>1. s[2] \in Nat
      BY <2>2 DEF SignupTyped, SignupTypeOK, Creations
    <3>2. s[2] < n
      BY <1>4, <2>2 DEF ShareInv, n
    <3> QED
      BY <1>3, <1>6, <3>1, <3>2
  <2> QED
    BY <1>2, <2>1, <2>2
<1>8. ASSUME NEW T \in SUBSET Ticks
      PROVE  Cardinality(Recorded(ip, T)') + Cardinality(Live(ip, T)')
               <= Cardinality(At(passed[ip], T))
  <2>2. /\ IsFiniteSet(Recorded(ip, T)) /\ Cardinality(Recorded(ip, T)) \in Nat
        /\ IsFiniteSet(Live(ip, T)) /\ Cardinality(Live(ip, T)) \in Nat
        /\ Cardinality(At(passed[ip], T)) \in Nat
    BY CountsTyped
  <2>3. Cardinality(Recorded(ip, T)) + Cardinality(Live(ip, T))
          <= Cardinality(At(passed[ip], T))
    BY <1>4 DEF ShareInv
  <2>4. CASE at \in T
    <3>1. Recorded(ip, T)' = Recorded(ip, T) \cup {new} /\ new \notin Recorded(ip, T)
      BY <1>2, <1>3, <1>5, <2>4 DEF Recorded
    <3>2. Cardinality(Recorded(ip, T)') = Cardinality(Recorded(ip, T)) + 1
      BY <2>2, <3>1, Added
    <3>3. r \in Live(ip, T)
      BY <1>1, <2>4 DEF Live, at
    <3>4. Live(ip, T)' \subseteq Live(ip, T) \ {r}
      BY <1>1, <1>2 DEF Live, NoSignup, SignupTyped, SignupTypeOK
    <3>5. /\ IsFiniteSet(Live(ip, T) \ {r})
          /\ Cardinality(Live(ip, T) \ {r}) = Cardinality(Live(ip, T)) - 1
      BY <2>2, <3>3, FS_RemoveElement
    <3>6. /\ Cardinality(Live(ip, T)') <= Cardinality(Live(ip, T) \ {r})
          /\ Cardinality(Live(ip, T)') \in Nat
      BY <3>4, <3>5, Smaller
    <3> QED
      BY <2>2, <2>3, <3>2, <3>5, <3>6
  <2>5. CASE at \notin T
    <3>1. Recorded(ip, T)' = Recorded(ip, T)
      BY <1>2, <1>3, <2>5 DEF Recorded
    <3>2. Live(ip, T)' \subseteq Live(ip, T)
      BY <1>1, <1>2 DEF Live, NoSignup, SignupTyped, SignupTypeOK
    <3>3. /\ Cardinality(Live(ip, T)') <= Cardinality(Live(ip, T))
          /\ Cardinality(Live(ip, T)') \in Nat
      BY <2>2, <3>2, Smaller
    <3> QED
      BY <2>2, <2>3, <3>1, <3>3
  <2> QED
    BY <2>4, <2>5
<1> QED
  BY <1>1, <1>7, <1>8 DEF ShareInv, Ticks

(* An address is not flagged on what the limiter still counts: those times   *)
(* and the signup being assessed would be more than it let pass in the hour. *)
LEMMA NotFlagged ==
  ASSUME SignupTyped, NEW r \in Signups, NEW ip \in IPs, signup[r].ip = ip, signup[r].step # "idle",
         ~Forgotten(signup[r].at), \A c \in Within(velocity[ip]) : ~Forgotten(c[3]),
         ShareInv(ip), KeyInv(ip)
  PROVE  Cardinality(Within(velocity[ip])) < Velocity
<1> DEFINE T == {t \in Ticks : t + Window > now}
<1>0. /\ now \in Ticks /\ now \in Nat /\ Window \in Nat \ {0}
      /\ Limit \in Nat /\ Velocity \in Nat /\ Velocity >= Limit
      /\ velocity[ip] \subseteq Creations /\ passed[ip] \subseteq Times
      /\ signup[r].at \in Ticks /\ Ticks \subseteq Int
  BY SignupParameters DEF SignupTyped, SignupTypeOK, Ticks, Keys
<1>t. ASSUME NEW t \in Ticks, ~Forgotten(t)
      PROVE  t \in T
  <2>1. t \in Int /\ now \in Int /\ Window \in Int
    BY ONLY <1>0, t \in Ticks
  <2>2. t + Window > now
    BY ONLY <1>t, <2>1 DEF Forgotten
  <2> QED
    BY <2>2
<1>1. T \in SUBSET Ticks /\ signup[r].at \in T
  BY <1>0, <1>t
<1>2. Within(velocity[ip]) \subseteq Recorded(ip, T)
  <2>1. \A c \in velocity[ip] : c[3] \in Ticks
    BY <1>0 DEF Creations
  <2>2. \A c \in Within(velocity[ip]) : c \in velocity[ip] /\ c[3] \in T
    BY <1>t, <2>1 DEF Within
  <2> QED
    BY <2>2 DEF Recorded
<1>3. /\ IsFiniteSet(Recorded(ip, T)) /\ Cardinality(Recorded(ip, T)) \in Nat
      /\ IsFiniteSet(Live(ip, T)) /\ Cardinality(Live(ip, T)) \in Nat
      /\ Cardinality(At(passed[ip], T)) \in Nat
  BY CountsTyped
<1>4. Cardinality(Live(ip, T)) >= 1
  <2>1. {r} \subseteq Live(ip, T)
    BY <1>1 DEF Live
  <2>2. Cardinality({r}) = 1
    BY FS_Singleton
  <2> QED
    BY <1>3, <2>1, <2>2, Smaller
<1>5. Cardinality(At(passed[ip], T)) <= Limit
  <2>1. At(passed[ip], T) = InWindow(ip, now)
    BY <1>0 DEF At, InWindow, KeyInv, Times
  <2> QED
    BY <1>0, <2>1 DEF KeyInv
<1>6. Cardinality(Recorded(ip, T)) + Cardinality(Live(ip, T)) <= Cardinality(At(passed[ip], T))
  BY <1>1 DEF ShareInv
<1> HIDE DEF T
<1>7. /\ Cardinality(Within(velocity[ip])) <= Cardinality(Recorded(ip, T))
      /\ Cardinality(Within(velocity[ip])) \in Nat
  BY <1>2, <1>3, Smaller
<1> QED
  BY <1>0, <1>3, <1>4, <1>5, <1>6, <1>7

(* Every step keeps what ties the velocity to the limiter. *)
LEMMA VelocityStep ==
  ASSUME SignupTyped, SignupTyped', LimiterInvariant, VelocityInvariant, SignupNext
  PROVE  VelocityInvariant'
<1>0. /\ \A ip \in IPs : ShareInv(ip) /\ ip \in Keys /\ KeyInv(ip)
      /\ signup \in [Signups -> SignupRecords]
  BY DEF VelocityInvariant, LimiterInvariant, Keys, SignupTyped, SignupTypeOK, SignupRecords, Ticks
<1>1. ASSUME NEW r \in Signups, NEW ip \in IPs, NEW body \in BOOLEAN, LimitByIP(r, ip, body)
      PROVE  VelocityInvariant'
  <2>1. UNCHANGED <<velocity, now>> /\ signup[r].step = "idle"
    BY <1>1 DEF LimitByIP
  <2>2. CASE Refuse(ip)
    <3>1. passed' = passed
      BY <2>2 DEF Refuse
    <3>2. signup' = signup
      BY <1>1, <2>2 DEF LimitByIP, Pass, Refuse
    <3> QED
      BY <1>0, <2>1, <3>1, <3>2 DEF VelocityInvariant, ShareInv, At, Recorded, Live, Ticks
  <2>3. CASE Pass(ip)
    <3>1. PICK step \in {"email", "assess"} :
            signup' = [signup EXCEPT ![r] = [NoSignup EXCEPT !.step = step, !.ip = ip, !.at = now]]
      BY <1>1, <2>3 DEF LimitByIP, Pass, Refuse
    <3>2. /\ signup'[r] = [NoSignup EXCEPT !.step = step, !.ip = ip, !.at = now]
          /\ \A q \in Signups : q # r => signup'[q] = signup[q]
      BY <1>0, <3>1
    <3>3. signup'[r].at = now /\ signup'[r].ip = ip
      BY <3>2 DEF NoSignup
    <3>4. ShareInv(ip)'
      BY <1>0, <2>1, <2>3, <3>2, <3>3, ShareAdmitted
    <3>5. ASSUME NEW j \in IPs, j # ip
          PROVE  ShareInv(j)'
      <4>1. passed'[j] = passed[j] /\ velocity'[j] = velocity[j]
        BY <1>0, <2>1, <2>3, <3>5 DEF Pass, SignupTyped, SignupTypeOK
      <4>2. \A T \in SUBSET Ticks : Live(j, T)' \subseteq Live(j, T)
        BY <3>2, <3>3, <3>5 DEF Live
      <4> QED
        BY <1>0, <4>1, <4>2, ShareFrame
    <3> QED
      BY <3>4, <3>5 DEF VelocityInvariant
  <2> QED
    BY <1>1, <2>2, <2>3 DEF LimitByIP
<1>2. ASSUME NEW r \in Signups, velocity' = velocity, now' = now,
             \A j \in IPs : passed'[j] = passed[j],
             \A q \in Signups : q # r => signup'[q] = signup[q],
             \/ signup'[r] = NoSignup
             \/ /\ signup[r].step # "idle"
                /\ signup'[r].ip = signup[r].ip /\ signup'[r].at = signup[r].at
      PROVE  VelocityInvariant'
  <2>1. signup'[r] = NoSignup => signup'[r].step = "idle"
    BY DEF NoSignup
  <2>2. \A ip, T : Live(ip, T)' \subseteq Live(ip, T)
    BY <1>2, <2>1, LiveShrinks
  <2>3. ASSUME NEW j \in IPs
        PROVE  ShareInv(j)'
    BY <1>0, <1>2, <2>2, ShareFrame
  <2> QED
    BY <2>3 DEF VelocityInvariant
<1>3. ASSUME NEW r \in Signups, LimitByEmail(r)
      PROVE  VelocityInvariant'
  <2>1. UNCHANGED <<velocity, now>> /\ signup[r].step = "email"
    BY <1>3 DEF LimitByEmail
  <2>2. \A j \in IPs : passed'[j] = passed[j]
    <3>1. Email \notin IPs /\ passed \in [Keys -> SUBSET Times]
      BY SignupParameters DEF SignupTyped, SignupTypeOK
    <3>2. Pass(Email) \/ Refuse(Email)
      BY <1>3 DEF LimitByEmail
    <3>3. \A j \in IPs : j # Email /\ j \in Keys
      BY <3>1 DEF Keys
    <3> QED
      BY <3>1, <3>2, <3>3 DEF Pass, Refuse
  <2>3. \/ signup' = [signup EXCEPT ![r].step = "assess"]
        \/ signup' = [signup EXCEPT ![r] = NoSignup]
    BY <1>3 DEF LimitByEmail, End
  <2>4. CASE signup' = [signup EXCEPT ![r].step = "assess"]
    <3>1. /\ signup'[r].ip = signup[r].ip /\ signup'[r].at = signup[r].at
          /\ \A q \in Signups : q # r => signup'[q] = signup[q]
      BY <1>0, <2>4 DEF SignupRecords
    <3> QED
      BY <1>2, <2>1, <2>2, <3>1
  <2>5. CASE signup' = [signup EXCEPT ![r] = NoSignup]
    BY <1>0, <1>2, <2>1, <2>2, <2>5
  <2> QED
    BY <2>3, <2>4, <2>5
<1>4. ASSUME NEW r \in Signups, NEW disposable \in BOOLEAN, AssessSignup(r, disposable)
      PROVE  VelocityInvariant'
  <2> DEFINE fast == (Cardinality(Within(velocity[signup[r].ip])) >= Velocity)
  <2>0. fast \in BOOLEAN
    OBVIOUS
  <2>1. /\ signup' = [signup EXCEPT ![r].step = "create", ![r].disposable = disposable,
                              ![r].velocity = fast]
        /\ signup[r].step = "assess"
        /\ velocity' = velocity /\ now' = now /\ passed' = passed
    BY <1>4 DEF AssessSignup
  <2> HIDE DEF fast
  <2>2. /\ signup'[r].ip = signup[r].ip /\ signup'[r].at = signup[r].at
        /\ \A q \in Signups : q # r => signup'[q] = signup[q]
    BY <1>0, <2>1 DEF SignupRecords
  <2> QED
    BY <1>2, <2>1, <2>2
<1>5. ASSUME NEW r \in Signups, RecordTenantCreation(r)
      PROVE  VelocityInvariant'
  <2>1. PICK ip \in IPs : signup[r].ip = ip
    BY <1>5 DEF RecordTenantCreation, SignupTyped, SignupAddressed
  <2>2. /\ \E new : velocity' = [velocity EXCEPT ![ip] = velocity[ip] \cup {new}]
        /\ signup' = [signup EXCEPT ![r] = NoSignup] /\ passed' = passed /\ now' = now
    BY <1>5, <2>1 DEF RecordTenantCreation, End
  <2>3. ShareInv(ip)'
    BY <1>0, <1>5, <2>1, ShareRecorded
  <2>4. /\ signup'[r].step = "idle"
        /\ \A q \in Signups : q # r => signup'[q] = signup[q]
    BY <1>0, <2>2 DEF NoSignup
  <2>5. ASSUME NEW j \in IPs, j # ip
        PROVE  ShareInv(j)'
    <3>1. velocity'[j] = velocity[j]
      BY <2>2, <2>5 DEF SignupTyped, SignupTypeOK
    <3>2. \A i, T : Live(i, T)' \subseteq Live(i, T)
      BY <2>4, LiveShrinks
    <3> QED
      BY <1>0, <2>2, <3>1, <3>2, ShareFrame
  <2> QED
    BY <2>3, <2>5 DEF VelocityInvariant
<1>6. ASSUME NEW r \in Signups, Fail(r)
      PROVE  VelocityInvariant'
  <2>1. /\ velocity' = velocity /\ now' = now /\ passed' = passed
        /\ signup' = [signup EXCEPT ![r] = NoSignup]
    BY <1>6 DEF Fail, End
  <2> QED
    BY <1>0, <1>2, <2>1
<1>7. CASE Tick
  <2>1. UNCHANGED <<velocity, signup, passed>> /\ now' = now + 1
    BY <1>7 DEF Tick
  <2> QED
    BY <1>0, <2>1 DEF VelocityInvariant, ShareInv, At, Recorded, Live, Ticks
<1>8. CASE Restart
  <2>1. /\ \A ip \in IPs : velocity'[ip] = {} /\ passed'[ip] = {}
        /\ \A r \in Signups : signup'[r].step = "idle"
    BY <1>8 DEF Restart, NoTimes, NoSignup, Keys
  <2>2. \A ip \in IPs : \A T :
          Recorded(ip, T)' = {} /\ At(passed'[ip], T) = {} /\ Live(ip, T)' = {}
    BY <2>1 DEF At, Recorded, Live
  <2>3. Cardinality({}) = 0
    BY FS_EmptySet
  <2>4. ASSUME NEW ip \in IPs
        PROVE  ShareInv(ip)'
    <3>1. ASSUME NEW T \in SUBSET Ticks
          PROVE  Cardinality(Recorded(ip, T)') + Cardinality(Live(ip, T)')
                   <= Cardinality(At(passed'[ip], T))
      <4>1. /\ Cardinality(Recorded(ip, T)') = 0 /\ Cardinality(Live(ip, T)') = 0
            /\ Cardinality(At(passed'[ip], T)) = 0
        BY <2>2, <2>3
      <4> QED
        BY <4>1
    <3> QED
      BY <2>1, <3>1 DEF ShareInv, Ticks
  <2> QED
    BY <2>4 DEF VelocityInvariant
<1> QED
  BY <1>1, <1>3, <1>4, <1>5, <1>6, <1>7, <1>8 DEF SignupNext

(* Every time of tenantVelocity, and every signup under way, is one that the *)
(* limiter let pass.                                                         *)
THEOREM VelocityInvariantHolds == SignupSpec => []VelocityInvariant
<1>1. SignupInit => VelocityInvariant
  <2> SUFFICES ASSUME SignupInit
               PROVE  VelocityInvariant
    OBVIOUS
  <2>1. /\ \A ip \in IPs : velocity[ip] = {} /\ passed[ip] = {}
        /\ \A r \in Signups : signup[r].step = "idle"
    BY DEF SignupInit, NoTimes, NoSignup, Keys
  <2>2. \A ip \in IPs : \A T :
          Recorded(ip, T) = {} /\ At(passed[ip], T) = {} /\ Live(ip, T) = {}
    BY <2>1 DEF At, Recorded, Live
  <2>3. Cardinality({}) = 0
    BY FS_EmptySet
  <2>4. ASSUME NEW ip \in IPs
        PROVE  ShareInv(ip)
    <3>1. ASSUME NEW T \in SUBSET Ticks
          PROVE  Cardinality(Recorded(ip, T)) + Cardinality(Live(ip, T))
                   <= Cardinality(At(passed[ip], T))
      <4>1. /\ Cardinality(Recorded(ip, T)) = 0 /\ Cardinality(Live(ip, T)) = 0
            /\ Cardinality(At(passed[ip], T)) = 0
        BY <2>2, <2>3
      <4> QED
        BY <4>1
    <3> QED
      BY <2>1, <3>1 DEF ShareInv
  <2> QED
    BY <2>4 DEF VelocityInvariant
<1>2. SignupTyped /\ SignupTyped' /\ LimiterInvariant /\ VelocityInvariant /\ [SignupNext]_signupVars
        => VelocityInvariant'
  <2>1. VelocityInvariant /\ UNCHANGED signupVars => VelocityInvariant'
    BY DEF VelocityInvariant, ShareInv, At, Recorded, Live, Ticks, signupVars, history
  <2> QED
    BY <2>1, VelocityStep
<1> QED
  BY <1>1, <1>2, SignupInvariantHolds, LimiterInvariantHolds, PTL DEF SignupSpec

(* The velocity of a slot is set by its assessment alone. *)
LEMMA FlagRaised ==
  ASSUME SignupTyped, SignupNext, NEW r \in Signups, signup'[r].velocity, ~signup[r].velocity
  PROVE  \E disposable \in BOOLEAN : AssessSignup(r, disposable)
<1>0. signup \in [Signups -> SignupRecords] /\ ~NoSignup.velocity
  BY DEF SignupTyped, SignupTypeOK, SignupRecords, NoSignup
<1>1. ASSUME NEW q \in Signups, NEW ip \in IPs, NEW body \in BOOLEAN, LimitByIP(q, ip, body)
      PROVE  FALSE
  <2>1. PICK step \in {"email", "assess"} :
          signup' \in {signup,
            [signup EXCEPT ![q] = [NoSignup EXCEPT !.step = step, !.ip = ip, !.at = now]]}
    BY <1>1 DEF LimitByIP
  <2>2. ~[NoSignup EXCEPT !.step = step, !.ip = ip, !.at = now].velocity
    BY DEF NoSignup
  <2> QED
    BY <1>0, <2>1, <2>2
<1>2. ASSUME NEW q \in Signups,
             \/ signup' = [signup EXCEPT ![q].step = "assess"]
             \/ signup' = [signup EXCEPT ![q] = NoSignup]
      PROVE  FALSE
  BY <1>0, <1>2 DEF SignupRecords
<1>3. ASSUME NEW q \in Signups, LimitByEmail(q) \/ RecordTenantCreation(q) \/ Fail(q)
      PROVE  FALSE
  BY <1>2, <1>3 DEF LimitByEmail, RecordTenantCreation, Fail, End
<1>4. ASSUME NEW q \in Signups, NEW disposable \in BOOLEAN, AssessSignup(q, disposable), q # r
      PROVE  FALSE
  BY <1>0, <1>4 DEF AssessSignup
<1>5. CASE Tick \/ Restart
  BY <1>0, <1>5 DEF Tick, Restart
<1> QED
  BY <1>1, <1>3, <1>4, <1>5 DEF SignupNext

(* An address is flagged, or a signup put under review, only on the strength *)
(* of one that the limiter has forgotten: both signals are needed for a      *)
(* review, and the velocity is one of them.                                  *)
THEOREM FlagsAreForgotten == SignupSpec => FlaggedOnlyIfForgotten
<1> DEFINE Excused == \A r \in Signups : Flagged(r)' /\ ~Flagged(r) =>
             \/ Forgotten(signup[r].at)
             \/ \E c \in Within(velocity[signup[r].ip]) : Forgotten(c[3])
<1>1. SignupTyped /\ LimiterInvariant /\ VelocityInvariant /\ SignupNext => Excused
  <2> SUFFICES ASSUME SignupTyped, LimiterInvariant, VelocityInvariant, SignupNext,
                      NEW r \in Signups, Flagged(r)', ~Flagged(r),
                      ~Forgotten(signup[r].at),
                      \A c \in Within(velocity[signup[r].ip]) : ~Forgotten(c[3])
               PROVE  FALSE
    OBVIOUS
  <2>1. signup'[r].velocity /\ ~signup[r].velocity
    BY DEF Flagged, RequiresReview
  <2>2. PICK disposable \in BOOLEAN : AssessSignup(r, disposable)
    BY <2>1, FlagRaised
  <2>3. PICK ip \in IPs : signup[r].ip = ip /\ signup[r].step # "idle"
    BY <2>2 DEF AssessSignup, SignupTyped, SignupAddressed
  <2>4. ip \in Keys
    BY <2>3 DEF Keys
  <2>5. Cardinality(Within(velocity[ip])) < Velocity
    BY <2>3, <2>4, NotFlagged DEF LimiterInvariant, VelocityInvariant
  <2>6. Cardinality(Within(velocity[ip])) >= Velocity
    BY <2>1, <2>2, <2>3 DEF AssessSignup, SignupTyped, SignupTypeOK
  <2>7. Cardinality(Within(velocity[ip])) \in Nat /\ Velocity \in Nat
    BY <2>3, Smaller, SignupParameters DEF SignupTyped, SignupFinite, Within
  <2> QED
    BY <2>5, <2>6, <2>7
<1>2. UNCHANGED signupVars => Excused
  BY DEF signupVars, Flagged, RequiresReview
<1> HIDE DEF Excused
<1>3. FlaggedOnlyIfForgotten <=> [][Excused]_signupVars
  BY DEF FlaggedOnlyIfForgotten, Excused
<1> QED
  BY <1>1, <1>3, SignupInvariantHolds, LimiterInvariantHolds, VelocityInvariantHolds, PTL
     DEF SignupSpec
=============================================================================

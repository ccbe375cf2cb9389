\* Two requests of one account, over two tenants with a team in either.
SPECIFICATION Spec
CONSTANTS
  Users = {u1}
  Tenants = {t1, t2}
  Teams = {g1}
  TeamRoles = {editor}
  Requests = {r1, r2}
  None = None
SYMMETRY Symmetric
CONSTRAINT RaceOrRows
INVARIANTS TokenRolesWereHeld TokenRolesComplete TokenTenantWasActive TokenUserWasMember
PROPERTIES AdminsRegistered MembershipNeverRewritten RowsAsDecided

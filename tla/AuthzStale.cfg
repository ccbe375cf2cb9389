\* One user in one tenant: a check, the writes and the sweeps between its
\* steps.
SPECIFICATION StalenessSpec
CONSTANTS
  Users = {u1}
  Tenants = {t1}
  Teams = {}
  Roles = {editor}
  Policies = {}
  Checks = {c1}
  Kinds = {"check"}
  Granting = {editor}
  Home <- NoTeams
  Owner <- PolicyOwner
  Verdict <- Answers
  Scopes <- PatternScopes
  TTL = 2
  Patience = 1
  None = None
  t1 = t1
  t2 = t2
  allowing = allowing
  denying = denying
  brokenRego = brokenRego
INVARIANTS StalenessBounded SweptUnlessLate
PROPERTY RevocationHonoured

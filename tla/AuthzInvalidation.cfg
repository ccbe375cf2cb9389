\* The program as it runs: nothing sweeps the cache.
SPECIFICATION StalenessSpec
CONSTANTS
  Users = {u1}
  Tenants = {t1}
  Teams = {}
  Roles = {editor}
  Policies = {}
  Checks = {c1}
  Kinds = {"check"}
  Granting = {editor}
  Home <- NoTeams
  Owner <- PolicyOwner
  Verdict <- Answers
  Scopes = {}
  TTL = 2
  Patience = 0
  None = None
  t1 = t1
  t2 = t2
  allowing = allowing
  denying = denying
  brokenRego = brokenRego
INVARIANT HonoursRevocation

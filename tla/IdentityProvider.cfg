SPECIFICATION Spec
CONSTANTS
  Users = {u1}
  Tenants = {t1, t2}
  Clients = {c1}
  Codes = {k1}
  Scopes = {s1, s2}
  Requests = {r1, r2}
  Rows = {1, 2}
  CodeLife = 0
  ConsentLife = 0
  MaxNow = 1
  MaxTokens = 3
  MaxApproved = 1
  Member = member
  None = None
SYMMETRY Symmetric
INVARIANTS CodeOnceUnlessRaced TenantReached ScopesApproved OneConsent
PROPERTY KeepsPromise

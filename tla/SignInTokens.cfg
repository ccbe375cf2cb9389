SPECIFICATION Spec
CONSTANTS
  Links = {l1}
  States = {s1}
  Tenants = {t1, t2}
  Providers = {p1, p2}
  Requests = {r1, r2}
  Owner <- Owners
  LinkLife = 2
  StateLife = 1
  MaxNow = 3
  None = None
  t1 = t1
  t2 = t2
  p1 = p1
  r1 = r1
  r2 = r2
SYMMETRY Symmetric
INVARIANTS OnceUnlessRaced SignInTenant
PROPERTY KeepsPromise

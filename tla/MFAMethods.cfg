SPECIFICATION Spec
CONSTANTS
  Users = {u1, u2}
  Methods = {1, 2}
  Requests = {r1, r2}
  Codes = {c1, c2}
  None = None
SYMMETRY Symmetric
INVARIANTS ConsumedIsGone PrimaryExists
PROPERTIES RemovedStaysRemoved OwnMethods

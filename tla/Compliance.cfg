\* Two requests at a time, of every kind, over two chains of the log.
SPECIFICATION Spec
CONSTANTS
  Emails = {e1}
  Tenants = {t1, t2}
  Requests = {r1, r2}
  Ids = {i1, i2}
  MaxEntries = 3
  None = None
SYMMETRY SlotSymmetry
INVARIANTS OnePendingErasure ChainUnlessRaced ExecutedOnce
CHECK_DEADLOCK FALSE

\* One webhook is enough: no operation relates two of them.  Two updates
\* overlap with each other, a delete, a restart and a dispatch.
SPECIFICATION Spec
CONSTANTS
  Hooks = {h1}
  Tenants = {ta, tb}
  EventTypes = {created}
  Endpoints = {https}
  Retries = {3}
  Updaters = {w1, w2}
  Requests = {r1}
  MaxCrashes = 1
  None = None
CHECK_DEADLOCK FALSE
INVARIANTS UpdatesKept PostsWanted
PROPERTY EveryDeliveryEnds

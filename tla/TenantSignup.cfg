SPECIFICATION SignupSpec
CONSTANTS
  IPs = {a, b}
  Signups = {r1, r2}
  Limit = 2
  Velocity = 2
  Window = 2
  MaxNow = 2
  NoIP = NoIP
SYMMETRY Symmetric
INVARIANTS SignupTypeOK LimiterExact
PROPERTIES FlaggedOnlyIfForgotten

SPECIFICATION FairSpec
CONSTANTS
  Nodes = {n1}
  Requests = {r1}
  On <- OnFirst
  Keys = {1, 2, 3, 4}
  Lifetime = 2
  MaxNow = 3
  MaxRestarts = 1
  StoreFails = FALSE
  None = None
  n1 = n1
PROPERTY SignerAnswers
CHECK_DEADLOCK FALSE

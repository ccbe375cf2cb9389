SPECIFICATION FairSpec
CONSTANTS
  Nodes = {n1}
  Requests = {r1, r2}
  On <- OnFirst
  Keys = {1, 2, 3}
  Lifetime = 1
  MaxNow = 2
  MaxRestarts = 1
  StoreFails = TRUE
  None = None
  n1 = n1
INVARIANTS TokensVerifiable FreshSigner OneHolder
PROPERTY AnswersUnlessStuck
CHECK_DEADLOCK FALSE

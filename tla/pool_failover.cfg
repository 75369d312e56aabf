SPECIFICATION FairSpec
CONSTANTS
  w1 = w1
  w2 = w2
  h1 = h1
  Worker = {w1, w2}
  Key = {w1, w2}
  KeyOf <- OwnKey
  Handle = {h1}
  NoOwner = NoOwner
  Capacity = 1
  LeaseTTL = 2
  StaleAfter = 0
  Prompt = FALSE
  Env = {"crash"}
PROPERTIES Failover

SPECIFICATION Spec
CONSTANTS
  w1 = w1
  w2 = w2
  h1 = h1
  h2 = h2
  Worker = {w1, w2}
  Key = {w1, w2}
  KeyOf <- OwnKey
  Handle = {h1, h2}
  NoOwner = NoOwner
  Capacity = 1
  LeaseTTL = 2
  StaleAfter = 1
  Prompt = TRUE
  Env = {"crash", "sigterm", "scrape", "ws"}
INVARIANTS ExclusiveIngest CapacityRespected
PROPERTY ConnectedHandleKept

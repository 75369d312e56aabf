SPECIFICATION FairSpec
CONSTANTS
  w1 = w1
  h1 = h1
  Worker = {w1}
  Key = {w1}
  KeyOf <- OwnKey
  Handle = {h1}
  NoOwner = NoOwner
  Capacity = 1
  LeaseTTL = 2
  StaleAfter = 1
  Prompt = TRUE
  Env = {"disable"}
PROPERTY DisabledReleased

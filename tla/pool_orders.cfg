SPECIFICATION FairSpec
CONSTANTS
  w1 = w1
  h1 = h1
  Worker = {w1}
  Key = {w1}
  KeyOf <- OwnKey
  Handle = {h1}
  NoOwner = NoOwner
  Capacity = 1
  LeaseTTL = 1
  StaleAfter = 0
  Prompt = FALSE
  Env = {"pause", "unpause", "kill", "disable", "enable", "delete", "restart"}
PROPERTY KillHonoured

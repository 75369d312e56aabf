SPECIFICATION Spec
CONSTANTS
  w1 = w1
  w2 = w2
  h1 = h1
  k1 = k1
  Worker = {w1, w2}
  Key = {k1}
  KeyOf <- SharedKey
  Handle = {h1}
  NoOwner = NoOwner
  Capacity = 1
  LeaseTTL = 2
  StaleAfter = 1
  Prompt = TRUE
  Env = {"sigterm", "scrape", "dbfail", "apireap", "reconnect"}
INVARIANTS TypeOK OneProcessPerKey

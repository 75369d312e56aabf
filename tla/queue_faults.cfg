SPECIFICATION Spec
CONSTANTS
  m1 = m1
  c1 = c1
  c2 = c2
  Msg = {m1}
  Consumer = {c1, c2}
  MaxAttempts = 2
  Concurrency = 2
  MaxResends = 1
  Env = {"slow", "redis", "reply", "rate", "transient", "refused", "ack", "crash", "restart"}
SYMMETRY Symmetric
INVARIANT AttemptsRespected
PROPERTY OnlyHolderLoses
CHECK_DEADLOCK FALSE

SPECIFICATION Spec
CONSTANTS
  m1 = m1
  c1 = c1
  Msg = {m1}
  Consumer = {c1}
  MaxAttempts = 2
  Concurrency = 1
  MaxResends = 0
  Env = {"slow"}
INVARIANT FallbackNotQueued
CHECK_DEADLOCK FALSE

SPECIFICATION Spec
CONSTANTS
  m1 = m1
  m2 = m2
  c1 = c1
  c2 = c2
  Msg = {m1, m2}
  Consumer = {c1, c2}
  MaxAttempts = 2
  Concurrency = 1
  MaxResends = 0
  Env = {"apicrash", "redis", "transient", "sigterm", "crash", "restart"}
SYMMETRY Symmetric
INVARIANT TypeOK
PROPERTY DeliversOnce
\* Consumers stop on SIGTERM and after a failure.
CHECK_DEADLOCK FALSE

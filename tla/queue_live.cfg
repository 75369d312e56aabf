SPECIFICATION FairSpec
CONSTANTS
  m1 = m1
  m2 = m2
  c1 = c1
  Msg = {m1, m2}
  Consumer = {c1}
  MaxAttempts = 2
  Concurrency = 2
  MaxResends = 0
  Env = {"rate", "transient", "refused", "sigterm", "impatient"}
PROPERTIES Settles SigtermStops
CHECK_DEADLOCK FALSE

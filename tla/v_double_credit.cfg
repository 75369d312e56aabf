SPECIFICATION RaceSpec
CONSTANTS
  t1 = t1
  a1 = a1
  a2 = a2
  Tx = {t1}
  Api = {a1,a2}
  Mishaps = 0
INVARIANT NoDoubleProvisioning
\* Every payment settles.
CHECK_DEADLOCK FALSE

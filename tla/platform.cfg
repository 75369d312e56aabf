SPECIFICATION Spec
CONSTANTS
  Statement <- Writes
  Retries = 3
  Guarded = {"insert", "update"}
  t1 = t1
  a1 = a1
  a2 = a2
  Tx = {t1}
  Api = {a1, a2}
  Mishaps = 2
  Tab = {1}
  Fetch = {"f1", "f2"}
  tabOf <- OneTab
  Sessions = 2
  Losses = 1
INVARIANTS
  PlatformTypesOK
  NeverTwice
  CreditedOnce
  NoFalseAlarm
PROPERTIES CapturedIsCredited RequestSettles
CHECK_DEADLOCK FALSE

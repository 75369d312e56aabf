SPECIFICATION ServicesSpec
CONSTANTS
  Server = {"p1", "p2"}
  Login = {"s1", "s2"}
  Token = {"m1", "m2"}
  Lifetime = 1
  Api = {"a1", "a2"}
  Poller = {"c1"}
  Mail = {"e1"}
  Replies = {"e1"}
  MaxReopens = 2
  Overlaps = 2
  Deaths = 1
  Incoming <- HostEvents
  About <- HostAbout
  Persister = {"w1", "w2"}
  Hours = 2
  Again = 2
  Harms = {"error", "break", "crash", "probe", "elsewhere"}
  HarmMax = 1
  Host = {"h1", "h2"}
  Identity = {"g1", "f1"}
  Provider <- ProviderOf
  MaxAccounts = 2
  Backend = {"b1", "b2"}
  Setting = {"k"}
  Value = {"x", "y"}
  Unset = "unset"
  MaxSpent = 3
INVARIANTS
  ServicesTypesOK
  RevokedSoon OldSessionsEnd TokenOnce
  ReopensBounded PostedOnce OneTicketPerChat
  TalliesAgree NoPatchLost
  AccountKept
  OwnWritesSeen
PROPERTY RollbackReversible
CHECK_DEADLOCK FALSE

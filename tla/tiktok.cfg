SPECIFICATION Spec
CONSTANTS
  Hysteresis = 2
  Freshness = 1
  LocalRelease = 3
  UnknownRelease = 4
  Initial = 1
  MaxBackoff = 2
  SignInitial = 3
  SignMax = 4
  Park = 4
  AgeMax = 5
  RampCap = 2
  Trouble = {"offline", "terminal", "sign", "error", "unknown", "drop", "pause"}
  MaxVersion = 4
  Writers = 2
  QueueMax = 2
  WireMax = 2
  Disorder = {"reorder", "close"}
  Feeds <- Rooms
  Threads = {"w1", "w2"}
  Loop = "loop"
  Waiting = 1
  Replays = 1
  Faults = 1
INVARIANTS
  TiktokTypesOK
  NothingSkipped
  OpenIsActive StoredOnce
PROPERTIES
  SlotFreed HysteresisRespected
  CatchesUp
  MatchesEnd
CHECK_DEADLOCK FALSE

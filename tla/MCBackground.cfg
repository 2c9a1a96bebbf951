SPECIFICATION FairSpec
CONSTANTS
  Parts = {"section", "gate", "sessions", "log", "reading", "osd", "topmost", "start", "install"}
  Threads = {t1, t2, t3}
  Targets = {a, b}
  Nobody = none
  Producers = {p, q}
  LogCapacity = 2
  LogRecords = 3
  MaxTraces = 2
  Windows = {"w", "x"}
  Frames = {"A", "B"}
  Sizes = {"s"}
  MaxImages = 3
  MaxPlacements = 2
  MaxResizes = 1
INVARIANTS
  NoTornFrame
  AdmittedIsWritten
  ReadingIsMeasured
  ActionIsWatched
  ShownAsWanted
PROPERTIES
  TransitionDecides
  SettlesDown
CHECK_DEADLOCK FALSE

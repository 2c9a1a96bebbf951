SPECIFICATION MechanismsSpec
CONSTANTS
  Parts = {"draw", "frames", "output", "selection", "handoff", "sessions", "start", "install", "display", "rate", "play", "curve", "compact", "placement", "card", "cadence", "limits", "network", "path"}
  Threads = {t1, t2}
  Policies = {"strict", "assume"}
  Chains <- ThreeChains
  Queues <- TwoQueues
  Targets = {a, b}
  Nobody = none
  MaxSlots = 2
  Capacity = 1
  Monitors = {"m1", "m2"}
  DisplayChanges = 2
  Addresses = {1, 2}
  Devices = {"d1"}
  Windows = {"w1", "w2"}
  ChainKinds <- TwoKinds
  MaxChains = 3
  MaxGeneration = 2
  ChainChanges = 1
  Helpers = {1, 2}
  Choices = {"sdr"}
  Methods = 2
  Attempts = 3
  Cards = {c1, c2}
  Nothing = nothing
  MaxRunning = 1
  PowerLimits <- AllLimits
  AcceptedLimits <- LowLimits
  Period = 3
  Horizon = 14
  Watts = {1, 2, 3}
  Temperatures = {85}
  FreshCards <- ThreeCards
  Fallback <- BuiltInPair
  Arrangements <- OneOrTwoScreens
  WidthOf <- OneOrTwoWide
  Threshold = 1
  ScreenMargin = 1
  Programs = {"a", "b", "c"}
  Handover = 4
  MaxTick = 1
  Steps = {1, 2}
  PlayHorizon = 8
  MaxClears = 1
  Adapters = {"a", "b"}
  Link = 1
  Before <- CountedBefore
  NetGap = 1
  RouteRecheck = 2
  NetRetained = 2
  NetCapacity = 2
  NetHorizon = 3
  MaxNetChanges = 1
  Connections = {"a", "b"}
  RoundTrips = {40, 200}
  GoodRtt = 60
  FairRtt = 120
  MaxEvents = 2
  DisplayThreads = {1}
  DisplaySurfaces = {1, 2}
  Room = 2
  MaxPresents = 2
  MaxFlips = 2
  MaxMishaps = 1
  Slots = 2
  Descriptors = 4
  MaxFrames = 4
INVARIANTS
  DrawsUnnoticed
  NothingFreedInUse
  AttachedOnce
  OneChainDrawn
  ArrangementHolds
  SensedAndWritten
PROPERTIES
  KeptAndCounted
  RatesAreTrue
CHECK_DEADLOCK FALSE

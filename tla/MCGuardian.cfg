SPECIFICATION GuardianSpec
CONSTANTS
  Parts = {"controller", "supervisor"}
  Gpus = {g1, g2}
  NoGpu = none
  HeartbeatLimit = 2
  Watchdog = 3
  SteadyLimit = 1
  Delays <- OneAndTwoTicks
  ReadyCount = 2
  ReadyGap = 1
  BootTime = 2
  MaxFaults = 2
  Configs <- ThreeConfigs
  Temps = {2, 4, 5, 6, 7, 8}
  Band = 1
  Delta = 4
  LossLimit = 2
  RecoveryStable = 4
  MinSamples = 3
INVARIANTS
  TypeOK
  ControllerTypeOK
  ReadyMeansCooled
  CleanExitIsFinal
  RecoveryInherited
PROPERTIES
  BlindnessTrips
  RestoreIsFresh
  ImplementsSafeLatch
  IdentityKept
  StuckChildIsReplaced
  ProtectionReturns

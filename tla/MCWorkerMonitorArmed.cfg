SPECIFICATION Spec
CONSTANTS
  Configs <- AllConfigs
  Band = 1
  Delta = 4
  LossLimit = 2
  RecoveryStable = 2
  MinSamples = 1
  Temps = {4, 6, 8}
  OutsideLimits = {}
  SafeRetry = 2
  RetrySpacing = 1
  MaxAttempts = 1
  ApplyFresh = 2
  MaxStall = 2
  MaxTrips = 0
  SavesMayFail = FALSE
INVARIANT MonitorOnlyNeverReportedArmed

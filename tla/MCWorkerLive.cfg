SPECIFICATION FairSpec
CONSTANTS
  Configs <- GuardOnly
  Band = 1
  Delta = 4
  LossLimit = 2
  RecoveryStable = 2
  MinSamples = 1
  Temps = {4, 8}
  OutsideLimits = {}
  SafeRetry = 1
  RetrySpacing = 2
  MaxAttempts = 2
  ApplyFresh = 2
  MaxStall = 0
  MaxTrips = 0
  SavesMayFail = FALSE
PROPERTIES
 LimitComesDown
 ApplyIsAnswered
 CoolGuardRecovers

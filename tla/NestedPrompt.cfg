SPECIFICATION Spec
CONSTANTS
  Lease = 1
  NoAnswer = nothing
  AutoRestores = {FALSE, TRUE}
  MaxAttempts = 2
  MaxModals = 2
  SavesMayFail = TRUE
  TripsAreNews = TRUE
PROPERTIES
  SameLatchNeverNests

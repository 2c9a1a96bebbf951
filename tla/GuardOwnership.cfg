SPECIFICATION FairSpec
CONSTANTS
  Lease = 1
  NoAnswer = nothing
  AutoRestores = {FALSE}
  MaxAttempts = 1
  MaxModals = 1
  SavesMayFail = FALSE
  TripsAreNews = FALSE
INVARIANTS
  WriterIsOne
  LatchHeld
PROPERTIES
  ConsentPerRestore
  AnswerIsHonest
  GuardIsKept

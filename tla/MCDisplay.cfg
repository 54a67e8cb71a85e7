SPECIFICATION DisplaySpec
CONSTANTS
  Candidates <- WindowsBackends
  Requests <- MCRequests
  Failures <- MCFailures
  Shape <- MCShape
  Delays = TRUE
  RecoveryLimit = 1
  MaxContent = 3
  MaxFrames = 5
  MaxRuns = 2
  MaxRequests = 2
  MaxFaults = 2
  MaxDisruptions = 1
INVARIANTS
  RecoveryIsBounded
  QuietPictureIsCurrent
PROPERTY DeltaFollowsItsBase
CHECK_DEADLOCK FALSE

SPECIFICATION FairSpec
CONSTANTS
  IdModulus = 16
  screen = screen
  small = small
  Targets <- MCTargets
  FirstId = 1
  LastId = 3
  TimeoutMs = 1
  MaxClock = 2
INVARIANTS
  TypeOK
  SummaryIsSound
  SettledOnce
  ReportOwnsLosses
PROPERTIES
  EveryTeardownEnds
CHECK_DEADLOCK FALSE

SPECIFICATION FairSpec
CONSTANTS
  NoLink = NoLink
  l1 = l1
  l2 = l2
  l3 = l3
  Keys <- MCKeys
  MinimumChannels <- MCMinimumChannels
  Links <- MCLinks
  KeyOf <- MCKeyOf
  Bare <- MCBare
  Modules <- MCModules
  Consumes <- MCConsumes
  RequiredChannels <- MCRequiredChannels
  OtherChannels <- MCOtherChannels
  RequiredModules <- MCRequiredModules
  Fallible <- MCFallible
  MaxDegraded = 1
  MaxCalls = 4
INVARIANTS
  TypeOK
  IngressExactlyOnce
  ReportHonest
PROPERTIES
  StopSilences
  EveryReconnectReturns
CHECK_DEADLOCK FALSE

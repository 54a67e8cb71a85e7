SPECIFICATION FairSpec
CONSTANTS
  IdModulus = 3
  c1 = c1
  c2 = c2
  c3 = c3
  ctl = ctl
  data = data
  Calls <- MCCalls
  Channels <- MCChannels
  Timeouts <- MCTimeouts
  MaxClock = 4
  MaxInterim = 1
INVARIANTS
  TypeOK
  TrackedExactlyOnce
PROPERTIES
  EveryCallCloses
  ImplementsLifecycle
CHECK_DEADLOCK FALSE

SPECIFICATION Spec
CONSTANTS
  NoLink = NoLink
  l1 = l1
  l2 = l2
  l3 = l3
  Keys <- MCKeys
  Links <- MCLinks
  KeyOf <- MCKeyOf
  PacketTypes <- MCPacketTypes
  Negotiated <- MCNegotiated
  CriticalDepth = 3
  VideoDepth = 2
  InteractiveDepth = 4
  BulkDepth = 3
  NormalDepth = 4
  MaxPackets = 4
  MaxChanges = 5
INVARIANTS
  TypeOK
  BacklogBounded
  ReadyMeansRouted
  PressureNeverUnderstates
PROPERTIES
  OnlyStaleDeltasDropped
CHECK_DEADLOCK FALSE

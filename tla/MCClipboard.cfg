SPECIFICATION Spec
CONSTANTS
  near = near
  far = far
  Peers <- MCPeers
  Policies <- MCPolicies
  FileOffers = {1}
  Pastes <- MCPastes
  MaxOffers <- MCOffers
  MaxCalls <- MCCalls
  MaxDepth = 2
  WindowMax = 1
  MaxDisruptions = 1
INVARIANTS
  ReadReturnsOwnContent
  WindowMatchesReservations
  RegistryIsSound
  ContentRespectsPolicy
  AnswerLostOnlyToOverlap
  PasteNeverSpins
CHECK_DEADLOCK FALSE

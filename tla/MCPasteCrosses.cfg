SPECIFICATION Spec
CONSTANTS
  near = near
  far = far
  Peers <- MCPeers
  Policies <- OpenPolicies
  FileOffers = {1}
  Pastes <- OnlyReads
  MaxOffers <- MCOffers
  MaxCalls <- BothCall
  MaxDepth = 2
  WindowMax = 1
  MaxDisruptions = 0
INVARIANT ReadReturnsOwnContent
CHECK_DEADLOCK FALSE

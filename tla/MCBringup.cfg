SPECIFICATION FairSpec
CONSTANTS
  Required <- MCRequired
  Busy = {"taken"}
  AgentSession = 7
  Requests <- MCRequests
  AgentSides <- MCAgentSides
  Versions = {1, 2}
  Accepted = {2}
  AcceptedClients = {1}
  MaxClients = 2
INVARIANTS
  OkMeansListening
  FirstPairAgrees
  StartedAgainstRealPeer
PROPERTIES
  BringupSettles
CHECK_DEADLOCK FALSE

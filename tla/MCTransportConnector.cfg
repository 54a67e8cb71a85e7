SPECIFICATION Spec
CONSTANTS
  NoLink = NoLink
  m1 = m1
  m2 = m2
  m3 = m3
  m4 = m4
  s1 = s1
  Keys <- MCKeys
  MinimumChannels <- MCMinimumChannels
  Links <- MCLinks
  KeyOf <- MCKeyOf
  MaxProfiles = 2
SYMMETRY Replaceable
INVARIANTS
  NoStrayTransport
  TeardownHonest
  ReconnectSettled
PROPERTIES
  LiveUntilRebound

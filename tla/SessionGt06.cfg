SPECIFICATION Spec
CONSTANTS
  Protocols = {"gt06"}
  Identity <- Identities
  Logins <- AllLogins
  Packets <- AllPackets
  MaxPackets = 1
INVARIANT DocumentedAccepted
CHECK_DEADLOCK FALSE

SPECIFICATION FairSpec
CONSTANTS
  Protocols <- AllProtocols
  Identity <- Identities
  Logins <- AllLogins
  Packets <- AllPackets
  MaxPackets = 2
INVARIANTS
  TypeOK
  ExactAlone
  RecordsExact
  AcksExact
  TextNeverAltered
PROPERTY SessionEnds
CHECK_DEADLOCK FALSE

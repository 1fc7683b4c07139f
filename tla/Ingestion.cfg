SPECIFICATION FairSpec
CONSTANTS
  n1 = n1
  n2 = n2
  n3 = n3
  NoConn = NoConn
  Conns <- TwoConns
  Devices = {"d1"}
  Device <- OneDevice
  Acking = {"d1"}
  MaxRecord = 2
  NatsFails = TRUE
INVARIANTS
  TypeOK
  EntryUsable
  LossIsOwnFailure
  StoredOnce
PROPERTIES
  ReplacedHandlerEnds
  DrainCompletes
CHECK_DEADLOCK FALSE

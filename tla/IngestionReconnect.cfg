SPECIFICATION Spec
CONSTANTS
  n1 = n1
  n2 = n2
  n3 = n3
  NoConn = NoConn
  Conns <- ThreeConns
  Devices = {"d1"}
  Device <- OneDevice
  Acking = {"d1"}
  MaxRecord = 1
  NatsFails = FALSE
INVARIANT ConnectedIsAccurate
CHECK_DEADLOCK FALSE

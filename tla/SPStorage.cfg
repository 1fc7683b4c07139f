SPECIFICATION Spec
CONSTANTS
  w1 = w1
  w2 = w2
  Workers = {w1, w2}
  Devices = {"d1"}
  Stream <- Emergency
  MaxDeliver = 3
  Faults = {"lookup", "trip", "alert", "write", "redis", "publish", "crash", "timeout", "delete"}
  MaxFaults = 2
INVARIANTS
  TypeOK
  AckedIsProcessed
  LiveIsStored
  DropOnlyUnknown
  TripsConsistent
  
PROPERTY ImplementsDelivery
CHECK_DEADLOCK FALSE
SYMMETRY Symmetry

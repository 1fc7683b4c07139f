SPECIFICATION FairSpec
CONSTANTS
  w1 = w1
  w2 = w2
  Workers = {w1, w2}
  Devices = {"d1"}
  Stream <- Creep
  MaxDeliver = 3
  Faults = {"write", "crash", "timeout", "delete"}
  MaxFaults = 2
PROPERTY StoredDespiteFaults
CHECK_DEADLOCK FALSE

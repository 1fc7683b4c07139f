SPECIFICATION Spec
CONSTANTS
  w1 = w1
  w2 = w2
  Workers = {w1}
  Devices = {"d1"}
  Stream <- DriveAndStop
  MaxDeliver = 3
  Faults = {"write"}
  MaxFaults = 1
PROPERTY LiveNeverBackwards
CHECK_DEADLOCK FALSE

SPECIFICATION FairSpec
CONSTANTS
  Users = {"a", "b"}
  Fleet <- MCFleet
  AccessTTL = 1
  InitialDelay = 1
  MaxDelay = 2
  MaxRetries = 1
  MaxSubscribe = 1
  Shells = {1, 2}
  Sockets = {1, 2}
  MaxTime = 1
  MaxFaults = 1
INVARIANTS TypeOK OneConnection SocketsAreOwn
PROPERTIES EndedByRefusal FleetGoesLive ComesBack ExpiredLeaves

SPECIFICATION FairSpec
CONSTANTS
  c1 = c1
  c2 = c2
  Clients <- OneClient
  Tenants = {"t1", "t2"}
  Devices = {"d1"}
  Channels = {"device"}
  Tenant <- AllOfT1
  Endpoint <- AllLive
  RegisterCap = 1
  UnregisterCap = 1
  BroadcastCap = 1
  SendCap = 1
  MaxPublished = 3
INVARIANTS
  TypeOK
  FeedExact
  FeedSound
  NoPanic
PROPERTIES
  BroadcastCompletes
  SlowClientEvicted
CHECK_DEADLOCK FALSE

SPECIFICATION Spec
CONSTANTS
  c1 = c1
  c2 = c2
  Clients <- TwoClients
  Tenants = {"t1"}
  Devices = {}
  Channels = {"device", "alerts"}
  Tenant <- AllOfT1
  Endpoint <- LiveAndAlerts
  RegisterCap = 1
  UnregisterCap = 1
  BroadcastCap = 1
  SendCap = 1
  MaxPublished = 1
INVARIANT UnregisterRemoves
CHECK_DEADLOCK FALSE

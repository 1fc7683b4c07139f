SPECIFICATION Spec
CONSTANTS
  Tenants = {"t1", "t2"}
  Conns = {c1, c2}
  Keys = {"k1", "k2"}
  InitRows <- TwoFleets
  Points <- TwoTracks
  Clock = 5
  Limit = 2
  MaxWrites = 1
  Lossy = {"t1"}
SYMMETRY Symmetry
INVARIANTS
  TypeOK
  TenantIsolated
  CreatedIsStored
  CounterExpires
  WithinLimit
PROPERTIES
  OnlyOwnRowsChange
  DeletionIsFinal

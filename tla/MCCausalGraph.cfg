CONSTANTS
  Id = {1, 2, 3}
  PolicyReason = {3}
  Replica = {r1, r2}
  MaxTold = 4
  MaxShared = 3
SPECIFICATION BoundedSpec
INVARIANTS
  OrderIndependent
  HeadsAreFrontier
  SortNeverFails
PROPERTIES
  QuarantineIsFinal
SYMMETRY ReplicaSymmetry
CHECK_DEADLOCK FALSE

CONSTANTS
  Id = {1, 2, 3, 4, 5, 6}
  PolicyReason = {8}
  Device = {a, b}
  Owner = a
  Kinds = {"Mutation", "JoinApproved"}
  MaxPlain = 2
  MaxClosed = 1
  MaxShort = 4
SPECIFICATION FairBoundedSpec
PROPERTIES
  ImplementsReplication
  Converges
CHECK_DEADLOCK FALSE

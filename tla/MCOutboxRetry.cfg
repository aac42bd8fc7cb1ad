CONSTANTS
  Id = {1, 2}
  PolicyReason = {8}
  Device = {a, b}
  Owner = a
  Kinds = {"Mutation"}
  MaxPlain = 2
  MaxClosed = 1
  MaxShort = 2
SPECIFICATION FairBoundedSpec
PROPERTIES
  EveryEventPublished
CHECK_DEADLOCK FALSE

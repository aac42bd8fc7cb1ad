CONSTANTS
  Id = {1, 2, 3, 4, 5}
  PolicyReason = {8}
  Device = {a, b}
  Owner = a
  Operations = {"Edit", "MergeHeads", "RequestAccess", "Enroll", "ApproveJoin",
                "ApproveExtension"}
  MaxStray = 1
  MaxVaried = 4
SPECIFICATION BoundedSpec
INVARIANTS
  WholeEpochs
  NoConflictAdmitted
  EpochSealed
  NothingRejected
PROPERTIES
  AppliedIsKept
CHECK_DEADLOCK FALSE

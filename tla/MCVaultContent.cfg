CONSTANTS
  Id = {1, 2, 3, 4, 5, 6, 7}
  PolicyReason = {8}
  Device = {a, b}
  Tab = {t1}
  Owner = a
  Member = {a, b}
  Secret = {1, 2, 3}
  Imported = {1}
  MaxEdited = 6
SPECIFICATION BoundedSpec
INVARIANTS
  TypeOK
  NoResurrection
  NothingLost
  NameIsCurrent
  ConflictGroup
CHECK_DEADLOCK FALSE

CONSTANTS
  t1 = t1
  t2 = t2
  Tab <- TwoTabs
  MaxEvents = 6
  MaxCrashes = 1
  StartRotated = FALSE
SPECIFICATION Spec
SYMMETRY TabSymmetry
INVARIANTS EpochsNeverFork
PROPERTIES IdentityAdvances

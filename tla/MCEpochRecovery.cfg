CONSTANTS
  t1 = t1
  t2 = t2
  Tab <- OneTab
  MaxEvents = 8
  MaxCrashes = 2
  StartRotated = TRUE
SPECIFICATION FairSpec
INVARIANTS TypeOK AllUnderCurrentKey
PROPERTIES RotationSettles ConnectSucceeds RefinesLedger

CONSTANTS
  t1 = t1
  t2 = t2
  e = e
  c = c
  r = r
  Tab <- TwoTabs
  Ordinary <- OneEdit
  Pair <- OneRotation
  Closes = 1
SPECIFICATION Spec
SYMMETRY TabSymmetry
INVARIANTS FlushPublishesAll

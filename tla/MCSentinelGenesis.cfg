CONSTANTS
  t1 = t1
  a = a
  p1 = p1
  p2 = p2
  g1 = g1
  g2 = g2
  s1 = s1
  s2 = s2
  None = None
  Initiator = a
  Tab = {t1}
  Peer = {p1, p2}
  Session = {g1, g2}
  Store = {s1, s2}
  N = 2
  Failures = 2
SPECIFICATION FairSpec
CONSTRAINT InOrder
INVARIANTS FullRoster OneIssuance SharesOfDoneVaults OneRoot
PROPERTY PlanCompletes

CONSTANTS
  a = a
  b = b
  o = o
  v = v
  w = w
  x1 = x1
  x2 = x2
  None = None
  Device = {a, b, o}
  Store = {v, w}
  Session = {x1, x2}
  Initiator <- Founder
  Participant <- Members
  Reader <- Everyone
  Threshold <- All
SPECIFICATION Spec
SYMMETRY Symmetry
INVARIANTS QuorumBehindKeys KeysOfLoadedVault OnlyParticipantsOpen
PROPERTY SpentOnce

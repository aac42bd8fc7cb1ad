SPECIFICATION Spec
CONSTANTS
  a = a  b = b  c = c  r = r  s = s  o = o
  Installation = {a, b}
  Passphrase = {r, s}
  Outsider = {o}
  History <- WithRecovery
  MaxNew = 3
  Step = {"approved", "recovered", "revoked", "requested", "denied", "recovery", "invited", "noted", "added"}
CONSTRAINT AsidesAreShort
INVARIANTS TypeOK HonestStands OrderIndependent RemovedWordsAdmitNobody DirectoryMirrors
CHECK_DEADLOCK FALSE

SPECIFICATION FairSpec
CONSTANTS
  a = a  b = b  c = c  r = r  s = s  o = o
  Installation = {a, b, c}
  Passphrase = {}
  Outsider = {}
  History <- WithInvite
  MaxNew = 3
  Step = {"joined", "revoked", "cut"}
INVARIANTS InviteAdmitsOne
PROPERTY Converges
CHECK_DEADLOCK FALSE

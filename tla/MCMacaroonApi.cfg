CONSTANTS
  s1 = s1  s2 = s2
  Slot = {s1, s2}
  empty = empty  r = r  a = a  huge = huge
  loc = loc  farLoc = farLoc
  kr = kr  ka = ka
  Secret = {kr, ka}
  ZeroSecret = ZeroSecret
  Text = {empty, a, huge}
  Location = {loc, farLoc}
  NoLocation = loc
  Size <- MCSize
  MAX_FIELD_SIZE_BYTES = 1
  MAX_CAVEATS = 2
  RngFailures = {TRUE, FALSE}
  MaxCalls = 6
SPECIFICATION ApiSpec
SYMMETRY SlotSymmetry
INVARIANTS ApiTypeOK WithinLimits KeysOpenInOrder SignatureIsChainUntilBound SignatureTellsHistory

CONSTANTS
  s1 = s1  s2 = s2
  Slot = {s1, s2}
  r = r  a = a  b = b  s3 = s3
  loc = loc
  kr = kr  ka = ka
  Secret = {kr, ka}
  ZeroSecret = ZeroSecret
  Text = {a}
  Location = {loc}
  NoLocation = loc
  Size <- OneByte
  Accepts <- NoAccepts
  MAX_FIELD_SIZE_BYTES = 1
  MAX_CAVEATS = 2
  MAX_VERIFICATION_DEPTH = 1
  RngFailures = {FALSE}
  MaxCalls = 6
  MaxDischarges = 1
  Exact = {a}
SPECIFICATION Spec
SYMMETRY SlotSymmetry
INVARIANT HistoryDecides

CONSTANTS
  s1 = s1  s2 = s2  s3 = s3
  Slot = {s1, s2, s3}
  r = r  a = a  b = b
  loc = loc
  kr = kr
  Secret = {kr}
  ZeroSecret = ZeroSecret
  Text = {r, b}
  Location = {loc}
  NoLocation = loc
  Size <- OneByte
  Accepts <- NoAccepts
  MAX_FIELD_SIZE_BYTES = 1
  MAX_CAVEATS = 1
  MAX_VERIFICATION_DEPTH = 2
  RngFailures = {FALSE}
  MaxCalls = 8
  MaxDischarges = 2
  Exact = {}
SPECIFICATION NestedSpec
INVARIANT HistoryDecides

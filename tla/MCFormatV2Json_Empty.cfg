CONSTANTS
  huge = huge  sig = sig  bytes = bytes
  Empty = Empty
  None = None
  Secret = {}
  ZeroSecret = ZeroSecret
  Value = {Empty, huge, sig, bytes}
  Size <- MCSize
  Utf8 <- MCUtf8
  MAX_CAVEATS = 2
  MAX_FIELD_SIZE_BYTES = 65535
  SIGNATURE_SIZE = 32
  MaxItems = 3
SPECIFICATION Spec
INVARIANT RefusesNoEncoding

CONSTANTS
  large = large  sig = sig
  Empty = Empty
  None = None
  Secret = {}
  ZeroSecret = ZeroSecret
  Value = {Empty, large, sig}
  Size <- MCSize
  Utf8 <- MCUtf8
  KeyLength <- MCKeyLength
  MAX_CAVEATS = 2
  MAX_FIELD_SIZE_BYTES = 65535
  MAX_PACKET_SIZE = 65535
  SIGNATURE_SIZE = 32
  MaxItems = 7
SPECIFICATION Spec
INVARIANT OneRepresentation

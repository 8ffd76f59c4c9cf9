CONSTANTS
  None = None
  Unreadable = Unreadable
  Secret = {}
  ZeroSecret = ZeroSecret
  Value <- MCValue
  Empty <- MCEmpty
  Size <- MCSize
  Utf8 <- MCUtf8
  MAX_CAVEATS = 2
  MAX_FIELD_SIZE_BYTES = 16
  SIGNATURE_SIZE = 16
  MaxItems = 14
  DIGIT = 2
  BITS = 9
SPECIFICATION ByteSpec
INVARIANTS TypeOK OneEncoding OneEncodingInBytes RefusesNoEncodedBytes NoDigitLost

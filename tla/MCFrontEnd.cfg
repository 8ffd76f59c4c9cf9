CONSTANTS
  STANDARD <- MCStandard
  URL_SAFE <- MCUrlSafe
  PAD = "="
  BRACE = "{"
  Char = {"A", "B", "C", "+", "/", "-", "_", "=", "{"}
  VERSION = 2
  HexDigits = {3, 6, 7}
  V1First = {3, 6}
  None = None
  MaxText = 5
  MaxBinary = 4
SPECIFICATION Spec
INVARIANTS NeverPanics ReachesItsParser DecodesOnlyEncodings

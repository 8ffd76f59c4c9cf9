CONSTANTS
  HeaderByte = {"0", "1", "2", "3", "4", "e", "E", "+", " ", "?"}
  DataByte = {"e", " ", "nl", "?"}
  HEX <- MCHex
  UpperHex <- MCUpperHex
  PLUS = "+"
  SPACE = " "
  NEWLINE = "nl"
  EOF = "EOF"
  Utf8 <- MCUtf8
  HEADER_SIZE = 2
  Tag <- MCTag
  MaxBytes = 10
SPECIFICATION Spec
INVARIANTS NeverPanics ReadsWhatIsThere RefusesNothingWritten

SPECIFICATION Spec
CONSTANTS
  Ascii <- MCAscii
  Dollar = "$"
  Star = "*"
  Comma = ","
  Blanks = {"CR", " "}
  Hex <- MCHex
  Exponent = "E"
  NanWord <- MCNan
  PSHIP <- MCPship
  Entries <- MCEntries
  Messages <- MCMessages
  Noise = {"$", "*", ",", "CR", "P", "R", "0", "2", "E"}
  MaxEntries = 2
  Huge = 100
INVARIANT PshipFieldAfterPrefix

SPECIFICATION FairSpec
CONSTANTS
  Chars = {"x"}
  CR = "CR"
  LF = "LF"
  Fds = {1, 2}
  MaxStarts = 2
  MaxChunk = 3
  MaxBytes = 4
INVARIANTS
  TypeOK
  LinesExact
  DescriptorOwned
  OneReader
  ForeignOnlyInStop
PROPERTY StopReturns

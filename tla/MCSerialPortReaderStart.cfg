SPECIFICATION Spec
CONSTANTS
  Chars = {"x"}
  CR = "CR"
  LF = "LF"
  Fds = {1, 2}
  MaxStarts = 2
  MaxChunk = 2
  MaxBytes = 2
INVARIANT StartReads

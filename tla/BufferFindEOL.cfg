\* findEOL in bytes that wrap.
CONSTANTS
  cr = cr
  lf = lf
  Byte <- Bytes
  CR <- cr
  LF <- lf
  Size = 3
  kInitialSize = 3
  MinLen = 1
  MaxLen = 3
  MaxSize = 0
  Callers <- Searched
SPECIFICATION Spec
PROPERTY ImplementsByteQueue

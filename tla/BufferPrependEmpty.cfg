\* An empty string is put in front of nothing.
CONSTANTS
  cr = cr
  lf = lf
  Byte <- Bytes
  CR <- cr
  LF <- lf
  Size = 3
  kInitialSize = 3
  MinLen = 0
  MaxLen = 3
  MaxSize = 0
  Callers <- Prepended
SPECIFICATION Spec
PROPERTY ImplementsByteQueue

\* readFd into a buffer whose bytes do not begin at index 0.
CONSTANTS
  cr = cr
  lf = lf
  Byte <- Bytes
  CR <- cr
  LF <- lf
  Size = 3
  kInitialSize = 3
  MinLen = 1
  MaxLen = 3
  MaxSize = 0
  Callers <- PartlyRead
SPECIFICATION Spec
PROPERTY ImplementsByteQueue

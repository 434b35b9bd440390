\* Users who check for room, and users who take everything.
CONSTANTS
  cr = cr
  lf = lf
  Byte <- Bytes
  CR <- cr
  LF <- lf
  Size = 4
  kInitialSize = 3
  MinLen = 1
  MaxLen = 4
  MaxSize = 10
  Callers <- Disciplined
SPECIFICATION Spec
INVARIANT StaysInVector
PROPERTY ImplementsByteQueue

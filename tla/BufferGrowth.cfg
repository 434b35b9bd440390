\* The buffer has to grow while it holds bytes.
CONSTANTS
  cr = cr
  lf = lf
  Byte <- Bytes
  CR <- cr
  LF <- lf
  Size = 3
  kInitialSize = 3
  MinLen = 1
  MaxLen = 3
  MaxSize = 12
  Callers <- Grown
SPECIFICATION Spec
PROPERTY ImplementsByteQueue

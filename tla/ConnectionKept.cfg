\* A connection that ends.
CONSTANTS
  long = long
  short = short
  Message <- Messages
  MsgLen <- Lengths
  Byte <- AnyByte
  kInitialSize = 3
  SockBuf = 2
  MaxQueue = 1
  Resets = FALSE
SPECIFICATION Safety
INVARIANT DestroyedAfterClose
CHECK_DEADLOCK FALSE

\* The socket may be full when a message is written to it directly.
CONSTANTS
  long = long
  short = short
  Message <- Messages
  MsgLen <- Lengths
  Byte <- AnyByte
  kInitialSize = 3
  SockBuf = 2
  MaxQueue = 1
  Resets = FALSE
SPECIFICATION Safety
INVARIANT NoGarbage
CHECK_DEADLOCK FALSE

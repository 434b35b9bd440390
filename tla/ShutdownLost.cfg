\* shutdown() with nothing left to write.
CONSTANTS
  long = long
  short = short
  Message <- Messages
  MsgLen <- Lengths
  Byte <- AnyByte
  kInitialSize = 3
  SockBuf = 2
  MaxQueue = 1
  Resets = FALSE
SPECIFICATION Spec
PROPERTY ShutdownCloses
CHECK_DEADLOCK FALSE

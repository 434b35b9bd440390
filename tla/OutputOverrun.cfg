\* An orderly peer and a socket that is full at times.
CONSTANTS
  long = long
  short = short
  Message <- Messages
  MsgLen <- Lengths
  Byte <- AnyByte
  kInitialSize = 3
  SockBuf = 2
  MaxQueue = 1
  Resets = FALSE
SPECIFICATION Safety
PROPERTY SendFindsPlace
CHECK_DEADLOCK FALSE

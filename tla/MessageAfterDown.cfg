\* A handler closes a connection whose input epoll has already reported.
CONSTANTS
  long = long
  short = short
  Message <- Messages
  MsgLen <- Lengths
  Byte <- AnyByte
  kInitialSize = 3
  SockBuf = 1
  MaxQueue = 1
  Resets = FALSE
SPECIFICATION Safety
PROPERTY NoMessageAfterDown
CHECK_DEADLOCK FALSE

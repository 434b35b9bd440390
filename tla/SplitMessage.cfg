\* send(Buffer) leaves something over while others send.
CONSTANTS
  long = long
  short = short
  Message <- Messages
  MsgLen <- Lengths
  Byte <- AnyByte
  kInitialSize = 3
  SockBuf = 2
  MaxQueue = 2
  Resets = FALSE
SPECIFICATION Safety
INVARIANT MessagesWhole
CHECK_DEADLOCK FALSE

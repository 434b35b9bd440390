\* A peer that resets the connection.
CONSTANTS
  long = long
  short = short
  Message <- Messages
  MsgLen <- Lengths
  Byte <- AnyByte
  kInitialSize = 3
  SockBuf = 1
  MaxQueue = 1
  Resets = TRUE
SPECIFICATION Safety
INVARIANT NoSendAfterHangup
CHECK_DEADLOCK FALSE

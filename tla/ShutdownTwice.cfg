\* An orderly peer and users who send nothing.
CONSTANTS
  long = long
  short = short
  Message <- NoMessages
  MsgLen <- NoLengths
  Byte <- AnyByte
  kInitialSize = 3
  SockBuf = 2
  MaxQueue = 1
  Resets = FALSE
SPECIFICATION Safety
INVARIANT OrderlyPeerNeverFails
CHECK_DEADLOCK FALSE

\* A peer that may reset the connection, a socket that is full at times and
\* an output buffer of three bytes.
CONSTANTS
  long = long
  short = short
  Message <- Messages
  MsgLen <- Lengths
  Byte <- AnyByte
  kInitialSize = 3
  SockBuf = 1
  MaxQueue = 1
  Resets = TRUE
SPECIFICATION Spec
INVARIANTS StreamIntact EachByteOnce WatchesOutput ClosedOnce ReportedRoomRemains
PROPERTIES NoWriteAfterShutdown OutputIsSent ShutdownAfterOutput
CHECK_DEADLOCK FALSE

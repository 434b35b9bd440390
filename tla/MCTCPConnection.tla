--------------------------- MODULE MCTCPConnection ---------------------------
(* An instance of TCPConnection for TLC: two messages, of which one is     *)
(* longer than what the socket takes.                                      *)
EXTENDS TCPConnection

CONSTANTS long, short

Messages == {long, short}
Lengths == [m \in Messages |-> IF m = long THEN 4 ELSE 2]
AnyByte == (Messages \X (1 .. 4)) \cup {Garbage}

NoMessages == {}
NoLengths == <<>>

=============================================================================

------------------------------ MODULE MCBuffer ------------------------------
(* Instances of Buffer for TLC: the ways in which it is used.              *)
EXTENDS Buffer

CONSTANTS cr, lf

Bytes == {cr, lf}

Caller(ops, checksRoom, resetsDrained) ==
  [ops |-> ops, checksRoom |-> checksRoom, resetsDrained |-> resetsDrained]

(* A ring of fixed size: users write what writeableBytes() allows and take *)
(* the last byte with retrieveAll.                                         *)
Ring ==
  Caller({"append", "prepend", "retrieve", "retrieveAsString", "retrieveAll",
          "writeFd", "empty"}, TRUE, TRUE)

(* An input buffer whose user takes everything each time: it begins at     *)
(* index 0, grows as needed and takes in more than fits.                   *)
Stream ==
  Caller({"append", "readFd", "peek", "retrieveAll", "writeFd", "empty", "findEOL"},
         FALSE, TRUE)

(* A buffer that grows while it holds bytes.                               *)
Growing == Caller({"append", "retrieve"}, FALSE, TRUE)

(* Readers that do not take everything, or search.                         *)
Peeking == Caller({"append", "retrieve", "peek"}, TRUE, TRUE)
Reading == Caller({"readFd", "retrieve"}, TRUE, TRUE)
Failing == Caller({"readFd", "readError"}, FALSE, TRUE)
Lines == Caller({"append", "retrieve", "findEOL"}, TRUE, TRUE)
Requests == Caller({"append", "retrieve", "retrieveUntil"}, TRUE, TRUE)
Headers == Caller({"append", "retrieveAll", "findCRLF"}, TRUE, TRUE)

(* Writers that put integers or empty strings in front.                    *)
Framing == Caller({"append", "prepend", "prependInt"}, TRUE, TRUE)
Prepending == Caller({"prepend", "empty"}, TRUE, TRUE)

Disciplined == {Ring, Stream}
Grown == {Growing}
Peeked == {Peeking}
PartlyRead == {Reading}
Failed == {Failing}
Searched == {Lines}
TakenUntil == {Requests}
SearchedCRLF == {Headers}
Framed == {Framing}
Prepended == {Prepending}

=============================================================================

------------------------------ MODULE ByteQueue ------------------------------
(***************************************************************************)
(* What a gmuduo::Buffer promises: a queue of bytes that may also be added *)
(* to in front.  call is the interface: the last operation called, what it *)
(* was given and what it returned.                                         *)
(***************************************************************************)
EXTENDS Integers, Sequences, SequencesExt

VARIABLES bytes, call

vars == <<bytes, call>>

Init == bytes = <<>> /\ call.op = "constructor"

First(n) == SubSeq(bytes, 1, n)
After(n) == SubSeq(bytes, n + 1, Len(bytes))

Put ==
  /\ call'.op \in {"append", "readFd"}
  /\ bytes' = bytes \o call'.string

PutInFront ==
  /\ call'.op = "prepend"
  /\ bytes' = call'.string \o bytes

Look ==
  /\ call'.op \in {"peek", "writeFd"}
  /\ call'.result = First(call'.length)
  /\ UNCHANGED bytes

Drop ==
  /\ call'.op = "retrieve"
  /\ bytes' = After(call'.length)

Take ==
  /\ call'.op \in {"retrieveAsString", "retrieveAll"}
  /\ call'.op = "retrieveAll" => call'.length = Len(bytes)
  /\ call'.result = First(call'.length)
  /\ bytes' = After(call'.length)

IsEmpty ==
  /\ call'.op = "empty"
  /\ call'.result = <<bytes = <<>>>>
  /\ UNCHANGED bytes

(* Where the first occurrence of a string begins, if there is one.         *)
Occurs(s, k) == k + Len(s) - 1 <= Len(bytes) /\ SubSeq(bytes, k, k + Len(s) - 1) = s
Find ==
  /\ call'.op \in {"findEOL", "findCRLF"}
  /\ LET found == { k \in 1 .. Len(bytes) : Occurs(call'.string, k) } IN
     call'.result = IF found = {} THEN <<>> ELSE <<Min(found) - 1>>
  /\ UNCHANGED bytes

Next == Put \/ PutInFront \/ Look \/ Drop \/ Take \/ IsEmpty \/ Find

Spec == Init /\ [][Next]_vars

=============================================================================

------------------------------- MODULE Buffer -------------------------------
(***************************************************************************)
(* gmuduo::Buffer: a ring of bytes in a std::vector, used by one thread.   *)
(* BufferData has its members and what its functions compute from them.    *)
(*                                                                         *)
(* ByteQueue says what a buffer promises.  Once a write has left the       *)
(* vector, what the program does next is undefined: the model stops there. *)
(***************************************************************************)
EXTENDS BufferData, SequencesExt

CONSTANTS
  CR, LF,          \* '\r' and '\n'
  Size,            \* the argument of the constructor
  MinLen,          \* do callers write empty strings (0) or not (1)?
  MaxLen,          \* bound: bytes put in or taken out in one call
  MaxSize,         \* bound: size of the vector, when callers let it grow
  Callers          \* the ways in which the buffer's users may use it

ASSUME BufferAssumption ==
  /\ Size \in Nat \ {0}
  /\ MinLen \in {0, 1} /\ MaxLen \in Nat /\ MaxSize \in Nat
  /\ {CR, LF} \subseteq Byte

(* The operations users call, and the variants prependInt, retrieveUntil   *)
(* and readError of three of them, whether they write no more than         *)
(* writeableBytes(), and whether they take the last byte with retrieveAll. *)
ASSUME CallersAssumption ==
  \A c \in Callers :
    c.checksRoom \in BOOLEAN /\ c.resetsDrained \in BOOLEAN /\ IsFiniteSet(c.ops)

VARIABLES
  caller,          \* who uses this buffer, chosen from Callers once
  data_,           \* the vector's memory, capacity() cells
  size,            \* data_.size()
  readIndex_,
  writeIndex_,
  call,            \* history: the last call, as in ByteQueue
  inBounds         \* history: were all writes inside the vector?

bufferVars ==
  <<caller, data_, size, readIndex_, writeIndex_, call, inBounds>>

-----------------------------------------------------------------------------
Buf == [cells |-> data_, size |-> size, r |-> readIndex_, w |-> writeIndex_]

(* prepend of characters: what does not fit below readIndex_ goes to the   *)
(* end of the vector.                                                      *)
PrependIndex(b, n) ==
  IF b.w < b.r \/ b.r > n THEN b.r - n ELSE b.size + b.r - n

(* find*: the first index from which s is found in cells from .. to - 1,   *)
(* or to.  Indices stand for the pointers into the vector.                 *)
Search(b, from, to, s) ==
  LET found == { i \in from .. to - Len(s) : SubSeq(b.cells, i + 1, i + Len(s)) = s }
  IN  IF found = {} THEN to ELSE Min(found)

NullPointer == -1

findEOL(b) ==
  LET upper == Search(b, b.r, b.size - 1, <<LF>>)
      res == IF b.w > b.r THEN Search(b, b.r, b.w, <<LF>>)
             ELSE IF upper = b.size - 1 THEN Search(b, 0, b.w, <<LF>>)
             ELSE upper
  IN  IF res = b.w THEN NullPointer ELSE res

findCRLF(b) ==
  LET upper == Search(b, b.r, b.size, <<CR, LF>>)
      lower == Search(b, 0, b.w, <<CR, LF>>)
  IN  IF b.w > b.r THEN Search(b, b.r, b.w, <<CR, LF>>)
      ELSE IF upper # b.size THEN upper
      ELSE IF b.cells[b.size] = CR /\ b.cells[1] = LF THEN 0
      ELSE IF lower = b.w THEN NullPointer
      ELSE lower

-----------------------------------------------------------------------------

Contents == Held(Buf)
Strings == UNION { [1 .. n -> Byte] : n \in MinLen .. MaxLen }

Init ==
  /\ caller \in Callers
  /\ data_ = Fresh(Size).cells
  /\ size = Fresh(Size).size
  /\ readIndex_ = 0
  /\ writeIndex_ = 0
  /\ call = [op |-> "constructor"]
  /\ inBounds = TRUE

Becomes(b) ==
  /\ data_' = b.cells
  /\ size' = b.size
  /\ readIndex_' = b.r
  /\ writeIndex_' = b.w

(* When the buffer's user calls an operation, with a string or a length.   *)
Uses(op) == op \in caller.ops /\ inBounds /\ UNCHANGED caller
Writes(op, s) ==
  /\ Uses(op)
  /\ IF caller.checksRoom THEN Len(s) <= writeableBytes(Buf) ELSE size + Len(s) < MaxSize
  /\ call' = [op |-> op, string |-> s]
Reads(op, n, result) ==
  /\ Uses(op)
  /\ n <= readableBytes(Buf)
  /\ call' = [op |-> op, length |-> n, result |-> result]
Removes(op, n, result) ==
  /\ Reads(op, n, result)
  /\ caller.resetsDrained => n < readableBytes(Buf)

-----------------------------------------------------------------------------
(* The operations.                                                         *)

append(s) ==
  LET b == ensurePlace(Buf, Len(s)) IN
  /\ Becomes(Appended(b, s))
  /\ inBounds' = Fits(b, Len(s))

(* append, and append(Buffer) and appendInt8 to appendInt64, which call it. *)
AppendBytes(s) == Writes("append", s) /\ append(s)

(* prepend of characters, and prepend(Buffer), which calls it.             *)
PrependChars(s) ==
  LET b == ensurePlace(Buf, Len(s))
      start == PrependIndex(b, Len(s))
  IN
  /\ Becomes([Put(b, start, b.size, s) EXCEPT !.r = start])
  /\ inBounds' = (start >= 0)

(* prepend of memory, which prependInt8 to prependInt64 call, appends.     *)
PrependBytes(s) ==
  /\ Writes("prepend", s)
  /\ IF "prependInt" \in caller.ops THEN append(s) ELSE PrependChars(s)

Unchanged == UNCHANGED <<data_, size, readIndex_, writeIndex_, inBounds>>

(* peek, which peekInt and readInt call, copies one byte too many in its   *)
(* second part.                                                            *)
Peek(n) ==
  /\ Reads("peek", n,
           IF readIndex_ + n < size THEN Gather(Buf, readIndex_, size, n)
           ELSE Gather(Buf, readIndex_, size, n + 1))
  /\ Unchanged

IsEmpty == Reads("empty", 0, <<empty(Buf)>>) /\ Unchanged

(* A pointer is told to ByteQueue as its distance from readIndex_.         *)
Distance(i) == IF i >= readIndex_ THEN i - readIndex_ ELSE size - readIndex_ + i

Find(op) ==
  LET i == IF op = "findEOL" THEN findEOL(Buf) ELSE findCRLF(Buf) IN
  /\ Uses(op)
  /\ ~empty(Buf)
  /\ call' = [op |-> op,
              string |-> IF op = "findEOL" THEN <<LF>> ELSE <<CR, LF>>,
              result |-> IF i = NullPointer THEN <<>> ELSE <<Distance(i)>>]
  /\ Unchanged

retrieve(n) ==
  /\ Becomes(retrieved(Buf, n))
  /\ UNCHANGED inBounds

(* retrieveUntil, given a pointer to the n-th byte, takes its index for    *)
(* the number of bytes before it.                                          *)
LengthUntil(n) == ((readIndex_ + n - 1) % size) + 1

Retrieve(n) ==
  /\ Removes("retrieve", n, <<>>)
  /\ retrieve(IF "retrieveUntil" \in caller.ops THEN LengthUntil(n) ELSE n)

RetrieveAsString(n) ==
  Removes("retrieveAsString", n, peekAsString(Buf, n)) /\ retrieve(n)

(* Mutant: retrieveAll is retrieve(readableBytes()).                       *)
RetrieveAllInPlace ==
  /\ Reads("retrieveAll", readableBytes(Buf), Contents)
  /\ Becomes([Buf EXCEPT !.r = writeIndex_])
  /\ UNCHANGED inBounds

RetrieveAllAsString ==
  /\ Reads("retrieveAll", readableBytes(Buf), Contents)
  /\ Becomes([Buf EXCEPT !.r = 0, !.w = 0])
  /\ UNCHANGED inBounds

(* readv scatters what it reads into the cells up to vec[0]'s end, then    *)
(* the cells from 0, then extrabuf; append takes over what is in extrabuf. *)
(* Its error, which the test lets through, is taken for a length: append   *)
(* ends the process or leaves the vector.                                  *)
ReadFd(s) ==
  LET writable == writeableBytes(Buf)
      end == IF writeIndex_ >= readIndex_ THEN size - 1 ELSE readIndex_ - 1
      n == Min({Len(s), writable})
      b == [Put(Buf, writeIndex_, end, SubSeq(s, 1, n)) EXCEPT
              !.w = (writeIndex_ + n) % Capacity(Buf)]
      extra == SubSeq(s, n + 1, Len(s))
      place == ensurePlace(b, Len(extra))
  IN
  /\ Writes("readFd", s)
  /\ Becomes(IF extra = <<>> THEN b ELSE Appended(place, extra))
  /\ inBounds' = (/\ extra # <<>> => Fits(place, Len(extra))
                  /\ "readError" \notin caller.ops)

(* writev gathers and accepts n bytes; the caller then retrieves them.     *)
WriteFd(n) ==
  /\ Reads("writeFd", n,
           Gather(Buf, readIndex_, IF readIndex_ <= writeIndex_ THEN writeIndex_ ELSE size, n))
  /\ Unchanged

Next ==
  \/ \E s \in Strings : AppendBytes(s) \/ PrependBytes(s) \/ ReadFd(s)
  \/ \E n \in 1 .. MaxLen :
       Peek(n) \/ Retrieve(n) \/ RetrieveAsString(n) \/ WriteFd(n)
  \/ RetrieveAllAsString
  \/ IsEmpty
  \/ \E op \in {"findEOL", "findCRLF"} : Find(op)

Spec == Init /\ [][Next]_bufferVars

-----------------------------------------------------------------------------
(* Properties.                                                             *)

(* The ring is a queue of bytes: it holds what was put in and not taken    *)
(* out, in order, and whoever reads, takes or searches gets what such a    *)
(* queue gives; empty() tells a full ring from an empty one.               *)
Queue == INSTANCE ByteQueue WITH bytes <- Contents
ImplementsByteQueue == Queue!Spec

(* Every write is to an element of the vector, and the indices stay in it. *)
StaysInVector ==
  /\ inBounds
  /\ size <= Len(data_)
  /\ readIndex_ <= size /\ writeIndex_ < size

=============================================================================

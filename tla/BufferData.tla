----------------------------- MODULE BufferData -----------------------------
(***************************************************************************)
(* The members of a gmuduo::Buffer as a record, and what its functions     *)
(* compute from them.  Buffer lets users call them, TCPConnection keeps    *)
(* its output in one, and makePlace builds a second one.                   *)
(*                                                                         *)
(* The vector has a size and a capacity: the code takes indices modulo the *)
(* capacity and computes lengths and wraps from the size.  Indices count   *)
(* from 0 as in the code.                                                  *)
(***************************************************************************)
EXTENDS Integers, Sequences, FiniteSetsExt

CONSTANTS
  Byte,            \* the bytes written to buffers
  kInitialSize     \* the size of a buffer constructed without one

ASSUME BufferDataAssumption == kInitialSize \in Nat \ {0}

Junk == "junk"     \* a cell nobody has written
Cell == Byte \cup {Junk}

(* data_ (capacity() cells), data_.size(), readIndex_ and writeIndex_.     *)
Record == [cells : Seq(Cell), size : Nat, r : Nat, w : Nat]

Capacity(b) == Len(b.cells)

Fresh(n) ==
  [cells |-> [i \in 1 .. n + 1 |-> Junk], size |-> n + 1, r |-> 0, w |-> 0]

(* resize: beyond the capacity the elements move to an allocation of at    *)
(* least twice the old size.                                               *)
Resize(b, n) ==
  LET capacity == IF n <= Capacity(b) THEN Capacity(b) ELSE Max({n, 2 * b.size})
  IN  [b EXCEPT !.cells = [i \in 1 .. capacity |->
                             IF i <= b.size THEN b.cells[i] ELSE Junk],
                !.size = n]

readableBytes(b) == IF b.w >= b.r THEN b.w - b.r ELSE b.size - b.r + b.w

(* Mutant: no cell is kept free to tell full from empty.                   *)
writeableBytesAll(b) == b.size - readableBytes(b)

writeableBytes(b) == b.size - readableBytes(b) - 1
empty(b) == b.w = b.r

(* Puts s into the cells from index i to index end, then into those from   *)
(* 0; Gather reads n bytes in the same way.                                *)
Put(b, i, end, s) ==
  [b EXCEPT !.cells = [k \in 1 .. Capacity(b) |->
     LET at == IF k > i THEN k - i ELSE end - i + k
     IN  IF at \in 1 .. Len(s) /\ (k <= i \/ k <= end) THEN s[at] ELSE b.cells[k]]]

Gather(b, i, end, n) ==
  [k \in 1 .. n |-> IF i + k <= end THEN b.cells[i + k] ELSE b.cells[i + k - end]]

peekAsString(b, n) ==
  Gather(b, b.r, IF b.w > b.r \/ b.r + n <= b.size THEN b.r + n ELSE b.size, n)

(* peekAllAsString.                                                        *)
Held(b) == peekAsString(b, readableBytes(b))

retrieved(b, n) == [b EXCEPT !.r = (b.r + n) % Capacity(b)]

(* makePlace: a buffer that does not wrap grows; one that does is copied   *)
(* to a temporary one, which makes place for what it calls writeableBytes. *)
Grow(b, n) == IF writeableBytes(b) >= n THEN b ELSE Resize(b, b.w + n + 1)

(* The writes of append once there is place: two parts only if the buffer  *)
(* is not empty.  Fits: they stay in the vector.                           *)
Splits(b, n) == b.w > b.r /\ b.w + n >= b.size
Fits(b, n) == Splits(b, n) \/ b.w + n <= b.size
Appended(b, s) ==
  LET end == IF Splits(b, Len(s)) THEN b.size ELSE b.w + Len(s)
  IN  [Put(b, b.w, end, s) EXCEPT !.w = (b.w + Len(s)) % Capacity(b)]

Relocate(b, n) ==
  LET temp == Grow(Fresh(kInitialSize), writeableBytes(b) + n + 1)
  IN  Appended(Grow(temp, readableBytes(b)), Held(b))

ensurePlace(b, n) ==
  IF writeableBytes(b) < n /\ b.w < b.r THEN Relocate(b, n) ELSE Grow(b, n)

=============================================================================

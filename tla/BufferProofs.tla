---------------------------- MODULE BufferProofs ----------------------------
(***************************************************************************)
(* Proofs about Buffer for any bytes, sizes and strings, for the two ways  *)
(* of using one that MCBuffer calls Ring and Stream.                       *)
(***************************************************************************)
EXTENDS Buffer, BufferDataProofs, WellFoundedInduction

(* A ring: the vector has as many cells as elements, and is empty only at  *)
(* index 0.                                                                *)
Ring(b) ==
  /\ b \in Record /\ Len(b.cells) = b.size
  /\ b.r <= b.size /\ b.w < b.size
  /\ b.r = b.size => b.w > 0
  /\ b.w = b.r => b.w = 0

LEMMA RingHolds ==
  ASSUME NEW b, Ring(b)
  PROVE  /\ InVector(b) /\ Capacity(b) = b.size
         /\ readableBytes(b) \in 0 .. b.size - 1
         /\ readableBytes(b) = 0 <=> b.w = b.r
         /\ \A n \in 0 .. readableBytes(b) :
              /\ peekAsString(b, n) \in Seq(Cell) /\ Len(peekAsString(b, n)) = n
              /\ \A k \in 1 .. n : peekAsString(b, n)[k] = b.cells[Wrap(b.size, b.r + k)]
         /\ Held(b) \in Seq(Cell) /\ Len(Held(b)) = readableBytes(b)
         /\ \A k \in 1 .. readableBytes(b) : Held(b)[k] = b.cells[Wrap(b.size, b.r + k)]
<1>1. /\ b.r \in Nat /\ b.w \in Nat /\ b.size \in Nat /\ b \in Record
      /\ Len(b.cells) = b.size /\ b.r <= b.size /\ b.w < b.size
      /\ (b.r = b.size => b.w > 0)
  BY DEF Ring, Record
<1>2. InVector(b) /\ Capacity(b) = b.size
  BY <1>1 DEF InVector, Capacity
<1>3. readableBytes(b) \in 0 .. b.size - 1
  BY <1>1 DEF readableBytes
<1>4. QED
  BY <1>2, <1>3, VectorHolds

(* append to a ring that has room puts the string behind what is there.    *)
LEMMA RingAppend ==
  ASSUME NEW b, Ring(b), NEW s \in Seq(Byte), Len(s) <= writeableBytes(b)
  PROVE  /\ ensurePlace(b, Len(s)) = b /\ Fits(b, Len(s))
         /\ Ring(Appended(b, s)) /\ Held(Appended(b, s)) = Held(b) \o s
<1> DEFINE z == b.size
           r == b.r
           w == b.w
           l == Len(s)
           new == Appended(b, s)
<1>1. /\ r \in Nat /\ w \in Nat /\ z \in Nat /\ Len(b.cells) = z /\ r <= z /\ w < z
      /\ l \in Nat /\ (r = z => w > 0) /\ (w = r => w = 0) /\ InVector(b) /\ Capacity(b) = z
  BY RingHolds DEF Ring, Record
<1>2. l <= z - (IF w >= r THEN w - r ELSE z - r + w) - 1
  BY DEF readableBytes, writeableBytes
<1>3. ensurePlace(b, l) = b
  BY <1>1, <1>2 DEF ensurePlace, Grow, writeableBytes, readableBytes
<1>4. Fits(b, l)
  BY <1>1, <1>2 DEF Fits, Splits
<1>5. s \in Seq(Cell)
  BY SeqMonotonic DEF Cell
<1>6. /\ InVector(new) /\ Held(new) = Held(b) \o s
      /\ new.size = z /\ new.r = r /\ Len(new.cells) = z
      /\ new.w = IF w + l < z THEN w + l ELSE w + l - z
  BY <1>1, <1>4, <1>5, VectorAppend
<1> HIDE DEF new, z, r, w, l
<1>7. new.w < z /\ (r = z => new.w > 0) /\ (new.w = r => new.w = 0)
  BY <1>1, <1>2, <1>6
<1>8. Ring(new)
  BY <1>1, <1>6, <1>7 DEF Ring, InVector
<1>9. QED
  BY <1>3, <1>4, <1>6, <1>8 DEF new, l

Prepended(b, s) ==
  LET start == PrependIndex(b, Len(s))
  IN  [Put(b, start, b.size, s) EXCEPT !.r = start]

(* prepend to a ring that has room puts the string before what is there.   *)
LEMMA RingPrepend ==
  ASSUME NEW b, Ring(b), NEW s \in Seq(Byte), Len(s) <= writeableBytes(b), s # <<>>
  PROVE  /\ ensurePlace(b, Len(s)) = b /\ PrependIndex(b, Len(s)) >= 0
         /\ Ring(Prepended(b, s)) /\ Held(Prepended(b, s)) = s \o Held(b)
<1> DEFINE n == readableBytes(b)
           z == b.size
           r == b.r
           w == b.w
           l == Len(s)
           start == PrependIndex(b, l)
           p == Put(b, start, z, s)
           new == Prepended(b, s)
           At(k) == Source(start, z, k)
<1>1. /\ r \in Nat /\ w \in Nat /\ z \in Nat /\ b \in Record /\ b.cells \in Seq(Cell)
      /\ Len(b.cells) = z /\ r <= z /\ w < z /\ l \in Nat /\ l > 0
      /\ (r = z => w > 0) /\ (w = r => w = 0)
  BY EmptySeq DEF Ring, Record
<1>2. n = (IF w >= r THEN w - r ELSE z - r + w) /\ l <= z - n - 1
  BY DEF readableBytes, writeableBytes
<1>3. start = IF w < r \/ r > l THEN r - l ELSE z + r - l
  BY DEF PrependIndex
<1>4. ensurePlace(b, l) = b
  BY <1>1, <1>2 DEF ensurePlace, Grow, writeableBytes
<1>0. new = [p EXCEPT !.r = start]
  BY DEF Prepended
<1> HIDE DEF n, z, r, w, l, start, p, new
<1>5. n \in Nat /\ start \in Nat /\ start <= z
  BY <1>1, <1>2, <1>3
<1>6. /\ p \in Record /\ p.size = z /\ p.w = w /\ Len(p.cells) = z
      /\ \A k \in 1 .. z : p.cells[k] = IF At(k) \in 1 .. l /\ (k <= start \/ k <= z)
                                        THEN s[At(k)] ELSE b.cells[k]
  <2>1. b \in Record /\ start \in Nat /\ z \in Nat /\ s \in Seq(Cell)
    BY <1>1, <1>5, SeqMonotonic DEF Cell
  <2>2. IsPut(p, b, start, z, s)
    BY ONLY <2>1, PutCells DEF p
  <2>3. QED
    BY <1>1, <2>2 DEF z, w, l, IsPut
<1>7. /\ new \in Record /\ new.size = z /\ new.r = start /\ new.w = w
      /\ Len(new.cells) = z /\ new.cells = p.cells
  BY <1>0, <1>5, <1>6 DEF Record
<1>8. Ring(new)
  <2>1. (start = z => w > 0) /\ (w = start => w = 0)
    BY <1>1, <1>2, <1>3
  <2>2. QED
    BY <1>1, <1>5, <1>7, <2>1 DEF Ring
<1>9. readableBytes(new) = n + l
  <2>1. readableBytes(new) = IF w >= start THEN w - start ELSE z - start + w
    BY <1>7 DEF readableBytes
  <2>2. QED
    BY <1>1, <1>2, <1>3, <2>1
<1>10. /\ Held(b) \in Seq(Cell) /\ Len(Held(b)) = n
       /\ \A k \in 1 .. n : Held(b)[k] = b.cells[Wrap(z, r + k)]
  BY RingHolds DEF n, z, r
<1>11. /\ Held(new) \in Seq(Cell) /\ Len(Held(new)) = n + l
       /\ \A k \in 1 .. n + l : Held(new)[k] = p.cells[Wrap(z, start + k)]
  <2>1. /\ Held(new) \in Seq(Cell) /\ Len(Held(new)) = readableBytes(new)
        /\ \A k \in 1 .. readableBytes(new) :
             Held(new)[k] = new.cells[Wrap(new.size, new.r + k)]
    BY ONLY <1>8, RingHolds
  <2>2. QED
    BY <1>7, <1>9, <2>1
<1>12. s \in Seq(Cell)
  BY SeqMonotonic DEF Cell
<1>13. /\ s \o Held(b) \in Seq(Cell) /\ Len(s \o Held(b)) = n + l
       /\ \A k \in 1 .. n + l : (s \o Held(b))[k] = IF k <= l THEN s[k] ELSE Held(b)[k - l]
  <2> DEFINE h == Held(b)
  <2>1. h \in Seq(Cell) /\ Len(h) = n /\ s \in Seq(Cell) /\ Len(s) = l
    BY <1>10, <1>12 DEF l
  <2> HIDE DEF h
  <2>2. /\ s \o h \in Seq(Cell) /\ Len(s \o h) = l + n
        /\ \A k \in 1 .. l + n : (s \o h)[k] = IF k <= l THEN s[k] ELSE h[k - l]
    BY ONLY <2>1, ConcatProperties
  <2>3. l + n = n + l
    BY <1>1, <1>5
  <2>4. QED
    BY <2>2, <2>3 DEF h
<1>14. ASSUME NEW k \in 1 .. n + l
       PROVE  Held(new)[k] = IF k <= l THEN s[k] ELSE Held(b)[k - l]
  <2> DEFINE c == Wrap(z, start + k)
  <2>1. c \in 1 .. z
    BY <1>1, <1>2, <1>3, <1>5 DEF Wrap
  <2>2. CASE k <= l
    <3>1. At(c) = k /\ At(c) \in 1 .. l /\ c <= z
      BY <1>1, <1>2, <1>3, <1>5, <2>2 DEF Wrap, Source
    <3>2. QED
      BY <1>6, <1>11, <2>1, <2>2, <3>1
  <2>3. CASE k > l
    <3>1. At(c) \notin 1 .. l /\ c = Wrap(z, r + (k - l))
      BY <1>1, <1>2, <1>3, <1>5, <2>3 DEF Wrap, Source
    <3>2. k - l \in 1 .. n
      BY <1>1, <1>5, <2>3
    <3>3. Held(new)[k] = p.cells[c]
      BY <1>11
    <3>4. p.cells[c] = b.cells[c]
      BY <1>6, <2>1, <3>1
    <3>5. Held(b)[k - l] = b.cells[Wrap(z, r + (k - l))]
      BY <1>10, <3>2
    <3>6. ~(k <= l)
      BY <1>1, <1>5, <2>3
    <3>7. QED
      BY <3>1, <3>3, <3>4, <3>5, <3>6
  <2>4. QED
    BY <1>1, <1>5, <2>2, <2>3
<1>15. Held(new) = s \o Held(b)
  BY <1>11, <1>13, <1>14, SeqEqual
<1>16. QED
  BY <1>4, <1>5, <1>8, <1>15 DEF l, start, new

(* Who reads from a ring gets what is first in it.                         *)
LEMMA RingReads ==
  ASSUME NEW b, Ring(b), NEW m \in 0 .. readableBytes(b)
  PROVE  /\ peekAsString(b, m) = SubSeq(Held(b), 1, m)
         /\ Gather(b, b.r, IF b.r <= b.w THEN b.w ELSE b.size, m) = SubSeq(Held(b), 1, m)
<1> DEFINE n == readableBytes(b)
           z == b.size
           r == b.r
           w == b.w
           end == IF r <= w THEN w ELSE z
           g == Gather(b, r, end, m)
<1>1. r \in Nat /\ w \in Nat /\ z \in Nat /\ r <= z /\ w < z
  BY DEF Ring, Record
<1>2. n = IF w >= r THEN w - r ELSE z - r + w
  BY DEF readableBytes
<1>3. /\ Held(b) \in Seq(Cell) /\ Len(Held(b)) = n /\ n \in Nat
      /\ \A k \in 1 .. n : Held(b)[k] = b.cells[Wrap(z, r + k)]
      /\ peekAsString(b, m) \in Seq(Cell) /\ Len(peekAsString(b, m)) = m
      /\ \A k \in 1 .. m : peekAsString(b, m)[k] = b.cells[Wrap(z, r + k)]
  BY RingHolds
<1>4. g = [k \in 1 .. m |-> IF r + k <= end THEN b.cells[r + k] ELSE b.cells[r + k - end]]
  BY DEF Gather
<1>5. m \in 0 .. n
  OBVIOUS
<1> HIDE DEF n, z, r, w, end, g
<1>6. /\ SubSeq(Held(b), 1, m) \in Seq(Cell) /\ Len(SubSeq(Held(b), 1, m)) = m
      /\ \A k \in 1 .. m : SubSeq(Held(b), 1, m)[k] = Held(b)[k]
  <2>1. /\ 1 \in Int /\ m \in Int
        /\ \A k \in 1 .. m : Held(b)[k] \in Cell
    BY <1>3, <1>5, ElementOfSeq
  <2>2. QED
    BY <1>3, <1>5, <2>1, SubSeqProperties
<1>7. peekAsString(b, m) = SubSeq(Held(b), 1, m)
  BY <1>3, <1>5, <1>6, SeqEqual
<1>8. ASSUME NEW k \in 1 .. m
      PROVE  Wrap(z, r + k) = IF r + k <= end THEN r + k ELSE r + k - end
  BY <1>1, <1>2, <1>5 DEF Wrap, end
<1>9. DOMAIN g = 1 .. m /\ \A k \in 1 .. m : g[k] = peekAsString(b, m)[k]
  BY <1>3, <1>4, <1>8
<1>10. g = peekAsString(b, m)
  BY <1>3, <1>4, <1>9
<1>11. QED
  BY <1>7, <1>10 DEF g, end, z, r, w

(* retrieve of less than a ring holds takes what is first.                 *)
LEMMA RingRetrieve ==
  ASSUME NEW b, Ring(b), NEW m \in 0 .. readableBytes(b) - 1
  PROVE  LET new == retrieved(b, m)
         IN  Ring(new) /\ Held(new) = SubSeq(Held(b), m + 1, Len(Held(b)))
<1> DEFINE z == b.size
           r == b.r
           w == b.w
           new == retrieved(b, m)
<1>1. /\ r \in Nat /\ w \in Nat /\ z \in Nat /\ Len(b.cells) = z /\ r <= z /\ w < z
      /\ (r = z => w > 0) /\ InVector(b) /\ readableBytes(b) \in Nat
  BY RingHolds DEF Ring, Record
<1>2. m \in Nat /\ m < IF w >= r THEN w - r ELSE z - r + w
  BY <1>1 DEF readableBytes
<1>3. m \in 0 .. readableBytes(b)
  BY <1>1
<1>4. /\ InVector(new) /\ Held(new) = SubSeq(Held(b), m + 1, Len(Held(b)))
      /\ new.cells = b.cells /\ new.size = z /\ new.w = w
      /\ new.r = IF r + m < z THEN r + m ELSE r + m - z
  BY <1>1, <1>3, VectorRetrieve
<1> HIDE DEF new, z, r, w
<1>5. new.r < z /\ new.r # w
  BY <1>1, <1>2, <1>4
<1>6. Ring(new)
  BY <1>1, <1>4, <1>5 DEF Ring, InVector
<1>7. QED
  BY <1>4, <1>6 DEF new

-----------------------------------------------------------------------------
(* Buffers that begin at index 0.                                          *)

LEMMA AtZeroReads ==
  ASSUME NEW b, AtZero(b), NEW m \in 0 .. readableBytes(b), NEW end \in Nat, m <= end
  PROVE  Gather(b, 0, end, m) = SubSeq(Held(b), 1, m)
<1> DEFINE c == b.cells
           h == Held(b)
           g == Gather(b, 0, end, m)
           q == SubSeq(h, 1, m)
<1>1. /\ h \in Seq(Cell) /\ m \in 0 .. Len(h) /\ Len(h) \in Nat
      /\ \A k \in 1 .. Len(h) : h[k] = c[k]
  <2>1. b.w \in Nat
    BY DEF AtZero, Record
  <2>2. QED
    BY <2>1, AtZeroHolds
<1>2. g = [k \in 1 .. m |-> IF 0 + k <= end THEN c[0 + k] ELSE c[0 + k - end]]
  BY DEF Gather
<1> HIDE DEF c, h, g, q
<1>3. DOMAIN g = 1 .. m /\ \A k \in 1 .. m : g[k] = h[k]
  BY <1>1, <1>2
<1>4. \A k \in 1 .. m : h[k] \in Cell
  BY <1>1, ElementOfSeq
<1>5. g \in Seq(Cell) /\ Len(g) = m
  <2>1. g \in [1 .. m -> Cell] /\ m \in Nat
    BY <1>1, <1>2, <1>3, <1>4
  <2>2. QED
    BY <2>1
<1>6. /\ q \in Seq(Cell) /\ Len(q) = m
      /\ \A k \in 1 .. m : q[k] = h[k]
  <2>1. 1 \in Int /\ m \in Int
    BY <1>1
  <2>2. QED
    BY <1>1, <1>4, <2>1, SubSeqProperties DEF q
<1>7. g = q
  BY <1>3, <1>5, <1>6, SeqEqual
<1>8. QED
  BY <1>7 DEF g, q, h

(* readFd: what does not fit goes through extrabuf and append.             *)
LEMMA AtZeroReadFd ==
  ASSUME NEW b, AtZero(b), NEW s \in Seq(Byte)
  PROVE  LET n == Min({Len(s), writeableBytes(b)})
             end == IF b.w >= b.r THEN b.size - 1 ELSE b.r - 1
             filled == [Put(b, b.w, end, SubSeq(s, 1, n)) EXCEPT
                          !.w = (b.w + n) % Capacity(b)]
             extra == SubSeq(s, n + 1, Len(s))
             new == IF extra = <<>> THEN filled
                    ELSE Appended(ensurePlace(filled, Len(extra)), extra)
         IN  /\ AtZero(new) /\ Held(new) = Held(b) \o s
             /\ Fits(ensurePlace(filled, Len(extra)), Len(extra))
<1> DEFINE n == Min({Len(s), writeableBytes(b)})
           end == IF b.w >= b.r THEN b.size - 1 ELSE b.r - 1
           part == SubSeq(s, 1, n)
           filled == [Put(b, b.w, end, part) EXCEPT !.w = (b.w + n) % Capacity(b)]
           extra == SubSeq(s, n + 1, Len(s))
           new == IF extra = <<>> THEN filled
                  ELSE Appended(ensurePlace(filled, Len(extra)), extra)
<1>1. /\ b.w \in Nat /\ b.size \in Nat /\ b.w < b.size /\ b.r = 0 /\ Len(s) \in Nat
  BY DEF AtZero, Record
<1>2. writeableBytes(b) = b.size - b.w - 1
  BY AtZeroHolds DEF writeableBytes
<1>3. n = IF Len(s) <= writeableBytes(b) THEN Len(s) ELSE writeableBytes(b)
  <2>1. Len(s) \in Int /\ writeableBytes(b) \in Int
    BY <1>1, <1>2
  <2>2. QED
    BY <2>1, SmallerOfTwo
<1>4. end = b.size - 1
  BY <1>1
<1> HIDE DEF n, end
<1>5. n \in 0 .. Len(s) /\ n \in Nat /\ b.w + n < b.size /\ b.w + n <= end /\ end \in Nat
  BY <1>1, <1>2, <1>3, <1>4
<1>6. part \in Seq(Byte) /\ Len(part) = n /\ extra \in Seq(Byte)
  <2>1. \A k \in 1 .. Len(s) : s[k] \in Byte
    BY ElementOfSeq
  <2>2. part \in Seq(Byte) /\ Len(part) = n
    <3>1. 1 \in Int /\ n \in Int /\ \A k \in 1 .. n : s[k] \in Byte
      BY <1>1, <1>5, <2>1
    <3>2. QED
      BY <1>5, <3>1, SubSeqProperties
  <2>3. extra \in Seq(Byte)
    <3>1. /\ n + 1 \in Int /\ Len(s) \in Int
          /\ \A k \in n + 1 .. Len(s) : s[k] \in Byte
      BY <1>1, <1>5, <2>1
    <3>2. QED
      BY <3>1, SubSeqProperties
  <2>4. QED
    BY <2>2, <2>3
<1>7. part \o extra = s
  <2>1. SubSeq(s, 1, n) \o SubSeq(s, n + 1, Len(s)) = SubSeq(s, 1, Len(s))
    <3>1. 1 \in 1 .. Len(s) + 1 /\ n \in 1 - 1 .. Len(s) /\ Len(s) \in n .. Len(s)
      BY <1>1, <1>5
    <3>2. QED
      BY <3>1, ConcatAdjacentSubSeq
  <2>2. SubSeq(s, 1, Len(s)) = s
    BY SubSeqFull
  <2>3. QED
    BY <2>1, <2>2
<1>8. filled = [Put(b, b.w, end, part) EXCEPT !.w = (b.w + Len(part)) % Capacity(b)]
  BY <1>6
<1> HIDE DEF part, filled, extra
<1>9. AtZero(filled) /\ Held(filled) = Held(b) \o part
  <2>1. /\ AtZero(b) /\ part \in Seq(Cell) /\ end \in Nat
        /\ b.w + Len(part) < b.size /\ b.w + Len(part) <= end
        /\ filled = [Put(b, b.w, end, part) EXCEPT !.w = (b.w + Len(part)) % Capacity(b)]
    BY <1>5, <1>6, <1>8, SeqMonotonic DEF Cell
  <2>2. QED
    BY ONLY <2>1, AtZeroPut
<1>10. extra \in Seq(Cell) /\ Fits(ensurePlace(filled, Len(extra)), Len(extra))
  <2>1. extra \in Seq(Cell)
    BY <1>6, SeqMonotonic DEF Cell
  <2>2. QED
    BY <1>9, <2>1, AtZeroAppend
<1>11. CASE extra = <<>>
  <2>1. part = s
    BY <1>6, <1>7, <1>11, ConcatEmptySeq
  <2>2. QED
    BY <1>9, <1>11, <1>10, <2>1 DEF filled, part, extra, n, end
<1>12. CASE extra # <<>>
  <2>1. AtZero(new) /\ Held(new) = (Held(b) \o part) \o extra
    BY <1>9, <1>12, <1>10, AtZeroAppend
  <2>2. Held(b) \in Seq(Cell) /\ part \in Seq(Cell) /\ extra \in Seq(Cell)
    BY <1>6, <1>10, AtZeroHolds, SeqMonotonic DEF Cell
  <2>3. (Held(b) \o part) \o extra = Held(b) \o s
    <3> DEFINE h == Held(b)
    <3>1. h \in Seq(Cell) /\ part \in Seq(Cell) /\ extra \in Seq(Cell)
      BY <2>2
    <3> HIDE DEF h
    <3>2. (h \o part) \o extra = h \o (part \o extra)
      BY ONLY <3>1, ConcatAssociative
    <3>3. QED
      BY <1>7, <3>2 DEF h
  <2>4. QED
    BY <1>10, <2>1, <2>3 DEF filled, part, extra, n, end
<1>13. QED
  BY <1>11, <1>12

(* Min of a set of numbers that has one.                                   *)
LEMMA LeastOf ==
  ASSUME NEW T \in SUBSET Nat, T # {}
  PROVE  Min(T) \in T /\ \A y \in T : Min(T) <= y
<1> DEFINE R == OpToRel(<, Nat)
<1>1. IsWellFoundedOn(R, Nat)
  BY NatLessThanWellFounded
<1>2. \A x, y \in Nat : x < y => <<x, y>> \in R
  BY DEF OpToRel
<1> HIDE DEF R
<1>3. PICK x \in T : \A y \in T : ~ (<<y, x>> \in R)
  BY <1>1, WFMin
<1>4. \A y \in T : x <= y
  <2> TAKE y \in T
  <2>1. x \in Nat /\ y \in Nat
    OBVIOUS
  <2>2. ~ (y < x)
    BY <1>2, <1>3, <2>1
  <2>3. QED
    BY <2>1, <2>2
<1>5. QED
  BY <1>3, <1>4 DEF Min

LEMMA OneElement ==
  ASSUME NEW S, NEW q \in Seq(S), NEW k \in 1 .. Len(q)
  PROVE  SubSeq(q, k, k) = <<q[k]>>
<1>1. k \in Int /\ \A i \in k .. k : q[i] \in S
  BY ElementOfSeq
<1>2. /\ SubSeq(q, k, k) \in Seq(S) /\ Len(SubSeq(q, k, k)) = 1
      /\ SubSeq(q, k, k)[1] = q[k]
  BY <1>1, SubSeqProperties
<1>3. <<q[k]>> \in Seq(S) /\ Len(<<q[k]>>) = 1 /\ <<q[k]>>[1] = q[k]
  BY <1>1
<1> DEFINE one == <<q[k]>>
           part == SubSeq(q, k, k)
<1> HIDE DEF one, part
<1>4. \A i \in 1 .. Len(part) : part[i] = one[i]
  BY <1>2, <1>3 DEF one, part
<1>5. part = one
  BY <1>2, <1>3, <1>4, SeqEqual DEF one, part
<1>6. QED
  BY <1>5 DEF one, part

(* Where the first occurrence of a string begins, counted from 1.          *)
Found(q, s) ==
  { k \in 1 .. Len(q) : k + Len(s) - 1 <= Len(q) /\ SubSeq(q, k, k + Len(s) - 1) = s }

(* findEOL finds the first '\n' there is.                                  *)
LEMMA AtZeroFindEOL ==
  ASSUME NEW b, AtZero(b), ~empty(b)
  PROVE  IF Found(Held(b), <<LF>>) = {} THEN findEOL(b) = NullPointer
         ELSE findEOL(b) = Min(Found(Held(b), <<LF>>)) - 1 /\ findEOL(b) \in Nat
<1> DEFINE w == b.w
           c == b.cells
           h == Held(b)
           F == { i \in 0 .. w - 1 : c[i + 1] = LF }
           G == { k \in 1 .. w : c[k] = LF }
           first == Search(b, 0, w, <<LF>>)
           found == Found(h, <<LF>>)
<1>1. /\ w \in Nat /\ w > 0 /\ c \in Seq(Cell) /\ w <= Len(c) /\ b.r = 0
      /\ h \in Seq(Cell) /\ Len(h) = w /\ \A k \in 1 .. w : h[k] = c[k]
  BY AtZeroHolds DEF AtZero, Record, empty
<1>2. findEOL(b) = IF first = w THEN NullPointer ELSE first
  BY <1>1 DEF findEOL
<1> HIDE DEF w, c, h
<1>3. first = IF F = {} THEN w ELSE Min(F)
  <2> DEFINE S == { i \in 0 .. w - 1 : SubSeq(c, i + 1, i + 1) = <<LF>> }
  <2>1. first = IF S = {} THEN w ELSE Min(S)
    BY DEF Search, c
  <2>2. ASSUME NEW i \in 0 .. w - 1
        PROVE  SubSeq(c, i + 1, i + 1) = <<LF>> <=> c[i + 1] = LF
    <3>1. i + 1 \in 1 .. Len(c)
      BY <1>1
    <3>2. SubSeq(c, i + 1, i + 1) = <<c[i + 1]>>
      BY <1>1, <3>1, OneElement
    <3>3. QED
      BY <3>2
  <2>3. S = F
    BY <2>2
  <2> HIDE DEF S, F, first
  <2>4. QED
    BY <2>1, <2>3
<1>4. found = G
  <2>1. ASSUME NEW k \in 1 .. w
        PROVE  (k + 1 - 1 <= w /\ SubSeq(h, k, k + 1 - 1) = <<LF>>) <=> c[k] = LF
    <3>1. k + 1 - 1 = k /\ k <= w /\ k \in 1 .. Len(h) /\ h[k] = c[k]
      BY <1>1
    <3>2. SubSeq(h, k, k) = <<h[k]>>
      BY <1>1, <3>1, OneElement
    <3>3. QED
      BY <3>1, <3>2
  <2>2. found = { k \in 1 .. w : k + 1 - 1 <= w /\ SubSeq(h, k, k + 1 - 1) = <<LF>> }
    BY <1>1 DEF Found
  <2>3. QED
    BY <2>1, <2>2
<1>5. F \in SUBSET Nat /\ G \in SUBSET Nat
  BY <1>1
<1>6. CASE F = {}
  <2>1. G = {}
    <3> SUFFICES ASSUME NEW k \in G PROVE FALSE
      OBVIOUS
    <3>1. k - 1 \in 0 .. w - 1 /\ c[(k - 1) + 1] = LF
      BY <1>1
    <3>2. QED
      BY <1>6, <3>1
  <2>2. QED
    BY <1>2, <1>3, <1>4, <1>6, <2>1 DEF h
<1>7. CASE F # {}
  <2>1. Min(F) \in F /\ \A y \in F : Min(F) <= y
    BY <1>5, <1>7, LeastOf
  <2> DEFINE m == Min(F)
  <2> HIDE DEF m
  <2>2. m \in 0 .. w - 1 /\ c[m + 1] = LF
    BY <2>1 DEF m
  <2>3. m + 1 \in G
    BY <1>1, <2>2
  <2>4. \A k \in G : m + 1 <= k
    <3> TAKE k \in G
    <3>1. k - 1 \in F
      BY <1>1
    <3>2. m <= k - 1
      BY <2>1, <3>1 DEF m
    <3>3. QED
      BY <1>1, <2>2, <3>2
  <2>5. Min(G) \in G /\ \A y \in G : Min(G) <= y
    BY <1>5, <2>3, LeastOf
  <2>6. Min(G) = m + 1
    <3> DEFINE g == Min(G)
    <3> HIDE DEF g
    <3>1. g \in G /\ g <= m + 1 /\ m + 1 <= g
      BY <2>3, <2>4, <2>5 DEF g
    <3>2. g \in Int /\ m + 1 \in Int
      BY <1>1, <2>2, <3>1
    <3>3. QED
      BY <3>1, <3>2 DEF g
  <2>7. first = m /\ m # w /\ m = Min(G) - 1 /\ m \in Nat
    BY <1>1, <1>3, <1>7, <2>2, <2>6 DEF m
  <2>8. findEOL(b) = m
    BY <1>2, <2>7
  <2>9. QED
    BY <1>4, <2>3, <2>7, <2>8 DEF h
<1>8. QED
  BY <1>6, <1>7

-----------------------------------------------------------------------------
(* The two ways of using a buffer: what RingCaller and StreamCaller allow  *)
(* is what MCBuffer's Ring and Stream do.                                  *)

RingOps == {"append", "prepend", "retrieve", "retrieveAsString", "retrieveAll",
            "writeFd", "empty"}
StreamOps == {"append", "readFd", "peek", "retrieveAll", "writeFd", "empty", "findEOL"}

RingCaller(c) ==
  /\ c.checksRoom /\ c.resetsDrained
  /\ c.ops \subseteq RingOps
  /\ "prepend" \in c.ops => MinLen = 1

StreamCaller(c) == ~c.checksRoom /\ c.ops \subseteq StreamOps

DisciplinedCallers == \A c \in Callers : RingCaller(c) \/ StreamCaller(c)

(* Whoever uses a buffer as a ring finds a ring, whoever uses it as a      *)
(* stream finds one that begins at index 0.                                *)
InShape(c, b) == (RingCaller(c) /\ Ring(b)) \/ (StreamCaller(c) /\ AtZero(b))
BufferInv == inBounds /\ InShape(caller, Buf)

LEMMA StringsAre ==
  ASSUME NEW s \in Strings
  PROVE  s \in Seq(Byte) /\ Len(s) \in Nat /\ (MinLen = 1 => s # <<>>)
<1>1. PICK n \in MinLen .. MaxLen : s \in [1 .. n -> Byte]
  BY DEF Strings
<1>2. n \in Nat /\ (MinLen = 1 => n > 0)
  BY <1>1, BufferAssumption
<1>3. s \in Seq(Byte) /\ Len(s) = n
  BY <1>1, <1>2
<1>4. QED
  BY <1>2, <1>3, EmptySeq

LEMMA InShapeIsRecord ==
  ASSUME NEW c, NEW b, InShape(c, b) PROVE b \in Record
BY DEF InShape, Ring, AtZero

(* What a step makes of the buffer.                                        *)
LEMMA NowIs ==
  ASSUME BufferInv, UNCHANGED caller, inBounds', NEW b, Becomes(b), InShape(caller, b)
  PROVE  BufferInv' /\ Contents' = Held(b)
<1>1. b \in Record
  BY InShapeIsRecord
<1>2. Buf' = b
  <2>1. b = [cells |-> b.cells, size |-> b.size, r |-> b.r, w |-> b.w]
    BY <1>1 DEF Record
  <2>2. QED
    BY <2>1 DEF Becomes, Buf
<1>3. Contents' = Held(b)
  BY <1>2 DEF Contents, Held, peekAsString, readableBytes, Gather
<1>4. InShape(caller, Buf)'
  BY <1>2 DEF InShape, RingCaller, StreamCaller, Ring, AtZero, Record
<1>5. QED
  BY <1>3, <1>4 DEF BufferInv

LEMMA NothingChanges ==
  ASSUME BufferInv, UNCHANGED caller, Unchanged
  PROVE  BufferInv' /\ UNCHANGED Contents
<1>1. Buf' = Buf /\ (inBounds' <=> inBounds)
  BY DEF Unchanged, Buf
<1>2. UNCHANGED Contents
  BY <1>1 DEF Contents, Held, peekAsString, readableBytes, Gather
<1>3. QED
  BY <1>1, <1>2 DEF BufferInv, InShape, RingCaller, StreamCaller, Ring, AtZero, Record

LEMMA ShapeHolds ==
  ASSUME BufferInv
  PROVE  /\ Contents = Held(Buf) /\ Contents \in Seq(Cell)
         /\ Len(Contents) = readableBytes(Buf) /\ readableBytes(Buf) \in Nat
         /\ empty(Buf) = (Contents = <<>>)
<1>1. Contents = Held(Buf)
  BY DEF Contents
<1>2. /\ Held(Buf) \in Seq(Cell) /\ Len(Held(Buf)) = readableBytes(Buf)
      /\ readableBytes(Buf) \in Nat /\ (readableBytes(Buf) = 0 <=> Buf.w = Buf.r)
  <2>1. CASE Ring(Buf)
    <3>1. Buf.size \in Nat
      BY <2>1 DEF Ring, Record
    <3>2. QED
      BY <2>1, <3>1, RingHolds
  <2>2. CASE AtZero(Buf)
    <3>1. Buf.w \in Nat /\ Buf.r = 0
      BY <2>2 DEF AtZero, Record
    <3>2. QED
      BY <2>2, <3>1, AtZeroHolds
  <2>3. QED
    BY <2>1, <2>2 DEF BufferInv, InShape
<1>3. Held(Buf) = <<>> <=> readableBytes(Buf) = 0
  BY <1>2, EmptySeq
<1>4. QED
  BY <1>1, <1>2, <1>3 DEF empty

(* One lemma per operation: the shape is kept, and the queue does the same.*)
LEMMA AppendStep ==
  ASSUME BufferInv, NEW s \in Strings, AppendBytes(s)
  PROVE  BufferInv' /\ Queue!Put
<1> DEFINE place == ensurePlace(Buf, Len(s))
           new == Appended(place, s)
<1>1. s \in Seq(Byte) /\ UNCHANGED caller /\ Becomes(new)
  BY StringsAre DEF AppendBytes, Writes, Uses, append
<1>2. inBounds' = Fits(place, Len(s))
  BY DEF AppendBytes, append
<1>3. call'.op = "append" /\ call'.string = s
  BY DEF AppendBytes, Writes
<1>4. /\ Fits(place, Len(s))
      /\ InShape(caller, new) /\ Held(new) = Held(Buf) \o s
  <2>1. CASE RingCaller(caller) /\ Ring(Buf)
    <3>1. Len(s) <= writeableBytes(Buf)
      BY <2>1 DEF AppendBytes, Writes, RingCaller
    <3>2. /\ place = Buf
          /\ Fits(Buf, Len(s))
          /\ Ring(Appended(Buf, s)) /\ Held(Appended(Buf, s)) = Held(Buf) \o s
      BY <1>1, <2>1, <3>1, RingAppend
    <3>3. QED
      BY <2>1, <3>2 DEF InShape
  <2>2. CASE StreamCaller(caller) /\ AtZero(Buf)
    <3>1. s \in Seq(Cell)
      BY <1>1, SeqMonotonic DEF Cell
    <3>2. Fits(place, Len(s)) /\ AtZero(new) /\ Held(new) = Held(Buf) \o s
      BY <2>2, <3>1, AtZeroAppend
    <3>3. QED
      BY <2>2, <3>2 DEF InShape
  <2>3. QED
    BY <2>1, <2>2 DEF BufferInv, InShape
<1>5. inBounds'
  BY <1>2, <1>4
<1> HIDE DEF new, place
<1>6. BufferInv' /\ Contents' = Held(new)
  BY <1>1, <1>4, <1>5, NowIs
<1>7. Contents' = Contents \o call'.string
  BY <1>3, <1>4, <1>6, ShapeHolds
<1>8. QED
  BY <1>3, <1>6, <1>7 DEF Queue!Put

LEMMA PrependStep ==
  ASSUME BufferInv, NEW s \in Strings, PrependBytes(s)
  PROVE  BufferInv' /\ Queue!PutInFront
<1> DEFINE new == Prepended(Buf, s)
<1>1. s \in Seq(Byte) /\ UNCHANGED caller /\ "prepend" \in caller.ops
  BY StringsAre DEF PrependBytes, Writes, Uses
<1>2. call'.op = "prepend" /\ call'.string = s
  BY DEF PrependBytes, Writes
<1>3. RingCaller(caller) /\ Ring(Buf)
  BY <1>1 DEF BufferInv, InShape, StreamCaller, StreamOps
<1>4. s # <<>>
  BY <1>1, <1>3, StringsAre DEF RingCaller
<1>5. Len(s) <= writeableBytes(Buf) /\ PrependChars(s)
  BY <1>3 DEF PrependBytes, Writes, RingCaller, RingOps
<1>6. /\ ensurePlace(Buf, Len(s)) = Buf /\ PrependIndex(Buf, Len(s)) >= 0
      /\ Ring(new) /\ Held(new) = s \o Held(Buf)
  BY <1>1, <1>3, <1>4, <1>5, RingPrepend
<1>7. Becomes(new)
  BY <1>5, <1>6 DEF PrependChars, Prepended
<1>8. inBounds'
  BY <1>5, <1>6 DEF PrependChars
<1> HIDE DEF new
<1>9. InShape(caller, new)
  BY <1>3, <1>6 DEF InShape
<1>10. BufferInv' /\ Contents' = Held(new)
  BY <1>1, <1>7, <1>8, <1>9, NowIs
<1>11. Contents' = call'.string \o Contents
  BY <1>2, <1>6, <1>10, ShapeHolds
<1>12. QED
  BY <1>2, <1>10, <1>11 DEF Queue!PutInFront

LEMMA ReadFdStep ==
  ASSUME BufferInv, NEW s \in Strings, ReadFd(s)
  PROVE  BufferInv' /\ Queue!Put
<1> DEFINE n == Min({Len(s), writeableBytes(Buf)})
           end == IF Buf.w >= Buf.r THEN Buf.size - 1 ELSE Buf.r - 1
           filled == [Put(Buf, Buf.w, end, SubSeq(s, 1, n)) EXCEPT
                        !.w = (Buf.w + n) % Capacity(Buf)]
           extra == SubSeq(s, n + 1, Len(s))
           new == IF extra = <<>> THEN filled
                  ELSE Appended(ensurePlace(filled, Len(extra)), extra)
<1>1. s \in Seq(Byte) /\ UNCHANGED caller /\ "readFd" \in caller.ops
  BY StringsAre DEF ReadFd, Writes, Uses
<1>2. call'.op = "readFd" /\ call'.string = s
  BY DEF ReadFd, Writes
<1>3. StreamCaller(caller) /\ AtZero(Buf)
  BY <1>1 DEF BufferInv, InShape, RingCaller, RingOps
<1>4. Buf.w = writeIndex_ /\ Buf.r = readIndex_ /\ Buf.size = size
  BY DEF Buf
<1>5. /\ Becomes(new)
      /\ inBounds' = (/\ extra # <<>> => Fits(ensurePlace(filled, Len(extra)), Len(extra))
                      /\ "readError" \notin caller.ops)
  BY <1>4 DEF ReadFd
<1>6. /\ AtZero(new) /\ Held(new) = Held(Buf) \o s
      /\ Fits(ensurePlace(filled, Len(extra)), Len(extra))
  BY <1>1, <1>3, AtZeroReadFd
<1>7. inBounds'
  BY <1>3, <1>5, <1>6 DEF StreamCaller, StreamOps
<1> HIDE DEF new, filled, extra
<1>8. InShape(caller, new)
  BY <1>3, <1>6 DEF InShape
<1>9. BufferInv' /\ Contents' = Held(new)
  BY <1>1, <1>5, <1>7, <1>8, NowIs
<1>10. Contents' = Contents \o call'.string
  BY <1>2, <1>6, <1>9, ShapeHolds
<1>11. QED
  BY <1>2, <1>9, <1>10 DEF Queue!Put

LEMMA LookStep ==
  ASSUME BufferInv, NEW n \in 1 .. MaxLen, Peek(n) \/ WriteFd(n)
  PROVE  BufferInv' /\ Queue!Look
<1>1. UNCHANGED caller /\ Unchanged /\ n \in 0 .. readableBytes(Buf)
  BY ShapeHolds DEF Peek, WriteFd, Reads, Uses
<1>2. call'.op \in {"peek", "writeFd"} /\ call'.length = n
  BY DEF Peek, WriteFd, Reads
<1>3. BufferInv' /\ UNCHANGED Contents
  BY <1>1, NothingChanges
<1>4. call'.result = SubSeq(Held(Buf), 1, n)
  <2>1. CASE Peek(n)
    <3>1. AtZero(Buf)
      BY <2>1 DEF Peek, Reads, Uses, BufferInv, InShape, RingCaller, RingOps
    <3>2. readIndex_ = 0 /\ size \in Nat /\ n < size /\ n <= size
      <4>1. readableBytes(Buf) < Buf.size /\ Buf.r = 0 /\ Buf.size \in Nat /\ Buf.w \in Nat
        BY <3>1, AtZeroHolds DEF AtZero, Record
      <4>2. QED
        BY <1>1, <4>1, AtZeroHolds, <3>1 DEF Buf
    <3>3. call'.result = Gather(Buf, 0, size, n)
      BY <2>1, <3>2 DEF Peek, Reads
    <3>4. QED
      BY <1>1, <3>1, <3>2, <3>3, AtZeroReads
  <2>2. CASE WriteFd(n)
    <3> DEFINE end == IF Buf.r <= Buf.w THEN Buf.w ELSE Buf.size
    <3>1. call'.result = Gather(Buf, Buf.r, end, n)
      BY <2>2 DEF WriteFd, Reads, Buf
    <3>2. CASE Ring(Buf)
      BY <1>1, <3>1, <3>2, RingReads
    <3>3. CASE AtZero(Buf)
      <4>1. Buf.r = 0 /\ Buf.w \in Nat /\ end = Buf.w /\ n <= end
        BY <1>1, <3>3, AtZeroHolds DEF AtZero, Record
      <4>2. call'.result = Gather(Buf, 0, end, n) /\ end \in Nat
        BY <3>1, <4>1
      <4> HIDE DEF end
      <4>3. QED
        BY <1>1, <3>3, <4>1, <4>2, AtZeroReads
    <3>4. QED
      BY <3>2, <3>3 DEF BufferInv, InShape
  <2>3. QED
    BY <2>1, <2>2
<1>5. QED
  BY <1>2, <1>3, <1>4, ShapeHolds DEF Queue!Look, Queue!First

LEMMA RetrieveStep ==
  ASSUME BufferInv, NEW n \in 1 .. MaxLen, Retrieve(n) \/ RetrieveAsString(n)
  PROVE  BufferInv' /\ (Queue!Drop \/ Queue!Take)
<1> DEFINE new == retrieved(Buf, n)
<1>1. /\ UNCHANGED caller /\ n <= readableBytes(Buf)
      /\ caller.resetsDrained => n < readableBytes(Buf)
      /\ {"retrieve", "retrieveAsString"} \cap caller.ops # {}
  BY DEF Retrieve, RetrieveAsString, Removes, Reads, Uses
<1>2. RingCaller(caller) /\ Ring(Buf)
  BY <1>1 DEF BufferInv, InShape, StreamCaller, StreamOps
<1>3. n \in 0 .. readableBytes(Buf) - 1 /\ n \in 0 .. readableBytes(Buf)
  BY <1>1, <1>2, ShapeHolds DEF RingCaller
<1>4. retrieve(n)
  BY <1>2 DEF Retrieve, RetrieveAsString, RingCaller, RingOps
<1>5. Becomes(new) /\ inBounds'
  BY <1>4 DEF retrieve, Buf, BufferInv
<1>6. Ring(new) /\ Held(new) = SubSeq(Held(Buf), n + 1, Len(Held(Buf)))
  BY <1>2, <1>3, RingRetrieve
<1> HIDE DEF new
<1>7. InShape(caller, new)
  BY <1>2, <1>6 DEF InShape
<1>8. BufferInv' /\ Contents' = Held(new)
  BY <1>1, <1>5, <1>7, NowIs
<1>9. call'.length = n /\ Contents' = SubSeq(Contents, n + 1, Len(Contents))
  BY <1>6, <1>8, ShapeHolds DEF Retrieve, RetrieveAsString, Removes, Reads
<1>10. CASE Retrieve(n)
  <2>1. call'.op = "retrieve"
    BY <1>10 DEF Retrieve, Removes, Reads
  <2>2. QED
    BY <1>8, <1>9, <2>1 DEF Queue!Drop, Queue!After
<1>11. CASE RetrieveAsString(n)
  <2>1. call'.op = "retrieveAsString" /\ call'.result = peekAsString(Buf, n)
    BY <1>11 DEF RetrieveAsString, Removes, Reads
  <2>2. call'.result = SubSeq(Contents, 1, n)
    BY <1>2, <1>3, <2>1, RingReads, ShapeHolds
  <2>3. QED
    BY <1>8, <1>9, <2>1, <2>2 DEF Queue!Take, Queue!First, Queue!After
<1>12. QED
  BY <1>10, <1>11

LEMMA RetrieveAllStep ==
  ASSUME BufferInv, RetrieveAllAsString
  PROVE  BufferInv' /\ Queue!Take
<1> DEFINE new == [Buf EXCEPT !.r = 0, !.w = 0]
<1>1. UNCHANGED caller /\ Becomes(new) /\ inBounds'
  BY DEF RetrieveAllAsString, Reads, Uses, BufferInv
<1>2. /\ call'.op = "retrieveAll" /\ call'.result = Contents
      /\ call'.length = Len(Contents)
  BY ShapeHolds DEF RetrieveAllAsString, Reads
<1>3. Buf \in Record
  BY InShapeIsRecord DEF BufferInv
<1>4. /\ new \in Record /\ new.r = 0 /\ new.w = 0 /\ new.size = Buf.size
      /\ new.cells = Buf.cells
  BY <1>3 DEF Record
<1> HIDE DEF new
<1>5. readableBytes(new) = 0
  BY <1>4 DEF readableBytes
<1>6. InShape(caller, new) /\ Held(new) = <<>>
  <2>1. CASE RingCaller(caller) /\ Ring(Buf)
    <3>1. Ring(new)
      BY <1>3, <1>4, <2>1 DEF Ring, Record
    <3>2. Held(new) \in Seq(Cell) /\ Len(Held(new)) = 0
      BY <1>5, <3>1, RingHolds
    <3>3. QED
      BY <2>1, <3>1, <3>2, EmptySeq DEF InShape
  <2>2. CASE StreamCaller(caller) /\ AtZero(Buf)
    <3>1. AtZero(new)
      BY <1>3, <1>4, <2>2 DEF AtZero, Record
    <3>2. Held(new) \in Seq(Cell) /\ Len(Held(new)) = 0
      BY <1>4, <3>1, AtZeroHolds
    <3>3. QED
      BY <2>2, <3>1, <3>2, EmptySeq DEF InShape
  <2>3. QED
    BY <2>1, <2>2 DEF BufferInv, InShape
<1>7. BufferInv' /\ Contents' = <<>>
  BY <1>1, <1>6, NowIs
<1>8. SubSeq(Contents, 1, Len(Contents)) = Contents
  BY ShapeHolds, SubSeqFull
<1>9. SubSeq(Contents, Len(Contents) + 1, Len(Contents)) = <<>>
  <2>1. Len(Contents) \in Int /\ Len(Contents) + 1 \in Int /\ Len(Contents) < Len(Contents) + 1
    BY ShapeHolds
  <2>2. QED
    BY <2>1, SubSeqEmpty
<1>10. QED
  BY <1>2, <1>7, <1>8, <1>9 DEF Queue!Take, Queue!First, Queue!After

LEMMA IsEmptyStep ==
  ASSUME BufferInv, IsEmpty
  PROVE  BufferInv' /\ Queue!IsEmpty
<1>1. UNCHANGED caller /\ Unchanged
  BY DEF IsEmpty, Reads, Uses
<1>2. call'.op = "empty" /\ call'.result = <<empty(Buf)>>
  BY DEF IsEmpty, Reads
<1>3. BufferInv' /\ UNCHANGED Contents
  BY <1>1, NothingChanges
<1>4. call'.result = <<Contents = <<>>>>
  BY <1>2, ShapeHolds
<1>5. QED
  BY <1>2, <1>3, <1>4 DEF Queue!IsEmpty

LEMMA FindStep ==
  ASSUME BufferInv, NEW op \in {"findEOL", "findCRLF"}, Find(op)
  PROVE  BufferInv' /\ Queue!Find
<1> DEFINE i == findEOL(Buf)
           found == Found(Contents, <<LF>>)
<1>1. UNCHANGED caller /\ Unchanged /\ ~empty(Buf) /\ op \in caller.ops
  BY DEF Find, Uses
<1>2. op = "findEOL" /\ AtZero(Buf)
  BY <1>1 DEF BufferInv, InShape, RingCaller, RingOps, StreamCaller, StreamOps
<1>3. /\ call'.op = "findEOL" /\ call'.string = <<LF>>
      /\ call'.result = IF i = NullPointer THEN <<>> ELSE <<Distance(i)>>
  BY <1>2 DEF Find
<1>4. BufferInv' /\ UNCHANGED Contents
  BY <1>1, NothingChanges
<1>5. IF found = {} THEN i = NullPointer ELSE i = Min(found) - 1 /\ i \in Nat
  BY <1>1, <1>2, AtZeroFindEOL, ShapeHolds
<1> HIDE DEF i
<1>6. i \in Nat => Distance(i) = i /\ i # NullPointer
  BY <1>2 DEF AtZero, Buf, Distance, NullPointer
<1>7. call'.result = IF found = {} THEN <<>> ELSE <<Min(found) - 1>>
  BY <1>3, <1>5, <1>6
<1>8. found = { k \in 1 .. Len(Contents) : Queue!Occurs(call'.string, k) }
  BY <1>3 DEF Found, Queue!Occurs
<1> HIDE DEF found
<1>9. LET all == { k \in 1 .. Len(Contents) : Queue!Occurs(call'.string, k) }
      IN  call'.result = IF all = {} THEN <<>> ELSE <<Queue!Min(all) - 1>>
  <2>1. Queue!Min(found) = Min(found)
    BY DEF Min, Queue!Min
  <2>2. QED
    BY <1>7, <1>8, <2>1
<1>10. call'.op \in {"findEOL", "findCRLF"} /\ UNCHANGED Contents
  BY <1>3, <1>4
<1>11. Queue!Find
  BY ONLY <1>9, <1>10 DEF Queue!Find
<1>12. QED
  BY <1>4, <1>11

LEMMA BufferStep ==
  ASSUME BufferInv, [Next]_bufferVars
  PROVE  BufferInv' /\ [Queue!Next]_Queue!vars
<1>1. CASE UNCHANGED bufferVars
  <2>1. UNCHANGED caller /\ Unchanged /\ UNCHANGED call
    BY <1>1 DEF bufferVars, Unchanged
  <2>2. QED
    BY <2>1, NothingChanges DEF Queue!vars
<1>2. ASSUME NEW s \in Strings, AppendBytes(s) PROVE BufferInv' /\ Queue!Next
  BY <1>2, AppendStep DEF Queue!Next
<1>3. ASSUME NEW s \in Strings, PrependBytes(s) PROVE BufferInv' /\ Queue!Next
  BY <1>3, PrependStep DEF Queue!Next
<1>4. ASSUME NEW s \in Strings, ReadFd(s) PROVE BufferInv' /\ Queue!Next
  BY <1>4, ReadFdStep DEF Queue!Next
<1>5. ASSUME NEW n \in 1 .. MaxLen, Peek(n) \/ WriteFd(n) PROVE BufferInv' /\ Queue!Next
  BY <1>5, LookStep DEF Queue!Next
<1>6. ASSUME NEW n \in 1 .. MaxLen, Retrieve(n) \/ RetrieveAsString(n)
      PROVE  BufferInv' /\ Queue!Next
  BY <1>6, RetrieveStep DEF Queue!Next
<1>7. CASE RetrieveAllAsString
  BY <1>7, RetrieveAllStep DEF Queue!Next
<1>8. CASE IsEmpty
  BY <1>8, IsEmptyStep DEF Queue!Next
<1>9. ASSUME NEW op \in {"findEOL", "findCRLF"}, Find(op) PROVE BufferInv' /\ Queue!Next
  BY <1>9, FindStep DEF Queue!Next
<1>10. QED
  BY <1>1, <1>2, <1>3, <1>4, <1>5, <1>6, <1>7, <1>8, <1>9 DEF Next

LEMMA BufferBegins ==
  ASSUME DisciplinedCallers, Init
  PROVE  BufferInv /\ Queue!Init
<1>1. Buf = Fresh(Size) /\ Size \in Nat
  BY BufferAssumption DEF Init, Buf, Fresh
<1>2. AtZero(Buf) /\ Held(Buf) = <<>> /\ Buf.w = 0 /\ Buf.size = Len(Buf.cells)
  BY <1>1, FreshIsEmpty
<1>3. Ring(Buf)
  BY <1>2 DEF AtZero, Ring, Record
<1>4. BufferInv
  BY <1>2, <1>3 DEF BufferInv, InShape, DisciplinedCallers, Init
<1>5. QED
  BY <1>2, <1>4 DEF Queue!Init, Init, Contents

-----------------------------------------------------------------------------
(* Every write is to an element of the vector and the indices stay in it,  *)
(* for any vector, strings and lengths, as long as each user of a buffer   *)
(* either writes no more than writeableBytes() and takes the last byte     *)
(* with retrieveAll, or takes everything each time (append, prepend,       *)
(* readFd, retrieve, retrieveAll).                                         *)
THEOREM WritesStayInVector ==
  ASSUME DisciplinedCallers
  PROVE  Spec => []StaysInVector
<1>1. BufferInv => StaysInVector
  <2> SUFFICES ASSUME BufferInv PROVE StaysInVector
    OBVIOUS
  <2>1. CASE Ring(Buf)
    BY <2>1 DEF BufferInv, Ring, Record, Buf, StaysInVector
  <2>2. CASE AtZero(Buf)
    BY <2>2 DEF BufferInv, AtZero, Record, Buf, StaysInVector
  <2>3. QED
    BY <2>1, <2>2 DEF BufferInv, InShape
<1>2. Init => BufferInv
  BY BufferBegins
<1>3. BufferInv /\ [Next]_bufferVars => BufferInv'
  BY BufferStep
<1>4. QED
  BY <1>1, <1>2, <1>3, PTL DEF Spec

(* A buffer used in one of these ways is the queue of bytes that ByteQueue *)
(* describes: append, prepend and readFd add, the retrieves take, and      *)
(* peek, writeFd, empty and findEOL tell what is in it.                    *)
THEOREM BufferIsByteQueue ==
  ASSUME DisciplinedCallers
  PROVE  Spec => ImplementsByteQueue
<1>1. Init => BufferInv /\ Queue!Init
  BY BufferBegins
<1>2. BufferInv /\ [Next]_bufferVars => BufferInv' /\ [Queue!Next]_Queue!vars
  BY BufferStep
<1>3. QED
  BY <1>1, <1>2, PTL DEF Spec, ImplementsByteQueue, Queue!Spec

=============================================================================

--------------------------- MODULE BufferDataProofs ---------------------------
(***************************************************************************)
(* Lemmas about what the functions of a Buffer compute, for any bytes and  *)
(* sizes: BufferProofs and TCPConnectionProofs use them.                   *)
(***************************************************************************)
EXTENDS BufferData, SequenceTheorems, TLAPS

(* An index that has run past the end of a vector once.                    *)
LEMMA OnceAround ==
  ASSUME NEW a \in Nat, NEW c \in Nat \ {0}, a < 2 * c
  PROVE  a % c = IF a < c THEN a ELSE a - c
<1>1. CASE a < c
  BY <1>1
<1>2. CASE a >= c
  BY <1>2
<1>3. QED
  BY <1>1, <1>2

LEMMA SmallerOfTwo ==
  ASSUME NEW a \in Int, NEW b \in Int
  PROVE  Min({a, b}) = IF a <= b THEN a ELSE b
<1> DEFINE n == IF a <= b THEN a ELSE b
<1>1. n \in {a, b} /\ \A y \in {a, b} : n <= y
  OBVIOUS
<1>2. \A x \in {a, b} : (\A y \in {a, b} : x <= y) => x = n
  OBVIOUS
<1>3. QED
  BY <1>1, <1>2 DEF Min

LEMMA GreaterOfTwo ==
  ASSUME NEW a \in Int, NEW b \in Int
  PROVE  Max({a, b}) = IF a >= b THEN a ELSE b
<1> DEFINE n == IF a >= b THEN a ELSE b
<1>1. n \in {a, b} /\ \A y \in {a, b} : n >= y
  OBVIOUS
<1>2. \A x \in {a, b} : (\A y \in {a, b} : x >= y) => x = n
  OBVIOUS
<1>3. QED
  BY <1>1, <1>2 DEF Max

-----------------------------------------------------------------------------
(* Buffers whose contents are in their vector: one that wraps has as many  *)
(* cells as elements, and one that does not never ends at the capacity.    *)
InVector(b) ==
  /\ b \in Record /\ b.size <= Len(b.cells)
  /\ b.r <= b.size /\ b.w <= b.size
  /\ b.w = b.size => b.size < Len(b.cells)
  /\ b.w < b.r => b.size = Len(b.cells) /\ (b.r = b.size => b.w > 0)

(* The cell of the x-th byte, counted from index 0 on and around.          *)
Wrap(size_, x) == IF x <= size_ THEN x ELSE x - size_

LEMMA VectorHolds ==
  ASSUME NEW b, InVector(b)
  PROVE  /\ readableBytes(b) \in 0 .. b.size
         /\ readableBytes(b) = 0 <=> b.w = b.r
         /\ \A k \in 1 .. readableBytes(b) : Wrap(b.size, b.r + k) \in 1 .. b.size
         /\ \A n \in 0 .. readableBytes(b) :
              /\ peekAsString(b, n) \in Seq(Cell) /\ Len(peekAsString(b, n)) = n
              /\ \A k \in 1 .. n : peekAsString(b, n)[k] = b.cells[Wrap(b.size, b.r + k)]
         /\ Held(b) \in Seq(Cell) /\ Len(Held(b)) = readableBytes(b)
         /\ \A k \in 1 .. readableBytes(b) : Held(b)[k] = b.cells[Wrap(b.size, b.r + k)]
<1> DEFINE n == readableBytes(b)
           z == b.size
           r == b.r
           w == b.w
<1>1. /\ r \in Nat /\ w \in Nat /\ z \in Nat /\ b.cells \in Seq(Cell)
      /\ z <= Len(b.cells) /\ r <= z /\ w <= z /\ (w < r /\ r = z => w > 0)
  BY DEF InVector, Record
<1>2. n = IF w >= r THEN w - r ELSE z - r + w
  BY DEF readableBytes
<1>3. /\ Held(b) = peekAsString(b, n)
      /\ \A m : peekAsString(b, m) = Gather(b, r, IF w > r \/ r + m <= z THEN r + m ELSE z, m)
  BY DEF Held, peekAsString
<1> HIDE DEF n, z, r, w
<1>4. n \in 0 .. z /\ (n = 0 <=> w = r)
  BY <1>1, <1>2
<1>5. \A k \in 1 .. n : Wrap(z, r + k) \in 1 .. z
  BY <1>1, <1>2, <1>4 DEF Wrap
<1>6. ASSUME NEW m \in 0 .. n
      PROVE  /\ peekAsString(b, m) \in Seq(Cell) /\ Len(peekAsString(b, m)) = m
             /\ \A k \in 1 .. m : peekAsString(b, m)[k] = b.cells[Wrap(z, r + k)]
  <2> DEFINE end == IF w > r \/ r + m <= z THEN r + m ELSE z
             p == peekAsString(b, m)
  <2>1. p = [k \in 1 .. m |-> IF r + k <= end THEN b.cells[r + k] ELSE b.cells[r + k - end]]
    BY <1>3 DEF Gather
  <2>2. m \in Nat /\ \A k \in 1 .. m : k \in 1 .. n
    BY <1>4
  <2>3. ASSUME NEW k \in 1 .. m
        PROVE  Wrap(z, r + k) = IF r + k <= end THEN r + k ELSE r + k - end
    BY <1>1, <1>2, <1>4 DEF Wrap
  <2> HIDE DEF end, p
  <2>4. \A k \in 1 .. m : p[k] = b.cells[Wrap(z, r + k)]
    BY <2>1, <2>3
  <2>5. \A k \in 1 .. m : b.cells[Wrap(z, r + k)] \in Cell
    <3>1. \A k \in 1 .. m : Wrap(z, r + k) \in 1 .. Len(b.cells)
      <4>1. Len(b.cells) \in Nat /\ \A i \in 1 .. z : i \in 1 .. Len(b.cells)
        BY <1>1
      <4>2. QED
        BY <1>5, <2>2, <4>1
    <3>2. QED
      BY <1>1, <3>1, ElementOfSeq
  <2>6. p \in [1 .. m -> Cell]
    BY <2>1, <2>4, <2>5
  <2>7. p \in Seq(Cell) /\ Len(p) = m
    BY <2>2, <2>6
  <2>8. QED
    BY <2>4, <2>7 DEF p
<1>7. QED
  BY <1>3, <1>4, <1>5, <1>6 DEF n, z, r, w

(* Which byte of a string Put puts into a cell, if it puts one there.      *)
Source(i, end, k) == IF k > i THEN k - i ELSE end - i + k

IsPut(p, b, i, end, s) ==
  /\ p \in Record /\ p.size = b.size /\ p.r = b.r /\ p.w = b.w
  /\ Len(p.cells) = Len(b.cells)
  /\ \A k \in 1 .. Len(b.cells) :
       p.cells[k] = IF Source(i, end, k) \in 1 .. Len(s) /\ (k <= i \/ k <= end)
                    THEN s[Source(i, end, k)] ELSE b.cells[k]

LEMMA PutCells ==
  ASSUME NEW b \in Record, NEW i \in Nat, NEW end \in Nat, NEW s \in Seq(Cell)
  PROVE  IsPut(Put(b, i, end, s), b, i, end, s)
<1> DEFINE At(k) == Source(i, end, k)
           new == [k \in 1 .. Len(b.cells) |->
                     IF At(k) \in 1 .. Len(s) /\ (k <= i \/ k <= end) THEN s[At(k)]
                     ELSE b.cells[k]]
<1>1. b.cells \in Seq(Cell) /\ Len(b.cells) \in Nat
  BY DEF Record
<1>2. \A k \in 1 .. Len(b.cells) : b.cells[k] \in Cell
  BY <1>1, ElementOfSeq
<1>3. \A a \in 1 .. Len(s) : s[a] \in Cell
  BY ElementOfSeq
<1>4. Put(b, i, end, s) = [b EXCEPT !.cells = new]
  BY DEF Put, Capacity, Source
<1>5. new \in [1 .. Len(b.cells) -> Cell]
  BY <1>2, <1>3
<1>6. \A k \in 1 .. Len(b.cells) :
        new[k] = IF At(k) \in 1 .. Len(s) /\ (k <= i \/ k <= end) THEN s[At(k)] ELSE b.cells[k]
  OBVIOUS
<1> HIDE DEF new
<1>7. new \in Seq(Cell) /\ Len(new) = Len(b.cells)
  BY <1>1, <1>5
<1>8. QED
  BY <1>4, <1>6, <1>7 DEF Record, IsPut

(* append to a buffer that has room, with writes that fit, puts the string *)
(* behind what is there.                                                   *)
LEMMA VectorAppend ==
  ASSUME NEW b, InVector(b), NEW s \in Seq(Cell), Len(s) <= writeableBytes(b),
         Fits(b, Len(s)), Splits(b, Len(s)) => Capacity(b) = b.size
  PROVE  LET new == Appended(b, s)
         IN  /\ InVector(new) /\ Held(new) = Held(b) \o s
             /\ new.size = b.size /\ new.r = b.r /\ Len(new.cells) = Len(b.cells)
             /\ new.w = IF b.w + Len(s) < Len(b.cells) THEN b.w + Len(s)
                        ELSE b.w + Len(s) - Len(b.cells)
<1> DEFINE n == readableBytes(b)
           z == b.size
           c == Len(b.cells)
           r == b.r
           w == b.w
           l == Len(s)
           a == w + l
           end == IF Splits(b, l) THEN z ELSE a
           to == a % c
           new == Appended(b, s)
           At(k) == Source(w, end, k)
<1>1. /\ r \in Nat /\ w \in Nat /\ z \in Nat /\ c \in Nat /\ l \in Nat
      /\ b \in Record /\ b.cells \in Seq(Cell)
      /\ z <= c /\ r <= z /\ w <= z /\ (w = z => z < c)
      /\ (w < r => z = c /\ (r = z => w > 0))
  BY DEF InVector, Record
<1>2. n = (IF w >= r THEN w - r ELSE z - r + w) /\ l <= z - n - 1
  BY DEF readableBytes, writeableBytes
<1>3. /\ end = IF w > r /\ a >= z THEN z ELSE a
      /\ (w > r /\ a >= z) \/ a <= z
      /\ w > r /\ a >= z => c = z
  BY DEF Splits, Fits, Capacity
<1>4. new = [Put(b, w, end, s) EXCEPT !.w = to]
  BY DEF Appended, Capacity
<1> HIDE DEF n, z, r, w, l, c, to, end, new
<1>5. n \in Nat /\ end \in Nat /\ a \in Nat
  BY <1>1, <1>2, <1>3
<1>6. to = IF a < c THEN a ELSE a - c
  <2>1. c \in Nat \ {0} /\ a < 2 * c
    BY <1>1, <1>2, <1>5
  <2> HIDE DEF a
  <2>2. QED
    BY ONLY <1>5, <2>1, OnceAround DEF to
<1>7. /\ new \in Record /\ new.size = z /\ new.r = r /\ new.w = to /\ Len(new.cells) = c
      /\ \A k \in 1 .. c : new.cells[k] = IF At(k) \in 1 .. l /\ (k <= w \/ k <= end)
                                          THEN s[At(k)] ELSE b.cells[k]
  <2>1. to \in Nat
    BY <1>1, <1>5, <1>6
  <2> DEFINE p == Put(b, w, end, s)
  <2> HIDE DEF p
  <2>2. /\ p \in Record /\ p.size = z /\ p.r = r /\ Len(p.cells) = c
        /\ \A k \in 1 .. c : p.cells[k] = IF At(k) \in 1 .. l /\ (k <= w \/ k <= end)
                                          THEN s[At(k)] ELSE b.cells[k]
    <3>1. IsPut(p, b, w, end, s)
      BY ONLY <1>1, <1>5, s \in Seq(Cell), PutCells DEF p
    <3>2. QED
      BY <3>1 DEF z, r, l, c, IsPut
  <2>3. new = [p EXCEPT !.w = to]
    BY <1>4 DEF p
  <2>4. QED
    BY <2>1, <2>2, <2>3 DEF Record
<1>8. /\ to <= z /\ (to = z => z < c)
      /\ to < r => z = c /\ (r = z => to > 0)
  BY <1>1, <1>2, <1>3, <1>5, <1>6
<1>9. InVector(new)
  BY <1>1, <1>7, <1>8 DEF InVector
<1>10. readableBytes(new) = n + l
  <2>1. readableBytes(new) = IF to >= r THEN to - r ELSE z - r + to
    BY <1>7 DEF readableBytes
  <2>2. QED
    BY <1>1, <1>2, <1>3, <1>6, <2>1
<1>11. /\ Held(b) \in Seq(Cell) /\ Len(Held(b)) = n
       /\ \A k \in 1 .. n : Held(b)[k] = b.cells[Wrap(z, r + k)]
  BY VectorHolds DEF n, z, r
<1>12. /\ Held(new) \in Seq(Cell) /\ Len(Held(new)) = n + l
       /\ \A k \in 1 .. n + l : Held(new)[k] = new.cells[Wrap(z, r + k)]
  <2>1. /\ Held(new) \in Seq(Cell) /\ Len(Held(new)) = readableBytes(new)
        /\ \A k \in 1 .. readableBytes(new) :
             Held(new)[k] = new.cells[Wrap(new.size, new.r + k)]
    BY ONLY <1>9, VectorHolds
  <2>2. QED
    BY <1>7, <1>10, <2>1
<1>13. /\ Held(b) \o s \in Seq(Cell) /\ Len(Held(b) \o s) = n + l
       /\ \A k \in 1 .. n + l : (Held(b) \o s)[k] = IF k <= n THEN Held(b)[k] ELSE s[k - n]
  BY <1>11, ConcatProperties DEF l
<1>14. ASSUME NEW k \in 1 .. n + l
       PROVE  Held(new)[k] = IF k <= n THEN Held(b)[k] ELSE s[k - n]
  <2> DEFINE i == Wrap(z, r + k)
  <2>1. i \in 1 .. c
    BY <1>1, <1>2, <1>5 DEF Wrap
  <2>2. CASE k <= n
    <3>1. ~(At(i) \in 1 .. l /\ (i <= w \/ i <= end))
      BY <1>1, <1>2, <1>3, <1>5, <2>2 DEF Wrap, Source
    <3>2. k \in 1 .. n
      BY <1>5, <2>2
    <3>3. QED
      BY <1>7, <1>11, <1>12, <2>1, <2>2, <3>1, <3>2
  <2>3. CASE k > n
    <3>1. At(i) = k - n /\ At(i) \in 1 .. l /\ (i <= w \/ i <= end)
      BY <1>1, <1>2, <1>3, <1>5, <2>3 DEF Wrap, Source
    <3>2. QED
      BY <1>5, <1>7, <1>12, <2>1, <2>3, <3>1
  <2>4. QED
    BY <1>5, <2>2, <2>3
<1>15. Held(new) = Held(b) \o s
  BY <1>12, <1>13, <1>14, SeqEqual
<1>16. /\ new.size = b.size /\ new.r = b.r /\ Len(new.cells) = Len(b.cells)
       /\ new.w = IF b.w + Len(s) < Len(b.cells) THEN b.w + Len(s)
                  ELSE b.w + Len(s) - Len(b.cells)
  BY <1>1, <1>5, <1>6, <1>7 DEF l, z, w, r, c
<1>17. QED
  BY <1>9, <1>15, <1>16 DEF new

(* retrieve takes what is first, be it everything.                         *)
LEMMA VectorRetrieve ==
  ASSUME NEW b, InVector(b), NEW m \in 0 .. readableBytes(b)
  PROVE  LET new == retrieved(b, m)
         IN  /\ InVector(new) /\ Held(new) = SubSeq(Held(b), m + 1, Len(Held(b)))
             /\ new.cells = b.cells /\ new.size = b.size /\ new.w = b.w
             /\ new.r = IF b.r + m < Len(b.cells) THEN b.r + m
                        ELSE b.r + m - Len(b.cells)
<1> DEFINE n == readableBytes(b)
           z == b.size
           c == Len(b.cells)
           r == b.r
           w == b.w
           a == r + m
           to == a % c
           new == retrieved(b, m)
<1>1. /\ r \in Nat /\ w \in Nat /\ z \in Nat /\ c \in Nat /\ b \in Record
      /\ z <= c /\ r <= z /\ w <= z /\ (w = z => z < c)
      /\ (w < r => z = c /\ (r = z => w > 0))
  BY DEF InVector, Record
<1>2. n = IF w >= r THEN w - r ELSE z - r + w
  BY DEF readableBytes
<1>3. m \in 0 .. n
  OBVIOUS
<1>4. new = [b EXCEPT !.r = to]
  BY DEF retrieved, Capacity
<1> HIDE DEF n, z, r, w, c, to, new
<1>5. n \in Nat /\ m \in Nat /\ m <= n /\ a \in Nat
  BY <1>1, <1>2, <1>3
<1>6. to = IF a < c THEN a ELSE a - c
  <2>1. c \in Nat \ {0} /\ a < 2 * c
    BY <1>1, <1>2, <1>5
  <2> HIDE DEF a
  <2>2. QED
    BY ONLY <1>5, <2>1, OnceAround DEF to
<1>7. /\ to \in Nat /\ to <= z
      /\ w < to => z = c /\ (to = z => w > 0)
  BY <1>1, <1>2, <1>5, <1>6
<1>8. new \in Record /\ new.size = z /\ new.r = to /\ new.w = w /\ new.cells = b.cells
  BY <1>1, <1>4, <1>7 DEF Record, z, w
<1>9. InVector(new)
  BY <1>1, <1>7, <1>8 DEF InVector, c
<1>10. readableBytes(new) = n - m
  <2>1. readableBytes(new) = IF w >= to THEN w - to ELSE z - to + w
    BY <1>8 DEF readableBytes
  <2>2. QED
    BY <1>1, <1>2, <1>5, <1>6, <2>1
<1>11. /\ Held(b) \in Seq(Cell) /\ Len(Held(b)) = n
       /\ \A k \in 1 .. n : Held(b)[k] = b.cells[Wrap(z, r + k)]
  BY VectorHolds DEF n, z, r
<1>12. /\ Held(new) \in Seq(Cell) /\ Len(Held(new)) = n - m
       /\ \A k \in 1 .. n - m : Held(new)[k] = b.cells[Wrap(z, to + k)]
  <2>1. /\ Held(new) \in Seq(Cell) /\ Len(Held(new)) = readableBytes(new)
        /\ \A k \in 1 .. readableBytes(new) :
             Held(new)[k] = new.cells[Wrap(new.size, new.r + k)]
    BY ONLY <1>9, VectorHolds
  <2>2. QED
    BY <1>8, <1>10, <2>1
<1>13. /\ SubSeq(Held(b), m + 1, n) \in Seq(Cell) /\ Len(SubSeq(Held(b), m + 1, n)) = n - m
       /\ \A k \in 1 .. n - m : SubSeq(Held(b), m + 1, n)[k] = Held(b)[m + k]
  BY <1>5, <1>11
<1>14. ASSUME NEW k \in 1 .. n - m PROVE Held(new)[k] = SubSeq(Held(b), m + 1, n)[k]
  <2>1. m + k \in 1 .. n /\ Wrap(z, r + (m + k)) = Wrap(z, to + k)
    BY <1>1, <1>2, <1>5, <1>6 DEF Wrap
  <2>2. QED
    BY <1>11, <1>12, <1>13, <2>1
<1>15. Held(new) = SubSeq(Held(b), m + 1, n)
  BY <1>12, <1>13, <1>14, SeqEqual
<1>16. /\ new.cells = b.cells /\ new.size = b.size /\ new.w = b.w
       /\ new.r = IF b.r + m < Len(b.cells) THEN b.r + m ELSE b.r + m - Len(b.cells)
  BY <1>1, <1>5, <1>6, <1>8 DEF r, z, w, c
<1>17. QED
  BY <1>9, <1>11, <1>15, <1>16 DEF new

(* Two buffers that do not wrap, with the same bytes, hold the same.       *)
LEMMA SameHeld ==
  ASSUME NEW b, InVector(b), NEW d, InVector(d), b.w = d.w, b.r = d.r, d.w >= d.r,
         \A k \in 1 .. d.w : b.cells[k] = d.cells[k]
  PROVE  Held(b) = Held(d)
<1>1. /\ d.w \in Nat /\ d.r \in Nat /\ d.w <= d.size /\ b.w <= b.size
      /\ d.size \in Nat /\ b.size \in Nat
  BY DEF InVector, Record
<1>2. readableBytes(b) = d.w - d.r /\ readableBytes(d) = d.w - d.r
  BY <1>1 DEF readableBytes
<1>3. /\ Held(b) \in Seq(Cell) /\ Len(Held(b)) = d.w - d.r
      /\ \A k \in 1 .. d.w - d.r : Held(b)[k] = b.cells[Wrap(b.size, b.r + k)]
  BY <1>2, VectorHolds
<1>4. /\ Held(d) \in Seq(Cell) /\ Len(Held(d)) = d.w - d.r
      /\ \A k \in 1 .. d.w - d.r : Held(d)[k] = d.cells[Wrap(d.size, d.r + k)]
  BY <1>2, VectorHolds
<1>5. ASSUME NEW k \in 1 .. d.w - d.r PROVE Held(b)[k] = Held(d)[k]
  <2>1. /\ Wrap(b.size, b.r + k) = d.r + k /\ Wrap(d.size, d.r + k) = d.r + k
        /\ d.r + k \in 1 .. d.w
    BY <1>1 DEF Wrap
  <2>2. QED
    BY <1>3, <1>4, <2>1
<1>6. QED
  BY <1>3, <1>4, <1>5, SeqEqual

(* A buffer that does not wrap grows at its end, and keeps what it holds.  *)
LEMMA VectorGrow ==
  ASSUME NEW b, InVector(b), b.w >= b.r, NEW n \in Nat
  PROVE  LET new == Grow(b, n)
         IN  /\ InVector(new) /\ Held(new) = Held(b)
             /\ new.w = b.w /\ new.r = b.r /\ writeableBytes(new) >= n
<1> DEFINE z == b.size
           w == b.w
           r == b.r
           c == Len(b.cells)
           to == w + n + 1
           new == Grow(b, n)
<1>1. /\ b \in Record /\ r \in Nat /\ w \in Nat /\ z \in Nat /\ c \in Nat /\ to \in Nat
      /\ r <= w /\ w <= z /\ z <= c /\ b.cells \in Seq(Cell)
  BY DEF InVector, Record
<1>2. writeableBytes(b) = z - (w - r) - 1
  BY <1>1 DEF writeableBytes, readableBytes
<1>3. CASE writeableBytes(b) >= n
  BY <1>3 DEF Grow
<1>4. CASE ~(writeableBytes(b) >= n)
  <2> DEFINE capacity == IF to <= c THEN c ELSE Max({to, 2 * z})
             cells == [i \in 1 .. capacity |-> IF i <= z THEN b.cells[i] ELSE Junk]
  <2>1. new = Resize(b, to)
    BY <1>4 DEF Grow
  <2>2. new = [b EXCEPT !.cells = cells, !.size = to]
    BY <2>1 DEF Resize, Capacity
  <2>3. Max({to, 2 * z}) = IF to >= 2 * z THEN to ELSE 2 * z
    <3>1. to \in Int /\ 2 * z \in Int
      BY <1>1
    <3>2. QED
      BY <3>1, GreaterOfTwo
  <2>4. capacity \in Nat /\ to <= capacity
    BY <1>1, <2>3
  <2>5. z + r < to
    BY <1>1, <1>2, <1>4
  <2> HIDE DEF capacity
  <2>6. \A i \in 1 .. capacity : i <= z => b.cells[i] \in Cell
    <3>1. \A i \in 1 .. capacity : i <= z => i \in 1 .. c
      BY <1>1, <2>4
    <3>2. QED
      BY <1>1, <3>1, ElementOfSeq
  <2>7. cells \in [1 .. capacity -> Cell]
    BY <2>6 DEF Cell
  <2>8. cells \in Seq(Cell) /\ Len(cells) = capacity
    BY <2>4, <2>7
  <2>9. \A k \in 1 .. w : cells[k] = b.cells[k]
    <3>1. \A k \in 1 .. w : k \in 1 .. capacity /\ k <= z
      BY <1>1, <2>4, <2>5
    <3>2. QED
      BY <3>1
  <2> HIDE DEF cells, to, z, w, c, r, new
  <2>10. /\ new \in Record /\ new.size = to /\ new.r = r /\ new.w = w
         /\ new.cells = cells
    BY <1>1, <2>2, <2>8 DEF Record, w, r
  <2>11. w < to /\ r <= to /\ r <= w
    BY <1>1, <2>5 DEF to
  <2>12. InVector(new)
    BY <1>1, <2>4, <2>8, <2>10, <2>11 DEF InVector
  <2>13. writeableBytes(new) = to - (w - r) - 1
    BY <1>1, <2>10 DEF writeableBytes, readableBytes
  <2>14. writeableBytes(new) >= n
    BY <1>1, <2>13 DEF to
  <2>15. Held(new) = Held(b)
    <3>1. /\ new.w = b.w /\ new.r = b.r /\ b.w >= b.r
          /\ \A k \in 1 .. b.w : new.cells[k] = b.cells[k]
      BY <1>1, <2>9, <2>10 DEF w, r
    <3>2. QED
      BY ONLY <2>12, <3>1, SameHeld, InVector(b)
  <2>16. QED
    BY <2>10, <2>12, <2>14, <2>15 DEF new, w, r
<1>5. QED
  BY <1>3, <1>4

-----------------------------------------------------------------------------
(* Buffers that begin at index 0, and so never wrap.                       *)

AtZero(b) == b \in Record /\ b.size <= Len(b.cells) /\ b.r = 0 /\ b.w < b.size

LEMMA AtZeroHolds ==
  ASSUME NEW b, AtZero(b)
  PROVE  /\ InVector(b) /\ b.w >= b.r /\ readableBytes(b) = b.w
         /\ Held(b) \in Seq(Cell) /\ Len(Held(b)) = b.w
         /\ \A k \in 1 .. b.w : Held(b)[k] = b.cells[k]
<1>1. b.w \in Nat /\ b.size \in Nat /\ b.w < b.size /\ b.r = 0
  BY DEF AtZero, Record
<1>2. InVector(b) /\ readableBytes(b) = b.w
  BY <1>1 DEF AtZero, InVector, readableBytes
<1>3. /\ Held(b) \in Seq(Cell) /\ Len(Held(b)) = b.w
      /\ \A k \in 1 .. b.w : Held(b)[k] = b.cells[Wrap(b.size, b.r + k)]
  BY <1>2, VectorHolds
<1>4. \A k \in 1 .. b.w : Wrap(b.size, b.r + k) = k
  BY <1>1 DEF Wrap
<1>5. QED
  BY <1>1, <1>2, <1>3, <1>4

(* Bytes put behind the others, when there is place.                       *)
LEMMA AtZeroPut ==
  ASSUME NEW b, AtZero(b), NEW s \in Seq(Cell), NEW end \in Nat,
         b.w + Len(s) < b.size, b.w + Len(s) <= end,
         NEW new, new = [Put(b, b.w, end, s) EXCEPT !.w = (b.w + Len(s)) % Capacity(b)]
  PROVE  /\ AtZero(new) /\ new.size = b.size /\ new.w = b.w + Len(s)
         /\ Held(new) = Held(b) \o s
<1> DEFINE z == b.size
           w == b.w
           l == Len(s)
           p == Put(b, w, end, s)
           c == Len(b.cells)
           At(k) == Source(w, end, k)
<1>1. /\ b \in Record /\ w \in Nat /\ z \in Nat /\ l \in Nat /\ c \in Nat
      /\ w < z /\ z <= c /\ w + l < z /\ w + l <= end /\ b.r = 0
  BY DEF AtZero, Record
<1>2. IsPut(p, b, w, end, s)
  BY <1>1, PutCells
<1>3. (w + l) % Capacity(b) = w + l
  <2>1. w + l \in Nat /\ c \in Nat \ {0} /\ w + l < c
    BY <1>1
  <2> DEFINE a == w + l
  <2>2. a \in Nat /\ c \in Nat \ {0} /\ a < c
    BY <2>1
  <2> HIDE DEF a, c
  <2>3. a % c = a
    BY <2>2
  <2>4. QED
    BY <2>3 DEF a, c, Capacity
<1>4. new = [p EXCEPT !.w = w + l]
  BY <1>3
<1> HIDE DEF z, w, l, p, c
<1>5. /\ p \in Record /\ p.size = z /\ p.r = 0 /\ Len(p.cells) = c
      /\ \A k \in 1 .. c : p.cells[k] = IF At(k) \in 1 .. l /\ (k <= w \/ k <= end)
                                        THEN s[At(k)] ELSE b.cells[k]
  BY <1>1, <1>2 DEF IsPut, z, w, l, c
<1>6. /\ new \in Record /\ new.size = z /\ new.r = 0 /\ new.w = w + l
      /\ new.cells = p.cells
  <2> DEFINE to == w + l
  <2>1. to \in Nat /\ new = [p EXCEPT !.w = to]
    BY <1>1, <1>4
  <2> HIDE DEF to
  <2>2. /\ new \in Record /\ new.size = z /\ new.r = 0 /\ new.w = to
        /\ new.cells = p.cells
    BY <1>5, <2>1 DEF Record
  <2>3. QED
    BY <2>2 DEF to
<1>7. AtZero(new)
  BY <1>1, <1>5, <1>6 DEF AtZero
<1>8. /\ Held(b) \in Seq(Cell) /\ Len(Held(b)) = w
      /\ \A k \in 1 .. w : Held(b)[k] = b.cells[k]
  BY AtZeroHolds DEF w
<1>9. /\ Held(new) \in Seq(Cell) /\ Len(Held(new)) = w + l
      /\ \A k \in 1 .. w + l : Held(new)[k] = p.cells[k]
  <2>1. /\ Held(new) \in Seq(Cell) /\ Len(Held(new)) = new.w
        /\ \A k \in 1 .. new.w : Held(new)[k] = new.cells[k]
    BY ONLY <1>7, AtZeroHolds
  <2>2. QED
    BY <1>6, <2>1
<1>10. /\ Held(b) \o s \in Seq(Cell) /\ Len(Held(b) \o s) = w + l
       /\ \A k \in 1 .. w + l : (Held(b) \o s)[k] = IF k <= w THEN Held(b)[k] ELSE s[k - w]
  <2> DEFINE h == Held(b)
  <2>1. h \in Seq(Cell) /\ Len(h) = w /\ s \in Seq(Cell) /\ Len(s) = l
    BY <1>8 DEF l
  <2> HIDE DEF h
  <2>2. /\ h \o s \in Seq(Cell) /\ Len(h \o s) = w + l
        /\ \A k \in 1 .. w + l : (h \o s)[k] = IF k <= w THEN h[k] ELSE s[k - w]
    BY ONLY <2>1, ConcatProperties
  <2>3. QED
    BY <2>2 DEF h
<1>11. ASSUME NEW k \in 1 .. w + l
       PROVE  Held(new)[k] = (Held(b) \o s)[k]
  <2>1. k \in 1 .. c
    BY <1>1
  <2>2. CASE k <= w
    <3>1. At(k) \notin 1 .. l /\ k \in 1 .. w
      BY <1>1, <2>2 DEF Source
    <3>2. Held(new)[k] = b.cells[k]
      BY <1>5, <1>9, <2>1, <3>1
    <3>3. (Held(b) \o s)[k] = b.cells[k]
      BY <1>8, <1>10, <2>2, <3>1
    <3>4. QED
      BY <3>2, <3>3
  <2>3. CASE k > w
    <3>1. At(k) = k - w /\ At(k) \in 1 .. l /\ k <= end /\ ~(k <= w)
      BY <1>1, <2>3 DEF Source
    <3>2. Held(new)[k] = s[k - w]
      BY <1>5, <1>9, <2>1, <3>1
    <3>3. (Held(b) \o s)[k] = s[k - w]
      BY <1>10, <3>1
    <3>4. QED
      BY <3>2, <3>3
  <2>4. k <= w \/ k > w
    BY <1>1
  <2>5. QED
    BY <2>2, <2>3, <2>4
<1>12. Held(new) = Held(b) \o s
  BY <1>9, <1>10, <1>11, SeqEqual
<1>13. QED
  BY <1>6, <1>7, <1>12 DEF z, w, l

(* ensurePlace makes place and changes nothing else.                       *)
LEMMA AtZeroPlace ==
  ASSUME NEW b, AtZero(b), NEW n \in Nat
  PROVE  LET new == ensurePlace(b, n)
         IN  AtZero(new) /\ new.w = b.w /\ new.w + n < new.size /\ Held(new) = Held(b)
<1> DEFINE new == Grow(b, n)
<1>1. b.r = 0 /\ b.w \in Nat /\ InVector(b) /\ b.w >= b.r
  BY AtZeroHolds DEF AtZero, Record
<1>2. ensurePlace(b, n) = new
  BY <1>1 DEF ensurePlace
<1>3. /\ InVector(new) /\ Held(new) = Held(b)
      /\ new.w = b.w /\ new.r = 0 /\ writeableBytes(new) >= n
  BY <1>1, VectorGrow
<1> HIDE DEF new
<1>4. new \in Record /\ new.size \in Nat /\ new.size <= Len(new.cells)
  BY <1>3 DEF InVector, Record
<1>5. new.size - new.w - 1 >= n
  BY <1>1, <1>3, <1>4 DEF writeableBytes, readableBytes
<1>6. new.w < new.size /\ new.w + n < new.size
  BY <1>1, <1>3, <1>4, <1>5
<1>7. QED
  BY <1>2, <1>3, <1>4, <1>6 DEF AtZero

(* append makes place and puts the string behind the other bytes.          *)
LEMMA AtZeroAppend ==
  ASSUME NEW b, AtZero(b), NEW s \in Seq(Cell)
  PROVE  LET place == ensurePlace(b, Len(s))
         IN  /\ Fits(place, Len(s))
             /\ AtZero(Appended(place, s))
             /\ Held(Appended(place, s)) = Held(b) \o s
<1> DEFINE d == ensurePlace(b, Len(s))
           end == d.w + Len(s)
           new == Appended(d, s)
<1>1. AtZero(d) /\ d.w + Len(s) < d.size /\ Held(d) = Held(b)
  BY AtZeroPlace
<1> HIDE DEF d
<1>2. d.w \in Nat /\ d.size \in Nat /\ end \in Nat /\ Len(s) \in Nat
  BY <1>1 DEF AtZero, Record
<1>3. ~Splits(d, Len(s)) /\ end <= d.size
  BY <1>1, <1>2 DEF Splits
<1>4. new = [Put(d, d.w, end, s) EXCEPT !.w = (d.w + Len(s)) % Capacity(d)]
  BY <1>3 DEF Appended
<1>5. d.w + Len(s) <= end
  BY <1>2
<1> HIDE DEF end, new
<1>6. AtZero(new) /\ Held(new) = Held(d) \o s
  <2>1. /\ AtZero(d) /\ s \in Seq(Cell) /\ end \in Nat
        /\ d.w + Len(s) < d.size /\ d.w + Len(s) <= end
        /\ new = [Put(d, d.w, end, s) EXCEPT !.w = (d.w + Len(s)) % Capacity(d)]
    BY <1>1, <1>2, <1>4, <1>5
  <2>2. QED
    BY ONLY <2>1, AtZeroPut
<1>7. QED
  BY <1>1, <1>3, <1>6 DEF new, d, end, Fits

-----------------------------------------------------------------------------
(* makePlace keeps what a buffer holds, in place or in the temporary one.  *)

LEMMA FreshIsEmpty ==
  ASSUME NEW n \in Nat
  PROVE  /\ AtZero(Fresh(n)) /\ Held(Fresh(n)) = <<>>
         /\ Fresh(n).w = 0 /\ Fresh(n).size = Len(Fresh(n).cells)
<1> DEFINE z == n + 1
           c == [i \in 1 .. z |-> Junk]
<1>1. Fresh(n) = [cells |-> c, size |-> z, r |-> 0, w |-> 0] /\ z \in Nat /\ z > 0
  BY DEF Fresh
<1>2. c \in Seq(Cell) /\ Len(c) = z
  <2>1. c \in [1 .. z -> Cell]
    BY DEF Cell
  <2>2. QED
    BY <1>1, <2>1
<1> HIDE DEF z, c
<1>3. AtZero(Fresh(n)) /\ Fresh(n).w = 0 /\ Fresh(n).size = Len(Fresh(n).cells)
  BY <1>1, <1>2 DEF AtZero, Record
<1>4. Held(Fresh(n)) \in Seq(Cell) /\ Len(Held(Fresh(n))) = 0
  BY <1>3, AtZeroHolds
<1>5. QED
  BY <1>3, <1>4, EmptySeq

LEMMA VectorPlace ==
  ASSUME NEW b, InVector(b), NEW n \in Nat
  PROVE  InVector(ensurePlace(b, n)) /\ Held(ensurePlace(b, n)) = Held(b)
<1>1. /\ b.w \in Nat /\ b.r \in Nat /\ b.size \in Nat /\ b.r <= b.size
      /\ (b.w < b.r => b.size = Len(b.cells))
  BY DEF InVector, Record
<1>2. CASE b.w >= b.r
  <2>1. ensurePlace(b, n) = Grow(b, n)
    BY <1>1, <1>2 DEF ensurePlace
  <2>2. QED
    BY <1>2, <2>1, VectorGrow
<1>3. CASE b.w < b.r /\ writeableBytes(b) >= n
  <2>1. writeableBytes(b) \in Int
    BY <1>1 DEF writeableBytes, readableBytes
  <2>2. ensurePlace(b, n) = b
    BY <1>3, <2>1 DEF ensurePlace, Grow
  <2>3. QED
    BY <2>2
<1>4. CASE b.w < b.r /\ writeableBytes(b) < n
  <2> DEFINE more == writeableBytes(b) + n + 1
             all == readableBytes(b)
             temp == Grow(Fresh(kInitialSize), more)
             new == Appended(Grow(temp, all), Held(b))
  <2>1. ensurePlace(b, n) = new
    BY <1>4 DEF ensurePlace, Relocate
  <2>2. more \in Nat /\ all \in Nat
    BY <1>1, <1>4 DEF writeableBytes, readableBytes
  <2>3. AtZero(Fresh(kInitialSize)) /\ Held(Fresh(kInitialSize)) = <<>>
    BY BufferDataAssumption, FreshIsEmpty
  <2>4. \A d : AtZero(d) => \A k \in Nat : ensurePlace(d, k) = Grow(d, k)
    BY DEF ensurePlace, AtZero, Record
  <2> HIDE DEF more, all
  <2>5. AtZero(temp) /\ Held(temp) = <<>>
    <3>1. temp = ensurePlace(Fresh(kInitialSize), more)
      BY <2>2, <2>3, <2>4
    <3>2. QED
      BY <2>2, <2>3, <3>1, AtZeroPlace
  <2>6. Held(b) \in Seq(Cell) /\ Len(Held(b)) = all
    BY VectorHolds DEF all
  <2> HIDE DEF temp
  <2>7. new = Appended(ensurePlace(temp, Len(Held(b))), Held(b))
    BY <2>2, <2>4, <2>5, <2>6
  <2>8. AtZero(new) /\ Held(new) = Held(temp) \o Held(b)
    BY <2>5, <2>6, <2>7, AtZeroAppend
  <2>9. Held(new) = Held(b)
    BY <2>5, <2>6, <2>8, ConcatEmptySeq
  <2>10. QED
    BY <2>1, <2>8, <2>9, AtZeroHolds
<1>5. QED
  BY <1>1, <1>2, <1>3, <1>4 DEF writeableBytes, readableBytes

=============================================================================

----------------------------- MODULE Sharing_proofs -----------------------------
(***************************************************************************)
(* Proofs about what threads share.  The FIFO: for every size of the buffer,  *)
(* any bytes and any lengths of the blocks, whichever of the two sides is an *)
(* interrupt.  The SD card and the file system on it: for any threads.       *)
(***************************************************************************)
EXTENDS Fifo, SdCard, SequenceTheorems, TLAPS

-----------------------------------------------------------------------------
(* Places in the buffer: Cell(f, i) is the i-th behind f.                   *)
Cell(f, i) == IF f + i < Size THEN f + i ELSE f + i - Size

(* What % does up to once around the buffer in either direction. *)
LEMMA ModuloIsStep ==
    ASSUME NEW x \in Int, -Size <= x, x < 2 * Size
    PROVE  x % Size = IF x < 0 THEN x + Size ELSE IF x < Size THEN x ELSE x - Size
<1>1. Size \in 1 .. 255
  BY FifoAssumption
<1>2. CASE x < 0
  BY <1>1, <1>2
<1>3. CASE 0 <= x /\ x < Size
  BY <1>1, <1>3
<1>4. CASE Size <= x
  BY <1>1, <1>4, SMTT(30)
<1> QED BY <1>1, <1>2, <1>3, <1>4

LEMMA CellsInBuffer ==
    ASSUME NEW f \in 0 .. Size - 1, NEW i \in 0 .. Size
    PROVE  Cell(f, i) \in 0 .. Size - 1
BY FifoAssumption DEF Cell

LEMMA CellsDiffer ==
    ASSUME NEW f \in 0 .. Size - 1, NEW i \in 0 .. Size - 1, NEW j \in 0 .. Size - 1, i # j
    PROVE  Cell(f, i) # Cell(f, j)
BY FifoAssumption DEF Cell

LEMMA NextInBuffer ==
    ASSUME NEW i \in 0 .. Size - 1
    PROVE  Next1(i) \in 0 .. Size - 1
BY FifoAssumption DEF Next1

LEMMA NextCell ==
    ASSUME NEW f \in 0 .. Size - 1, NEW i \in 0 .. Size - 1
    PROVE  Next1(Cell(f, i)) = Cell(f, i + 1)
<1>1. Cell(f, i) \in 0 .. Size - 1 /\ Size \in 1 .. 255
  BY CellsInBuffer, FifoAssumption
<1>2. Next1(Cell(f, i)) = IF Cell(f, i) + 1 < Size THEN Cell(f, i) + 1 ELSE Cell(f, i) + 1 - Size
  BY <1>1, ModuloIsStep DEF Next1
<1> QED BY <1>1, <1>2 DEF Cell

(* r behind f, and back again. *)
LEMMA CellsBack ==
    ASSUME NEW p \in 0 .. Size - 1, NEW r \in 0 .. Size
    PROVE  LET f == (p - r) % Size
           IN  /\ f \in 0 .. Size - 1 /\ Cell(f, r) = p
               /\ \A i \in 0 .. Size - 1 : (p - r + i) % Size = Cell(f, i)
<1>1. Size \in 1 .. 255
  BY FifoAssumption
<1> DEFINE f == (p - r) % Size
<1>2. f = IF p - r < 0 THEN p - r + Size ELSE p - r
  <2> DEFINE x == p - r
  <2>1. x \in Int /\ -Size <= x /\ x < Size /\ x < 2 * Size /\ x = p - r
    BY <1>1
  <2> HIDE DEF x
  <2>2. x % Size = IF x < 0 THEN x + Size ELSE x
    BY <1>1, <2>1, ModuloIsStep
  <2> QED BY <2>1, <2>2
<1> HIDE DEF f
<1>3. f \in 0 .. Size - 1 /\ Cell(f, r) = p
  BY <1>1, <1>2 DEF Cell
<1>4. ASSUME NEW i \in 0 .. Size - 1 PROVE (p - r + i) % Size = Cell(f, i)
  <2> DEFINE x == p - r + i
  <2>1. x \in Int /\ -Size <= x /\ x < 2 * Size
    <3>1. /\ p \in Int /\ r \in Int /\ i \in Int /\ Size \in Int
          /\ 0 <= p /\ p < Size /\ 0 <= r /\ r <= Size /\ 0 <= i /\ i < Size
      BY <1>1
    <3> QED BY <3>1
  <2>2. x = p - r + i
    OBVIOUS
  <2> HIDE DEF x
  <2>3. x % Size = IF x < 0 THEN x + Size ELSE IF x < Size THEN x ELSE x - Size
    BY <2>1, ModuloIsStep
  <2> QED BY <1>1, <1>2, <2>1, <2>2, <2>3 DEF Cell
<1> QED BY <1>3, <1>4 DEF f

LEMMA CellsForth ==
    ASSUME NEW f \in 0 .. Size - 1, NEW r \in 0 .. Size
    PROVE  (Cell(f, r) - r) % Size = f
<1>1. Size \in 1 .. 255 /\ Cell(f, r) \in 0 .. Size - 1
  BY CellsInBuffer, FifoAssumption
<1>2. (Cell(f, r) - r) % Size = IF Cell(f, r) - r < 0 THEN Cell(f, r) - r + Size ELSE Cell(f, r) - r
  BY <1>1, ModuloIsStep
<1> QED BY <1>1, <1>2 DEF Cell

LEMMA CellsAdd ==
    ASSUME NEW f \in 0 .. Size - 1, NEW r \in 0 .. Size, NEW i \in 0 .. Size - r
    PROVE  Cell(Cell(f, r), i) = Cell(f, r + i)
<1>1. Size \in 1 .. 255
  BY FifoAssumption
<1> QED BY <1>1 DEF Cell

-----------------------------------------------------------------------------
(* A buffer B of which the c cells from f on are in use: r of them are      *)
(* copied out already and are got, and w behind them are copied in and are  *)
(* the beginning of block.                                                  *)
RingAt(f, c, w, r, B, pr, pw, block, got) ==
    /\ f \in 0 .. Size - 1 /\ c \in 0 .. Size /\ w \in 0 .. Size /\ r \in 0 .. c
    /\ c + w <= Size
    /\ B \in [0 .. Size - 1 -> Values]
    /\ pr = Cell(f, r) /\ pw = Cell(f, c + w)
    /\ \A k \in 1 .. w : B[Cell(f, c + k - 1)] = block[k]
    /\ \A k \in 1 .. r : got[k] = B[Cell(f, k - 1)]

Items(B, f, c) == [k \in 1 .. c |-> B[Cell(f, k - 1)]]

LEMMA ItemsAre ==
    ASSUME NEW B \in [0 .. Size - 1 -> Values], NEW f \in 0 .. Size - 1, NEW c \in 0 .. Size
    PROVE  /\ Items(B, f, c) \in Seq(Values) /\ Len(Items(B, f, c)) = c
           /\ \A k \in 1 .. c : Items(B, f, c)[k] = B[Cell(f, k - 1)]
<1>1. ASSUME NEW k \in 1 .. c PROVE B[Cell(f, k - 1)] \in Values
  <2>1. k - 1 \in 0 .. Size
    BY FifoAssumption
  <2> QED BY <2>1, CellsInBuffer
<1>2. Items(B, f, c) \in [1 .. c -> Values] /\ c \in Nat
  BY <1>1, FifoAssumption DEF Items
<1>3. Items(B, f, c) \in Seq(Values)
  BY <1>2, SeqDef
<1>4. DOMAIN Items(B, f, c) = 1 .. c
  BY DEF Items
<1>5. Len(Items(B, f, c)) = c
  BY <1>2, <1>3, <1>4, LenProperties
<1> QED BY <1>3, <1>5 DEF Items

(* The bytes of the first c cells do not change when one behind is written. *)
LEMMA ItemsKept ==
    ASSUME NEW f \in 0 .. Size - 1, NEW n \in 0 .. Size - 1, NEW c \in 0 .. n
    PROVE  \A k \in 1 .. c : Cell(f, k - 1) \in 0 .. Size - 1 /\ Cell(f, k - 1) # Cell(f, n)
<1> SUFFICES ASSUME NEW k \in 1 .. c PROVE Cell(f, k - 1) \in 0 .. Size - 1 /\ Cell(f, k - 1) # Cell(f, n)
  OBVIOUS
<1>1. k - 1 \in 0 .. Size - 1 /\ k - 1 \in 0 .. Size /\ k - 1 # n
  BY FifoAssumption
<1> QED BY <1>1, CellsInBuffer, CellsDiffer

(* A byte is written behind those in use. *)
LEMMA RingWritten ==
    ASSUME NEW f, NEW c, NEW w, NEW r, NEW B, NEW pr, NEW pw, NEW block, NEW got,
           RingAt(f, c, w, r, B, pr, pw, block, got),
           c + w < Size, NEW B2 \in [0 .. Size - 1 -> Values], B2[pw] = block[w + 1],
           \A i \in 0 .. Size - 1 : i # pw => B2[i] = B[i]
    PROVE  RingAt(f, c, w + 1, r, B2, pr, Next1(pw), block, got)
<1>1. /\ Size \in 1 .. 255 /\ f \in 0 .. Size - 1 /\ c \in 0 .. Size /\ w \in 0 .. Size - 1 /\ r \in 0 .. c
      /\ B \in [0 .. Size - 1 -> Values] /\ pw = Cell(f, c + w) /\ pr = Cell(f, r) /\ c + w \in 0 .. Size - 1
  <2>1. /\ Size \in 1 .. 255 /\ f \in 0 .. Size - 1 /\ c \in 0 .. Size /\ w \in 0 .. Size /\ r \in 0 .. c
        /\ B \in [0 .. Size - 1 -> Values] /\ pw = Cell(f, c + w) /\ pr = Cell(f, r)
    BY FifoAssumption DEF RingAt
  <2>2. /\ Size \in Int /\ c \in Int /\ w \in Int /\ 0 <= c /\ 0 <= w /\ w <= Size /\ c + w < Size
    BY <2>1
  <2>3. w \in 0 .. Size - 1 /\ c + w \in 0 .. Size - 1
    BY <2>2
  <2> QED BY <2>1, <2>3
<1>2. B2 \in [0 .. Size - 1 -> Values]
  BY <1>1
<1>3. ASSUME NEW i \in 0 .. c + w - 1 PROVE B2[Cell(f, i)] = B[Cell(f, i)]
  <2>1. i \in 0 .. Size - 1 /\ c + w \in 0 .. Size - 1 /\ i # c + w
    BY <1>1, <1>3
  <2> DEFINE j == c + w
  <2>2. j = c + w /\ j \in 0 .. Size - 1 /\ i # j
    BY <2>1
  <2> HIDE DEF j
  <2>3. Cell(f, i) # Cell(f, j)
    BY <1>1, <2>1, <2>2, CellsDiffer
  <2>4. Cell(f, i) # pw
    BY <1>1, <2>2, <2>3
  <2>5. i \in 0 .. Size
    BY <1>1, <2>1
  <2>6. Cell(f, i) \in 0 .. Size - 1
    BY <1>1, <2>5, CellsInBuffer
  <2> QED BY <1>1, <2>4, <2>6
<1>4. B2[Cell(f, c + w)] = block[w + 1]
  BY <1>1, CellsInBuffer
<1>5. \A k \in 1 .. w + 1 : B2[Cell(f, c + k - 1)] = block[k]
  <2> SUFFICES ASSUME NEW k \in 1 .. w + 1 PROVE B2[Cell(f, c + k - 1)] = block[k]
    OBVIOUS
  <2>1. CASE k = w + 1
    <3>1. c + k - 1 = c + w
      BY <1>1, <2>1
    <3> QED BY <1>4, <2>1, <3>1
  <2>2. CASE k # w + 1
    <3>1. k \in 1 .. w /\ c + k - 1 \in 0 .. c + w - 1
      BY <1>1, <2>2
    <3>2. B[Cell(f, c + k - 1)] = block[k]
      BY <3>1 DEF RingAt
    <3> QED BY <1>3, <3>1, <3>2
  <2> QED BY <2>1, <2>2
<1>6. \A k \in 1 .. r : got[k] = B2[Cell(f, k - 1)]
  <2> SUFFICES ASSUME NEW k \in 1 .. r PROVE got[k] = B2[Cell(f, k - 1)]
    OBVIOUS
  <2>1. k - 1 \in 0 .. c + w - 1
    <3>1. /\ k \in Int /\ r \in Int /\ c \in Int /\ w \in Int
          /\ 1 <= k /\ k <= r /\ r <= c /\ 0 <= w
      BY <1>1
    <3> QED BY <3>1
  <2>2. got[k] = B[Cell(f, k - 1)]
    BY DEF RingAt
  <2> QED BY <1>3, <2>1, <2>2
<1>7. Next1(pw) = Cell(f, c + (w + 1))
  <2>1. Next1(pw) = Cell(f, c + w + 1)
    BY <1>1, NextCell
  <2>2. c + w + 1 = c + (w + 1)
    BY <1>1
  <2> QED BY <2>1, <2>2
<1>8. w + 1 \in 0 .. Size /\ c + (w + 1) <= Size
  BY <1>1
<1> QED BY <1>1, <1>2, <1>5, <1>6, <1>7, <1>8 DEF RingAt

(* A byte of those in use is copied out. *)
LEMMA RingRead ==
    ASSUME NEW f, NEW c, NEW w, NEW r, NEW B, NEW pr, NEW pw, NEW block, NEW got \in Seq(Values),
           RingAt(f, c, w, r, B, pr, pw, block, got), r < c, Len(got) = r
    PROVE  /\ RingAt(f, c, w, r + 1, B, Next1(pr), pw, block, Append(got, B[pr]))
           /\ B[pr] \in Values
<1>1. /\ Size \in 1 .. 255 /\ f \in 0 .. Size - 1 /\ c \in 0 .. Size /\ r \in 0 .. c
      /\ B \in [0 .. Size - 1 -> Values] /\ pr = Cell(f, r) /\ r \in 0 .. Size - 1
  BY FifoAssumption DEF RingAt
<1>2. B[pr] \in Values
  <2>1. r \in 0 .. Size
    BY <1>1
  <2>2. pr \in 0 .. Size - 1
    BY <1>1, <2>1, CellsInBuffer
  <2> QED BY <1>1, <2>2
<1>3. Next1(pr) = Cell(f, r + 1)
  BY <1>1, NextCell
<1>4. \A k \in 1 .. r + 1 : Append(got, B[pr])[k] = B[Cell(f, k - 1)]
  <2> SUFFICES ASSUME NEW k \in 1 .. r + 1 PROVE Append(got, B[pr])[k] = B[Cell(f, k - 1)]
    OBVIOUS
  <2>1. CASE k = r + 1
    <3>1. k - 1 = r
      BY <1>1, <2>1
    <3>2. Append(got, B[pr])[Len(got) + 1] = B[pr]
      BY <1>2, AppendProperties
    <3> QED BY <1>1, <2>1, <3>1, <3>2
  <2>2. CASE k # r + 1
    <3>1. k \in 1 .. r
      BY <1>1, <2>2
    <3>2. Append(got, B[pr])[k] = got[k]
      BY <1>2, <3>1, AppendProperties
    <3> QED BY <3>1, <3>2 DEF RingAt
  <2> QED BY <2>1, <2>2
<1>5. r + 1 \in 0 .. c
  BY <1>1
<1> QED BY <1>2, <1>3, <1>4, <1>5 DEF RingAt

(* The bytes that are copied in are counted in. *)
Joined(B, f, c, w, block) == Items(B, f, c + w) = Items(B, f, c) \o block

LEMMA RingCountedIn ==
    ASSUME NEW f, NEW c, NEW w, NEW r, NEW B, NEW pr, NEW pw, NEW block \in Seq(Values), NEW got,
           RingAt(f, c, w, r, B, pr, pw, block, got), Len(block) = w
    PROVE  RingAt(f, c + w, 0, r, B, pr, pw, block, got) /\ Joined(B, f, c, w, block)
<1>1. /\ Size \in 1 .. 255 /\ f \in 0 .. Size - 1 /\ c \in 0 .. Size /\ w \in 0 .. Size /\ r \in 0 .. c
      /\ c + w \in 0 .. Size /\ r \in 0 .. c + w /\ B \in [0 .. Size - 1 -> Values] /\ c + w + 0 = c + w
  BY FifoAssumption DEF RingAt
<1>2. RingAt(f, c + w, 0, r, B, pr, pw, block, got)
  BY <1>1 DEF RingAt
<1>3. /\ Items(B, f, c) \in Seq(Values) /\ Len(Items(B, f, c)) = c
      /\ \A k \in 1 .. c : Items(B, f, c)[k] = B[Cell(f, k - 1)]
  BY <1>1, ItemsAre
<1> DEFINE n == c + w
<1>4. n \in 0 .. Size
  BY <1>1
<1> HIDE DEF n
<1>5. /\ Items(B, f, n) \in Seq(Values) /\ Len(Items(B, f, n)) = n
      /\ \A k \in 1 .. n : Items(B, f, n)[k] = B[Cell(f, k - 1)]
  BY <1>1, <1>4, ItemsAre
<1> DEFINE s == Items(B, f, c) \o block
<1>6. /\ s \in Seq(Values) /\ Len(s) = Len(Items(B, f, c)) + Len(block)
      /\ \A i \in 1 .. Len(Items(B, f, c)) + Len(block) :
            s[i] = IF i <= Len(Items(B, f, c)) THEN Items(B, f, c)[i]
                   ELSE block[i - Len(Items(B, f, c))]
  BY <1>3, ConcatProperties
<1> HIDE DEF s
<1>7. /\ Len(s) = n
      /\ \A i \in 1 .. n : s[i] = IF i <= c THEN Items(B, f, c)[i] ELSE block[i - c]
  BY <1>3, <1>6 DEF n
<1>8. ASSUME NEW i \in 1 .. n PROVE Items(B, f, n)[i] = s[i]
  <2>1. CASE i <= c
    <3>1. i \in 1 .. c
      BY <1>1, <2>1
    <3> QED BY <1>3, <1>5, <1>7, <2>1, <3>1
  <2>2. CASE ~(i <= c)
    <3> DEFINE k == i - c
    <3>1. k \in 1 .. w /\ c + k - 1 = i - 1 /\ k = i - c
      BY <1>1, <2>2 DEF n
    <3> HIDE DEF k
    <3>2. B[Cell(f, c + k - 1)] = block[k]
      BY <3>1 DEF RingAt
    <3>3. B[Cell(f, i - 1)] = block[k]
      BY <3>1, <3>2
    <3> QED BY <1>5, <1>7, <2>2, <3>1, <3>3
  <2> QED BY <2>1, <2>2
<1>9. Items(B, f, n) = s
  BY <1>5, <1>6, <1>7, <1>8, SeqEqual
<1>10. Joined(B, f, c, w, block)
  BY <1>9 DEF Joined, n, s
<1> QED BY <1>2, <1>10

(* The bytes that are copied out are counted out. *)
Taken(B, f, c, r, pr, got) ==
    /\ got = SubSeq(Items(B, f, c), 1, r)
    /\ Items(B, pr, c - r) = SubSeq(Items(B, f, c), r + 1, c)

LEMMA RingCountedOut ==
    ASSUME NEW f, NEW c, NEW w, NEW r, NEW B, NEW pr, NEW pw, NEW block, NEW got \in Seq(Values),
           RingAt(f, c, w, r, B, pr, pw, block, got), Len(got) = r
    PROVE  /\ RingAt(pr, c - r, w, 0, B, pr, pw, block, <<>>)
           /\ Taken(B, f, c, r, pr, got)
<1>1. /\ Size \in 1 .. 255 /\ f \in 0 .. Size - 1 /\ c \in 0 .. Size /\ w \in 0 .. Size /\ r \in 0 .. c
      /\ B \in [0 .. Size - 1 -> Values] /\ pr = Cell(f, r) /\ pw = Cell(f, c + w) /\ c + w <= Size
  BY FifoAssumption DEF RingAt
<1>2. /\ Items(B, f, c) \in Seq(Values) /\ Len(Items(B, f, c)) = c
      /\ \A k \in 1 .. c : Items(B, f, c)[k] = B[Cell(f, k - 1)]
  BY <1>1, ItemsAre
<1> DEFINE s == Items(B, f, c)
<1>3. /\ s \in Seq(Values) /\ Len(s) = c
      /\ \A k \in 1 .. c : s[k] \in Values /\ s[k] = B[Cell(f, k - 1)]
  BY <1>2, ElementOfSeq
<1> HIDE DEF s
<1>4. \A i \in 0 .. Size - r : Cell(pr, i) = Cell(f, r + i)
  BY <1>1, CellsAdd
<1>5. pr \in 0 .. Size - 1 /\ Cell(pr, 0) = pr
  <2>1. r \in 0 .. Size
    BY <1>1
  <2>2. pr \in 0 .. Size - 1
    BY <1>1, <2>1, CellsInBuffer
  <2> QED BY <1>1, <2>2 DEF Cell
<1>6. RingAt(pr, c - r, w, 0, B, pr, pw, block, <<>>)
  <2>1. /\ c - r \in 0 .. Size /\ (c - r) + w <= Size /\ 0 \in 0 .. c - r
        /\ (c - r) + w \in 0 .. Size - r /\ r + ((c - r) + w) = c + w
    <3>1. /\ c \in Int /\ w \in Int /\ r \in Int /\ Size \in Int
          /\ 0 <= r /\ r <= c /\ c <= Size /\ 0 <= w /\ c + w <= Size
      BY <1>1
    <3> QED BY <3>1
  <2> DEFINE n == (c - r) + w
  <2>2. n \in 0 .. Size - r /\ r + n = c + w /\ n = (c - r) + w
    BY <2>1
  <2> HIDE DEF n
  <2>3. pw = Cell(pr, (c - r) + w)
    BY <1>1, <1>4, <2>2
  <2>4. ASSUME NEW k \in 1 .. w PROVE B[Cell(pr, (c - r) + k - 1)] = block[k]
    <3> DEFINE i == (c - r) + k - 1
    <3>1. i \in 0 .. Size - r /\ r + i = c + k - 1 /\ i = (c - r) + k - 1
      BY <1>1
    <3> HIDE DEF i
    <3>2. Cell(pr, (c - r) + k - 1) = Cell(f, c + k - 1)
      BY <1>4, <3>1
    <3>3. B[Cell(f, c + k - 1)] = block[k]
      BY DEF RingAt
    <3> QED BY <3>2, <3>3
  <2> QED BY <1>1, <1>5, <2>1, <2>3, <2>4 DEF RingAt
<1>7. got = SubSeq(s, 1, r)
  <2>1. /\ SubSeq(s, 1, r) \in Seq(Values) /\ Len(SubSeq(s, 1, r)) = (IF 1 <= r THEN r - 1 + 1 ELSE 0)
        /\ \A i \in 1 .. r - 1 + 1 : SubSeq(s, 1, r)[i] = s[1 + i - 1]
    <3>1. r \in Int /\ \A i \in 1 .. r : s[i] \in Values
      BY <1>1, <1>3
    <3> QED BY <3>1, SubSeqProperties
  <2>2. Len(SubSeq(s, 1, r)) = r
    BY <1>1, <2>1
  <2>3. ASSUME NEW i \in 1 .. r PROVE SubSeq(s, 1, r)[i] = got[i]
    <3>1. i \in 1 .. r - 1 + 1 /\ 1 + i - 1 = i /\ i \in 1 .. c
      BY <1>1
    <3>2. SubSeq(s, 1, r)[i] = B[Cell(f, i - 1)]
      BY <1>3, <2>1, <3>1
    <3> QED BY <3>2 DEF RingAt
  <2> QED BY <2>1, <2>2, <2>3, SeqEqual
<1>8. Items(B, pr, c - r) = SubSeq(s, r + 1, c)
  <2> DEFINE n == c - r
  <2>1. n \in 0 .. Size /\ n = c - r /\ n = (IF r + 1 <= c THEN c - (r + 1) + 1 ELSE 0) /\ c - (r + 1) + 1 = n
    BY <1>1
  <2> HIDE DEF n
  <2>2. /\ Items(B, pr, n) \in Seq(Values) /\ Len(Items(B, pr, n)) = n
        /\ \A k \in 1 .. n : Items(B, pr, n)[k] = B[Cell(pr, k - 1)]
    BY <1>1, <1>5, <2>1, ItemsAre
  <2>3. /\ SubSeq(s, r + 1, c) \in Seq(Values)
        /\ Len(SubSeq(s, r + 1, c)) = (IF r + 1 <= c THEN c - (r + 1) + 1 ELSE 0)
        /\ \A i \in 1 .. c - (r + 1) + 1 : SubSeq(s, r + 1, c)[i] = s[r + 1 + i - 1]
    <3>1. r + 1 \in Int /\ c \in Int /\ \A i \in r + 1 .. c : s[i] \in Values
      BY <1>1, <1>3
    <3> QED BY <3>1, SubSeqProperties
  <2>4. Len(SubSeq(s, r + 1, c)) = n
    BY <2>1, <2>3
  <2>5. ASSUME NEW k \in 1 .. n PROVE Items(B, pr, n)[k] = SubSeq(s, r + 1, c)[k]
    <3>1. /\ k \in 1 .. c - (r + 1) + 1 /\ k - 1 \in 0 .. Size - r /\ r + k \in 1 .. c
          /\ r + 1 + k - 1 = r + k /\ r + (k - 1) = (r + k) - 1
      BY <1>1, <2>1
    <3>2. SubSeq(s, r + 1, c)[k] = B[Cell(f, (r + k) - 1)]
      BY <1>3, <2>3, <3>1
    <3>3. Cell(pr, k - 1) = Cell(f, r + (k - 1))
      BY <1>4, <3>1
    <3> QED BY <2>2, <3>1, <3>2, <3>3
  <2>6. Items(B, pr, n) = SubSeq(s, r + 1, c)
    BY <2>2, <2>3, <2>4, <2>5, SeqEqual
  <2> QED BY <2>1, <2>6
<1>9. Taken(B, f, c, r, pr, got)
  BY <1>7, <1>8 DEF Taken, s
<1> QED BY <1>6, <1>9

-----------------------------------------------------------------------------
(* Blocks of bytes *)
LEMMA UpToIs ==
    ASSUME NEW s
    PROVE  s \in UpTo(Size) <=> s \in Seq(Values) /\ Len(s) <= Size
<1>1. Size \in 1 .. 255
  BY FifoAssumption
<1>2. ASSUME s \in UpTo(Size) PROVE s \in Seq(Values) /\ Len(s) <= Size
  <2>1. PICK k \in 0 .. Size : s \in [1 .. k -> Values]
    BY <1>2 DEF UpTo
  <2>2. k \in Nat /\ s \in Seq(Values)
    BY <1>1, <2>1, SeqDef
  <2>3. Len(s) \in Nat /\ 1 .. Len(s) = 1 .. k
    BY <2>1, <2>2, LenProperties
  <2>4. Len(s) = k
    BY <2>2, <2>3
  <2> QED BY <1>1, <2>1, <2>2, <2>4
<1>3. ASSUME s \in Seq(Values), Len(s) <= Size PROVE s \in UpTo(Size)
  <2>1. Len(s) \in Nat /\ s \in [1 .. Len(s) -> Values]
    BY <1>3, LenProperties
  <2>2. Len(s) \in 0 .. Size
    BY <1>1, <1>3, <2>1
  <2> QED BY <2>1, <2>2 DEF UpTo
<1> QED BY <1>2, <1>3

LEMMA NoBytes == <<>> \in UpTo(Size) /\ <<>> \in Seq(Values) /\ Len(<<>>) = 0
<1>1. <<>> \in Seq(Values) /\ Len(<<>>) = 0
  BY EmptySeq
<1>2. Len(<<>>) <= Size
  BY <1>1, FifoAssumption
<1> QED BY <1>1, <1>2, UpToIs

LEMMA BlocksAre ==
    ASSUME NEW s \in Blocks
    PROVE  s \in Seq(Values) /\ Len(s) \in Lengths /\ Len(s) \in 1 .. Size
<1>1. Size \in 1 .. 255 /\ Lengths \subseteq 1 .. Size
  BY FifoAssumption
<1>2. PICK k \in Lengths : s \in [1 .. k -> Values]
  BY DEF Blocks
<1>3. k \in Nat /\ s \in Seq(Values)
  BY <1>1, <1>2, SeqDef
<1>4. Len(s) \in Nat /\ 1 .. Len(s) = 1 .. k
  BY <1>2, <1>3, LenProperties
<1>5. Len(s) = k
  BY <1>3, <1>4
<1> QED BY <1>1, <1>2, <1>3, <1>5

LEMMA BytesAreBlocks ==
    ASSUME NEW v \in Values
    PROVE  <<v>> \in Blocks /\ Len(<<v>>) = 1
<1>1. <<v>> \in [1 .. 1 -> Values] /\ Len(<<v>>) = 1
  OBVIOUS
<1> QED BY <1>1, FifoAssumption DEF Blocks

(* What the consumer would get is a part of the buffer. *)
LEMMA StoredIs ==
    ASSUME NEW p \in 0 .. Size - 1, NEW r \in 0 .. Size, NEW c \in 0 .. Size
    PROVE  \A k \in 1 .. c : (p - r + k - 1) % Size = Cell((p - r) % Size, k - 1)
<1>1. Size \in 1 .. 255
  BY FifoAssumption
<1>2. \A i \in 0 .. Size - 1 : (p - r + i) % Size = Cell((p - r) % Size, i)
  BY CellsBack
<1> SUFFICES ASSUME NEW k \in 1 .. c PROVE (p - r + k - 1) % Size = Cell((p - r) % Size, k - 1)
  OBVIOUS
<1>3. k - 1 \in 0 .. Size - 1 /\ p - r + (k - 1) = p - r + k - 1
  BY <1>1
<1> QED BY <1>2, <1>3

-----------------------------------------------------------------------------
(* The inductive invariant.                                                 *)
First == (pread - Len(cons.got)) % Size
Written == IF prod.pc \in {"copy", "count"} THEN Len(prod.block) - Len(prod.rest) ELSE 0

(* The cells are shared without a lock: what the producer has copied in but *)
(* not counted lies behind what is counted, what the consumer has copied    *)
(* out but not counted is still in place.                                   *)
RingOK == RingAt(First, count, Written, Len(cons.got), buffer, pread, pwrite, prod.block, cons.got)

(* The room the producer found stays, since only it fills the buffer. *)
ProdOK ==
    /\ prod.pc \in {"copy", "count"} =>
          /\ prod.block \in Blocks
          /\ count + Len(prod.block) <= Size
          /\ Len(prod.rest) <= Len(prod.block)
          /\ \A k \in 1 .. Len(prod.rest) :
                prod.rest[k] = prod.block[Len(prod.block) - Len(prod.rest) + k]
    /\ prod.pc = "copy" => prod.rest # <<>>
    /\ prod.pc = "count" => prod.rest = <<>>
    /\ side = "rx" => prod.pc = "idle"
    /\ side = "robot" /\ prod.pc = "wake" => count >= 1

(* The bytes the consumer found stay, since only it empties the buffer; one *)
(* that trusts the signal is woken behind a byte.                           *)
ConsOK ==
    /\ cons.pc \notin {"idle", "unlock"} =>
          /\ cons.want \in Lengths
          /\ cons.call = "byte" => cons.want = 1
          /\ side = "pc" => cons.call = "data"
    /\ cons.pc \notin {"copy", "count"} => cons.got = <<>>
    /\ cons.pc = "copy" => Len(cons.got) < cons.want
    /\ cons.pc = "count" => Len(cons.got) = cons.want
    /\ cons.pc = "waiting" /\ signal = 0 /\ cons.call = "byte" => count >= 1
    /\ side = "tx" => cons.pc = "idle"

IInv == FifoTypeOK /\ GetsWhatIsThere /\ ProdOK /\ ConsOK /\ RingOK

(* The consumers on the PC use fifo_get_data(), which looks at the count    *)
(* again when it is woken.                                                  *)
OnlyBlocksOnPc == PcCalls \subseteq {"data"}

LEMMA FifoStarts ==
    ASSUME FifoInit
    PROVE  IInv /\ Queue!QueueInit
<1>1. Size \in 1 .. 255 /\ 0 \in 0 .. Size /\ 0 \in 0 .. Size - 1
  BY FifoAssumption
<1>2. <<>> \in UpTo(Size) /\ Len(<<>>) = 0
  BY NoBytes
<1>3. FifoTypeOK
  BY <1>1, <1>2 DEF FifoInit, FifoTypeOK, Idle, Away, Calls
<1>4. GetsWhatIsThere /\ ProdOK /\ ConsOK
  BY <1>2 DEF FifoInit, GetsWhatIsThere, ProdOK, ConsOK, Idle, Away
<1>5. First = 0 /\ Written = 0 /\ Len(cons.got) = 0
  <2>1. Len(cons.got) = 0 /\ pread = 0
    BY <1>2 DEF FifoInit, Away
  <2>2. 0 % Size = 0
    BY <1>1, ModuloIsStep
  <2> QED BY <2>1, <2>2 DEF First, Written, FifoInit, Idle
<1>6. RingOK
  <2>1. Cell(0, 0) = 0 /\ Cell(0, 0 + 0) = 0
    BY <1>1 DEF Cell
  <2> QED BY <1>1, <1>5, <2>1 DEF RingOK, RingAt, FifoInit
<1>7. Stored = <<>>
  BY DEF Stored, FifoInit
<1> QED BY <1>3, <1>4, <1>6, <1>7 DEF IInv, Queue!QueueInit, FifoInit

(* Steps that touch neither the buffer nor what is copied. *)
LEMMA RingStays ==
    ASSUME RingOK, UNCHANGED <<count, buffer, pread, pwrite>>, cons'.got = cons.got,
           prod' = prod \/ (Written = 0 /\ Written' = 0)
    PROVE  RingOK' /\ Stored' = Stored
<1>1. First' = First /\ Len(cons.got)' = Len(cons.got)
  BY DEF First
<1>2. Stored' = Stored
  BY DEF Stored
<1>3. CASE prod' = prod
  <2>1. Written' = Written
    BY <1>3 DEF Written
  <2> QED BY <1>1, <1>2, <1>3, <2>1 DEF RingOK
<1>4. CASE Written = 0 /\ Written' = 0
  BY <1>1, <1>2, <1>4 DEF RingOK, RingAt
<1> QED BY <1>3, <1>4

(* A block or a byte is taken when there is room. *)
LEMMA PutStays ==
    ASSUME IInv, ProducerCalls
    PROVE  IInv' /\ UNCHANGED <<Stored, accepted, delivered>>
<1> USE DEF IInv
<1>1. /\ prod.pc = "idle" /\ side # "rx"
      /\ UNCHANGED <<side, count, buffer, pread, pwrite, locked, cons, accepted, delivered>>
  BY DEF ProducerCalls, fifo_put_data, PutByte, ReadSide
<1>2. /\ Size \in 1 .. 255 /\ count \in 0 .. Size /\ signal \in {0, 1}
      /\ overflow \in BOOLEAN /\ news \in {0, 1} /\ 1 <= Size
  BY FifoAssumption DEF FifoTypeOK
<1> DEFINE Fits(b) == Len(b) + count <= Size /\ prod' = [pc |-> "copy", block |-> b, rest |-> b]
           Dropped == prod' \in {prod, Idle, [Idle EXCEPT !.pc = "wait"]}
<1>3. /\ overflow' \in BOOLEAN /\ news' \in {0, 1} /\ signal' \in {0, 1}
      /\ signal' # signal => count = Size
      /\ Dropped \/ \E b \in Blocks : Fits(b)
  <2>1. CASE \E b \in Blocks, wait \in BOOLEAN : fifo_put_data(b, wait)
    <3>1. PICK b \in Blocks, wait \in BOOLEAN : fifo_put_data(b, wait)
      BY <2>1
    <3>2. Len(b) \in 1 .. Size
      BY BlocksAre
    <3>3. CASE Len(b) > Size - count
      BY <1>2, <3>1, <3>3 DEF fifo_put_data
    <3>4. CASE ~(Len(b) > Size - count)
      <4>0. Len(b) + count <= Size
        BY <1>2, <3>2, <3>4
      <4>1. Fits(b)
        BY <3>1, <3>4, <4>0 DEF fifo_put_data
      <4> QED BY <1>2, <3>1, <3>4, <4>1 DEF fifo_put_data
    <3> QED BY <3>3, <3>4
  <2>2. CASE \E v \in Values : PutByte(v)
    <3>1. PICK v \in Values : PutByte(v)
      BY <2>2
    <3>2. <<v>> \in Blocks /\ Len(<<v>>) = 1
      BY BytesAreBlocks
    <3>3. CASE count = Size
      BY <1>2, <3>1, <3>3 DEF PutByte
    <3>4. CASE count # Size
      <4> DEFINE b == <<v>>
      <4>1. Len(b) + count <= Size /\ b \in Blocks
        BY <1>2, <3>2, <3>4
      <4>2. /\ prod' = [pc |-> "copy", block |-> b, rest |-> b] /\ UNCHANGED <<overflow, signal>>
            /\ news' = 1 - news
        BY <3>1, <3>4 DEF PutByte
      <4> HIDE DEF b
      <4>3. Fits(b)
        BY <4>1, <4>2
      <4>4. \E d \in Blocks : Fits(d)
        BY <4>1, <4>3
      <4> QED BY <1>2, <4>2, <4>4
    <3> QED BY <3>3, <3>4
  <2> QED BY <2>1, <2>2 DEF ProducerCalls
<1>4. FifoTypeOK' /\ ProdOK' /\ Written = 0 /\ Written' = 0
  <2>1. CASE Dropped
    <3>1. /\ prod'.pc \in {"idle", "wait"} /\ prod'.block \in UpTo(Size) /\ prod'.rest \in UpTo(Size)
          /\ prod' = [pc |-> prod'.pc, block |-> prod'.block, rest |-> prod'.rest]
      BY <1>1, <2>1, NoBytes DEF FifoTypeOK, Idle
    <3>2. FifoTypeOK'
      BY <1>1, <1>3, <3>1 DEF FifoTypeOK
    <3> QED BY <1>1, <3>1, <3>2 DEF ProdOK, Written
  <2>2. CASE \E b \in Blocks : Fits(b)
    <3>1. PICK b \in Blocks : Fits(b)
      BY <2>2
    <3>2. b \in UpTo(Size) /\ b \in Seq(Values) /\ Len(b) \in 1 .. Size /\ b # <<>>
      <4>1. b \in Seq(Values) /\ Len(b) \in 1 .. Size
        BY BlocksAre
      <4> QED BY <1>2, <4>1, UpToIs, NoBytes
    <3>3. FifoTypeOK'
      BY <1>1, <1>3, <3>1, <3>2 DEF FifoTypeOK
    <3>4. Len(b) - Len(b) = 0 /\ \A k \in 1 .. Len(b) : Len(b) - Len(b) + k = k
      BY <3>2
    <3>5. ProdOK'
      BY <1>1, <1>2, <3>1, <3>2, <3>4 DEF ProdOK
    <3>6. Written = 0 /\ Written' = 0
      BY <1>1, <3>1, <3>4 DEF Written
    <3> QED BY <3>3, <3>5, <3>6
  <2> QED BY <1>3, <2>1, <2>2
<1>5. RingOK' /\ Stored' = Stored
  BY <1>1, <1>4, RingStays
<1>6. GetsWhatIsThere'
  BY <1>1 DEF GetsWhatIsThere
<1>7. ConsOK'
  <2>1. CASE signal' = signal
    BY <1>1, <2>1 DEF ConsOK
  <2>2. CASE signal' # signal
    <3>1. count >= 1
      BY <1>2, <1>3, <2>2
    <3> QED BY <1>1, <3>1 DEF ConsOK
  <2> QED BY <2>1, <2>2
<1> QED BY <1>1, <1>4, <1>5, <1>6, <1>7

(* The producer returns to its caller. *)
LEMMA PutReturns ==
    ASSUME IInv, GiveUp \/ WakeConsumer
    PROVE  IInv' /\ UNCHANGED <<Stored, accepted, delivered>>
<1> USE DEF IInv
<1>1. /\ prod.pc \in {"wait", "wake"} /\ prod' = Idle /\ signal' \in {signal, 0}
      /\ signal' # signal => prod.pc = "wake"
      /\ UNCHANGED <<side, count, buffer, pread, pwrite, overflow, locked, cons, accepted, delivered, news>>
  BY DEF GiveUp, WakeConsumer, ReadSide
<1>2. FifoTypeOK'
  BY <1>1, NoBytes DEF FifoTypeOK, Idle
<1>3. ProdOK' /\ Written = 0 /\ Written' = 0
  BY <1>1 DEF ProdOK, Written, Idle
<1>4. RingOK' /\ Stored' = Stored
  BY <1>1, <1>3, RingStays
<1>5. GetsWhatIsThere'
  BY <1>1 DEF GetsWhatIsThere
<1>6. ConsOK'
  <2>1. CASE signal' = signal
    BY <1>1, <2>1 DEF ConsOK
  <2>2. CASE signal' # signal
    <3>1. side # "rx" /\ prod.pc = "wake"
      BY <1>1, <2>2 DEF ProdOK
    <3>2. cons.pc = "waiting" /\ cons.call = "byte" => side = "robot" /\ count >= 1
      BY <3>1 DEF ConsOK, ProdOK, FifoTypeOK, Sides
    <3> QED BY <1>1, <3>2 DEF ConsOK
  <2> QED BY <2>1, <2>2
<1> QED BY <1>1, <1>2, <1>3, <1>4, <1>5, <1>6

LEMMA RingFacts ==
    ASSUME IInv
    PROVE  /\ Size \in 1 .. 255 /\ First \in 0 .. Size - 1 /\ count \in 0 .. Size
           /\ Written \in 0 .. Size /\ count + Written <= Size
           /\ cons.got \in Seq(Values) /\ Len(cons.got) \in 0 .. count
           /\ buffer \in [0 .. Size - 1 -> Values]
           /\ pread \in 0 .. Size - 1 /\ pwrite \in 0 .. Size - 1
           /\ Stored = Items(buffer, First, count)
<1>1. /\ Size \in 1 .. 255 /\ First \in 0 .. Size - 1 /\ count \in 0 .. Size
      /\ Written \in 0 .. Size /\ count + Written <= Size /\ Len(cons.got) \in 0 .. count
      /\ buffer \in [0 .. Size - 1 -> Values]
  BY FifoAssumption DEF IInv, RingOK, RingAt
<1>2. pread \in 0 .. Size - 1 /\ pwrite \in 0 .. Size - 1 /\ cons.got \in UpTo(Size)
  BY DEF IInv, FifoTypeOK
<1>3. Len(cons.got) \in 0 .. Size
  BY <1>1
<1>4. \A k \in 1 .. count : (pread - Len(cons.got) + k - 1) % Size = Cell(First, k - 1)
  BY <1>1, <1>2, <1>3, StoredIs DEF First
<1>5. Stored = Items(buffer, First, count)
  BY <1>4 DEF Stored, Items
<1> QED BY <1>1, <1>2, <1>5, UpToIs

(* The count is a byte, which the size fits in. *)
LEMMA CountsFit ==
    ASSUME NEW x \in 0 .. Size
    PROVE  x % 256 = x
BY FifoAssumption

LEMMA StoredNext ==
    ASSUME RingOK', pread' \in 0 .. Size - 1
    PROVE  Stored' = Items(buffer', First', count')
<1>1. count' \in 0 .. Size /\ Len(cons'.got) \in 0 .. Size
  BY FifoAssumption DEF RingOK, RingAt
<1>2. \A k \in 1 .. count' : (pread' - Len(cons'.got) + k - 1) % Size = Cell(First', k - 1)
  BY <1>1, StoredIs DEF First
<1> QED BY <1>2 DEF Stored, Items

(* One more byte of the block is copied in. *)
LEMMA CopyInStays ==
    ASSUME IInv, CopyIn
    PROVE  IInv' /\ UNCHANGED <<Stored, accepted, delivered>>
<1>1. /\ prod.pc = "copy" /\ buffer' = [buffer EXCEPT ![pwrite] = Head(prod.rest)] /\ pwrite' = Next1(pwrite)
      /\ UNCHANGED <<side, count, pread, signal, overflow, locked, cons, accepted, delivered, news>>
      /\ prod' = [prod EXCEPT !.rest = Tail(@), !.pc = IF Len(prod.rest) = 1 THEN "count" ELSE @]
  BY DEF CopyIn, ReadSide
<1>2. /\ prod.block \in Blocks /\ count + Len(prod.block) <= Size /\ prod.rest # <<>>
      /\ Len(prod.rest) <= Len(prod.block)
      /\ \A k \in 1 .. Len(prod.rest) : prod.rest[k] = prod.block[Len(prod.block) - Len(prod.rest) + k]
  BY <1>1 DEF IInv, ProdOK
<1>3. prod.block \in Seq(Values) /\ Len(prod.block) \in 1 .. Size
  BY <1>2, BlocksAre
<1>4. prod.rest \in Seq(Values) /\ Len(prod.rest) \in 1 .. Size
  <2>1. prod.rest \in UpTo(Size)
    BY DEF IInv, FifoTypeOK
  <2>2. prod.rest \in Seq(Values) /\ Len(prod.rest) <= Size
    BY <2>1, UpToIs
  <2>3. Len(prod.rest) \in Nat \ {0}
    BY <1>2, <2>2, EmptySeq
  <2> QED BY <2>2, <2>3, RingFacts
<1>5. /\ Head(prod.rest) = prod.rest[1] /\ Head(prod.rest) \in Values
      /\ Tail(prod.rest) \in Seq(Values) /\ Len(Tail(prod.rest)) = Len(prod.rest) - 1
      /\ \A i \in 1 .. Len(Tail(prod.rest)) : Tail(prod.rest)[i] = prod.rest[i + 1]
  <2>1. Head(prod.rest) = prod.rest[1]
    BY <1>4
  <2> QED BY <1>2, <1>4, <2>1, HeadTailProperties
<1> DEFINE n == Len(prod.block)
           m == Len(prod.rest)
           w == n - m
<1>6. /\ n \in 1 .. Size /\ m \in 1 .. Size /\ m <= n /\ w = n - m
      /\ n = Len(prod.block) /\ m = Len(prod.rest) /\ count + n <= Size
  BY <1>2, <1>3, <1>4
<1> HIDE DEF n, m, w
<1>7. Written = w /\ prod.block[w + 1] = Head(prod.rest)
  <2>1. 1 \in 1 .. Len(prod.rest)
    BY <1>4
  <2>2. prod.rest[1] = prod.block[Len(prod.block) - Len(prod.rest) + 1]
    BY <1>2, <2>1
  <2>3. prod.rest[1] = prod.block[w + 1]
    BY <1>6, <2>2
  <2> QED BY <1>1, <1>5, <1>6, <2>3 DEF Written
<1>8. count + w < Size
  <2>1. /\ count \in Int /\ n \in Int /\ m \in Int /\ Size \in Int /\ w = n - m
        /\ 1 <= m /\ count + n <= Size
    <3>1. count \in 0 .. Size /\ Size \in 1 .. 255
      BY RingFacts
    <3> QED BY <1>6, <3>1
  <2> QED BY <2>1
<1>9. RingAt(First, count, w + 1, Len(cons.got), buffer', pread, Next1(pwrite), prod.block, cons.got)
  <2>1. RingAt(First, count, w, Len(cons.got), buffer, pread, pwrite, prod.block, cons.got)
    BY <1>7 DEF IInv, RingOK
  <2>2. /\ buffer' \in [0 .. Size - 1 -> Values] /\ buffer'[pwrite] = prod.block[w + 1]
        /\ \A i \in 0 .. Size - 1 : i # pwrite => buffer'[i] = buffer[i]
    BY <1>1, <1>5, <1>7, RingFacts
  <2> QED BY <1>8, <2>1, <2>2, RingWritten
<1>10. /\ prod'.block = prod.block /\ prod'.rest = Tail(prod.rest)
       /\ prod'.pc = (IF Len(prod.rest) = 1 THEN "count" ELSE "copy")
       /\ prod' = [pc |-> prod'.pc, block |-> prod'.block, rest |-> prod'.rest]
  <2>1. prod = [pc |-> prod.pc, block |-> prod.block, rest |-> prod.rest]
    BY DEF IInv, FifoTypeOK
  <2> QED BY <1>1, <2>1
<1>11. Len(prod'.rest) = m - 1 /\ Len(prod'.block) = n /\ prod'.pc \in {"copy", "count"}
  BY <1>5, <1>6, <1>10
<1>12. First' = First /\ Written' = w + 1
  <2>1. n - (m - 1) = w + 1
    <3>1. n \in Int /\ m \in Int /\ w = n - m
      BY <1>6, FifoAssumption
    <3> QED BY <3>1
  <2>2. Written' = n - (m - 1)
    BY <1>11 DEF Written
  <2> QED BY <1>1, <2>1, <2>2 DEF First
<1>13. RingOK'
  BY <1>1, <1>9, <1>10, <1>12 DEF RingOK
<1>14. pwrite' \in 0 .. Size - 1
  <2>1. Size \in 1 .. 255 /\ pwrite \in 0 .. Size - 1
    BY RingFacts
  <2> QED BY <1>1, <2>1 DEF Next1
<1>15. Stored' = Stored
  <2>1. Stored' = Items(buffer', First, count)
    BY <1>1, <1>12, <1>13, RingFacts, StoredNext
  <2>2. Stored = Items(buffer, First, count)
    BY RingFacts
  <2>3. ASSUME NEW k \in 1 .. count PROVE buffer'[Cell(First, k - 1)] = buffer[Cell(First, k - 1)]
    <3> DEFINE q == count + w
    <3>0. w \in 0 .. Size /\ count \in 0 .. Size /\ Size \in 1 .. 255
      BY <1>7, RingFacts
    <3>1. q \in 0 .. Size - 1 /\ count \in 0 .. q
      BY <1>8, <3>0
    <3>2. First \in 0 .. Size - 1 /\ pwrite = Cell(First, q)
      BY <1>7, RingFacts DEF IInv, RingOK, RingAt
    <3> HIDE DEF q
    <3>3. Cell(First, k - 1) \in 0 .. Size - 1 /\ Cell(First, k - 1) # pwrite
      BY <3>1, <3>2, ItemsKept
    <3> QED BY <1>1, <3>3, RingFacts
  <2>4. Items(buffer', First, count) = Items(buffer, First, count)
    BY <2>3 DEF Items
  <2> QED BY <2>1, <2>2, <2>4
<1>16. FifoTypeOK'
  <2>1. buffer' \in [0 .. Size - 1 -> Values]
    BY <1>1, <1>5, RingFacts
  <2>2. Tail(prod.rest) \in UpTo(Size)
    <3>1. Len(Tail(prod.rest)) = m - 1 /\ m - 1 <= Size
      BY <1>5, <1>6, FifoAssumption
    <3>2. Len(Tail(prod.rest)) <= Size
      BY <3>1
    <3> QED BY <1>5, <3>2, UpToIs
  <2> QED BY <1>1, <1>10, <1>11, <1>14, <2>1, <2>2 DEF IInv, FifoTypeOK
<1>17. ProdOK'
  <2>1. Len(prod'.rest) <= Len(prod'.block)
    BY <1>6, <1>11
  <2>2. ASSUME NEW k \in 1 .. Len(prod'.rest)
        PROVE  prod'.rest[k] = prod'.block[Len(prod'.block) - Len(prod'.rest) + k]
    <3>1. k + 1 \in 1 .. m /\ k \in 1 .. Len(Tail(prod.rest)) /\ n - (m - 1) + k = n - m + (k + 1)
      <4>1. Len(Tail(prod.rest)) = m - 1 /\ Len(prod'.rest) = m - 1
        BY <1>5, <1>6, <1>11
      <4>2. k \in 1 .. m - 1
        BY <4>1
      <4>3. n \in Int /\ m \in Int
        BY <1>6, FifoAssumption
      <4> QED BY <4>1, <4>2, <4>3
    <3>2. prod.rest[k + 1] = prod.block[n - m + (k + 1)]
      BY <1>2, <1>6, <3>1
    <3> QED BY <1>5, <1>10, <1>11, <3>1, <3>2
  <2>3. prod'.rest = <<>> <=> m = 1
    <3>1. prod'.rest \in Seq(Values) /\ (prod'.rest = <<>> => Len(prod'.rest) = 0)
      BY <1>5, <1>10, NoBytes
    <3>2. prod'.rest # <<>> => Len(prod'.rest) \in Nat \ {0}
      BY <3>1, EmptySeq
    <3> QED BY <1>6, <1>11, <3>1, <3>2
  <2>4. side' # "rx"
    BY <1>1 DEF IInv, ProdOK
  <2> QED BY <1>1, <1>2, <1>6, <1>10, <1>11, <2>1, <2>2, <2>3, <2>4 DEF ProdOK
<1>18. ConsOK' /\ GetsWhatIsThere'
  BY <1>1 DEF IInv, ConsOK, GetsWhatIsThere
<1> QED BY <1>1, <1>13, <1>15, <1>16, <1>17, <1>18 DEF IInv

(* The block is counted in: it enters the queue as a whole. *)
LEMMA CountInAccepts ==
    ASSUME IInv, CountIn
    PROVE  IInv' /\ Queue!QueueNext
<1>1. /\ prod.pc = "count" /\ count' = (count + Len(prod.block)) % 256
      /\ prod' = [prod EXCEPT !.pc = "wake"] /\ accepted' = prod.block
      /\ UNCHANGED <<side, buffer, pread, pwrite, signal, overflow, locked, cons, delivered, news>>
  BY DEF CountIn, ReadSide
<1>2. /\ prod.block \in Blocks /\ count + Len(prod.block) <= Size /\ prod.rest = <<>> /\ side # "rx"
  BY <1>1 DEF IInv, ProdOK
<1>3. prod.block \in Seq(Values) /\ Len(prod.block) \in 1 .. Size
  BY <1>2, BlocksAre
<1>4. Size \in 1 .. 255 /\ count \in 0 .. Size
  BY RingFacts
<1> DEFINE w == Len(prod.block)
<1>5. w \in 1 .. Size /\ count + w \in 0 .. Size /\ count + w >= 1
  BY <1>2, <1>3, <1>4
<1>50. w = Len(prod.block) /\ count' = (count + w) % 256
  BY <1>1
<1> HIDE DEF w
<1>6. count' = count + w
  BY <1>4, <1>5, <1>50, CountsFit
<1>7. Written = w
  <2>1. Len(prod.rest) = 0
    BY <1>2, NoBytes
  <2> QED BY <1>1, <1>4, <1>5, <2>1 DEF Written, w
<1>8. /\ prod' = [pc |-> "wake", block |-> prod.block, rest |-> <<>>]
      /\ prod'.pc = "wake" /\ prod'.block = prod.block
  <2>1. prod = [pc |-> prod.pc, block |-> prod.block, rest |-> prod.rest]
    BY DEF IInv, FifoTypeOK
  <2> QED BY <1>1, <1>2, <2>1
<1>9. First' = First /\ Written' = 0
  BY <1>1, <1>8 DEF First, Written
<1>10. /\ RingAt(First, count + w, 0, Len(cons.got), buffer, pread, pwrite, prod.block, cons.got)
       /\ Joined(buffer, First, count, w, prod.block)
  <2>1. RingAt(First, count, w, Len(cons.got), buffer, pread, pwrite, prod.block, cons.got)
    BY <1>7 DEF IInv, RingOK
  <2> QED BY <1>3, <1>50, <2>1, RingCountedIn
<1>11. RingOK'
  BY <1>1, <1>6, <1>8, <1>9, <1>10 DEF RingOK
<1>12. FifoTypeOK'
  <2>1. prod.block \in UpTo(Size)
    BY <1>3, <1>4, UpToIs
  <2> QED BY <1>1, <1>5, <1>6, <1>8, <2>1, NoBytes DEF IInv, FifoTypeOK
<1>13. ProdOK'
  BY <1>1, <1>2, <1>5, <1>6, <1>8 DEF ProdOK
<1>14. count' >= count
  BY <1>4, <1>5, <1>6
<1>15. GetsWhatIsThere'
  <2>1. cons.want \in Int
    BY FifoAssumption DEF IInv, FifoTypeOK
  <2> QED BY <1>1, <1>4, <1>5, <1>6, <2>1 DEF IInv, GetsWhatIsThere
<1>16. ConsOK'
  BY <1>1, <1>5, <1>6 DEF IInv, ConsOK
<1>17. Stored' = Stored \o prod.block /\ Len(Stored) = count
  <2>1. Stored' = Items(buffer, First, count + w)
    BY <1>1, <1>6, <1>9, <1>11, RingFacts, StoredNext
  <2>2. Stored = Items(buffer, First, count) /\ Len(Items(buffer, First, count)) = count
    BY RingFacts, ItemsAre
  <2> QED BY <1>10, <2>1, <2>2 DEF Joined
<1>18. Queue!Accept(prod.block)
  BY <1>1, <1>2, <1>17 DEF Queue!Accept
<1> QED BY <1>2, <1>11, <1>12, <1>13, <1>15, <1>16, <1>18 DEF IInv, Queue!QueueNext, Queue!Blocks, Blocks

(* The receive interrupt: its byte enters the queue, or none. *)
LEMMA ReceiveAccepts ==
    ASSUME IInv, NEW v \in Values, Receive(v)
    PROVE  IInv' /\ (Queue!QueueNext \/ UNCHANGED <<Stored, accepted, delivered>>)
<1>1. /\ side = "rx" /\ signal' = 0 /\ news' = 1 - news
      /\ UNCHANGED <<side, pread, locked, cons, delivered, prod>>
  BY DEF Receive, ReadSide
<1>2. Size \in 1 .. 255 /\ count \in 0 .. Size
  BY RingFacts
<1>3. prod.pc = "idle" /\ Written = 0 /\ Written' = 0
  BY <1>1 DEF IInv, ProdOK, Written
<1>4. ProdOK'
  BY <1>1, <1>3 DEF IInv, ProdOK
<1>5. news' \in {0, 1}
  BY <1>1 DEF IInv, FifoTypeOK
<1>6. CASE count = Size
  <2>1. overflow' = TRUE /\ UNCHANGED <<count, buffer, pwrite, accepted>>
    BY <1>6 DEF Receive
  <2>2. RingOK' /\ Stored' = Stored
    BY <1>1, <2>1, RingStays DEF IInv
  <2>3. FifoTypeOK' /\ GetsWhatIsThere'
    BY <1>1, <1>5, <2>1 DEF IInv, FifoTypeOK, GetsWhatIsThere
  <2>4. ConsOK'
    <3>1. count >= 1
      BY <1>2, <1>6
    <3> QED BY <1>1, <2>1, <3>1 DEF IInv, ConsOK
  <2> QED BY <1>1, <1>4, <2>1, <2>2, <2>3, <2>4 DEF IInv
<1>7. CASE count # Size
  <2>1. /\ buffer' = [buffer EXCEPT ![pwrite] = v] /\ pwrite' = Next1(pwrite)
        /\ count' = (count + 1) % 256 /\ accepted' = <<v>> /\ UNCHANGED overflow
    BY <1>7 DEF Receive
  <2>2. count' = count + 1 /\ count + 0 < Size /\ count + 1 \in 0 .. Size /\ count + 1 >= 1
        /\ 0 + 1 = 1 /\ count + 0 = count /\ count \in 0 .. Size - 1
    BY <1>2, <1>7, <2>1
  <2> DEFINE b == <<v>>
  <2>3. b \in Blocks /\ Len(b) = 1 /\ b \in Seq(Values) /\ b[1] = v /\ b = accepted'
    BY <2>1, BytesAreBlocks
  <2> HIDE DEF b
  <2>4. RingAt(First, count, 0, Len(cons.got), buffer, pread, pwrite, b, cons.got)
    BY <1>3 DEF IInv, RingOK, RingAt
  <2>5. /\ buffer' \in [0 .. Size - 1 -> Values] /\ buffer'[pwrite] = b[1]
        /\ \A i \in 0 .. Size - 1 : i # pwrite => buffer'[i] = buffer[i]
    BY <2>1, <2>3, RingFacts
  <2> DEFINE w == 0
             u == w + 1
  <2>60. w + 1 = 1 /\ count + w < Size /\ w = 0 /\ u = 1 /\ u = w + 1 /\ Len(b) = u
    BY <2>2, <2>3
  <2>61. RingAt(First, count, w, Len(cons.got), buffer, pread, pwrite, b, cons.got) /\ buffer'[pwrite] = b[w + 1]
    BY <2>4, <2>5
  <2> HIDE DEF w, u
  <2>62. RingAt(First, count, w + 1, Len(cons.got), buffer', pread, Next1(pwrite), b, cons.got)
    BY <2>5, <2>60, <2>61, RingWritten
  <2>6. RingAt(First, count, u, Len(cons.got), buffer', pread, Next1(pwrite), b, cons.got)
    BY <2>60, <2>62
  <2>70. /\ RingAt(First, count + u, 0, Len(cons.got), buffer', pread, Next1(pwrite), b, cons.got)
         /\ Joined(buffer', First, count, u, b)
    BY <2>3, <2>6, <2>60, RingCountedIn
  <2>7. /\ RingAt(First, count + 1, 0, Len(cons.got), buffer', pread, Next1(pwrite), b, cons.got)
        /\ Joined(buffer', First, count, 1, b)
    BY <2>60, <2>70
  <2>8. First' = First
    BY <1>1 DEF First
  <2>9. RingOK'
    BY <1>1, <1>3, <2>1, <2>2, <2>7, <2>8 DEF RingOK, RingAt
  <2>10. pwrite' \in 0 .. Size - 1
    <3>1. pwrite \in 0 .. Size - 1
      BY RingFacts
    <3> QED BY <1>2, <2>1, <3>1 DEF Next1
  <2>11. b \in UpTo(Size)
    <3>1. Len(b) <= Size
      BY <1>2, <2>3
    <3> QED BY <2>3, <3>1, UpToIs
  <2>12. FifoTypeOK'
    BY <1>1, <1>5, <2>1, <2>2, <2>3, <2>5, <2>10, <2>11 DEF IInv, FifoTypeOK
  <2>13. GetsWhatIsThere'
    <3>1. cons.want \in Int
      BY FifoAssumption DEF IInv, FifoTypeOK
    <3> QED BY <1>1, <1>2, <2>2, <3>1 DEF IInv, GetsWhatIsThere
  <2>14. ConsOK'
    BY <1>1, <2>2 DEF IInv, ConsOK
  <2>15. Stored' = Stored \o b /\ Len(Stored) = count
    <3>1. Stored' = Items(buffer', First, count + 1)
      BY <1>1, <2>2, <2>8, <2>9, RingFacts, StoredNext
    <3>2. First \in 0 .. Size - 1 /\ pwrite = Cell(First, count)
      BY <2>2, <2>4, RingFacts DEF RingAt
    <3>3. ASSUME NEW k \in 1 .. count PROVE buffer'[Cell(First, k - 1)] = buffer[Cell(First, k - 1)]
      <4>1. Cell(First, k - 1) \in 0 .. Size - 1 /\ Cell(First, k - 1) # pwrite
        BY <1>2, <2>2, <3>2, ItemsKept
      <4> QED BY <2>5, <4>1
    <3>4. Items(buffer', First, count) = Items(buffer, First, count)
      BY <3>3 DEF Items
    <3>5. Stored = Items(buffer, First, count) /\ Len(Items(buffer, First, count)) = count
      BY RingFacts, ItemsAre
    <3> QED BY <2>7, <3>1, <3>4, <3>5 DEF Joined
  <2>16. Queue!Accept(b)
    <3>1. count + Len(b) <= Size
      BY <2>2, <2>3
    <3> QED BY <1>1, <2>3, <2>15, <3>1 DEF Queue!Accept
  <2> QED BY <1>4, <2>3, <2>9, <2>12, <2>13, <2>14, <2>16 DEF IInv, Queue!QueueNext, Queue!Blocks, Blocks
<1> QED BY <1>6, <1>7

(* The consumer goes on without copying or counting. *)
LEMMA GetStays ==
    ASSUME OnlyBlocksOnPc, IInv,
           ConsumerCalls \/ TestCount \/ LockSignal \/ Woken \/ LockFifo \/ UnlockFifo
    PROVE  IInv' /\ UNCHANGED <<Stored, accepted, delivered>>
<1>1. /\ Turn /\ UNCHANGED <<side, buffer, pwrite, overflow, prod, accepted, news, count, pread, delivered>>
      /\ signal' = 1 \/ signal' = signal
      /\ locked' \in {0, 1, locked}
  BY DEF ConsumerCalls, Get, TestCount, LockSignal, Woken, LockFifo, UnlockFifo, WriteSide
<1>2. /\ Size \in 1 .. 255 /\ count \in 0 .. Size /\ signal' \in {0, 1} /\ locked' \in {0, 1}
      /\ cons.want \in 0 .. Size /\ cons.call \in Calls /\ side \in Sides
      /\ cons = [pc |-> cons.pc, call |-> cons.call, want |-> cons.want, got |-> cons.got]
      /\ cons.pc \in {"idle", "test", "block", "waiting", "lock", "copy", "count", "unlock"}
  BY <1>1, FifoAssumption DEF IInv, FifoTypeOK
<1>3. cons.got = <<>>
  BY DEF IInv, ConsOK, ConsumerCalls, Get, TestCount, LockSignal, Woken, LockFifo, UnlockFifo
<1> DEFINE places == {"idle", "test", "block", "waiting", "lock", "copy", "count", "unlock"}
(* what holds for the consumer at its new place *)
<1>4. /\ cons' = [pc |-> cons'.pc, call |-> cons'.call, want |-> cons'.want, got |-> <<>>]
      /\ cons'.pc \in places \ {"count"} /\ cons'.call \in Calls /\ cons'.want \in 0 .. Size
      /\ side = "tx" => cons'.pc = "idle"
      /\ cons'.pc \notin {"idle", "unlock"} =>
            /\ cons'.want \in Lengths
            /\ cons'.call = "byte" => cons'.want = 1
            /\ side = "pc" => cons'.call = "data"
      /\ cons'.pc \in {"lock", "copy"} => cons'.want <= count
      /\ cons'.pc = "waiting" => signal' = 1
  <2>1. CASE ConsumerCalls
    <3>1. PICK call \in Calls, n \in Lengths : Get(call, n)
      BY <2>1 DEF ConsumerCalls
    <3>2. n \in 0 .. Size
      BY FifoAssumption
    <3> QED BY <3>1, <3>2 DEF Get, OnlyBlocksOnPc
  <2>2. CASE TestCount
    <3>1. cons.pc = "test" /\ cons' = [cons EXCEPT !.pc = IF count < cons.want THEN "block"
                                       ELSE IF cons.call = "data" THEN "lock" ELSE "copy"]
      BY <2>2 DEF TestCount
    <3>2. ~(count < cons.want) => cons.want <= count
      BY <1>2
    <3> QED BY <1>2, <1>3, <3>1, <3>2 DEF IInv, ConsOK
  <2>3. CASE LockSignal
    BY <1>2, <1>3, <2>3 DEF LockSignal, IInv, ConsOK
  <2>4. CASE Woken
    <3>1. cons.pc = "waiting" /\ signal = 0
          /\ cons' = [cons EXCEPT !.pc = IF cons.call = "data" THEN "test" ELSE "copy"]
      BY <2>4 DEF Woken
    <3>2. cons.call # "data" => cons.want <= count
      BY <1>2, <3>1 DEF IInv, ConsOK, Calls
    <3> QED BY <1>2, <1>3, <3>1, <3>2 DEF IInv, ConsOK
  <2>5. CASE LockFifo
    BY <1>2, <1>3, <2>5 DEF LockFifo, IInv, ConsOK, GetsWhatIsThere
  <2>6. CASE UnlockFifo
    <3>1. cons' = [pc |-> "idle", call |-> "byte", want |-> 0, got |-> <<>>]
      BY <2>6 DEF UnlockFifo, Away
    <3>2. 0 \in 0 .. Size /\ "byte" \in Calls
      BY <1>2 DEF Calls
    <3> QED BY <3>1, <3>2
  <2> QED BY <2>1, <2>2, <2>3, <2>4, <2>5, <2>6
<1>5. cons'.got = <<>>
  BY <1>4
<1>6. FifoTypeOK'
  BY <1>1, <1>2, <1>4, NoBytes DEF IInv, FifoTypeOK
<1>7. GetsWhatIsThere'
  BY <1>1, <1>4 DEF GetsWhatIsThere
<1>8. ProdOK'
  BY <1>1 DEF IInv, ProdOK
<1>9. ConsOK'
  <2>1. cons'.pc = "copy" => Len(cons'.got) < cons'.want
    <3>1. Lengths \subseteq 1 .. Size /\ Len(cons'.got) = 0
      BY <1>5, NoBytes, FifoAssumption
    <3> QED BY <1>2, <1>4, <3>1
  <2> QED BY <1>1, <1>4, <1>5, <2>1 DEF ConsOK
<1>10. RingOK' /\ Stored' = Stored
  BY <1>1, <1>3, <1>5, RingStays DEF IInv
<1> QED BY <1>1, <1>6, <1>7, <1>8, <1>9, <1>10 DEF IInv

(* One more byte is copied out. *)
LEMMA CopyOutStays ==
    ASSUME IInv, CopyOut
    PROVE  IInv' /\ UNCHANGED <<Stored, accepted, delivered>>
<1>1. /\ cons.pc = "copy"
      /\ cons' = [cons EXCEPT !.got = Append(@, buffer[pread]),
                              !.pc = IF Len(cons.got) = cons.want - 1 THEN "count" ELSE @]
      /\ pread' = Next1(pread)
      /\ UNCHANGED <<side, buffer, pwrite, overflow, prod, accepted, news, count, signal, locked, delivered>>
  BY DEF CopyOut, WriteSide
<1> DEFINE r == Len(cons.got)
           n == cons.want
           got2 == Append(cons.got, buffer[pread])
<1>2. r < n /\ n <= count /\ n \in Lengths
  BY <1>1 DEF IInv, ConsOK, GetsWhatIsThere
<1>3. /\ Size \in 1 .. 255 /\ count \in 0 .. Size /\ n \in 1 .. Size /\ r \in 0 .. count
      /\ First \in 0 .. Size - 1 /\ pread \in 0 .. Size - 1 /\ cons.got \in Seq(Values)
  BY <1>2, RingFacts, FifoAssumption
<1>4. r < count /\ r \in 0 .. Size - 1 /\ r \in 0 .. Size /\ r + 1 \in 1 .. n /\ r + 1 \in 0 .. Size
      /\ r + 1 <= Size /\ (r = n - 1 <=> r + 1 = n)
  BY <1>2, <1>3
<1>5. r = Len(cons.got)
  OBVIOUS
<1> HIDE DEF r
<1>6. /\ RingAt(First, count, Written, r + 1, buffer, Next1(pread), pwrite, prod.block, got2)
      /\ buffer[pread] \in Values
  <2>1. RingAt(First, count, Written, r, buffer, pread, pwrite, prod.block, cons.got)
    BY <1>5 DEF IInv, RingOK
  <2> QED BY <1>3, <1>4, <1>5, <2>1, RingRead
<1>7. got2 \in Seq(Values) /\ Len(got2) = r + 1 /\ got2 # <<>>
  BY <1>3, <1>5, <1>6, AppendProperties
<1>8. got2 \in UpTo(Size)
  BY <1>4, <1>7, UpToIs
<1> HIDE DEF got2
<1>9. /\ cons' = [pc |-> cons'.pc, call |-> cons.call, want |-> n, got |-> got2]
      /\ cons'.pc = IF r + 1 = n THEN "count" ELSE "copy"
      /\ cons'.want = n /\ cons'.got = got2 /\ cons'.call = cons.call
  <2>1. cons = [pc |-> cons.pc, call |-> cons.call, want |-> cons.want, got |-> cons.got]
    BY DEF IInv, FifoTypeOK
  <2> QED BY <1>1, <1>4, <1>5, <2>1 DEF got2
<1>10. First' = First
  <2>1. pread = Cell(First, r)
    BY <1>5 DEF IInv, RingOK, RingAt
  <2>2. pread' = Cell(First, r + 1)
    BY <1>1, <1>3, <1>4, <2>1, NextCell
  <2> DEFINE u == r + 1
  <2>3. u \in 0 .. Size /\ pread' = Cell(First, u) /\ Len(cons'.got) = u
    BY <1>4, <1>7, <1>9, <2>2
  <2> HIDE DEF u
  <2>4. (Cell(First, u) - u) % Size = First
    BY <1>3, <2>3, CellsForth
  <2> QED BY <2>3, <2>4 DEF First
<1>11. Written' = Written
  BY <1>1 DEF Written
<1>12. RingOK'
  BY <1>1, <1>6, <1>7, <1>9, <1>10, <1>11 DEF RingOK
<1>13. pread' \in 0 .. Size - 1
  BY <1>1, <1>3, NextInBuffer
<1>14. Stored' = Stored
  <2>1. Stored' = Items(buffer', First', count')
    BY <1>12, <1>13, StoredNext
  <2> QED BY <1>1, <1>10, <2>1, RingFacts
<1>15. FifoTypeOK'
  <2>1. n \in 0 .. Size /\ cons.call \in Calls
    BY <1>3 DEF IInv, FifoTypeOK
  <2> HIDE DEF n
  <2> QED BY <1>1, <1>8, <1>9, <1>13, <2>1 DEF IInv, FifoTypeOK
<1>16. ProdOK'
  BY <1>1 DEF IInv, ProdOK
<1>17. GetsWhatIsThere'
  BY <1>1, <1>2, <1>9 DEF GetsWhatIsThere
<1>18. ConsOK'
  <2>1. cons'.pc = "copy" => Len(cons'.got) < cons'.want
    <3>1. n \in Int /\ r \in Int /\ r + 1 <= n
      BY <1>3, <1>4
    <3>2. cons'.pc = "copy" => r + 1 < n
      BY <1>9, <3>1
    <3> QED BY <1>7, <1>9, <3>2
  <2>2. cons'.pc = "count" => Len(cons'.got) = cons'.want
    BY <1>7, <1>9
  <2>3. cons'.pc \in {"copy", "count"}
    BY <1>9
  <2> QED BY <1>1, <1>2, <1>9, <2>1, <2>2, <2>3 DEF IInv, ConsOK
<1> QED BY <1>1, <1>12, <1>14, <1>15, <1>16, <1>17, <1>18 DEF IInv

(* The bytes are counted out: they leave the queue, the oldest first. *)
LEMMA CountOutDelivers ==
    ASSUME IInv, CountOut
    PROVE  IInv' /\ Queue!QueueNext
<1>1. /\ cons.pc = "count" /\ count' = (count - cons.want) % 256 /\ delivered' = cons.got
      /\ cons' \in {Away, [Away EXCEPT !.pc = "unlock"]} /\ Turn
      /\ cons' = IF cons.call = "data" THEN [Away EXCEPT !.pc = "unlock"] ELSE Away
      /\ UNCHANGED <<side, buffer, pwrite, overflow, prod, accepted, news, pread, signal, locked>>
  BY DEF CountOut, WriteSide
<1> DEFINE n == cons.want
<1>2. n <= count /\ n \in Lengths /\ Len(cons.got) = n /\ side # "tx" /\ n = cons.want
  BY <1>1 DEF IInv, ConsOK, GetsWhatIsThere
<1>3. /\ Size \in 1 .. 255 /\ count \in 0 .. Size /\ n \in 1 .. Size /\ First \in 0 .. Size - 1
      /\ pread \in 0 .. Size - 1 /\ cons.got \in Seq(Values) /\ buffer \in [0 .. Size - 1 -> Values]
  BY <1>2, RingFacts, FifoAssumption
<1> HIDE DEF n
<1> DEFINE c == count - n
<1>4. c \in 0 .. Size /\ c = count - n /\ c <= count
  BY <1>2, <1>3
<1>5. count' = c
  BY <1>1, <1>2, <1>4, CountsFit
<1> HIDE DEF c
<1>6. cons'.pc \in {"idle", "unlock"} /\ cons'.got = <<>> /\ Len(cons'.got) = 0 /\ cons'.want = 0
  BY <1>1, NoBytes DEF Away
<1>7. /\ RingAt(pread, count - n, Written, 0, buffer, pread, pwrite, prod.block, <<>>)
      /\ Taken(buffer, First, count, n, pread, cons.got)
  <2>1. RingAt(First, count, Written, n, buffer, pread, pwrite, prod.block, cons.got)
    BY <1>2 DEF IInv, RingOK
  <2> QED BY <1>2, <1>3, <2>1, RingCountedOut
<1>8. First' = pread /\ Written' = Written
  <2>1. pread - 0 = pread /\ pread % Size = pread
    <3>1. Size \in 1 .. 255 /\ pread \in 0 .. Size - 1
      BY <1>3
    <3> QED BY <3>1, ModuloIsStep
  <2> QED BY <1>1, <1>6, <2>1 DEF First, Written
<1>9. RingOK'
  BY <1>1, <1>4, <1>5, <1>6, <1>7, <1>8 DEF RingOK
<1>10. FifoTypeOK'
  <2>1. cons.got \in UpTo(Size)
    BY DEF IInv, FifoTypeOK
  <2>2. 0 \in 0 .. Size /\ "byte" \in Calls
    BY <1>3 DEF Calls
  <2> QED BY <1>1, <1>4, <1>5, <2>1, <2>2, NoBytes DEF IInv, FifoTypeOK, Away
<1>11. GetsWhatIsThere' /\ ConsOK'
  BY <1>1, <1>2, <1>6 DEF GetsWhatIsThere, ConsOK
<1>12. ProdOK'
  <2>1. prod.pc \in {"copy", "count"} => c + Len(prod.block) <= Size
    <3>1. ASSUME prod.pc \in {"copy", "count"} PROVE c + Len(prod.block) <= Size
      <4>1. prod.block \in Blocks /\ count + Len(prod.block) <= Size
        BY <3>1 DEF IInv, ProdOK
      <4>2. Len(prod.block) \in 1 .. Size
        BY <4>1, BlocksAre
      <4> QED BY <1>3, <1>4, <4>1, <4>2
    <3> QED BY <3>1
  <2>2. side = "robot" => prod.pc # "wake"
    BY <1>1 DEF Turn
  <2> QED BY <1>1, <1>5, <2>1, <2>2 DEF IInv, ProdOK
<1>13. Queue!Deliver(n)
  <2>1. Stored = Items(buffer, First, count) /\ Len(Items(buffer, First, count)) = count
    BY RingFacts, ItemsAre
  <2>2. Stored' = Items(buffer, pread, count - n)
    BY <1>1, <1>3, <1>4, <1>5, <1>8, <1>9, StoredNext
  <2> QED BY <1>1, <1>2, <1>7, <2>1, <2>2 DEF Queue!Deliver, Taken
<1> QED BY <1>2, <1>9, <1>10, <1>11, <1>12, <1>13 DEF IInv, Queue!QueueNext

(* The transmit interrupt: the oldest byte leaves the queue. *)
LEMMA TransmitDelivers ==
    ASSUME IInv, Transmit
    PROVE  IInv' /\ Queue!QueueNext
<1>1. /\ side = "tx" /\ count > 0 /\ delivered' = <<buffer[pread]>> /\ pread' = Next1(pread)
      /\ count' = (count - 1) % 256
      /\ UNCHANGED <<side, buffer, pwrite, overflow, prod, accepted, news, signal, locked, cons>>
  BY DEF Transmit, WriteSide
<1>2. cons.pc = "idle" /\ cons.got = <<>> /\ Len(cons.got) = 0
  BY <1>1, NoBytes DEF IInv, ConsOK
<1>3. /\ Size \in 1 .. 255 /\ count \in 0 .. Size /\ First \in 0 .. Size - 1 /\ pread \in 0 .. Size - 1
      /\ buffer \in [0 .. Size - 1 -> Values]
  BY RingFacts
<1> DEFINE z == 0
           u == z + 1
           c == count - u
           b == Append(<<>>, buffer[pread])
<1>4. /\ z = 0 /\ u = z + 1 /\ u = 1 /\ c \in 0 .. Size /\ c = count - u /\ z < count /\ u <= count
      /\ count - 1 = c /\ pread - z = pread
  BY <1>1, <1>3
<1>5. b = Append(<<>>, buffer[pread]) /\ <<>> \in Seq(Values) /\ Len(<<>>) = z
  BY <1>4, NoBytes
<1> HIDE DEF z, u, c, b
<1>6. count' = c
  BY <1>1, <1>4, CountsFit
<1>7. /\ RingAt(First, count, Written, u, buffer, Next1(pread), pwrite, prod.block, b)
      /\ buffer[pread] \in Values
  <2>1. RingAt(First, count, Written, z, buffer, pread, pwrite, prod.block, <<>>)
    BY <1>2, <1>5 DEF IInv, RingOK
  <2>2. /\ RingAt(First, count, Written, z + 1, buffer, Next1(pread), pwrite, prod.block, Append(<<>>, buffer[pread]))
        /\ buffer[pread] \in Values
    BY <1>4, <1>5, <2>1, RingRead
  <2> QED BY <1>4, <1>5, <2>2
<1>8. b \in Seq(Values) /\ Len(b) = u
  BY <1>4, <1>5, <1>7, AppendProperties
<1>9. /\ RingAt(pread', count - u, Written, 0, buffer, pread', pwrite, prod.block, <<>>)
      /\ Taken(buffer, First, count, u, pread', b)
  BY <1>1, <1>7, <1>8, RingCountedOut
<1>10. pread' \in 0 .. Size - 1
  BY <1>1, <1>3, NextInBuffer
<1>11. First' = pread' /\ Written' = Written
  <2> DEFINE q == pread'
  <2>1. q \in 0 .. Size - 1 /\ Len(cons'.got) = 0
    BY <1>1, <1>2, <1>10
  <2> HIDE DEF q
  <2>2. (q - 0) % Size = q
    BY <1>3, <2>1
  <2> QED BY <1>1, <2>1, <2>2 DEF First, Written, q
<1>12. RingOK'
  BY <1>1, <1>2, <1>4, <1>6, <1>9, <1>11 DEF RingOK
<1>13. delivered' = b /\ b \in UpTo(Size)
  <2>1. Len(b) <= Size
    BY <1>3, <1>4, <1>8
  <2>2. Append(<<>>, buffer[pread]) = <<buffer[pread]>>
    OBVIOUS
  <2> QED BY <1>1, <1>5, <1>8, <2>1, <2>2, UpToIs
<1>14. FifoTypeOK'
  BY <1>1, <1>4, <1>6, <1>10, <1>13 DEF IInv, FifoTypeOK
<1>15. GetsWhatIsThere' /\ ConsOK'
  BY <1>1, <1>2 DEF IInv, GetsWhatIsThere, ConsOK
<1>16. ProdOK'
  <2>1. prod.pc \in {"copy", "count"} => c + Len(prod.block) <= Size
    <3>1. ASSUME prod.pc \in {"copy", "count"} PROVE c + Len(prod.block) <= Size
      <4>1. prod.block \in Blocks /\ count + Len(prod.block) <= Size
        BY <3>1 DEF IInv, ProdOK
      <4>2. Len(prod.block) \in 1 .. Size
        BY <4>1, BlocksAre
      <4> QED BY <1>3, <1>4, <4>1, <4>2
    <3> QED BY <3>1
  <2> QED BY <1>1, <1>6, <2>1 DEF IInv, ProdOK
<1>17. Queue!Deliver(u)
  <2>1. Stored = Items(buffer, First, count) /\ Len(Items(buffer, First, count)) = count
    BY RingFacts, ItemsAre
  <2>2. Stored' = Items(buffer, pread', count - u)
    BY <1>1, <1>4, <1>6, <1>10, <1>11, <1>12, StoredNext
  <2> QED BY <1>1, <1>4, <1>9, <1>13, <2>1, <2>2 DEF Queue!Deliver, Taken
<1>18. u \in Lengths
  BY <1>4, FifoAssumption
<1> QED BY <1>12, <1>14, <1>15, <1>16, <1>17, <1>18 DEF IInv, Queue!QueueNext

-----------------------------------------------------------------------------
LEMMA FifoStep ==
    ASSUME OnlyBlocksOnPc, IInv, [FifoNext]_fifoVars
    PROVE  IInv' /\ [Queue!QueueNext]_(Queue!queueVars)
<1>1. CASE ProducerCalls
  BY <1>1, PutStays DEF Queue!queueVars
<1>2. CASE GiveUp \/ WakeConsumer
  BY <1>2, PutReturns DEF Queue!queueVars
<1>3. CASE CopyIn
  BY <1>3, CopyInStays DEF Queue!queueVars
<1>4. CASE CountIn
  BY <1>4, CountInAccepts
<1>5. CASE \E v \in Values : Receive(v)
  BY <1>5, ReceiveAccepts DEF Queue!queueVars
<1>6. CASE ConsumerCalls \/ TestCount \/ LockSignal \/ Woken \/ LockFifo \/ UnlockFifo
  BY <1>6, GetStays DEF Queue!queueVars
<1>7. CASE CopyOut
  BY <1>7, CopyOutStays DEF Queue!queueVars
<1>8. CASE CountOut
  BY <1>8, CountOutDelivers
<1>9. CASE Transmit
  BY <1>9, TransmitDelivers
<1>10. CASE UNCHANGED fifoVars
  <2>1. IInv'
    BY <1>10 DEF fifoVars, IInv, FifoTypeOK, GetsWhatIsThere, ProdOK, ConsOK, RingOK, First, Written
  <2>2. Stored' = Stored
    BY <1>10 DEF fifoVars, Stored
  <2> QED BY <1>10, <2>1, <2>2 DEF fifoVars, Queue!queueVars
<1> QED BY <1>1, <1>2, <1>3, <1>4, <1>5, <1>6, <1>7, <1>8, <1>9, <1>10
        DEF FifoNext, ProducerStep, ConsumerStep

(* fifo.c, fifo.h: for every size of the buffer, the counters stay in it    *)
(* and the consumer reads only bytes that are there.                        *)
THEOREM FifoStaysInBounds ==
    ASSUME OnlyBlocksOnPc
    PROVE  FifoSpec => []FifoInv
<1>1. FifoInit => IInv
  BY FifoStarts
<1>2. IInv /\ [FifoNext]_fifoVars => IInv'
  BY FifoStep
<1>3. IInv => FifoInv
  BY DEF IInv, FifoInv
<1> QED BY <1>1, <1>2, <1>3, PTL DEF FifoSpec

(* fifo.c:26: producer and consumer share the cells and the count without a *)
(* lock, and still a block enters whole and the bytes leave in their order, *)
(* each once, however the steps of the two interleave.                      *)
THEOREM FifoIsAQueue ==
    ASSUME OnlyBlocksOnPc
    PROVE  FifoSpec => ImplementsQueue
<1>1. FifoInit => IInv /\ Queue!QueueInit
  BY FifoStarts
<1>2. IInv /\ [FifoNext]_fifoVars => IInv' /\ [Queue!QueueNext]_(Queue!queueVars)
  BY FifoStep
<1> QED BY <1>1, <1>2, PTL DEF FifoSpec, ImplementsQueue, Queue!QueueSpec

-----------------------------------------------------------------------------
(* The card.  The screen that tests it bypasses the wrapper, and so it is      *)
(* shown while nobody else uses the card (mmc.c:289-309).                    *)
CardUses ==
    /\ Threads # {} /\ Nobody \notin Threads
    /\ \A t \in Threads : "screen" \in Uses[t] => Threads = {t} /\ Uses[t] = {"screen"}

Resting == {"boot", "off", "out", "set"}
Underway == {"command", "token", "yield", "done"}
Stations == Resting \cup Underway \cup {"inside", "size", "init", "test", "sized", "lock"}
Operations == {"none", "file", "open", "screen", "size"}
OfScreen == {"screen", "size"}

CardState ==
    [kind : Kinds, type : Kinds \cup {"none"}, ready : BOOLEAN, init_state : BOOLEAN,
     holder : Threads \cup {Nobody}, busy : BOOLEAN, selected : Threads \cup {Nobody},
     pc : [Threads -> Stations], op : [Threads -> Operations], lock : [Threads -> BOOLEAN],
     clash : BOOLEAN, misplaced : BOOLEAN]

(* What t does where it stands, and what it uses. *)
Doing(r, t) ==
    /\ r.pc[t] \in Resting <=> r.op[t] = "none"
    /\ r.pc[t] \in {"size", "init", "test"} => r.op[t] = "screen"
    /\ r.pc[t] = "sized" => r.op[t] = "size"
    /\ r.pc[t] = "inside" => r.op[t] \in {"file", "open"}
    /\ r.pc[t] = "set" \/ r.op[t] = "file" => "file" \in Uses[t]
    /\ r.op[t] = "open" => "open" \in Uses[t]
    /\ r.op[t] \in OfScreen => "screen" \in Uses[t]

(* Who has forbidden the switches, and whether the card command of t has     *)
(* done so or the opening of a file around it.                              *)
Holding(r, t) ==
    /\ r.op[t] = "open" /\ r.pc[t] # "yield" => r.holder = t
    /\ r.pc[t] \in {"command", "token", "done"} => r.holder = t
    /\ r.pc[t] \in Underway => (r.lock[t] <=> r.op[t] # "open")
    /\ r.holder = t => r.op[t] = "open" \/ r.pc[t] \in {"command", "token", "done"}
    /\ r.pc[t] = "yield" => r.holder # t

(* Blocks are asked for behind an initialisation that has succeeded. *)
Addressing(r) ==
    /\ r.init_state => r.ready /\ r.type = r.kind
    /\ \A t \in Threads :
          /\ r.pc[t] \in {"boot", "init"} => ~r.init_state
          /\ r.pc[t] \notin {"boot", "off"} /\ Uses[t] # {"screen"} => r.init_state
          /\ r.op[t] \in OfScreen /\ r.pc[t] \notin {"size", "init"} => r.init_state
    /\ ~r.misplaced

(* In the file system, or just about to enter it.  *)
Claims(r, t) == r.pc[t] = "set" \/ r.op[t] \in {"file", "open"}

(* One thread at a time has a claim; the card is selected for nobody but the  *)
(* thread whose command is under way.                                       *)
InTurn(r) ==
    /\ \A t, u \in Threads : Claims(r, t) /\ Claims(r, u) => t = u
    /\ \A t \in Threads : r.op[t] \in {"file", "open"} => r.busy
    /\ \A t \in Threads : r.selected = t => r.pc[t] \in {"token", "yield", "done"}
    /\ ~r.clash

CardFields == sd \in CardState
CardWork == \A t \in Threads : Doing(sd, t)
CardLocks == \A t \in Threads : Holding(sd, t)
CardAddresses == Addressing(sd)

(* What a step of the initialisation leaves behind. *)
LEMMA InitDoes ==
    ASSUME CardFields, NEW r \in InitResults \cup {InitOk}
    PROVE  /\ r \in CardState
           /\ r.kind = sd.kind /\ r.holder = sd.holder /\ r.busy = sd.busy /\ r.selected = sd.selected
           /\ r.pc = sd.pc /\ r.op = sd.op /\ r.lock = sd.lock /\ r.clash = sd.clash /\ r.misplaced = sd.misplaced
           /\ r.init_state = sd.init_state \/ (r.init_state /\ r.ready /\ r.type = r.kind)
<1> USE DEF CardFields, CardState, Kinds
<1>1. CASE r = InitOk
  BY <1>1 DEF InitOk
<1>2. CASE r \in InitResults
  <2> DEFINE f(x, y) == [sd EXCEPT !.type = x, !.ready = y]
  <2>1. PICK x \in Kinds \cup {"none"}, y \in BOOLEAN : r = f(x, y)
    BY <1>2 DEF InitResults
  <2> QED
    BY <2>1
<1> QED
  BY <1>1, <1>2

(* The state r with which a command of t fails. *)
GivenUp(t, r) ==
    [error_handler(t, [r EXCEPT !.init_state = IF sd.op[t] \in {"size", "screen"} THEN FALSE ELSE @])
        EXCEPT !.op[t] = IF @ \in {"size", "screen"} THEN "none" ELSE @]

LEMMA GivenUpDoes ==
    ASSUME CardFields, NEW t \in Threads, NEW r \in CardState, r.op = sd.op
    PROVE  LET g == GivenUp(t, r)
           IN  /\ g \in CardState
               /\ g.kind = r.kind /\ g.type = r.type /\ g.ready = r.ready /\ g.busy = r.busy /\ g.pc = r.pc
               /\ g.lock = r.lock /\ g.clash = r.clash /\ g.misplaced = r.misplaced /\ g.selected = Nobody
               /\ g.holder = IF sd.lock[t] THEN Nobody ELSE r.holder
               /\ g.init_state = IF sd.op[t] \in OfScreen THEN FALSE ELSE r.init_state
               /\ g.op = [sd.op EXCEPT ![t] = IF sd.op[t] \in OfScreen THEN "none" ELSE @]
<1> DEFINE init == IF sd.op[t] \in OfScreen THEN FALSE ELSE r.init_state
           e == [r EXCEPT !.init_state = init]
           h == [e EXCEPT !.selected = Nobody, !.holder = IF sd.lock[t] THEN Nobody ELSE @]
           g == [h EXCEPT !.op[t] = IF @ \in OfScreen THEN "none" ELSE @]
<1>0. init \in BOOLEAN
  BY DEF CardState
<1> HIDE DEF init
<1>1. /\ e \in CardState
      /\ e.kind = r.kind /\ e.type = r.type /\ e.ready = r.ready /\ e.busy = r.busy /\ e.pc = r.pc
      /\ e.lock = r.lock /\ e.clash = r.clash /\ e.misplaced = r.misplaced
      /\ e.holder = r.holder /\ e.init_state = init /\ e.op = r.op
  BY <1>0 DEF CardState
<1> HIDE DEF e
<1>2. /\ h \in CardState
      /\ h.kind = r.kind /\ h.type = r.type /\ h.ready = r.ready /\ h.busy = r.busy /\ h.pc = r.pc
      /\ h.lock = r.lock /\ h.clash = r.clash /\ h.misplaced = r.misplaced /\ h.selected = Nobody
      /\ h.holder = IF sd.lock[t] THEN Nobody ELSE r.holder
      /\ h.init_state = init /\ h.op = r.op
  BY <1>1 DEF CardState
<1> HIDE DEF h
<1>3. /\ g \in CardState
      /\ g.kind = r.kind /\ g.type = r.type /\ g.ready = r.ready /\ g.busy = r.busy /\ g.pc = r.pc
      /\ g.lock = r.lock /\ g.clash = r.clash /\ g.misplaced = r.misplaced /\ g.selected = Nobody
      /\ g.holder = IF sd.lock[t] THEN Nobody ELSE r.holder
      /\ g.init_state = init
      /\ g.op = [sd.op EXCEPT ![t] = IF sd.op[t] \in OfScreen THEN "none" ELSE @]
  BY <1>2 DEF CardState, Operations, OfScreen
<1>4. g = GivenUp(t, r)
  BY Zenon DEF g, h, e, init, GivenUp, error_handler, OfScreen
<1> QED
  BY <1>3, <1>4 DEF init


LEMMA SelectedDoes ==
    ASSUME CardFields, NEW t \in Threads
    PROVE  LET r == Selected(t)
           IN  /\ r \in CardState
               /\ r.kind = sd.kind /\ r.type = sd.type /\ r.ready = sd.ready /\ r.init_state = sd.init_state
               /\ r.holder = sd.holder /\ r.busy = sd.busy /\ r.pc = sd.pc /\ r.op = sd.op /\ r.lock = sd.lock
               /\ r.selected = t
               /\ r.clash <=> sd.clash \/ sd.selected \notin {t, Nobody}
               /\ r.misplaced <=> sd.misplaced \/ (Block(t) /\ sd.ready /\ (sd.type = "SDHC") # (sd.kind = "SDHC"))
<1> DEFINE clash == sd.clash \/ sd.selected \notin {t, Nobody}
           misplaced == sd.misplaced \/ (/\ Block(t) /\ sd.ready /\ (sd.type = "SDHC") # (sd.kind = "SDHC"))
           r == [sd EXCEPT !.selected = t, !.clash = clash, !.misplaced = misplaced]
<1>1. clash \in BOOLEAN /\ misplaced \in BOOLEAN
  BY Zenon
<1>2. r = Selected(t)
  BY Zenon DEF Selected
<1> HIDE DEF clash, misplaced
<1>3. /\ r \in CardState
      /\ r.kind = sd.kind /\ r.type = sd.type /\ r.ready = sd.ready /\ r.init_state = sd.init_state
      /\ r.holder = sd.holder /\ r.busy = sd.busy /\ r.pc = sd.pc /\ r.op = sd.op /\ r.lock = sd.lock
      /\ r.selected = t /\ r.clash = clash /\ r.misplaced = misplaced
  BY <1>1 DEF CardFields, CardState
<1> QED
  BY <1>2, <1>3, Zenon DEF clash, misplaced

(* A step of t that leads to pc and changes the rest to r. *)
LEMMA GoesDoes ==
    ASSUME NEW t \in Threads, NEW pc \in Stations, NEW r \in CardState, Goes(t, pc, r)
    PROVE  /\ sd' \in CardState /\ Runs(t)
           /\ sd'.kind = r.kind /\ sd'.type = r.type /\ sd'.ready = r.ready /\ sd'.init_state = r.init_state
           /\ sd'.holder = r.holder /\ sd'.busy = r.busy /\ sd'.selected = r.selected /\ sd'.op = r.op
           /\ sd'.lock = r.lock /\ sd'.clash = r.clash /\ sd'.misplaced = r.misplaced
           /\ sd'.pc = [r.pc EXCEPT ![t] = pc]
BY DEF Goes, CardState

LEMMA FailsDoes ==
    ASSUME CardFields, NEW t \in Threads, NEW r \in CardState, r.op = sd.op, r.pc = sd.pc, Fails(t, r)
    PROVE  /\ sd' \in CardState /\ Runs(t)
           /\ sd'.kind = r.kind /\ sd'.type = r.type /\ sd'.ready = r.ready /\ sd'.busy = r.busy
           /\ sd'.lock = r.lock /\ sd'.clash = r.clash /\ sd'.misplaced = r.misplaced /\ sd'.selected = Nobody
           /\ sd'.holder = IF sd.lock[t] THEN Nobody ELSE r.holder
           /\ sd'.init_state = IF sd.op[t] \in OfScreen THEN FALSE ELSE r.init_state
           /\ sd'.op = [sd.op EXCEPT ![t] = IF sd.op[t] \in OfScreen THEN "none" ELSE @]
           /\ sd'.pc = [sd.pc EXCEPT ![t] = IF sd.op[t] \in OfScreen THEN "out" ELSE "inside"]
<1> DEFINE to == IF sd.op[t] \in OfScreen THEN "out" ELSE "inside"
           g == GivenUp(t, r)
<1>1. Goes(t, to, g)
  BY Zenon DEF Fails, GivenUp, to, g, OfScreen
<1>2. to \in Stations
  BY DEF Stations, Resting, Underway
<1>3. /\ g \in CardState
      /\ g.kind = r.kind /\ g.type = r.type /\ g.ready = r.ready /\ g.busy = r.busy /\ g.pc = r.pc
      /\ g.lock = r.lock /\ g.clash = r.clash /\ g.misplaced = r.misplaced /\ g.selected = Nobody
      /\ g.holder = IF sd.lock[t] THEN Nobody ELSE r.holder
      /\ g.init_state = IF sd.op[t] \in OfScreen THEN FALSE ELSE r.init_state
      /\ g.op = [sd.op EXCEPT ![t] = IF sd.op[t] \in OfScreen THEN "none" ELSE @]
  BY GivenUpDoes, Zenon
<1> HIDE DEF g, to
<1>4. g \in CardState
  BY <1>3
<1>5. /\ sd' \in CardState /\ Runs(t)
      /\ sd'.kind = g.kind /\ sd'.type = g.type /\ sd'.ready = g.ready /\ sd'.init_state = g.init_state
      /\ sd'.holder = g.holder /\ sd'.busy = g.busy /\ sd'.selected = g.selected /\ sd'.op = g.op
      /\ sd'.lock = g.lock /\ sd'.clash = g.clash /\ sd'.misplaced = g.misplaced
      /\ sd'.pc = [g.pc EXCEPT ![t] = to]
  BY <1>1, <1>2, <1>4, GoesDoes, SMTT(30)
<1> QED
  BY <1>3, <1>5, Zenon DEF to

Initialising(t) ==
    /\ sd' \in CardState /\ Runs(t) /\ sd.holder = Nobody /\ sd.pc[t] = "init"
    /\ sd'.kind = sd.kind /\ sd'.holder = sd.holder /\ sd'.busy = sd.busy /\ sd'.selected = sd.selected
    /\ sd'.lock = sd.lock /\ sd'.clash = sd.clash /\ sd'.misplaced = sd.misplaced
    /\ \/ /\ sd'.init_state /\ sd'.ready /\ sd'.type = sd.kind
          /\ sd'.pc = [sd.pc EXCEPT ![t] = "lock"] /\ sd'.op = [sd.op EXCEPT ![t] = "size"]
       \/ /\ sd'.init_state = sd.init_state \/ (sd'.init_state /\ sd'.ready /\ sd'.type = sd.kind)
          /\ sd'.pc = [sd.pc EXCEPT ![t] = "out"] /\ sd'.op = [sd.op EXCEPT ![t] = "none"]

LEMMA ScreenInitDoes ==
    ASSUME CardFields, NEW t \in Threads, ScreenInit(t)
    PROVE  Initialising(t)
<1>1. sd.holder = Nobody /\ sd.pc[t] = "init" /\ "lock" \in Stations /\ "out" \in Stations
  BY DEF ScreenInit, At, Stations, Resting
<1>2. CASE Goes(t, "lock", [InitOk EXCEPT !.op[t] = "size"])
  <2> DEFINE r == InitOk
             q == [r EXCEPT !.op[t] = "size"]
  <2>1. /\ r \in CardState
        /\ r.kind = sd.kind /\ r.holder = sd.holder /\ r.busy = sd.busy /\ r.selected = sd.selected
        /\ r.pc = sd.pc /\ r.op = sd.op /\ r.lock = sd.lock /\ r.clash = sd.clash /\ r.misplaced = sd.misplaced
        /\ r.init_state /\ r.ready /\ r.type = sd.kind
    BY DEF CardFields, CardState, InitOk
  <2> HIDE DEF r
  <2>2. /\ q \in CardState
        /\ q.kind = r.kind /\ q.holder = r.holder /\ q.busy = r.busy /\ q.selected = r.selected
        /\ q.pc = r.pc /\ q.op = [r.op EXCEPT ![t] = "size"] /\ q.lock = r.lock /\ q.clash = r.clash
        /\ q.misplaced = r.misplaced /\ q.init_state = r.init_state /\ q.ready = r.ready /\ q.type = r.type
    BY <2>1 DEF CardState, Operations
  <2>3. Goes(t, "lock", q)
    BY <1>2 DEF r
  <2> HIDE DEF q
  <2>4. /\ sd' \in CardState /\ Runs(t)
        /\ sd'.kind = q.kind /\ sd'.type = q.type /\ sd'.ready = q.ready /\ sd'.init_state = q.init_state
        /\ sd'.holder = q.holder /\ sd'.busy = q.busy /\ sd'.selected = q.selected /\ sd'.op = q.op
        /\ sd'.lock = q.lock /\ sd'.clash = q.clash /\ sd'.misplaced = q.misplaced
        /\ sd'.pc = [q.pc EXCEPT ![t] = "lock"]
    BY <1>1, <2>2, <2>3, GoesDoes
  <2> QED
    BY <1>1, <2>1, <2>2, <2>4 DEF Initialising
<1>3. ASSUME NEW r \in InitResults, Goes(t, "out", [r EXCEPT !.op[t] = "none"])
      PROVE  /\ sd' \in CardState /\ Runs(t)
             /\ sd'.kind = sd.kind /\ sd'.holder = sd.holder /\ sd'.busy = sd.busy /\ sd'.selected = sd.selected
             /\ sd'.lock = sd.lock /\ sd'.clash = sd.clash /\ sd'.misplaced = sd.misplaced
             /\ sd'.init_state = sd.init_state \/ (sd'.init_state /\ sd'.ready /\ sd'.type = sd.kind)
             /\ sd'.pc = [sd.pc EXCEPT ![t] = "out"] /\ sd'.op = [sd.op EXCEPT ![t] = "none"]
  <2> DEFINE q == [r EXCEPT !.op[t] = "none"]
  <2>1. /\ r \in CardState
        /\ r.kind = sd.kind /\ r.holder = sd.holder /\ r.busy = sd.busy /\ r.selected = sd.selected
        /\ r.pc = sd.pc /\ r.op = sd.op /\ r.lock = sd.lock /\ r.clash = sd.clash /\ r.misplaced = sd.misplaced
        /\ r.init_state = sd.init_state \/ (r.init_state /\ r.ready /\ r.type = r.kind)
    BY InitDoes
  <2>2. /\ q \in CardState
        /\ q.kind = r.kind /\ q.holder = r.holder /\ q.busy = r.busy /\ q.selected = r.selected
        /\ q.pc = r.pc /\ q.op = [r.op EXCEPT ![t] = "none"] /\ q.lock = r.lock /\ q.clash = r.clash
        /\ q.misplaced = r.misplaced /\ q.init_state = r.init_state /\ q.ready = r.ready /\ q.type = r.type
    BY <2>1 DEF CardState, Operations
  <2>3. Goes(t, "out", q)
    BY <1>3
  <2> HIDE DEF q
  <2>4. /\ sd' \in CardState /\ Runs(t)
        /\ sd'.kind = q.kind /\ sd'.type = q.type /\ sd'.ready = q.ready /\ sd'.init_state = q.init_state
        /\ sd'.holder = q.holder /\ sd'.busy = q.busy /\ sd'.selected = q.selected /\ sd'.op = q.op
        /\ sd'.lock = q.lock /\ sd'.clash = q.clash /\ sd'.misplaced = q.misplaced
        /\ sd'.pc = [q.pc EXCEPT ![t] = "out"]
    BY <1>1, <2>2, <2>3, GoesDoes
  <2> QED
    BY <2>1, <2>2, <2>4
<1> QED
  BY <1>1, <1>2, <1>3 DEF ScreenInit, Initialising

(* What each of the longer steps does, field by field.                       *)
Booting ==
    /\ sd' \in CardState
    /\ sd'.kind = sd.kind /\ sd'.holder = sd.holder /\ sd'.busy = sd.busy /\ sd'.selected = sd.selected
    /\ sd'.op = sd.op /\ sd'.lock = sd.lock /\ sd'.clash = sd.clash /\ sd'.misplaced = sd.misplaced
    /\ sd'.init_state = sd.init_state \/ (sd'.init_state /\ sd'.ready /\ sd'.type = sd.kind)
    /\ \A t \in Threads : /\ sd.pc[t] = "boot"
                          /\ sd'.pc[t] = IF sd'.init_state \/ Uses[t] = {"screen"} THEN "out" ELSE "off"

LEMMA BootDoes ==
    ASSUME CardFields, Boot
    PROVE  Booting
<1>1. PICK r \in InitResults \cup {InitOk} :
          sd' = [r EXCEPT !.pc = [t \in Threads |-> IF r.init_state \/ Uses[t] = {"screen"} THEN "out" ELSE "off"]]
  BY DEF Boot
<1> DEFINE places == [t \in Threads |-> IF r.init_state \/ Uses[t] = {"screen"} THEN "out" ELSE "off"]
<1>2. /\ places \in [Threads -> Stations]
      /\ \A t \in Threads : places[t] = IF r.init_state \/ Uses[t] = {"screen"} THEN "out" ELSE "off"
  BY DEF Stations, Resting
<1>3. /\ r \in CardState
      /\ r.kind = sd.kind /\ r.holder = sd.holder /\ r.busy = sd.busy /\ r.selected = sd.selected
      /\ r.pc = sd.pc /\ r.op = sd.op /\ r.lock = sd.lock /\ r.clash = sd.clash /\ r.misplaced = sd.misplaced
      /\ r.init_state = sd.init_state \/ (r.init_state /\ r.ready /\ r.type = r.kind)
  BY InitDoes
<1>4. sd' = [r EXCEPT !.pc = places]
  BY <1>1
<1> HIDE DEF places
<1>5. /\ sd' \in CardState
      /\ sd'.kind = r.kind /\ sd'.type = r.type /\ sd'.ready = r.ready /\ sd'.init_state = r.init_state
      /\ sd'.holder = r.holder /\ sd'.busy = r.busy /\ sd'.selected = r.selected /\ sd'.op = r.op
      /\ sd'.lock = r.lock /\ sd'.clash = r.clash /\ sd'.misplaced = r.misplaced
      /\ sd'.pc = places
  BY <1>2, <1>3, <1>4 DEF CardState
<1>6. \A t \in Threads : sd.pc[t] = "boot"
  BY DEF Boot, At
<1> QED
  BY <1>2, <1>3, <1>5, <1>6 DEF Booting

Sizing(t) ==
    /\ sd' \in CardState /\ Runs(t) /\ sd.pc[t] = "size"
    /\ sd'.kind = sd.kind /\ sd'.type = sd.type /\ sd'.ready = sd.ready /\ sd'.init_state = sd.init_state
    /\ sd'.holder = sd.holder /\ sd'.busy = sd.busy /\ sd'.selected = sd.selected
    /\ sd'.lock = sd.lock /\ sd'.clash = sd.clash /\ sd'.misplaced = sd.misplaced
    /\ \/ /\ sd.init_state
          /\ sd'.pc = [sd.pc EXCEPT ![t] = "lock"] /\ sd'.op = [sd.op EXCEPT ![t] = "size"]
       \/ ~sd.init_state /\ sd'.pc = [sd.pc EXCEPT ![t] = "init"] /\ sd'.op = sd.op

LEMMA SizeDoes ==
    ASSUME CardFields, NEW t \in Threads, get_size(t)
    PROVE  Sizing(t)
<1> DEFINE q == [sd EXCEPT !.op[t] = "size"]
<1>1. sd \in CardState /\ sd.pc[t] = "size" /\ "lock" \in Stations /\ "init" \in Stations
  BY DEF CardFields, get_size, At, Stations
<1>2. CASE sd.init_state
  <2>1. Goes(t, "lock", q)
    BY <1>2, Zenon DEF get_size
  <2>2. /\ q \in CardState
        /\ q.kind = sd.kind /\ q.holder = sd.holder /\ q.busy = sd.busy /\ q.selected = sd.selected
        /\ q.pc = sd.pc /\ q.op = [sd.op EXCEPT ![t] = "size"] /\ q.lock = sd.lock /\ q.clash = sd.clash
        /\ q.misplaced = sd.misplaced /\ q.init_state = sd.init_state /\ q.ready = sd.ready /\ q.type = sd.type
    BY <1>1 DEF CardState, Operations
  <2> HIDE DEF q
  <2>3. /\ sd' \in CardState /\ Runs(t)
        /\ sd'.kind = q.kind /\ sd'.type = q.type /\ sd'.ready = q.ready /\ sd'.init_state = q.init_state
        /\ sd'.holder = q.holder /\ sd'.busy = q.busy /\ sd'.selected = q.selected /\ sd'.op = q.op
        /\ sd'.lock = q.lock /\ sd'.clash = q.clash /\ sd'.misplaced = q.misplaced
        /\ sd'.pc = [q.pc EXCEPT ![t] = "lock"]
    BY <1>1, <2>1, <2>2, GoesDoes
  <2> QED
    BY <1>1, <1>2, <2>2, <2>3 DEF Sizing
<1>3. CASE ~sd.init_state
  <2>1. Goes(t, "init", sd)
    BY <1>3, Zenon DEF get_size
  <2> QED
    BY <1>1, <1>3, <2>1, GoesDoes DEF Sizing
<1> QED
  BY <1>2, <1>3

GivesUp(t) ==
    /\ sd'.selected = Nobody
    /\ sd'.holder = IF sd.lock[t] THEN Nobody ELSE sd.holder
    /\ sd'.init_state = IF sd.op[t] \in OfScreen THEN FALSE ELSE sd.init_state
    /\ sd'.op = [sd.op EXCEPT ![t] = IF sd.op[t] \in OfScreen THEN "none" ELSE @]
    /\ sd'.pc = [sd.pc EXCEPT ![t] = IF sd.op[t] \in OfScreen THEN "out" ELSE "inside"]

(* Sending a command selects the card; then it is under way, or has failed.  *)
Sending(t) ==
    /\ sd' \in CardState /\ Runs(t) /\ sd.pc[t] = "command"
    /\ sd'.kind = sd.kind /\ sd'.type = sd.type /\ sd'.ready = sd.ready
    /\ sd'.busy = sd.busy /\ sd'.lock = sd.lock
    /\ sd'.clash <=> sd.clash \/ sd.selected \notin {t, Nobody}
    /\ sd'.misplaced <=> sd.misplaced \/ (Block(t) /\ sd.ready /\ (sd.type = "SDHC") # (sd.kind = "SDHC"))
    /\ \/ /\ \E to \in {"token", "done"} : sd'.pc = [sd.pc EXCEPT ![t] = to]
          /\ sd'.op = sd.op /\ sd'.holder = sd.holder /\ sd'.selected = t
          /\ sd'.init_state = sd.init_state
       \/ GivesUp(t)

LEMMA SendDoes ==
    ASSUME CardFields, NEW t \in Threads, send_cmd(t)
    PROVE  Sending(t)
<1> DEFINE r == Selected(t)
           clash == sd.clash \/ sd.selected \notin {t, Nobody}
           misplaced == sd.misplaced \/ (Block(t) /\ sd.ready /\ (sd.type = "SDHC") # (sd.kind = "SDHC"))
<1>1. /\ r \in CardState
      /\ r.kind = sd.kind /\ r.type = sd.type /\ r.ready = sd.ready /\ r.init_state = sd.init_state
      /\ r.holder = sd.holder /\ r.busy = sd.busy /\ r.pc = sd.pc /\ r.op = sd.op /\ r.lock = sd.lock
      /\ r.selected = t
      /\ r.clash <=> clash
      /\ r.misplaced <=> misplaced
  BY SelectedDoes, Zenon
<1>2. sd.pc[t] = "command" /\ "token" \in Stations /\ "done" \in Stations
  BY DEF send_cmd, At, Stations, Underway
<1>3. \/ \E to \in {"token", "done"} : Goes(t, to, r)
      \/ Fails(t, r)
  BY Zenon DEF send_cmd
<1> HIDE DEF r, clash, misplaced
<1>4. CASE \E to \in {"token", "done"} : Goes(t, to, r)
  <2>1. PICK to \in {"token", "done"} : Goes(t, to, r)
    BY <1>4
  <2>2. r \in CardState /\ to \in Stations
    BY <1>1, <1>2
  <2>3. /\ sd' \in CardState /\ Runs(t)
        /\ sd'.kind = r.kind /\ sd'.type = r.type /\ sd'.ready = r.ready /\ sd'.init_state = r.init_state
        /\ sd'.holder = r.holder /\ sd'.busy = r.busy /\ sd'.selected = r.selected /\ sd'.op = r.op
        /\ sd'.lock = r.lock /\ sd'.clash = r.clash /\ sd'.misplaced = r.misplaced
        /\ sd'.pc = [r.pc EXCEPT ![t] = to]
    BY <2>1, <2>2, GoesDoes
  <2> QED
    BY <1>1, <1>2, <2>3, Zenon DEF clash, misplaced, Sending, GivesUp
<1>5. CASE Fails(t, r)
  <2>1. r \in CardState /\ r.op = sd.op /\ r.pc = sd.pc
    BY <1>1
  <2>2. /\ sd' \in CardState /\ Runs(t)
        /\ sd'.kind = r.kind /\ sd'.type = r.type /\ sd'.ready = r.ready /\ sd'.busy = r.busy
        /\ sd'.lock = r.lock /\ sd'.clash = r.clash /\ sd'.misplaced = r.misplaced /\ sd'.selected = Nobody
        /\ sd'.holder = IF sd.lock[t] THEN Nobody ELSE r.holder
        /\ sd'.init_state = IF sd.op[t] \in OfScreen THEN FALSE ELSE r.init_state
        /\ sd'.op = [sd.op EXCEPT ![t] = IF sd.op[t] \in OfScreen THEN "none" ELSE @]
        /\ sd'.pc = [sd.pc EXCEPT ![t] = IF sd.op[t] \in OfScreen THEN "out" ELSE "inside"]
    BY <1>5, <2>1, FailsDoes, Zenon
  <2> QED
    BY <1>1, <1>2, <2>2, Zenon DEF clash, misplaced, Sending, GivesUp
<1> QED
  BY <1>3, <1>4, <1>5

Receiving(t) ==
    /\ sd' \in CardState /\ Runs(t) /\ sd.pc[t] = "token"
    /\ sd'.kind = sd.kind /\ sd'.type = sd.type /\ sd'.ready = sd.ready
    /\ sd'.busy = sd.busy /\ sd'.lock = sd.lock /\ sd'.clash = sd.clash /\ sd'.misplaced = sd.misplaced
    /\ \/ /\ sd'.pc = [sd.pc EXCEPT ![t] = "done"]
          /\ sd'.op = sd.op /\ sd'.holder = sd.holder /\ sd'.selected = sd.selected
          /\ sd'.init_state = sd.init_state
       \/ GivesUp(t)

LEMMA ReceivedDoes ==
    ASSUME CardFields, NEW t \in Threads, Received(t)
    PROVE  Receiving(t)
<1>1. sd \in CardState /\ sd.pc[t] = "token" /\ "done" \in Stations
  BY DEF CardFields, Received, At, Stations, Underway
<1>2. CASE Goes(t, "done", sd)
  <2>1. /\ sd' \in CardState /\ Runs(t)
        /\ sd'.kind = sd.kind /\ sd'.type = sd.type /\ sd'.ready = sd.ready /\ sd'.init_state = sd.init_state
        /\ sd'.holder = sd.holder /\ sd'.busy = sd.busy /\ sd'.selected = sd.selected /\ sd'.op = sd.op
        /\ sd'.lock = sd.lock /\ sd'.clash = sd.clash /\ sd'.misplaced = sd.misplaced
        /\ sd'.pc = [sd.pc EXCEPT ![t] = "done"]
    BY <1>1, <1>2, GoesDoes
  <2> QED
    BY <1>1, <2>1 DEF Receiving
<1>3. CASE Fails(t, sd)
  BY <1>1, <1>3, FailsDoes, Zenon DEF Receiving, GivesUp
<1> QED
  BY <1>2, <1>3 DEF Received


(* Locking forbids switches, if they are not forbidden by t already.         *)
Locking(t) ==
    /\ sd' \in CardState /\ Runs(t) /\ sd.pc[t] = "lock"
    /\ sd'.kind = sd.kind /\ sd'.type = sd.type /\ sd'.ready = sd.ready /\ sd'.init_state = sd.init_state
    /\ sd'.busy = sd.busy /\ sd'.selected = sd.selected /\ sd'.op = sd.op
    /\ sd'.clash = sd.clash /\ sd'.misplaced = sd.misplaced
    /\ sd'.holder = t /\ sd'.pc = [sd.pc EXCEPT ![t] = "command"]
    /\ sd'.lock[t] <=> sd.holder # t
    /\ \A u \in Threads \ {t} : sd'.lock[u] = sd.lock[u]

LEMMA LockDoes ==
    ASSUME CardFields, NEW t \in Threads, os_lock(t)
    PROVE  Locking(t)
<1> DEFINE other == sd.holder # t
           q == [sd EXCEPT !.lock[t] = other, !.holder = t]
<1>1. sd \in CardState /\ sd.pc[t] = "lock" /\ "command" \in Stations /\ other \in BOOLEAN
  BY DEF CardFields, os_lock, At, Stations, Underway
<1>2. Goes(t, "command", q)
  BY Zenon DEF os_lock
<1> HIDE DEF other
<1>3. /\ q \in CardState
      /\ q.kind = sd.kind /\ q.type = sd.type /\ q.ready = sd.ready /\ q.init_state = sd.init_state
      /\ q.holder = t /\ q.busy = sd.busy /\ q.selected = sd.selected /\ q.op = sd.op /\ q.pc = sd.pc
      /\ q.clash = sd.clash /\ q.misplaced = sd.misplaced
      /\ q.lock = [sd.lock EXCEPT ![t] = other]
  BY <1>1 DEF CardState
<1> HIDE DEF q
<1>4. /\ sd' \in CardState /\ Runs(t)
      /\ sd'.kind = q.kind /\ sd'.type = q.type /\ sd'.ready = q.ready /\ sd'.init_state = q.init_state
      /\ sd'.holder = q.holder /\ sd'.busy = q.busy /\ sd'.selected = q.selected /\ sd'.op = q.op
      /\ sd'.lock = q.lock /\ sd'.clash = q.clash /\ sd'.misplaced = q.misplaced
      /\ sd'.pc = [q.pc EXCEPT ![t] = "command"]
  BY <1>1, <1>2, <1>3, GoesDoes
<1>5. q.lock[t] = other /\ \A u \in Threads \ {t} : q.lock[u] = sd.lock[u]
  BY <1>1, <1>3 DEF CardState
<1> QED
  BY <1>1, <1>3, <1>4, <1>5, Zenon DEF Locking, other

LEMMA StateStep ==
    ASSUME CardFields, SdNext
    PROVE  CardFields'
<1>1. CASE Boot
  <2>1. Booting
    BY <1>1, BootDoes
  <2> USE DEF CardFields, CardState, Stations, Resting, Underway, Operations, Kinds
  <2> QED
    BY <2>1 DEF Booting
<1>2. ASSUME NEW t \in Threads, get_size(t) PROVE CardFields'
  <2>1. Sizing(t)
    BY <1>2, SizeDoes
  <2> USE DEF CardFields, CardState, Stations, Resting, Underway, Operations, Kinds
  <2> QED
    BY <2>1 DEF Sizing, Runs
<1>3. ASSUME NEW t \in Threads, ScreenInit(t) PROVE CardFields'
  <2>1. Initialising(t)
    BY <1>3, ScreenInitDoes
  <2> USE DEF CardFields, CardState, Stations, Resting, Underway, Operations, Kinds
  <2> QED
    BY <2>1 DEF Initialising, Runs
<1>4. ASSUME NEW t \in Threads, os_lock(t) PROVE CardFields'
  <2>1. Locking(t)
    BY <1>4, LockDoes
  <2> USE DEF CardFields, CardState, Stations, Resting, Underway, Operations, Kinds
  <2> QED
    BY <2>1 DEF Locking, Runs
<1>5. ASSUME NEW t \in Threads, send_cmd(t) PROVE CardFields'
  <2>1. Sending(t)
    BY <1>5, SendDoes
  <2> USE DEF CardFields, CardState, Stations, Resting, Underway, Operations, Kinds
  <2>2. CASE GivesUp(t) /\ sd.op[t] \in OfScreen
    BY <2>1, <2>2 DEF Sending, GivesUp, Runs
  <2>3. CASE GivesUp(t) /\ sd.op[t] \notin OfScreen
    BY <2>1, <2>3 DEF Sending, GivesUp, Runs
  <2>4. CASE ~GivesUp(t)
    BY <2>1, <2>4 DEF Sending, Runs
  <2> QED
    BY <2>2, <2>3, <2>4
<1>6. ASSUME NEW t \in Threads, Received(t) PROVE CardFields'
  <2>1. Receiving(t)
    BY <1>6, ReceivedDoes
  <2> USE DEF CardFields, CardState, Stations, Resting, Underway, Operations, Kinds
  <2>2. CASE GivesUp(t) /\ sd.op[t] \in OfScreen
    BY <2>1, <2>2 DEF Receiving, GivesUp, Runs
  <2>3. CASE GivesUp(t) /\ sd.op[t] \notin OfScreen
    BY <2>1, <2>3 DEF Receiving, GivesUp, Runs
  <2>4. CASE ~GivesUp(t)
    BY <2>1, <2>4 DEF Receiving, Runs
  <2> QED
    BY <2>2, <2>3, <2>4
<1> USE DEF CardFields, CardState, Stations, Resting, Underway, Operations, Kinds,
            Goes, Runs, At
<1>7. ASSUME NEW t \in Threads, FileTest(t) PROVE CardFields'
  BY <1>7 DEF FileTest
<1>8. ASSUME NEW t \in Threads, FileSet(t) PROVE CardFields'
  BY <1>8 DEF FileSet
<1>9. ASSUME NEW t \in Threads, FileOpen(t) PROVE CardFields'
  BY <1>9 DEF FileOpen
<1>10. ASSUME NEW t \in Threads, FileDone(t) PROVE CardFields'
  BY <1>10 DEF FileDone
<1>11. ASSUME NEW t \in Threads, ScreenBegins(t) PROVE CardFields'
  BY <1>11 DEF ScreenBegins
<1>12. ASSUME NEW t \in Threads, ScreenDone(t) PROVE CardFields'
  BY <1>12 DEF ScreenDone
<1>13. ASSUME NEW t \in Threads, Asks(t) PROVE CardFields'
  BY <1>13 DEF Asks
<1>14. ASSUME NEW t \in Threads, Yield(t) PROVE CardFields'
  BY <1>14 DEF Yield
<1>15. ASSUME NEW t \in Threads, YieldEnds(t) PROVE CardFields'
  BY <1>15 DEF YieldEnds
<1>16. ASSUME NEW t \in Threads, Done(t) PROVE CardFields'
  BY <1>16 DEF Done, Back
<1>17. ASSUME NEW t \in Threads, Sized(t) PROVE CardFields'
  BY <1>17 DEF Sized
<1> QED
  BY <1>1, <1>2, <1>3, <1>4, <1>5, <1>6, <1>7, <1>8, <1>9, <1>10,
     <1>11, <1>12, <1>13, <1>14, <1>15, <1>16, <1>17 DEF SdNext

LEMMA DoingStep ==
    ASSUME CardUses, CardFields, CardWork, SdNext
    PROVE  CardWork'
<1>1. CASE Boot
  <2>1. Booting
    BY <1>1, BootDoes
  <2> USE DEF CardFields, CardWork, Doing, CardState, Stations, Resting, Underway,
              Operations, Kinds, OfScreen
  <2> QED
    BY <2>1 DEF Booting
<1>2. ASSUME NEW t \in Threads, get_size(t) PROVE CardWork'
  <2>1. Sizing(t)
    BY <1>2, SizeDoes
  <2> USE DEF CardFields, CardWork, Doing, CardState, Stations, Resting, Underway,
              Operations, Kinds, OfScreen
  <2> QED
    BY <2>1 DEF Sizing, Runs
<1>3. ASSUME NEW t \in Threads, ScreenInit(t) PROVE CardWork'
  <2>1. Initialising(t)
    BY <1>3, ScreenInitDoes
  <2> USE DEF CardFields, CardWork, Doing, CardState, Stations, Resting, Underway,
              Operations, Kinds, OfScreen
  <2> QED
    BY <2>1 DEF Initialising, Runs
<1>4. ASSUME NEW t \in Threads, os_lock(t) PROVE CardWork'
  <2>1. Locking(t)
    BY <1>4, LockDoes
  <2> USE DEF CardFields, CardWork, Doing, CardState, Stations, Resting, Underway,
              Operations, Kinds, OfScreen
  <2> QED
    BY <2>1 DEF Locking, Runs
<1>5. ASSUME NEW t \in Threads, send_cmd(t) PROVE CardWork'
  <2>1. Sending(t)
    BY <1>5, SendDoes
  <2> USE DEF CardFields, CardWork, Doing, CardState, Stations, Resting, Underway,
              Operations, Kinds, OfScreen
  <2>2. CASE GivesUp(t) /\ sd.op[t] \in OfScreen
    BY <2>1, <2>2 DEF Sending, GivesUp, Runs
  <2>3. CASE GivesUp(t) /\ sd.op[t] \notin OfScreen
    BY <2>1, <2>3 DEF Sending, GivesUp, Runs
  <2>4. CASE ~GivesUp(t)
    BY <2>1, <2>4 DEF Sending, Runs
  <2> QED
    BY <2>2, <2>3, <2>4
<1>6. ASSUME NEW t \in Threads, Received(t) PROVE CardWork'
  <2>1. Receiving(t)
    BY <1>6, ReceivedDoes
  <2> USE DEF CardFields, CardWork, Doing, CardState, Stations, Resting, Underway,
              Operations, Kinds, OfScreen
  <2>2. CASE GivesUp(t) /\ sd.op[t] \in OfScreen
    BY <2>1, <2>2 DEF Receiving, GivesUp, Runs
  <2>3. CASE GivesUp(t) /\ sd.op[t] \notin OfScreen
    BY <2>1, <2>3 DEF Receiving, GivesUp, Runs
  <2>4. CASE ~GivesUp(t)
    BY <2>1, <2>4 DEF Receiving, Runs
  <2> QED
    BY <2>2, <2>3, <2>4
<1> USE DEF CardFields, CardWork, Doing, CardState, Stations, Resting, Underway, Operations,
            Kinds, OfScreen, Goes, Runs, At
<1>7. ASSUME NEW t \in Threads, FileTest(t) PROVE CardWork'
  BY <1>7 DEF FileTest
<1>8. ASSUME NEW t \in Threads, FileSet(t) PROVE CardWork'
  BY <1>8 DEF FileSet
<1>9. ASSUME NEW t \in Threads, FileOpen(t) PROVE CardWork'
  BY <1>9 DEF FileOpen
<1>10. ASSUME NEW t \in Threads, FileDone(t) PROVE CardWork'
  BY <1>10 DEF FileDone
<1>11. ASSUME NEW t \in Threads, ScreenBegins(t) PROVE CardWork'
  BY <1>11 DEF ScreenBegins
<1>12. ASSUME NEW t \in Threads, ScreenDone(t) PROVE CardWork'
  BY <1>12 DEF ScreenDone
<1>13. ASSUME NEW t \in Threads, Asks(t) PROVE CardWork'
  BY <1>13 DEF Asks
<1>14. ASSUME NEW t \in Threads, Yield(t) PROVE CardWork'
  BY <1>14 DEF Yield
<1>15. ASSUME NEW t \in Threads, YieldEnds(t) PROVE CardWork'
  BY <1>15 DEF YieldEnds
<1>16. ASSUME NEW t \in Threads, Done(t) PROVE CardWork'
  BY <1>16 DEF Done, Back
<1>17. ASSUME NEW t \in Threads, Sized(t) PROVE CardWork'
  BY <1>17 DEF Sized
<1> QED
  BY <1>1, <1>2, <1>3, <1>4, <1>5, <1>6, <1>7, <1>8, <1>9, <1>10,
     <1>11, <1>12, <1>13, <1>14, <1>15, <1>16, <1>17 DEF SdNext

(* Who has the lock keeps the others from any step, so that they hold none.  *)
LEMMA HoldingStep ==
    ASSUME CardUses, CardFields, CardWork, CardLocks, SdNext
    PROVE  CardLocks'
<1>1. CASE Boot
  <2>1. Booting
    BY <1>1, BootDoes
  <2> USE DEF CardFields, CardWork, CardLocks, Doing, Holding, CardUses, CardState, Stations,
              Resting, Underway, Operations, Kinds, OfScreen
  <2> QED
    BY <2>1 DEF Booting
<1>2. ASSUME NEW t \in Threads, get_size(t) PROVE CardLocks'
  <2>1. Sizing(t)
    BY <1>2, SizeDoes
  <2> USE DEF CardFields, CardWork, CardLocks, Doing, Holding, CardUses, CardState, Stations,
              Resting, Underway, Operations, Kinds, OfScreen
  <2> QED
    BY <2>1 DEF Sizing, Runs
<1>3. ASSUME NEW t \in Threads, ScreenInit(t) PROVE CardLocks'
  <2>1. Initialising(t)
    BY <1>3, ScreenInitDoes
  <2> USE DEF CardFields, CardWork, CardLocks, Doing, Holding, CardUses, CardState, Stations,
              Resting, Underway, Operations, Kinds, OfScreen
  <2> QED
    BY <2>1 DEF Initialising, Runs
<1>4. ASSUME NEW t \in Threads, os_lock(t) PROVE CardLocks'
  <2>1. Locking(t)
    BY <1>4, LockDoes
  <2> USE DEF CardFields, CardWork, CardLocks, Doing, Holding, CardUses, CardState, Stations,
              Resting, Underway, Operations, Kinds, OfScreen
  <2> QED
    BY <2>1 DEF Locking, Runs
<1>5. ASSUME NEW t \in Threads, send_cmd(t) PROVE CardLocks'
  <2>1. Sending(t)
    BY <1>5, SendDoes
  <2> USE DEF CardFields, CardWork, CardLocks, Doing, Holding, CardUses, CardState, Stations,
              Resting, Underway, Operations, Kinds, OfScreen
  <2>2. CASE GivesUp(t) /\ sd.op[t] \in OfScreen
    BY <2>1, <2>2 DEF Sending, GivesUp, Runs
  <2>3. CASE GivesUp(t) /\ sd.op[t] \notin OfScreen
    BY <2>1, <2>3 DEF Sending, GivesUp, Runs
  <2>4. CASE ~GivesUp(t)
    BY <2>1, <2>4 DEF Sending, Runs
  <2> QED
    BY <2>2, <2>3, <2>4
<1>6. ASSUME NEW t \in Threads, Received(t) PROVE CardLocks'
  <2>1. Receiving(t)
    BY <1>6, ReceivedDoes
  <2> USE DEF CardFields, CardWork, CardLocks, Doing, Holding, CardUses, CardState, Stations,
              Resting, Underway, Operations, Kinds, OfScreen
  <2>2. CASE GivesUp(t) /\ sd.op[t] \in OfScreen
    BY <2>1, <2>2 DEF Receiving, GivesUp, Runs
  <2>3. CASE GivesUp(t) /\ sd.op[t] \notin OfScreen
    BY <2>1, <2>3 DEF Receiving, GivesUp, Runs
  <2>4. CASE ~GivesUp(t)
    BY <2>1, <2>4 DEF Receiving, Runs
  <2> QED
    BY <2>2, <2>3, <2>4
<1> USE DEF CardFields, CardWork, CardLocks, Doing, Holding, CardUses, CardState, Stations, Resting,
            Underway, Operations, Kinds, OfScreen, Goes, Runs, At
<1>7. ASSUME NEW t \in Threads, FileTest(t) PROVE CardLocks'
  BY <1>7 DEF FileTest
<1>8. ASSUME NEW t \in Threads, FileSet(t) PROVE CardLocks'
  BY <1>8 DEF FileSet
<1>9. ASSUME NEW t \in Threads, FileOpen(t) PROVE CardLocks'
  BY <1>9 DEF FileOpen
<1>10. ASSUME NEW t \in Threads, FileDone(t) PROVE CardLocks'
  BY <1>10 DEF FileDone
<1>11. ASSUME NEW t \in Threads, ScreenBegins(t) PROVE CardLocks'
  BY <1>11 DEF ScreenBegins
<1>12. ASSUME NEW t \in Threads, ScreenDone(t) PROVE CardLocks'
  BY <1>12 DEF ScreenDone
<1>13. ASSUME NEW t \in Threads, Asks(t) PROVE CardLocks'
  BY <1>13 DEF Asks
<1>14. ASSUME NEW t \in Threads, Yield(t) PROVE CardLocks'
  BY <1>14 DEF Yield
<1>15. ASSUME NEW t \in Threads, YieldEnds(t) PROVE CardLocks'
  BY <1>15 DEF YieldEnds
<1>16. ASSUME NEW t \in Threads, Done(t) PROVE CardLocks'
  BY <1>16 DEF Done, Back
<1>17. ASSUME NEW t \in Threads, Sized(t) PROVE CardLocks'
  BY <1>17 DEF Sized
<1> QED
  BY <1>1, <1>2, <1>3, <1>4, <1>5, <1>6, <1>7, <1>8, <1>9, <1>10,
     <1>11, <1>12, <1>13, <1>14, <1>15, <1>16, <1>17 DEF SdNext

(* Only an initialisation that has succeeded lets a block be asked for.       *)
LEMMA AddressingStep ==
    ASSUME CardUses, CardFields, CardWork, CardAddresses, SdNext
    PROVE  CardAddresses'
<1>1. CASE Boot
  <2>1. Booting
    BY <1>1, BootDoes
  <2>2. ~sd.init_state
    BY <2>1 DEF Booting, CardAddresses, Addressing, CardUses
  <2>3. CASE sd'.init_state
    <3>1. sd'.ready /\ sd'.type = sd'.kind
      BY <2>1, <2>2, <2>3, Zenon DEF Booting
    <3>2. \A t \in Threads : sd'.pc[t] = "out" /\ sd'.op[t] = "none"
      BY <2>1, <2>3 DEF Booting, CardWork, Doing, Resting
    <3>3. ~sd'.misplaced
      BY <2>1 DEF Booting, CardAddresses, Addressing
    <3> QED
      BY <2>3, <3>1, <3>2, <3>3 DEF CardAddresses, Addressing, OfScreen
  <2>4. CASE ~sd'.init_state
    <3> USE DEF CardFields, CardWork, CardAddresses, Doing, Addressing, CardUses, Block, CardState,
                Stations, Resting, Underway, Operations, Kinds, OfScreen
    <3> QED
      BY <2>1, <2>2, <2>4 DEF Booting
  <2> QED
    BY <2>3, <2>4
<1>2. ASSUME NEW t \in Threads, get_size(t) PROVE CardAddresses'
  <2>1. Sizing(t)
    BY <1>2, SizeDoes
  <2> USE DEF CardFields, CardWork, CardAddresses, Doing, Addressing, CardUses, Block, CardState,
              Stations, Resting, Underway, Operations, Kinds, OfScreen
  <2> QED
    BY <2>1 DEF Sizing, Runs
<1>3. ASSUME NEW t \in Threads, ScreenInit(t) PROVE CardAddresses'
  <2>1. Initialising(t)
    BY <1>3, ScreenInitDoes
  <2> USE DEF CardFields, CardWork, CardAddresses, Doing, Addressing, CardUses, Block, CardState,
              Stations, Resting, Underway, Operations, Kinds, OfScreen
  <2> QED
    BY <2>1 DEF Initialising, Runs
<1>4. ASSUME NEW t \in Threads, os_lock(t) PROVE CardAddresses'
  <2>1. Locking(t)
    BY <1>4, LockDoes
  <2> USE DEF CardFields, CardWork, CardAddresses, Doing, Addressing, CardUses, Block, CardState,
              Stations, Resting, Underway, Operations, Kinds, OfScreen
  <2> QED
    BY <2>1 DEF Locking, Runs
<1>5. ASSUME NEW t \in Threads, send_cmd(t) PROVE CardAddresses'
  <2>1. Sending(t)
    BY <1>5, SendDoes
  <2> USE DEF CardFields, CardWork, CardAddresses, Doing, Addressing, CardUses, Block, CardState,
              Stations, Resting, Underway, Operations, Kinds, OfScreen
  <2>2. CASE GivesUp(t) /\ sd.op[t] \in OfScreen
    BY <2>1, <2>2 DEF Sending, GivesUp, Runs
  <2>3. CASE GivesUp(t) /\ sd.op[t] \notin OfScreen
    BY <2>1, <2>3 DEF Sending, GivesUp, Runs
  <2>4. CASE ~GivesUp(t)
    BY <2>1, <2>4 DEF Sending, Runs
  <2> QED
    BY <2>2, <2>3, <2>4
<1>6. ASSUME NEW t \in Threads, Received(t) PROVE CardAddresses'
  <2>1. Receiving(t)
    BY <1>6, ReceivedDoes
  <2> USE DEF CardFields, CardWork, CardAddresses, Doing, Addressing, CardUses, Block, CardState,
              Stations, Resting, Underway, Operations, Kinds, OfScreen
  <2>2. CASE GivesUp(t) /\ sd.op[t] \in OfScreen
    BY <2>1, <2>2 DEF Receiving, GivesUp, Runs
  <2>3. CASE GivesUp(t) /\ sd.op[t] \notin OfScreen
    BY <2>1, <2>3 DEF Receiving, GivesUp, Runs
  <2>4. CASE ~GivesUp(t)
    BY <2>1, <2>4 DEF Receiving, Runs
  <2> QED
    BY <2>2, <2>3, <2>4
<1> USE DEF CardFields, CardWork, CardAddresses, Doing, Addressing, CardUses, Block, CardState,
            Stations, Resting, Underway, Operations, Kinds, OfScreen, Goes,
            Runs, At
<1>7. ASSUME NEW t \in Threads, FileTest(t) PROVE CardAddresses'
  BY <1>7 DEF FileTest
<1>8. ASSUME NEW t \in Threads, FileSet(t) PROVE CardAddresses'
  BY <1>8 DEF FileSet
<1>9. ASSUME NEW t \in Threads, FileOpen(t) PROVE CardAddresses'
  BY <1>9 DEF FileOpen
<1>10. ASSUME NEW t \in Threads, FileDone(t) PROVE CardAddresses'
  BY <1>10 DEF FileDone
<1>11. ASSUME NEW t \in Threads, ScreenBegins(t) PROVE CardAddresses'
  BY <1>11 DEF ScreenBegins
<1>12. ASSUME NEW t \in Threads, ScreenDone(t) PROVE CardAddresses'
  BY <1>12 DEF ScreenDone
<1>13. ASSUME NEW t \in Threads, Asks(t) PROVE CardAddresses'
  BY <1>13 DEF Asks
<1>14. ASSUME NEW t \in Threads, Yield(t) PROVE CardAddresses'
  BY <1>14 DEF Yield
<1>15. ASSUME NEW t \in Threads, YieldEnds(t) PROVE CardAddresses'
  BY <1>15 DEF YieldEnds
<1>16. ASSUME NEW t \in Threads, Done(t) PROVE CardAddresses'
  BY <1>16 DEF Done, Back
<1>17. ASSUME NEW t \in Threads, Sized(t) PROVE CardAddresses'
  BY <1>17 DEF Sized
<1> QED
  BY <1>1, <1>2, <1>3, <1>4, <1>5, <1>6, <1>7, <1>8, <1>9, <1>10,
     <1>11, <1>12, <1>13, <1>14, <1>15, <1>16, <1>17 DEF SdNext

(* A thread that has tested busy is the next to set it.                     *)
LEMMA InTurnStep ==
    ASSUME CardUses, CardFields, CardWork, InTurn(sd), ~PREEMPTED, SdNext
    PROVE  InTurn(sd)'
<1>1. CASE Boot
  <2>1. Booting
    BY <1>1, BootDoes
  <2> USE DEF CardFields, CardWork, Doing, InTurn, Claims, CardUses, CardState, Stations,
              Resting, Underway, Operations, Kinds, OfScreen
  <2> QED
    BY <2>1 DEF Booting
<1>2. ASSUME NEW t \in Threads, get_size(t) PROVE InTurn(sd)'
  <2>1. Sizing(t)
    BY <1>2, SizeDoes
  <2> USE DEF CardFields, CardWork, Doing, InTurn, Claims, CardUses, CardState, Stations,
              Resting, Underway, Operations, Kinds, OfScreen
  <2> QED
    BY <2>1 DEF Sizing, Runs
<1>3. ASSUME NEW t \in Threads, ScreenInit(t) PROVE InTurn(sd)'
  <2>1. Initialising(t)
    BY <1>3, ScreenInitDoes
  <2> USE DEF CardFields, CardWork, Doing, InTurn, Claims, CardUses, CardState, Stations,
              Resting, Underway, Operations, Kinds, OfScreen
  <2> QED
    BY <2>1 DEF Initialising, Runs
<1>4. ASSUME NEW t \in Threads, os_lock(t) PROVE InTurn(sd)'
  <2>1. Locking(t)
    BY <1>4, LockDoes
  <2> USE DEF CardFields, CardWork, Doing, InTurn, Claims, CardUses, CardState, Stations,
              Resting, Underway, Operations, Kinds, OfScreen
  <2> QED
    BY <2>1 DEF Locking, Runs
<1>5. ASSUME NEW t \in Threads, send_cmd(t) PROVE InTurn(sd)'
  <2>1. Sending(t)
    BY <1>5, SendDoes
  <2> USE DEF CardFields, CardWork, Doing, InTurn, Claims, CardUses, CardState, Stations,
              Resting, Underway, Operations, Kinds, OfScreen
  <2>2. CASE GivesUp(t) /\ sd.op[t] \in OfScreen
    BY <2>1, <2>2 DEF Sending, GivesUp, Runs
  <2>3. CASE GivesUp(t) /\ sd.op[t] \notin OfScreen
    BY <2>1, <2>3 DEF Sending, GivesUp, Runs
  <2>4. CASE ~GivesUp(t)
    BY <2>1, <2>4 DEF Sending, Runs
  <2> QED
    BY <2>2, <2>3, <2>4
<1>6. ASSUME NEW t \in Threads, Received(t) PROVE InTurn(sd)'
  <2>1. Receiving(t)
    BY <1>6, ReceivedDoes
  <2> USE DEF CardFields, CardWork, Doing, InTurn, Claims, CardUses, CardState, Stations,
              Resting, Underway, Operations, Kinds, OfScreen
  <2>2. CASE GivesUp(t) /\ sd.op[t] \in OfScreen
    BY <2>1, <2>2 DEF Receiving, GivesUp, Runs
  <2>3. CASE GivesUp(t) /\ sd.op[t] \notin OfScreen
    BY <2>1, <2>3 DEF Receiving, GivesUp, Runs
  <2>4. CASE ~GivesUp(t)
    BY <2>1, <2>4 DEF Receiving, Runs
  <2> QED
    BY <2>2, <2>3, <2>4
<1> USE DEF CardFields, CardWork, Doing, InTurn, Claims, CardUses, CardState, Stations,
            Resting, Underway, Operations, Kinds, OfScreen, Goes, Runs, At
<1>7. ASSUME NEW t \in Threads, FileTest(t) PROVE InTurn(sd)'
  BY <1>7 DEF FileTest
<1>8. ASSUME NEW t \in Threads, FileSet(t) PROVE InTurn(sd)'
  BY <1>8 DEF FileSet
<1>9. ASSUME NEW t \in Threads, FileOpen(t) PROVE InTurn(sd)'
  BY <1>9 DEF FileOpen
<1>10. ASSUME NEW t \in Threads, FileDone(t) PROVE InTurn(sd)'
  BY <1>10 DEF FileDone
<1>11. ASSUME NEW t \in Threads, ScreenBegins(t) PROVE InTurn(sd)'
  BY <1>11 DEF ScreenBegins
<1>12. ASSUME NEW t \in Threads, ScreenDone(t) PROVE InTurn(sd)'
  BY <1>12 DEF ScreenDone
<1>13. ASSUME NEW t \in Threads, Asks(t) PROVE InTurn(sd)'
  BY <1>13 DEF Asks
<1>14. ASSUME NEW t \in Threads, Yield(t) PROVE InTurn(sd)'
  BY <1>14 DEF Yield
<1>15. ASSUME NEW t \in Threads, YieldEnds(t) PROVE InTurn(sd)'
  BY <1>15 DEF YieldEnds
<1>16. ASSUME NEW t \in Threads, Done(t) PROVE InTurn(sd)'
  BY <1>16 DEF Done, Back
<1>17. ASSUME NEW t \in Threads, Sized(t) PROVE InTurn(sd)'
  BY <1>17 DEF Sized
<1> QED
  BY <1>1, <1>2, <1>3, <1>4, <1>5, <1>6, <1>7, <1>8, <1>9, <1>10,
     <1>11, <1>12, <1>13, <1>14, <1>15, <1>16, <1>17 DEF SdNext

-----------------------------------------------------------------------------
CardInv == CardFields /\ CardWork /\ CardLocks /\ CardAddresses

LEMMA CardStarts == ASSUME CardUses, SdInit PROVE CardInv /\ InTurn(sd)
<1>1. CardFields
  BY DEF SdInit, CardFields, CardState, Stations, Resting, Operations, Kinds
<1>2. CardWork /\ CardLocks
  BY DEF SdInit, CardUses, CardWork, CardLocks, Doing, Holding, Resting, Underway, OfScreen
<1>3. CardAddresses
  BY DEF SdInit, CardAddresses, Addressing, OfScreen
<1>4. InTurn(sd)
  BY DEF SdInit, CardUses, InTurn, Claims
<1> QED
  BY <1>1, <1>2, <1>3, <1>4 DEF CardInv

LEMMA CardInvariant == ASSUME CardUses PROVE SdSpec => []CardInv
<1>1. SdInit => CardInv
  BY CardStarts
<1>2. CardInv /\ [SdNext]_sd => CardInv'
  <2> SUFFICES ASSUME CardInv, [SdNext]_sd PROVE CardInv'
    OBVIOUS
  <2>1. CASE SdNext
    BY <2>1, StateStep, DoingStep, HoldingStep, AddressingStep DEF CardInv
  <2>2. CASE UNCHANGED sd
    BY <2>2 DEF CardInv, CardFields, CardWork, CardLocks, CardAddresses, Doing, Holding, Addressing
  <2> QED
    BY <2>1, <2>2
<1> QED
  BY <1>1, <1>2, PTL DEF SdSpec

(* sdcard_wrapper.cpp, sdcard.cpp: whoever opens a file keeps the others out   *)
(* but while the card is slow, nobody goes on with the switches forbidden,   *)
(* and blocks are addressed as the card wants, whatever fails at the card;   *)
(* also where two threads have slipped into the file system together.       *)
THEOREM LocksAndAddresses == ASSUME CardUses PROVE SdSpec => [](LocksAreGivenBack /\ BlocksAreAddressed)
<1>1. CardInv => LocksAreGivenBack /\ BlocksAreAddressed
  BY DEF CardInv, CardWork, CardLocks, CardAddresses, Doing, Holding, Addressing,
         LocksAreGivenBack, BlocksAreAddressed, At, Resting, Underway
<1> QED
  BY <1>1, CardInvariant, PTL

(* sdcard_wrapper.cpp:224-360: one thread at a time is in the file system,     *)
(* and one command at the card, although a thread that waits for its block  *)
(* lets others run, and opening goes by another lock than the rest; as long  *)
(* as no switch comes between the test of busy and its set.                 *)
THEOREM OneInTheFileSystem == ASSUME CardUses, ~PREEMPTED PROVE SdSpec => []OneAtATime
<1>1. SdInit => InTurn(sd)
  BY CardStarts
<1>2. CardInv /\ InTurn(sd) /\ [SdNext]_sd => InTurn(sd)'
  <2> SUFFICES ASSUME CardInv, InTurn(sd), [SdNext]_sd PROVE InTurn(sd)'
    OBVIOUS
  <2>1. CASE SdNext
    BY <2>1, InTurnStep DEF CardInv
  <2>2. CASE UNCHANGED sd
    BY <2>2 DEF InTurn, Claims
  <2> QED
    BY <2>1, <2>2
<1>3. InTurn(sd) => OneAtATime
  BY DEF InTurn, Claims, OneAtATime, InFileSystem
<1> QED
  BY <1>1, <1>2, <1>3, CardInvariant, PTL DEF SdSpec
=================================================================================

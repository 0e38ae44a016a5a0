---------------------------- MODULE Block_proofs ----------------------------
(***************************************************************************)
(* The block channel is the device it promises to be, and its adapter says *)
(* only what is true, for every size of ring, header and block, every disk *)
(* and every client that keeps to the rules of yan_os_block_submit.        *)
(***************************************************************************)
EXTENDS BlockAdapter, SequenceTheorems, TLAPS

-----------------------------------------------------------------------------
(* Arithmetic.                                                             *)

(* Quotient and remainder are the only numbers that can be.                *)
LEMMA Division ==
  ASSUME NEW w \in Nat \ {0}, NEW a \in Int, NEW r \in 0..w - 1
  PROVE  (w * a + r) \div w = a /\ (w * a + r) % w = r
<1> DEFINE p == w * a
           x == p + r
           q == x \div w
           s == x % w
<1>1. p \in Int /\ x \in Int /\ w \in Int /\ w > 0 /\ r \in 0..w - 1
  OBVIOUS
<1> HIDE DEF p
<1>2. q \in Int /\ s \in 0..w - 1 /\ x = w * q + s
  BY <1>1
<1> HIDE DEF q, s
<1> DEFINE d == q - a
<1>3. w * d = w * q - p
  BY <1>1, <1>2 DEF p
<1>4. d \in Int /\ (d >= 1 => w * d >= w) /\ (d <= -1 => w * d <= -w)
  BY <1>1, <1>2
<1>5. w * d = r - s
  BY <1>1, <1>2, <1>3
<1> DEFINE e == w * d
<1>6. e = r - s /\ (d >= 1 => e >= w) /\ (d <= -1 => e <= -w)
  BY <1>4, <1>5
<1> HIDE DEF e
<1>7. ~(d >= 1) /\ ~(d <= -1)
  BY <1>1, <1>2, <1>6
<1>8. d = 0
  BY <1>4, <1>7
<1>9. q = a
  BY <1>2, <1>8
<1>10. s = r
  BY <1>1, <1>2, <1>9 DEF p
<1> QED BY <1>9, <1>10 DEF q, s, p

(* Positions wrap at most once.                                            *)
LEMMA Wraps ==
  /\ \A x \in 0..RingSize - 1 : x % RingSize = x
  /\ \A x \in RingSize..2 * RingSize - 1 : x % RingSize = x - RingSize
  /\ \A x \in -RingSize..-1 : x % RingSize = x + RingSize
<1>1. RingSize \in Nat \ {0}
  BY ChannelAssumption
<1>2. ASSUME NEW x \in 0..RingSize - 1 PROVE x % RingSize = x
  <2>1. RingSize * 0 + x = x
    BY <1>1
  <2>2. (RingSize * 0 + x) % RingSize = x
    BY <1>1, Division
  <2> QED BY <2>1, <2>2
<1>3. ASSUME NEW x \in RingSize..2 * RingSize - 1 PROVE x % RingSize = x - RingSize
  <2>1. x - RingSize \in 0..RingSize - 1 /\ RingSize * 1 + (x - RingSize) = x
    BY <1>1
  <2>2. (RingSize * 1 + (x - RingSize)) % RingSize = x - RingSize
    BY <1>1, <2>1, Division
  <2> QED BY <2>1, <2>2
<1>4. ASSUME NEW x \in -RingSize..-1 PROVE x % RingSize = x + RingSize
  <2>1. x + RingSize \in 0..RingSize - 1 /\ RingSize * (-1) + (x + RingSize) = x
    BY <1>1
  <2>2. (RingSize * (-1) + (x + RingSize)) % RingSize = x + RingSize
    BY <1>1, <2>1, Division
  <2> QED BY <2>1, <2>2
<1> QED BY <1>2, <1>3, <1>4

(* How many blocks fit a frame.                                            *)
LEMMA CountFits ==
  \A c \in Nat : FitsRing(c * BlockSize) <=> c <= MaxCount
<1> TAKE c \in Nat
<1> DEFINE m == RingSize - 1 - HeaderSize
           q == m \div BlockSize
           s == m % BlockSize
           b == BlockSize
<1>1. m \in Nat /\ b \in Nat \ {0} /\ RingSize \in Nat /\ HeaderSize \in Nat
  BY ChannelAssumption
<1>2. FitsRing(c * BlockSize) <=> c * b <= m
  BY <1>1 DEF FitsRing
<1> HIDE DEF m
<1>3. q \in Nat /\ s \in 0..b - 1 /\ m = b * q + s
  BY <1>1
<1>4. MaxCount = q
  BY DEF MaxCount, m
<1> HIDE DEF q, s, b
<1> DEFINE d == c - q
<1>5. d \in Int /\ c * b = b * q + b * d
  BY <1>1, <1>3
<1>6. (d <= 0 => b * d <= 0) /\ (d >= 1 => b * d >= b)
  BY <1>1, <1>5
<1> DEFINE e == b * d
           p == b * q
<1>7. /\ c * b = p + e /\ m = p + s /\ (d <= 0 => e <= 0) /\ (d >= 1 => e >= b)
      /\ p \in Int /\ e \in Int
  BY <1>1, <1>3, <1>5, <1>6
<1> HIDE DEF e, p
<1>8. c * b <= m <=> d <= 0
  BY <1>1, <1>3, <1>5, <1>7
<1> QED BY <1>2, <1>3, <1>4, <1>8

-----------------------------------------------------------------------------
(* Rings.                                                                  *)

Positions == 0..RingSize - 1

IsRing(ring) ==
  /\ ring = [head |-> ring.head, tail |-> ring.tail, cell |-> ring.cell]
  /\ ring.head \in Positions /\ ring.tail \in Positions
  /\ ring.cell = [k \in Positions |-> ring.cell[k]]

\* The cell that is i cells behind the oldest.
CellAt(ring, i) == ring.cell[(ring.tail + i) % RingSize]

(* How many cells are used follows from head and tail.                     *)
LEMMA UsedFacts ==
  ASSUME NEW ring, IsRing(ring)
  PROVE  /\ Used(ring) \in Positions /\ Free(ring) = RingSize - 1 - Used(ring)
         /\ Used(ring) = IF ring.tail <= ring.head THEN ring.head - ring.tail
                         ELSE ring.head - ring.tail + RingSize
<1> DEFINE h == ring.head
           t == ring.tail
<1>1. RingSize \in Nat /\ h \in 0..RingSize - 1 /\ t \in 0..RingSize - 1
  BY ChannelAssumption DEF IsRing, Positions
<1>2. Used(ring) = (h - t) % RingSize
  BY DEF Used
<1> HIDE DEF h, t
<1>3. CASE t <= h
  <2>1. h - t \in 0..RingSize - 1
    BY <1>1, <1>3
  <2>2. (h - t) % RingSize = h - t
    BY <2>1, Wraps
  <2> QED BY <1>2, <1>3, <2>1, <2>2 DEF h, t, Positions, Free
<1>4. CASE ~(t <= h)
  <2>1. h - t \in -RingSize..-1 /\ h - t + RingSize \in 0..RingSize - 1
    BY <1>1, <1>4
  <2>2. (h - t) % RingSize = h - t + RingSize
    BY <2>1, Wraps
  <2> QED BY <1>2, <1>4, <2>1, <2>2 DEF h, t, Positions, Free
<1> QED BY <1>3, <1>4

(* The k-th position after another, without a remainder.                   *)
LEMMA StepFacts ==
  ASSUME NEW t \in Positions, NEW k \in 0..RingSize
  PROVE  /\ (t + k) % RingSize \in Positions
         /\ (t + k) % RingSize = IF t + k < RingSize THEN t + k ELSE t + k - RingSize
<1>1. RingSize \in Nat /\ t \in 0..RingSize - 1
  BY ChannelAssumption DEF Positions
<1>2. CASE t + k < RingSize
  <2>1. t + k \in 0..RingSize - 1
    BY <1>1, <1>2
  <2> QED BY <1>2, <2>1, Wraps DEF Positions
<1>3. CASE ~(t + k < RingSize)
  <2> DEFINE x == t + k
  <2>1. x \in RingSize..2 * RingSize - 1 /\ x - RingSize \in 0..RingSize - 1
    BY <1>1, <1>3
  <2> HIDE DEF x
  <2>a. \A y \in RingSize..2 * RingSize - 1 : y % RingSize = y - RingSize
    BY Wraps
  <2>2. x % RingSize = x - RingSize
    BY <2>1, <2>a
  <2> DEFINE y == x % RingSize
  <2> HIDE DEF y
  <2>3. y = x - RingSize /\ y \in Positions
    BY <2>1, <2>2 DEF Positions, y
  <2>4. (t + k) % RingSize = y
    BY DEF x, y
  <2>6. x - RingSize = t + k - RingSize
    BY <1>1 DEF x
  <2>5. y = t + k - RingSize
    BY <2>3, <2>6, Zenon
  <2> QED BY <1>3, <2>3, <2>4, <2>5, Zenon
<1> QED BY <1>2, <1>3

(* Dropping cells leaves the others, in their order.                       *)
LEMMA DropFacts ==
  ASSUME NEW ring, IsRing(ring), NEW n \in 0..Used(ring)
  PROVE  /\ IsRing(Drop(ring, n)) /\ Used(Drop(ring, n)) = Used(ring) - n
         /\ \A i \in 0..Used(ring) - n - 1 : CellAt(Drop(ring, n), i) = CellAt(ring, n + i)
<1> DEFINE h == ring.head
           t == ring.tail
           d == Drop(ring, n)
           u == (t + n) % RingSize
<1>1. RingSize \in Nat /\ RingSize > 0 /\ h \in 0..RingSize - 1 /\ t \in 0..RingSize - 1
  BY ChannelAssumption DEF IsRing, Positions
<1>2. /\ Used(ring) \in 0..RingSize - 1
      /\ Used(ring) = IF t <= h THEN h - t ELSE h - t + RingSize
  BY UsedFacts DEF Positions
<1>3. n \in 0..RingSize
  BY <1>1, <1>2
<1>4. u \in 0..RingSize - 1 /\ u = IF t + n < RingSize THEN t + n ELSE t + n - RingSize
  <2> HIDE DEF t
  <2> QED BY <1>1, <1>3, StepFacts DEF Positions
<1>5. d = [head |-> h, tail |-> u, cell |-> ring.cell]
  BY DEF Drop, IsRing
<1>6. d.head = h /\ d.tail = u /\ d.cell = ring.cell
  BY <1>5
<1>7. IsRing(d)
  BY <1>1, <1>4, <1>5, <1>6 DEF IsRing, Positions
<1>8. Used(d) = IF u <= h THEN h - u ELSE h - u + RingSize
  BY <1>6, <1>7, UsedFacts
<1> HIDE DEF d, h, t, u
<1>9. Used(d) = Used(ring) - n
  BY <1>1, <1>2, <1>3, <1>4, <1>8
<1>10. ASSUME NEW i \in 0..Used(ring) - n - 1 PROVE CellAt(d, i) = CellAt(ring, n + i)
  <2>1. i \in 0..RingSize /\ n + i \in 0..RingSize
    BY <1>1, <1>2, <1>3
  <2>2. (u + i) % RingSize = IF u + i < RingSize THEN u + i ELSE u + i - RingSize
    BY <1>4, <2>1, StepFacts DEF Positions
  <2>3. (t + (n + i)) % RingSize =
          IF t + (n + i) < RingSize THEN t + (n + i) ELSE t + (n + i) - RingSize
    BY <1>1, <2>1, StepFacts DEF Positions
  <2>4. (u + i) % RingSize = (t + (n + i)) % RingSize
    BY <1>1, <1>2, <1>3, <1>4, <2>1, <2>2, <2>3
  <2> QED BY <1>6, <2>4 DEF CellAt, t
<1> QED BY <1>7, <1>9, <1>10 DEF d

(* What is pushed comes behind what is there.                              *)
LEMMA PushFacts ==
  ASSUME NEW ring, IsRing(ring), NEW cells, NEW n \in Nat, Len(cells) = n,
         n <= Free(ring)
  PROVE  /\ IsRing(Push(ring, cells)) /\ Used(Push(ring, cells)) = Used(ring) + n
         /\ \A i \in 0..Used(ring) - 1 : CellAt(Push(ring, cells), i) = CellAt(ring, i)
         /\ \A i \in 1..n : CellAt(Push(ring, cells), Used(ring) + i - 1) = cells[i]
<1> DEFINE h == ring.head
           t == ring.tail
           p == Push(ring, cells)
           g == (h + n) % RingSize
           c == [k \in Positions |->
                   LET i == ((k - h) % RingSize) + 1
                   IN IF i <= n THEN cells[i] ELSE ring.cell[k]]
<1>1. RingSize \in Nat /\ RingSize > 0 /\ h \in 0..RingSize - 1 /\ t \in 0..RingSize - 1
  BY ChannelAssumption DEF IsRing, Positions
<1>2. /\ Used(ring) \in 0..RingSize - 1 /\ Used(ring) + n <= RingSize - 1
      /\ Used(ring) = IF t <= h THEN h - t ELSE h - t + RingSize
  <2>1. /\ Used(ring) \in 0..RingSize - 1 /\ n <= RingSize - 1 - Used(ring)
        /\ Used(ring) = IF t <= h THEN h - t ELSE h - t + RingSize
    BY UsedFacts DEF Positions
  <2> HIDE DEF h, t
  <2> QED BY <1>1, <2>1
<1>3. n \in 0..RingSize
  BY <1>1, <1>2
<1>4. g \in 0..RingSize - 1 /\ g = IF h + n < RingSize THEN h + n ELSE h + n - RingSize
  <2> HIDE DEF h
  <2> QED BY <1>1, <1>3, StepFacts DEF Positions
<1>5. p = [head |-> g, tail |-> t, cell |-> c]
  <2>1. p = Put(ring, cells)
    BY <1>1, <1>2, UsedFacts DEF Push
  <2>2. DOMAIN ring.cell = Positions
    BY DEF IsRing
  <2>3. ring = [head |-> ring.head, tail |-> ring.tail, cell |-> ring.cell]
    BY DEF IsRing
  <2>4. p = [ring EXCEPT !.cell = c, !.head = g]
    BY <2>1, <2>2 DEF Put
  <2> HIDE DEF p, c, g
  <2> QED BY <2>3, <2>4
<1>6. p.head = g /\ p.tail = t /\ p.cell = c
  BY <1>5
<1>c. c = [k \in Positions |-> c[k]]
  OBVIOUS
<1>d. \A k \in Positions : c[k] = IF ((k - h) % RingSize) + 1 <= n
                                  THEN cells[((k - h) % RingSize) + 1] ELSE ring.cell[k]
  OBVIOUS
<1> HIDE DEF c, g, h, t, p
<1>7. IsRing(p)
  BY <1>1, <1>4, <1>5, <1>6, <1>c DEF IsRing, Positions
<1>8. Used(p) = IF t <= g THEN g - t ELSE g - t + RingSize
  BY <1>6, <1>7, UsedFacts
<1>9. Used(p) = Used(ring) + n
  BY <1>1, <1>2, <1>3, <1>4, <1>8
<1>10. ASSUME NEW i \in 0..Used(ring) - 1 PROVE CellAt(p, i) = CellAt(ring, i)
  <2> DEFINE k == (t + i) % RingSize
  <2>1. i \in 0..RingSize
    BY <1>1, <1>2
  <2>2. k \in Positions /\ k = IF t + i < RingSize THEN t + i ELSE t + i - RingSize
    BY <1>1, <2>1, StepFacts DEF Positions
  <2> HIDE DEF k
  <2>3. k # h /\ k \in 0..RingSize - 1
    BY <1>1, <1>2, <2>1, <2>2 DEF Positions
  <2>4. (k - h) % RingSize >= n /\ (k - h) % RingSize \in Int
    <3>1. CASE k - h >= 0
      <4>1. k - h \in 0..RingSize - 1
        BY <1>1, <2>3, <3>1
      <4>2. (k - h) % RingSize = k - h
        BY <4>1, Wraps
      <4> QED BY <1>1, <1>2, <1>3, <2>1, <2>2, <2>3, <3>1, <4>2
    <3>2. CASE k - h < 0
      <4>1. k - h \in -RingSize..-1
        BY <1>1, <2>3, <3>2
      <4>2. (k - h) % RingSize = k - h + RingSize
        BY <4>1, Wraps
      <4> QED BY <1>1, <1>2, <1>3, <2>1, <2>2, <2>3, <3>2, <4>2
    <3> QED BY <1>1, <2>3, <3>1, <3>2
  <2>5. c[k] = ring.cell[k]
    BY <1>d, <2>2, <2>4, <1>3
  <2> QED BY <1>6, <2>5 DEF CellAt, k, t
<1>11. ASSUME NEW i \in 1..n PROVE CellAt(p, Used(ring) + i - 1) = cells[i]
  <2> DEFINE j == Used(ring) + i - 1
             k == (t + j) % RingSize
  <2>1. j \in 0..RingSize
    BY <1>1, <1>2, <1>3
  <2>2. k \in Positions /\ k = IF t + j < RingSize THEN t + j ELSE t + j - RingSize
    <3> HIDE DEF j
    <3> QED BY <1>1, <2>1, StepFacts DEF Positions
  <2> HIDE DEF k
  <2>3. k \in 0..RingSize - 1
    BY <2>2 DEF Positions
  <2>4. (k - h) % RingSize = i - 1
    <3>1. CASE k - h >= 0
      <4>1. k - h \in 0..RingSize - 1
        BY <1>1, <2>3, <3>1
      <4>2. (k - h) % RingSize = k - h
        BY <4>1, Wraps
      <4> QED BY <1>1, <1>2, <1>3, <2>1, <2>2, <2>3, <3>1, <4>2
    <3>2. CASE k - h < 0
      <4>1. k - h \in -RingSize..-1
        BY <1>1, <2>3, <3>2
      <4>2. (k - h) % RingSize = k - h + RingSize
        BY <4>1, Wraps
      <4> QED BY <1>1, <1>2, <1>3, <2>1, <2>2, <2>3, <3>2, <4>2
    <3> QED BY <1>1, <2>3, <3>1, <3>2
  <2>5. c[k] = cells[i]
    <3>1. ((k - h) % RingSize) + 1 = i
      BY <2>4, <1>3
    <3> QED BY <1>3, <1>d, <2>2, <3>1
  <2> QED BY <1>6, <2>5 DEF CellAt, k, t
<1> QED BY <1>7, <1>9, <1>10, <1>11 DEF p

(* Peeking reads cells in their order.                                     *)
LEMMA PeekFacts ==
  ASSUME NEW ring, IsRing(ring), NEW offset \in Nat, NEW n \in Nat
  PROVE  /\ Peek(ring, offset, n) = [i \in 1..n |-> CellAt(ring, offset + i - 1)]
<1>1. \A i \in 1..n : ring.tail + offset + i - 1 = ring.tail + (offset + i - 1)
  <2> DEFINE t == ring.tail
  <2>1. t \in Int
    BY ChannelAssumption DEF IsRing, Positions
  <2> HIDE DEF t
  <2>2. \A i \in 1..n : t + offset + i - 1 = t + (offset + i - 1)
    BY <2>1
  <2> QED BY <2>2 DEF t
<1>2. \A i \in 1..n : ring.cell[(ring.tail + offset + i - 1) % RingSize]
                        = CellAt(ring, offset + i - 1)
  BY <1>1 DEF CellAt
<1> QED BY <1>2 DEF Peek

-----------------------------------------------------------------------------
(* Frames in a ring.                                                       *)

\* The ring holds the n frames F[1], ..., F[n], one behind the other, and nothing
\* else; off[i] cells lie in front of F[i + 1].
Places(ring, n, F, off) ==
  /\ off \in [0..n -> Positions] /\ off[0] = 0 /\ off[n] = Used(ring)
  /\ \A i, j \in 0..n : i <= j => off[i] <= off[j]
  /\ \A i \in 1..n : /\ Len(F[i]) \in Nat /\ off[i] = off[i - 1] + Len(F[i])
                     /\ \A j \in 1..Len(F[i]) : CellAt(ring, off[i - 1] + j - 1) = F[i][j]
Holds(ring, n, F) == \E off \in [0..n -> Positions] : Places(ring, n, F, off)

(* Offsets stay inside the ring.                                           *)
LEMMA OffsetFacts ==
  ASSUME NEW ring, IsRing(ring), NEW n \in Nat, NEW F, NEW off, Places(ring, n, F, off)
  PROVE  \A i \in 0..n : /\ off[i] \in Nat /\ off[i] <= Used(ring)
                         /\ i >= 1 => Len(F[1]) <= off[i]
<1>1. \A i \in 0..n : off[i] \in Nat /\ off[i] <= Used(ring)
  <2> TAKE i \in 0..n
  <2>1. n \in 0..n /\ i <= n
    OBVIOUS
  <2> QED BY <2>1 DEF Places, Positions
<1>2. ASSUME NEW i \in 1..n PROVE Len(F[1]) <= off[i]
  <2>1. 1 \in 1..n /\ 1 - 1 = 0
    OBVIOUS
  <2>2. off[1] = off[0] + Len(F[1]) /\ off[0] = 0 /\ Len(F[1]) \in Nat /\ off[1] <= off[i]
    <3>1. 1 \in 0..n /\ i \in 0..n /\ 1 <= i
      OBVIOUS
    <3> QED BY <2>1, <3>1 DEF Places
  <2> QED BY <2>2
<1>3. \A i \in 0..n : i >= 1 => i \in 1..n
  OBVIOUS
<1> QED BY <1>1, <1>2, <1>3

(* An empty ring holds no frame, and holding none is being empty.          *)
LEMMA HoldsNothing ==
  ASSUME NEW ring, IsRing(ring), NEW F
  PROVE  Holds(ring, 0, F) <=> Used(ring) = 0
<1>1. ASSUME Used(ring) = 0 PROVE Holds(ring, 0, F)
  <2> DEFINE off == [i \in 0..0 |-> 0]
  <2>1. 0 \in Positions
    BY ChannelAssumption DEF Positions
  <2>2. off \in [0..0 -> Positions] /\ off[0] = 0
    BY <2>1
  <2> HIDE DEF off
  <2>3. (\A i \in 1..0 : FALSE) /\ \A i, j \in 0..0 : off[i] <= off[j]
    BY <2>2
  <2> QED BY <1>1, <2>2, <2>3 DEF Holds, Places
<1>2. ASSUME Holds(ring, 0, F) PROVE Used(ring) = 0
  BY <1>2 DEF Holds, Places
<1> QED BY <1>1, <1>2

(* The oldest frame is at the front.                                       *)
LEMMA HoldsFirst ==
  ASSUME NEW ring, IsRing(ring), NEW n \in Nat \ {0}, NEW F, Holds(ring, n, F)
  PROVE  /\ Len(F[1]) \in 0..Used(ring)
         /\ \A j \in 1..Len(F[1]) : CellAt(ring, j - 1) = F[1][j]
         /\ n = 1 => Used(ring) = Len(F[1])
<1>1. PICK off : Places(ring, n, F, off)
  BY DEF Holds
<1>2. Len(F[1]) <= off[n] /\ off[n] <= Used(ring)
  <2>1. n \in 0..n /\ n >= 1
    OBVIOUS
  <2> QED BY <1>1, <2>1, OffsetFacts
<1>3. 1 \in 1..n /\ 1 - 1 = 0 /\ off[0] = 0 /\ off[n] = Used(ring)
  BY <1>1 DEF Places
<1>4. /\ Len(F[1]) \in Nat /\ off[1] = 0 + Len(F[1])
      /\ \A j \in 1..Len(F[1]) : CellAt(ring, 0 + j - 1) = F[1][j]
  BY <1>1, <1>3 DEF Places
<1>5. Used(ring) \in Nat
  BY UsedFacts DEF Positions
<1>6. \A j \in 1..Len(F[1]) : 0 + j - 1 = j - 1
  BY <1>4
<1> QED BY <1>2, <1>3, <1>4, <1>5, <1>6

(* Once the oldest frame, or the front of it, is dropped, the ring holds   *)
(* the rest.                                                               *)
LEMMA HoldsSplit ==
  ASSUME NEW ring, IsRing(ring), NEW n \in Nat \ {0}, NEW F, Holds(ring, n, F),
         NEW k \in 0..Len(F[1]),
         NEW G, \A i \in 2..n : G[i] = F[i],
         Len(G[1]) = Len(F[1]) - k, \A j \in 1..Len(F[1]) - k : G[1][j] = F[1][k + j]
  PROVE  Holds(Drop(ring, k), n, G)
<1>1. PICK off : Places(ring, n, F, off)
  BY DEF Holds
<1> DEFINE d == Drop(ring, k)
           new == [i \in 0..n |-> IF i = 0 THEN 0 ELSE off[i] - k]
<1>2. /\ off \in [0..n -> Positions] /\ off[0] = 0 /\ off[n] = Used(ring)
      /\ \A i, j \in 0..n : i <= j => off[i] <= off[j]
  BY <1>1 DEF Places
<1>3. \A i \in 1..n :
        /\ Len(F[i]) \in Nat /\ off[i] = off[i - 1] + Len(F[i])
        /\ \A j \in 1..Len(F[i]) : CellAt(ring, off[i - 1] + j - 1) = F[i][j]
  BY <1>1 DEF Places
<1>4. \A i \in 0..n : /\ off[i] \in Nat /\ off[i] <= Used(ring)
                      /\ i >= 1 => Len(F[1]) <= off[i]
  BY <1>1, OffsetFacts
<1>5. Len(F[1]) \in Nat /\ k \in 0..Used(ring) /\ Used(ring) \in Positions
  <2>1. 1 \in 1..n /\ n \in 0..n /\ n >= 1
    OBVIOUS
  <2>2. Len(F[1]) \in Nat /\ Len(F[1]) <= Used(ring) /\ Used(ring) \in Nat
    BY <1>2, <1>3, <1>4, <2>1, UsedFacts DEF Positions
  <2> QED BY <2>2, UsedFacts
<1>6. /\ IsRing(d) /\ Used(d) = Used(ring) - k
      /\ \A i \in 0..Used(ring) - k - 1 : CellAt(d, i) = CellAt(ring, k + i)
  BY <1>5, DropFacts
<1> HIDE DEF d
<1>7. /\ new \in [0..n -> Positions] /\ new[0] = 0
      /\ \A i \in 1..n : new[i] = off[i] - k /\ off[i] >= k
  <2>1. \A i \in 1..n : /\ i \in 0..n /\ i # 0 /\ off[i] \in Nat
                        /\ Len(F[1]) <= off[i] /\ off[i] <= Used(ring)
    BY <1>4
  <2>2. \A i \in 1..n : off[i] - k \in Positions /\ off[i] >= k
    BY <1>5, <2>1, ChannelAssumption DEF Positions
  <2>3. \A i \in 0..n : i = 0 \/ i \in 1..n
    OBVIOUS
  <2>4. 0 \in Positions
    BY ChannelAssumption DEF Positions
  <2> QED BY <2>1, <2>2, <2>3, <2>4
<1> HIDE DEF new
<1>8. new[n] = Used(d)
  <2>1. n \in 1..n
    OBVIOUS
  <2> QED BY <1>2, <1>6, <1>7, <2>1
<1>9. \A i, j \in 0..n : i <= j => new[i] <= new[j]
  <2> SUFFICES ASSUME NEW i \in 0..n, NEW j \in 0..n, i <= j PROVE new[i] <= new[j]
    OBVIOUS
  <2>1. /\ i = 0 \/ (i \in 1..n /\ j \in 1..n)
        /\ j = 0 \/ j \in 1..n
    OBVIOUS
  <2>2. off[i] \in Nat /\ off[j] \in Nat /\ off[i] <= off[j] /\ k \in Nat
    BY <1>2, <1>4, <1>5
  <2> QED BY <1>7, <2>1, <2>2
<1>10. ASSUME NEW i \in 1..n
       PROVE  /\ Len(G[i]) \in Nat /\ new[i] = new[i - 1] + Len(G[i])
              /\ \A j \in 1..Len(G[i]) : CellAt(d, new[i - 1] + j - 1) = G[i][j]
  <2>1. CASE i = 1
    <3>1. Len(G[1]) \in Nat /\ Len(G[1]) = Len(F[1]) - k /\ off[1] = 0 + Len(F[1])
      <4>1. Len(G[1]) \in Nat
        BY <1>5
      <4>2. off[1] = off[1 - 1] + Len(F[1]) /\ 1 - 1 = 0
        BY <1>3, <2>1
      <4> QED BY <1>2, <4>1, <4>2
    <3>2. new[1] = 0 + Len(G[1])
      BY <1>5, <1>7, <2>1, <3>1
    <3>3. ASSUME NEW j \in 1..Len(G[1]) PROVE CellAt(d, 0 + j - 1) = G[1][j]
      <4>1. k + j \in 1..Len(F[1]) /\ j \in 1..Len(F[1]) - k /\ k + (0 + j - 1) = 0 + (k + j) - 1
        BY <1>5, <3>1
      <4>2. CellAt(ring, 0 + (k + j) - 1) = F[1][k + j]
        <5>1. \A l \in 1..Len(F[1]) : CellAt(ring, off[1 - 1] + l - 1) = F[1][l]
          BY <1>3, <2>1
        <5> DEFINE l == k + j
        <5>2. off[1 - 1] = 0 /\ l \in 1..Len(F[1])
          BY <1>2, <4>1
        <5> HIDE DEF l
        <5>3. CellAt(ring, 0 + l - 1) = F[1][l]
          BY <5>1, <5>2
        <5> QED BY <5>3 DEF l
      <4>3. 0 + j - 1 \in 0..Used(ring) - k - 1
        <5>1. Len(F[1]) <= Used(ring)
          BY <1>2, <1>4, <2>1, <3>1
        <5> QED BY <1>5, <4>1, <5>1 DEF Positions
      <4>4. CellAt(d, 0 + j - 1) = CellAt(ring, k + (0 + j - 1))
        BY <1>6, <4>3
      <4> QED BY <4>1, <4>2, <4>4
    <3>4. i - 1 = 0
      BY <2>1
    <3> QED BY <1>7, <2>1, <3>1, <3>2, <3>3, <3>4
  <2>2. CASE i # 1
    <3>1. i \in 2..n /\ i - 1 \in 1..n /\ i \in 0..n /\ i - 1 \in 0..n
      BY <2>2
    <3>2. G[i] = F[i] /\ Len(G[i]) \in Nat /\ off[i] = off[i - 1] + Len(G[i])
      BY <1>3, <3>1
    <3>3. new[i] = off[i] - k /\ new[i - 1] = off[i - 1] - k /\ off[i - 1] >= k
      BY <1>7, <3>1
    <3>4. off[i] \in Nat /\ off[i - 1] \in Nat /\ off[i] <= Used(ring) /\ k \in Nat
      BY <1>4, <1>5, <3>1
    <3>5. ASSUME NEW j \in 1..Len(G[i]) PROVE CellAt(d, new[i - 1] + j - 1) = G[i][j]
      <4>1. CellAt(ring, off[i - 1] + j - 1) = G[i][j]
        BY <1>3, <3>2
      <4> DEFINE o == off[i - 1]
                 u == Used(ring)
                 l == Len(G[i])
                 m == new[i - 1]
      <4>a. /\ o \in Nat /\ u \in Nat /\ l \in Nat /\ k \in Nat /\ m = o - k /\ o >= k
            /\ o + l <= u /\ j \in 1..l
        <5>1. u \in Nat
          BY <1>5 DEF Positions
        <5> QED BY <3>2, <3>3, <3>4, <5>1
      <4> HIDE DEF o, u, l, m
      <4>b. m + j - 1 \in 0..u - k - 1 /\ k + (m + j - 1) = o + j - 1
        BY <4>a
      <4>2. /\ new[i - 1] + j - 1 \in 0..Used(ring) - k - 1
            /\ k + (new[i - 1] + j - 1) = off[i - 1] + j - 1
        BY <4>b DEF o, u, m
      <4>3. CellAt(d, new[i - 1] + j - 1) = CellAt(ring, k + (new[i - 1] + j - 1))
        BY <1>6, <4>2
      <4> QED BY <4>1, <4>2, <4>3
    <3> QED BY <3>2, <3>3, <3>4, <3>5
  <2> QED BY <2>1, <2>2
<1>11. Places(d, n, G, new)
  BY <1>7, <1>8, <1>9, <1>10 DEF Places
<1>12. Holds(d, n, G)
  BY <1>7, <1>11 DEF Holds
<1> QED BY <1>12 DEF d

(* Once the oldest frame is dropped, the ring holds the others.            *)
LEMMA HoldsDrop ==
  ASSUME NEW ring, IsRing(ring), NEW n \in Nat \ {0}, NEW F, Holds(ring, n, F),
         NEW G, \A i \in 1..n - 1 : G[i] = F[i + 1]
  PROVE  Holds(Drop(ring, Len(F[1])), n - 1, G)
<1>1. PICK off : Places(ring, n, F, off)
  BY DEF Holds
<1> DEFINE k == Len(F[1])
           d == Drop(ring, k)
           new == [i \in 0..n - 1 |-> off[i + 1] - k]
<1>2. /\ off \in [0..n -> Positions] /\ off[0] = 0 /\ off[n] = Used(ring)
      /\ \A i, j \in 0..n : i <= j => off[i] <= off[j]
  BY <1>1 DEF Places
<1>3. \A i \in 1..n :
        /\ Len(F[i]) \in Nat /\ off[i] = off[i - 1] + Len(F[i])
        /\ \A j \in 1..Len(F[i]) : CellAt(ring, off[i - 1] + j - 1) = F[i][j]
  BY <1>1 DEF Places
<1>4. \A i \in 0..n : /\ off[i] \in Nat /\ off[i] <= Used(ring)
                      /\ i >= 1 => k <= off[i]
  BY <1>1, OffsetFacts
<1>5. k \in Nat /\ k \in 0..Used(ring) /\ Used(ring) \in Positions /\ off[1] = k
  <2>1. 1 \in 1..n /\ n \in 0..n /\ n >= 1 /\ 1 - 1 = 0
    OBVIOUS
  <2>2. k \in Nat /\ k <= Used(ring) /\ Used(ring) \in Nat /\ off[1] = 0 + k
    BY <1>2, <1>3, <1>4, <2>1, UsedFacts DEF Positions
  <2> QED BY <2>2, UsedFacts
<1>6. /\ IsRing(d) /\ Used(d) = Used(ring) - k
      /\ \A i \in 0..Used(ring) - k - 1 : CellAt(d, i) = CellAt(ring, k + i)
  <2> HIDE DEF k
  <2> QED BY <1>5, DropFacts
<1> HIDE DEF d, k
<1>7. \A i \in 0..n - 1 : i + 1 \in 0..n /\ i + 1 \in 1..n
  OBVIOUS
<1>8. \A i \in 0..n - 1 : off[i + 1] \in Nat /\ off[i + 1] >= k /\ off[i + 1] <= Used(ring)
  BY <1>4, <1>7
<1>9. new \in [0..n - 1 -> Positions] /\ \A i \in 0..n - 1 : new[i] = off[i + 1] - k
  <2>1. \A i \in 0..n - 1 : off[i + 1] - k \in Positions
    BY <1>5, <1>8, ChannelAssumption DEF Positions
  <2> QED BY <2>1
<1> HIDE DEF new
<1>10. new[0] = 0 /\ new[n - 1] = Used(d)
  <2>1. 0 \in 0..n - 1 /\ n - 1 \in 0..n - 1 /\ 0 + 1 = 1 /\ (n - 1) + 1 = n
    OBVIOUS
  <2> QED BY <1>2, <1>5, <1>6, <1>9, <2>1
<1>11. \A i, j \in 0..n - 1 : i <= j => new[i] <= new[j]
  <2> SUFFICES ASSUME NEW i \in 0..n - 1, NEW j \in 0..n - 1, i <= j PROVE new[i] <= new[j]
    OBVIOUS
  <2>1. i + 1 <= j + 1 /\ i + 1 \in 0..n /\ j + 1 \in 0..n
    OBVIOUS
  <2>2. off[i + 1] <= off[j + 1] /\ off[i + 1] \in Nat /\ off[j + 1] \in Nat
    BY <1>2, <1>8, <2>1
  <2> QED BY <1>5, <1>9, <2>2
<1>12. ASSUME NEW i \in 1..n - 1
       PROVE  /\ Len(G[i]) \in Nat /\ new[i] = new[i - 1] + Len(G[i])
              /\ \A j \in 1..Len(G[i]) : CellAt(d, new[i - 1] + j - 1) = G[i][j]
  <2>1. i + 1 \in 1..n /\ i \in 0..n - 1 /\ i - 1 \in 0..n - 1 /\ (i - 1) + 1 = i /\ (i + 1) - 1 = i
    OBVIOUS
  <2>2. /\ G[i] = F[i + 1] /\ Len(G[i]) \in Nat /\ off[i + 1] = off[i] + Len(G[i])
        /\ \A j \in 1..Len(G[i]) : CellAt(ring, off[i] + j - 1) = G[i][j]
    BY <1>3, <2>1
  <2>3. new[i] = off[i + 1] - k /\ new[i - 1] = off[i] - k
    BY <1>9, <2>1
  <2> DEFINE o == off[i]
             u == Used(ring)
             l == Len(G[i])
             m == new[i - 1]
  <2>4. /\ o \in Nat /\ u \in Nat /\ l \in Nat /\ k \in Nat /\ m = o - k /\ o >= k
        /\ o + l <= u /\ off[i + 1] = o + l /\ new[i] = off[i + 1] - k
    <3>1. u \in Nat
      BY <1>5 DEF Positions
    <3>2. off[i] \in Nat /\ off[i] >= k
      BY <1>8, <2>1
    <3>3. off[i + 1] <= u
      BY <1>8, <2>1
    <3> QED BY <1>5, <2>2, <2>3, <3>1, <3>2, <3>3
  <2>5. ASSUME NEW j \in 1..l PROVE CellAt(d, m + j - 1) = G[i][j]
    <3>1. CellAt(ring, o + j - 1) = G[i][j]
      BY <2>2
    <3> HIDE DEF o, u, l, m
    <3>2. m + j - 1 \in 0..u - k - 1 /\ k + (m + j - 1) = o + j - 1
      BY <2>4
    <3>3. CellAt(d, m + j - 1) = CellAt(ring, k + (m + j - 1))
      BY <1>6, <3>2 DEF u
    <3> QED BY <3>1, <3>2, <3>3
  <2>6. new[i] = m + l
    <3> HIDE DEF o, u, l, m
    <3> QED BY <2>4
  <2> QED BY <2>2, <2>5, <2>6
<1>13. Places(d, n - 1, G, new)
  BY <1>9, <1>10, <1>11, <1>12 DEF Places
<1>14. Holds(d, n - 1, G)
  BY <1>9, <1>13 DEF Holds
<1> QED BY <1>14 DEF d, k

(* What is pushed is one more frame behind the others.                     *)
LEMMA HoldsPush ==
  ASSUME NEW ring, IsRing(ring), NEW n \in Nat, NEW F, Holds(ring, n, F),
         NEW cells, Len(cells) \in Nat, Len(cells) <= Free(ring),
         NEW G, \A i \in 1..n : G[i] = F[i], G[n + 1] = cells
  PROVE  Holds(Push(ring, cells), n + 1, G)
<1>1. PICK off : Places(ring, n, F, off)
  BY DEF Holds
<1> DEFINE m == Len(cells)
           d == Push(ring, cells)
           u == Used(ring)
           new == [i \in 0..n + 1 |-> IF i <= n THEN off[i] ELSE u + m]
<1>2. /\ off \in [0..n -> Positions] /\ off[0] = 0 /\ off[n] = u
      /\ \A i, j \in 0..n : i <= j => off[i] <= off[j]
  BY <1>1 DEF Places
<1>3. \A i \in 1..n :
        /\ Len(F[i]) \in Nat /\ off[i] = off[i - 1] + Len(F[i])
        /\ \A j \in 1..Len(F[i]) : CellAt(ring, off[i - 1] + j - 1) = F[i][j]
  BY <1>1 DEF Places
<1>4. \A i \in 0..n : off[i] \in Nat /\ off[i] <= u
  BY <1>1, OffsetFacts
<1>5. u \in Nat /\ m \in Nat /\ u + m \in Positions
  <2>1. u \in Positions /\ Free(ring) = RingSize - 1 - u
    BY UsedFacts
  <2> HIDE DEF u, m
  <2>2. m \in Nat /\ m <= RingSize - 1 - u
    BY <2>1 DEF m
  <2> QED BY <2>1, <2>2, ChannelAssumption DEF Positions
<1>6. /\ IsRing(d) /\ Used(d) = u + m
      /\ \A i \in 0..u - 1 : CellAt(d, i) = CellAt(ring, i)
      /\ \A i \in 1..m : CellAt(d, u + i - 1) = cells[i]
  BY PushFacts
<1> HIDE DEF d, m, u
<1>7. \A i \in 0..n + 1 : i \in 0..n \/ (i = n + 1 /\ ~(i <= n))
  OBVIOUS
<1>8. new \in [0..n + 1 -> Positions] /\ (\A i \in 0..n : new[i] = off[i]) /\ new[n + 1] = u + m
  <2>1. \A i \in 0..n : i <= n /\ i \in 0..n + 1
    OBVIOUS
  <2>2. n + 1 \in 0..n + 1
    OBVIOUS
  <2> QED BY <1>2, <1>5, <1>7, <2>1, <2>2
<1> HIDE DEF new
<1>9. new[0] = 0 /\ new[n + 1] = Used(d)
  <2>1. 0 \in 0..n
    OBVIOUS
  <2> QED BY <1>2, <1>6, <1>8, <2>1
<1>10. \A i, j \in 0..n + 1 : i <= j => new[i] <= new[j]
  <2> SUFFICES ASSUME NEW i \in 0..n + 1, NEW j \in 0..n + 1, i <= j PROVE new[i] <= new[j]
    OBVIOUS
  <2>1. (i \in 0..n /\ j \in 0..n) \/ (i \in 0..n /\ j = n + 1) \/ (i = n + 1 /\ j = n + 1)
    OBVIOUS
  <2> QED BY <1>2, <1>4, <1>5, <1>8, <2>1
<1>11. ASSUME NEW i \in 1..n + 1
       PROVE  /\ Len(G[i]) \in Nat /\ new[i] = new[i - 1] + Len(G[i])
              /\ \A j \in 1..Len(G[i]) : CellAt(d, new[i - 1] + j - 1) = G[i][j]
  <2>1. CASE i \in 1..n
    <3>1. i \in 0..n /\ i - 1 \in 0..n /\ new[i] = off[i] /\ new[i - 1] = off[i - 1]
      BY <1>8, <2>1
    <3>2. /\ G[i] = F[i] /\ Len(G[i]) \in Nat /\ off[i] = off[i - 1] + Len(G[i])
          /\ \A j \in 1..Len(G[i]) : CellAt(ring, off[i - 1] + j - 1) = G[i][j]
      BY <1>3, <2>1
    <3>3. off[i - 1] \in Nat /\ off[i] <= u
      BY <1>4, <3>1
    <3> DEFINE o == off[i - 1]
               l == Len(G[i])
    <3>4. o \in Nat /\ l \in Nat /\ o + l <= u
      BY <3>2, <3>3
    <3>5. ASSUME NEW j \in 1..l PROVE CellAt(d, o + j - 1) = G[i][j]
      <4>1. CellAt(ring, o + j - 1) = G[i][j]
        BY <3>2
      <4> HIDE DEF o, l
      <4>2. o + j - 1 \in 0..u - 1
        BY <1>5, <3>4
      <4> QED BY <1>6, <4>1, <4>2
    <3> QED BY <3>1, <3>2, <3>5
  <2>2. CASE i = n + 1
    <3>1. i - 1 = n /\ n \in 0..n /\ new[i - 1] = u /\ new[i] = u + m
      BY <1>2, <1>8, <2>2
    <3>2. G[i] = cells /\ Len(G[i]) = m
      BY <2>2 DEF m
    <3> QED BY <1>5, <1>6, <3>1, <3>2
  <2> QED BY <2>1, <2>2
<1>12. Places(d, n + 1, G, new)
  BY <1>8, <1>9, <1>10, <1>11 DEF Places
<1>13. Holds(d, n + 1, G)
  BY <1>8, <1>12 DEF Holds
<1> QED BY <1>13 DEF d

(* What is pushed can also be the rest of the last frame.                  *)
LEMMA HoldsExtend ==
  ASSUME NEW ring, IsRing(ring), NEW n \in Nat \ {0}, NEW F, Holds(ring, n, F),
         NEW cells, Len(cells) \in Nat, Len(cells) <= Free(ring),
         NEW G, \A i \in 1..n - 1 : G[i] = F[i],
         Len(G[n]) = Len(F[n]) + Len(cells), \A j \in 1..Len(F[n]) : G[n][j] = F[n][j],
         \A j \in 1..Len(cells) : G[n][Len(F[n]) + j] = cells[j]
  PROVE  Holds(Push(ring, cells), n, G)
<1>1. PICK off : Places(ring, n, F, off)
  BY DEF Holds
<1> DEFINE m == Len(cells)
           d == Push(ring, cells)
           u == Used(ring)
           last == Len(F[n])
           new == [i \in 0..n |-> IF i < n THEN off[i] ELSE u + m]
<1>2. /\ off \in [0..n -> Positions] /\ off[0] = 0 /\ off[n] = u
      /\ \A i, j \in 0..n : i <= j => off[i] <= off[j]
  BY <1>1 DEF Places
<1>3. \A i \in 1..n :
        /\ Len(F[i]) \in Nat /\ off[i] = off[i - 1] + Len(F[i])
        /\ \A j \in 1..Len(F[i]) : CellAt(ring, off[i - 1] + j - 1) = F[i][j]
  BY <1>1 DEF Places
<1>4. \A i \in 0..n : off[i] \in Nat /\ off[i] <= u
  BY <1>1, OffsetFacts
<1>5. u \in Nat /\ m \in Nat /\ u + m \in Positions
  <2>1. u \in Positions /\ Free(ring) = RingSize - 1 - u
    BY UsedFacts
  <2> HIDE DEF u, m
  <2>2. m \in Nat /\ m <= RingSize - 1 - u
    BY <2>1 DEF m
  <2> QED BY <2>1, <2>2, ChannelAssumption DEF Positions
<1>6. /\ IsRing(d) /\ Used(d) = u + m
      /\ \A i \in 0..u - 1 : CellAt(d, i) = CellAt(ring, i)
      /\ \A i \in 1..m : CellAt(d, u + i - 1) = cells[i]
  <2> HIDE DEF last, new
  <2>1. m \in Nat /\ Len(cells) = m /\ m <= Free(ring)
    BY <1>5
  <2> HIDE DEF m
  <2> QED BY <2>1, PushFacts, SMTT(30)
<1>7. last \in Nat /\ n - 1 \in 0..n - 1 /\ off[n - 1] \in Nat /\ off[n - 1] + last = u
  <2>1. n \in 1..n /\ n - 1 \in 0..n - 1 /\ n - 1 \in 0..n
    OBVIOUS
  <2> QED BY <1>2, <1>3, <1>4, <2>1
<1>8. /\ Len(G[n]) = last + m
      /\ \A j \in 1..last : G[n][j] = F[n][j] /\ CellAt(ring, off[n - 1] + j - 1) = F[n][j]
      /\ \A j \in 1..m : G[n][last + j] = cells[j]
  <2>1. n \in 1..n
    OBVIOUS
  <2> QED BY <1>3, <2>1
<1> HIDE DEF d, m, u, last
<1>9. /\ new \in [0..n -> Positions] /\ (\A i \in 0..n - 1 : i \in 0..n /\ new[i] = off[i])
      /\ new[n] = u + m
  <2>1. \A i \in 0..n : (i \in 0..n - 1 /\ i < n) \/ (i = n /\ ~(i < n))
    OBVIOUS
  <2>2. (\A i \in 0..n - 1 : i < n /\ i \in 0..n) /\ n \in 0..n /\ ~(n < n)
    OBVIOUS
  <2> QED BY <1>2, <1>5, <2>1, <2>2
<1> HIDE DEF new
<1>10. new[0] = 0 /\ new[n] = Used(d)
  <2>1. 0 \in 0..n - 1
    OBVIOUS
  <2> QED BY <1>2, <1>6, <1>9, <2>1
<1>11. \A i, j \in 0..n : i <= j => new[i] <= new[j]
  <2> SUFFICES ASSUME NEW i \in 0..n, NEW j \in 0..n, i <= j PROVE new[i] <= new[j]
    OBVIOUS
  <2>1. (i \in 0..n - 1 /\ j \in 0..n - 1) \/ (i \in 0..n - 1 /\ j = n) \/ (i = n /\ j = n)
    OBVIOUS
  <2> QED BY <1>2, <1>4, <1>5, <1>9, <2>1
<1>12. ASSUME NEW i \in 1..n
       PROVE  /\ Len(G[i]) \in Nat /\ new[i] = new[i - 1] + Len(G[i])
              /\ \A j \in 1..Len(G[i]) : CellAt(d, new[i - 1] + j - 1) = G[i][j]
  <2>1. CASE i # n
    <3>1. i \in 1..n - 1 /\ i \in 0..n - 1 /\ i - 1 \in 0..n - 1 /\ i \in 0..n /\ i - 1 \in 0..n
      BY <2>1
    <3>a. new[i] = off[i] /\ new[i - 1] = off[i - 1]
      BY <1>9, <3>1
    <3>2. /\ G[i] = F[i] /\ Len(G[i]) \in Nat /\ off[i] = off[i - 1] + Len(G[i])
          /\ \A j \in 1..Len(G[i]) : CellAt(ring, off[i - 1] + j - 1) = G[i][j]
      BY <1>3, <3>1
    <3>3. off[i - 1] \in Nat /\ off[i] <= u
      BY <1>4, <3>1
    <3> DEFINE o == off[i - 1]
               l == Len(G[i])
    <3>4. o \in Nat /\ l \in Nat /\ o + l <= u
      BY <3>2, <3>3
    <3>5. ASSUME NEW j \in 1..l PROVE CellAt(d, o + j - 1) = G[i][j]
      <4>1. CellAt(ring, o + j - 1) = G[i][j]
        BY <3>2
      <4> HIDE DEF o, l
      <4>2. o + j - 1 \in 0..u - 1
        BY <1>5, <3>4
      <4> QED BY <1>6, <4>1, <4>2
    <3> QED BY <3>a, <3>2, <3>5
  <2>2. CASE i = n
    <3> DEFINE o == off[n - 1]
    <3>1. new[i - 1] = o /\ new[i] = u + m /\ o \in Nat /\ o + last = u
      BY <1>7, <1>9, <2>2
    <3>a. \A j \in 1..last : G[n][j] = CellAt(ring, o + j - 1)
      BY <1>8
    <3> HIDE DEF o
    <3>2. Len(G[i]) \in Nat /\ Len(G[i]) = last + m /\ new[i] = new[i - 1] + Len(G[i])
      <4>1. last + m \in Nat /\ u + m = o + (last + m)
        BY <1>5, <1>7, <3>1
      <4>2. Len(G[i]) = last + m
        BY <1>8, <2>2
      <4>3. new[i] = new[i - 1] + (last + m)
        BY <3>1, <4>1
      <4> QED BY <4>1, <4>2, <4>3
    <3>3. ASSUME NEW j \in 1..last + m PROVE CellAt(d, o + j - 1) = G[n][j]
      <4>1. CASE j \in 1..last
        <5>1. o + j - 1 \in 0..u - 1
          BY <1>5, <1>7, <3>1, <4>1
        <5> QED BY <1>6, <3>a, <4>1, <5>1
      <4>2. CASE j \notin 1..last
        <5>1. j - last \in 1..m /\ u + (j - last) - 1 = o + j - 1 /\ last + (j - last) = j
          BY <1>5, <1>7, <3>1, <4>2
        <5> DEFINE e == j - last
        <5>2. e \in 1..m /\ u + e - 1 = o + j - 1 /\ last + e = j
          BY <5>1
        <5> HIDE DEF e
        <5>3. CellAt(d, u + e - 1) = cells[e] /\ G[n][last + e] = cells[e]
          BY <1>6, <1>8, <5>2
        <5> QED BY <5>2, <5>3
      <4> QED BY <4>1, <4>2
    <3> QED BY <2>2, <3>1, <3>2, <3>3
  <2> QED BY <2>1, <2>2
<1>13. Places(d, n, G, new)
  BY <1>9, <1>10, <1>11, <1>12 DEF Places
<1>14. Holds(d, n, G)
  BY <1>9, <1>13 DEF Holds
<1> QED BY <1>14 DEF d

-----------------------------------------------------------------------------
(* Frames as sequences of cells.                                           *)

\* f is a sequence of n cells.
IsRun(f, n) == n \in Nat /\ f = [i \in 1..n |-> f[i]]

LEMMA RunFacts ==
  ASSUME NEW n, NEW f, IsRun(f, n)
  PROVE  f \in Seq({f[i] : i \in 1..n}) /\ Len(f) = n
<1> DEFINE S == {f[i] : i \in 1..n}
<1>1. n \in Nat /\ f \in [1..n -> S]
  BY DEF IsRun
<1>2. f \in Seq(S)
  BY <1>1, SeqDef
<1>3. Len(f) \in Nat /\ DOMAIN f = 1..Len(f) /\ DOMAIN f = 1..n
  BY <1>1, <1>2, LenProperties
<1>4. Len(f) = n
  <2> DEFINE l == Len(f)
  <2>1. l \in Nat /\ n \in Nat /\ 1..l = 1..n
    BY <1>1, <1>3
  <2> HIDE DEF l
  <2>2. l = n
    BY <2>1
  <2> QED BY <2>2 DEF l
<1> QED BY <1>2, <1>4

LEMMA RunsAgree ==
  ASSUME NEW n, NEW f, NEW g, IsRun(f, n), IsRun(g, n), \A i \in 1..n : f[i] = g[i]
  PROVE  f = g
BY DEF IsRun

Joins(m, n, f, g) ==
  /\ IsRun(f \o g, m + n) /\ Len(f \o g) = m + n
  /\ \A i \in 1..m : (f \o g)[i] = f[i]
  /\ \A i \in 1..n : (f \o g)[m + i] = g[i]

LEMMA JoinFacts ==
  ASSUME NEW m, NEW n, NEW f, NEW g, IsRun(f, m), IsRun(g, n)
  PROVE  Joins(m, n, f, g)
<1> DEFINE A == {f[i] : i \in 1..m}
           B == {g[i] : i \in 1..n}
           S == A \cup B
           c == f \o g
<1>1. m \in Nat /\ n \in Nat
  BY DEF IsRun
<1>2. f \in Seq(A) /\ g \in Seq(B) /\ Len(f) = m /\ Len(g) = n
  BY RunFacts
<1>3. f \in Seq(S) /\ g \in Seq(S)
  <2> HIDE DEF A, B
  <2>1. A \subseteq S /\ B \subseteq S
    OBVIOUS
  <2> HIDE DEF S
  <2> QED BY <1>2, <2>1, SeqMonotonic
<1> HIDE DEF A, B, S
<1>4. /\ c \in Seq(S) /\ Len(c) = m + n
      /\ \A i \in 1..m + n : c[i] = IF i <= m THEN f[i] ELSE g[i - m]
  BY <1>2, <1>3, ConcatProperties
<1>5. c \in [1..m + n -> S]
  BY <1>4, LenProperties
<1> HIDE DEF c
<1>6. IsRun(c, m + n)
  BY <1>1, <1>5 DEF IsRun
<1>7. ASSUME NEW i \in 1..m PROVE c[i] = f[i]
  <2>1. i \in 1..m + n /\ i <= m
    BY <1>1
  <2> QED BY <1>4, <2>1
<1>8. ASSUME NEW i \in 1..n PROVE c[m + i] = g[i]
  <2> DEFINE k == m + i
  <2>1. k \in 1..m + n /\ ~(k <= m) /\ k - m = i
    BY <1>1
  <2> HIDE DEF k
  <2>2. c[k] = g[i]
    BY <1>4, <2>1
  <2> QED BY <2>2 DEF k
<1> QED BY <1>4, <1>6, <1>7, <1>8 DEF c, Joins

LEMMA Products ==
  ASSUME NEW n \in Nat, NEW w \in Nat \ {0}
  PROVE  /\ n * w \in Nat /\ n * w = w * n /\ (n = 0 <=> n * w = 0)
         /\ \A j \in 1..n : /\ (j - 1) * w \in Nat /\ (j - 1) * w = w * (j - 1)
                            /\ j * w = (j - 1) * w + w /\ j * w <= n * w /\ j * w \in Nat
<1>1. n * w \in Nat /\ n * w = w * n /\ (n = 0 => n * w = 0) /\ (n >= 1 => n * w >= w)
  OBVIOUS
<1>2. n = 0 <=> n * w = 0
  <2>1. n = 0 \/ n >= 1
    OBVIOUS
  <2> DEFINE p == n * w
  <2>2. p \in Nat /\ (n = 0 => p = 0) /\ (n >= 1 => p >= w)
    BY <1>1
  <2> HIDE DEF p
  <2>3. n = 0 <=> p = 0
    BY <2>1, <2>2
  <2> QED BY <2>3 DEF p
<1>3. ASSUME NEW j \in 1..n
      PROVE  /\ (j - 1) * w \in Nat /\ (j - 1) * w = w * (j - 1)
             /\ j * w = (j - 1) * w + w /\ j * w <= n * w /\ j * w \in Nat
  <2>1. j - 1 \in Nat /\ n - j \in Nat /\ j \in Nat
    OBVIOUS
  <2>2. (j - 1) * w \in Nat /\ (j - 1) * w = w * (j - 1) /\ j * w \in Nat
    BY <2>1
  <2>3. j * w = (j - 1) * w + w
    BY <2>1
  <2>4. n * w = j * w + (n - j) * w /\ (n - j) * w \in Nat
    BY <2>1
  <2> DEFINE p == n * w
             q == j * w
             r == (n - j) * w
  <2>5. p = q + r /\ r \in Nat /\ q \in Nat
    BY <2>2, <2>4
  <2> HIDE DEF p, q, r
  <2>6. q <= p
    BY <2>5
  <2> QED BY <2>2, <2>3, <2>6 DEF p, q
<1> QED BY <1>1, <1>2, <1>3

(* A header comes out of its cells as it went in.                          *)
LEMMA HeaderFacts ==
  ASSUME NEW head
  PROVE  /\ IsRun(HeaderCells(head), HeaderSize)
         /\ DecodeHeader(HeaderCells(head)) = head
<1>1. HeaderSize \in Nat /\ 1 \in 1..HeaderSize
  BY ChannelAssumption
<1>2. HeaderCells(head)[1].head = head
  BY <1>1 DEF HeaderCells
<1> QED BY <1>1, <1>2 DEF IsRun, HeaderCells, DecodeHeader

\* The i-th cell of a value.
DataCell(value, i) == [head |-> NoHeader, data |-> value, at |-> i - 1]

LEMMA DataFacts ==
  ASSUME NEW n, NEW data, IsRun(data, n), NEW w \in Nat \ {0}
  PROVE  /\ IsRun(DataCells(data, w), n * w)
         /\ \A j \in 1..n : \A i \in 1..w :
              DataCells(data, w)[(j - 1) * w + i] = DataCell(data[j], i)
<1>1. n \in Nat /\ Len(data) = n
  BY RunFacts DEF IsRun
<1> DEFINE c == DataCells(data, w)
           p == n * w
<1>2. /\ c = [x \in 1..p |-> [head |-> NoHeader, data |-> data[((x - 1) \div w) + 1],
                              at |-> (x - 1) % w]]
      /\ p \in Nat
  BY <1>1, Products DEF DataCells
<1>3. IsRun(c, p)
  <2> HIDE DEF p, c
  <2> QED BY <1>2 DEF IsRun
<1>4. ASSUME NEW j \in 1..n, NEW i \in 1..w
      PROVE  c[(j - 1) * w + i] = DataCell(data[j], i)
  <2> DEFINE q == (j - 1) * w
             x == q + i
             y == x - 1
  <2>1. q \in Nat /\ q = w * (j - 1) /\ q + w <= p
    <3>1. j * w = q + w /\ j * w <= p
      BY <1>1, Products
    <3> QED BY <1>1, <3>1, Products
  <2>2. (w * (j - 1) + (i - 1)) \div w = j - 1 /\ (w * (j - 1) + (i - 1)) % w = i - 1
    <3>1. j - 1 \in Int /\ i - 1 \in 0..w - 1
      BY <1>1
    <3> QED BY <3>1, Division
  <2>3. (q + (i - 1)) \div w = j - 1 /\ (q + (i - 1)) % w = i - 1
    BY <2>1, <2>2
  <2>0. p \in Nat
    BY <1>2
  <2> HIDE DEF q, p, c
  <2>4. x \in 1..p /\ y = q + (i - 1)
    BY <2>0, <2>1
  <2>5. y \div w = j - 1 /\ y % w = i - 1
    BY <2>3, <2>4
  <2>6. c[x] = [head |-> NoHeader, data |-> data[(y \div w) + 1], at |-> y % w]
    <3> HIDE DEF x
    <3> QED BY <1>2, <2>4
  <2>7. (j - 1) + 1 = j
    BY <1>1
  <2> QED BY <2>5, <2>6, <2>7 DEF DataCell, q
<1> QED BY <1>3, <1>4 DEF c, p

(* Blocks come out of their cells as they went in.                         *)
LEMMA DecodeDataFacts ==
  ASSUME NEW n, NEW data, IsRun(data, n), NEW w \in Nat \ {0}
  PROVE  DecodeData(DataCells(data, w), w) = data
<1> DEFINE c == DataCells(data, w)
           p == n * w
<1>1. n \in Nat /\ p \in Nat /\ IsRun(c, p)
  <2>1. n \in Nat
    BY DEF IsRun
  <2>2. p \in Nat
    BY <2>1, Products
  <2>3. IsRun(c, p)
    BY DataFacts, Zenon
  <2> QED BY <2>1, <2>2, <2>3
<1>2. Len(c) = p
  <2> HIDE DEF c, p
  <2> QED BY <1>1, RunFacts
<1>3. p \div w = n
  <2>1. (w * n + 0) \div w = n
    <3>1. 0 \in 0..w - 1 /\ n \in Int
      BY <1>1
    <3> QED BY <3>1, Division
  <2>2. w * n + 0 = p
    BY <1>1
  <2> QED BY <2>1, <2>2
<1> DEFINE from(j) == (j - 1) * w + 1
           value(j) == c[from(j)].data
           sub(j) == SubSeq(c, from(j), j * w)
           d == [j \in 1..n |-> IF sub(j) = DataCells(<<value(j)>>, w) THEN value(j) ELSE Torn]
<1>4. DecodeData(c, w) = d
  <2> HIDE DEF c, p
  <2> QED BY <1>2, <1>3 DEF DecodeData
<1>5. ASSUME NEW j \in 1..n PROVE d[j] = data[j]
  <2>1. \A i \in 1..w : c[(j - 1) * w + i] = DataCell(data[j], i)
    BY DataFacts
  <2>2. value(j) = data[j]
    <3>1. 1 \in 1..w
      OBVIOUS
    <3>2. c[(j - 1) * w + 1] = DataCell(data[j], 1)
      BY <2>1, <3>1, Zenon
    <3>3. DataCell(data[j], 1).data = data[j]
      BY DEF DataCell
    <3> QED BY <3>2, <3>3, Zenon
  <2> DEFINE one == <<data[j]>>
             v == DataCells(one, w)
             q == (j - 1) * w
             s == SubSeq(c, q + 1, j * w)
  <2>3. IsRun(v, w) /\ \A i \in 1..w : v[i] = DataCell(data[j], i)
    <3>1. IsRun(one, 1) /\ one[1] = data[j] /\ 1 \in 1..1
      BY DEF IsRun
    <3> HIDE DEF one
    <3> DEFINE k == 1
    <3>a. IsRun(one, k)
      BY <3>1
    <3> HIDE DEF k
    <3>b. /\ IsRun(DataCells(one, w), k * w)
          /\ \A j1 \in 1..k : \A i \in 1..w :
               DataCells(one, w)[(j1 - 1) * w + i] = DataCell(one[j1], i)
      BY <3>a, DataFacts
    <3>2. IsRun(v, 1 * w) /\ \A i \in 1..w : v[(1 - 1) * w + i] = DataCell(one[1], i)
      BY <3>1, <3>b DEF k
    <3>3. 1 * w = w /\ \A i \in 1..w : (1 - 1) * w + i = i
      OBVIOUS
    <3> QED BY <3>1, <3>2, <3>3
  <2>4. q \in Nat /\ j * w = q + w /\ q + w <= p
    BY <1>1, Products
  <2> HIDE DEF q, v, c, p
  <2>5. IsRun(s, w) /\ \A i \in 1..w : s[i] = c[q + i]
    <3> DEFINE S == {c[i] : i \in 1..p}
    <3>1. q + 1 \in Int /\ q + w \in Int /\ \A i \in q + 1 .. q + w : c[i] \in S
      BY <1>1, <2>4
    <3> HIDE DEF S
    <3> DEFINE t == SubSeq(c, q + 1, q + w)
    <3>2. /\ t \in Seq(S)
          /\ Len(t) = IF q + 1 <= q + w THEN (q + w) - (q + 1) + 1 ELSE 0
          /\ \A i \in 1 .. (q + w) - (q + 1) + 1 : t[i] = c[(q + 1) + i - 1]
      BY <3>1, SubSeqProperties
    <3> HIDE DEF t
    <3>3. q + 1 <= q + w /\ (q + w) - (q + 1) + 1 = w /\ \A i \in 1..w : (q + 1) + i - 1 = q + i
      BY <2>4
    <3>4. Len(t) = w /\ \A i \in 1..w : t[i] = c[q + i]
      BY <3>2, <3>3
    <3>5. t \in [1..w -> S]
      BY <3>2, <3>4, LenProperties
    <3>6. IsRun(t, w)
      BY <3>5 DEF IsRun
    <3> QED BY <2>4, <3>4, <3>6 DEF t
  <2>6. s = v
    <3>1. \A i \in 1..w : s[i] = v[i]
      BY <2>1, <2>3, <2>5 DEF q
    <3> HIDE DEF s
    <3> QED BY <2>3, <2>5, <3>1, RunsAgree
  <2> QED BY <2>2, <2>6 DEF q, v
<1>6. IsRun(d, n)
  <2> HIDE DEF sub, value
  <2> QED BY <1>1 DEF IsRun
<1> HIDE DEF d
<1>7. d = data
  BY <1>5, <1>6, RunsAgree
<1> QED BY <1>4, <1>7 DEF c

-----------------------------------------------------------------------------
(* The invariant of the channel.                                           *)

\* The frames of a request and of an answer.
ReqFrame(request) == HeaderCells(request.head) \o DataCells(request.data, BlockSize)
AnsData(answer) == DataCells(answer.data, Width(answer.head.op))
AnsFrame(answer) == HeaderCells(answer.head) \o AnsData(answer)

Ops == {"READ", "WRITE", "CAPACITY"}
Statuses == {"OK", "DEVICE", "INVALID", "UNSUPPORTED"}
Contents == Values \cup {Torn}

RequestSet ==
  {request \in [head : [op : Ops, status : {"none"}, tag : Nat, lba : Nat, count : Nat],
                data : Seq(Values)] :
     Len(request.data) = IF request.head.op = "WRITE" THEN request.head.count ELSE 0}

\* A request yan_os_block_submit has let through.
Carried(request) == request.head.op = "CAPACITY" \/ request.head.count <= MaxCount

\* The values in the payload of an answer.
AnswerLength(head) ==
  IF head.status # "OK" THEN 0
    ELSE CASE head.op = "READ"     -> head.count
           [] head.op = "CAPACITY" -> 1
           [] OTHER                -> 0

AnswerSet ==
  {answer \in [head : [op : Ops, status : Statuses, tag : Nat, lba : Nat, count : Nat],
               data : Seq(Contents \cup {CapacityBlocks})] :
     Len(answer.data) = AnswerLength(answer.head) /\ FitsRing(ReplyPayload(answer.head))}

\* An answer is the answer to this request.
Answers(answer, request) ==
  answer.head \in {Response(request.head, status) : status \in {Judge(request.head), "DEVICE"}}

DiskInv == /\ store \in [0..CapacityBlocks - 1 -> Contents]
           /\ failNext \in BOOLEAN /\ broken \in BOOLEAN

HistoryInv ==
  /\ sent \in Seq(RequestSet) /\ answers \in Seq(AnswerSet) /\ got \in Seq(AnswerSet)
  /\ Len(got) <= Len(answers) /\ Len(answers) <= Len(sent)
  /\ \A i \in 1..Len(sent) : Carried(sent[i])
  /\ \A i \in 1..Len(answers) : Answers(answers[i], sent[i])
  /\ \A i \in 1..Len(got) : got[i] = answers[i]

GuestInv ==
  /\ guest = [at |-> guest.at, request |-> guest.request, response |-> guest.response]
  /\ guest.at \in {"idle", "payload", "bell", "body"}
  /\ guest.at = "payload" =>
       /\ guest.request \in RequestSet /\ Carried(guest.request)
       /\ guest.request.head.op = "WRITE" /\ guest.request.head.count # 0
       /\ RequestPayload(guest.request.head) <= Free(g2h)
  /\ guest.at = "body" =>
       /\ Len(got) < Len(answers) /\ guest.response = answers[Len(got) + 1].head
       /\ ReplyPayload(guest.response) # 0

Unanswered == Len(sent) - Len(answers)
Untaken == Len(answers) - Len(got)

\* Requests, and the header of the one that is being submitted.
Requested ==
  [i \in 1..Unanswered + 1 |->
     IF i <= Unanswered THEN ReqFrame(sent[Len(answers) + i])
                        ELSE HeaderCells(guest.request.head)]
RequestedCount == IF guest.at = "payload" THEN Unanswered + 1 ELSE Unanswered

\* Answers, without the header of the one that is being taken.
Answered ==
  [i \in 1..Untaken |->
     IF i = 1 /\ guest.at = "body" THEN AnsData(answers[Len(got) + 1])
                                   ELSE AnsFrame(answers[Len(got) + i])]

RingsInv ==
  /\ IsRing(g2h) /\ IsRing(h2g) /\ overflow = FALSE
  /\ Holds(g2h, RequestedCount, Requested)
  /\ Holds(h2g, Untaken, Answered)

CInv == DiskInv /\ HistoryInv /\ GuestInv /\ RingsInv

-----------------------------------------------------------------------------
(* Requests and answers as frames.                                         *)

LEMMA SequenceRuns ==
  ASSUME NEW S, NEW s \in Seq(S)
  PROVE  IsRun(s, Len(s)) /\ Len(s) \in Nat
<1>1. s \in [1..Len(s) -> S] /\ Len(s) \in Nat
  BY LenProperties
<1> QED BY <1>1 DEF IsRun

\* What is cited of a request.
LEMMA RequestFacts ==
  ASSUME NEW r \in RequestSet
  PROVE  /\ r = [head |-> r.head, data |-> r.data]
         /\ r.head \in [op : Ops, status : {"none"}, tag : Nat, lba : Nat, count : Nat]
         /\ r.data \in Seq(Values)
         /\ IsRun(r.data, IF r.head.op = "WRITE" THEN r.head.count ELSE 0)
         /\ RequestPayload(r.head) \in Nat
         /\ IsRun(DataCells(r.data, BlockSize), RequestPayload(r.head))
<1>1. /\ r = [head |-> r.head, data |-> r.data]
      /\ r.head \in [op : Ops, status : {"none"}, tag : Nat, lba : Nat, count : Nat]
      /\ r.data \in Seq(Values)
      /\ Len(r.data) = IF r.head.op = "WRITE" THEN r.head.count ELSE 0
  BY DEF RequestSet
<1> DEFINE l == IF r.head.op = "WRITE" THEN r.head.count ELSE 0
<1>2. IsRun(r.data, l) /\ l \in Nat
  <2>1. IsRun(r.data, Len(r.data))
    BY <1>1, SequenceRuns
  <2> QED BY <1>1, <2>1
<1>3. BlockSize \in Nat \ {0}
  BY ChannelAssumption
<1>4. l * BlockSize \in Nat /\ RequestPayload(r.head) = l * BlockSize
  <2>1. l * BlockSize \in Nat
    <3> HIDE DEF l
    <3> QED BY <1>2, <1>3, Products
  <2>2. 0 * BlockSize = 0
    BY <1>3
  <2>3. CASE r.head.op = "WRITE"
    BY <2>1, <2>3 DEF RequestPayload
  <2>4. CASE r.head.op # "WRITE"
    BY <2>1, <2>2, <2>4 DEF RequestPayload
  <2> QED BY <2>3, <2>4
<1>5. IsRun(DataCells(r.data, BlockSize), l * BlockSize)
  <2> HIDE DEF l
  <2> QED BY <1>2, <1>3, DataFacts, Zenon
<1> QED BY <1>1, <1>2, <1>4, <1>5

LEMMA ReqFrameFacts ==
  ASSUME NEW r \in RequestSet
  PROVE  /\ IsRun(ReqFrame(r), HeaderSize + RequestPayload(r.head))
         /\ Len(ReqFrame(r)) = HeaderSize + RequestPayload(r.head)
         /\ \A i \in 1..HeaderSize : ReqFrame(r)[i] = HeaderCells(r.head)[i]
         /\ \A i \in 1..RequestPayload(r.head) :
              ReqFrame(r)[HeaderSize + i] = DataCells(r.data, BlockSize)[i]
<1>1. IsRun(DataCells(r.data, BlockSize), RequestPayload(r.head))
  BY RequestFacts
<1>2. IsRun(HeaderCells(r.head), HeaderSize)
  BY HeaderFacts
<1> DEFINE f == HeaderCells(r.head)
           g == DataCells(r.data, BlockSize)
           n == RequestPayload(r.head)
<1>3. ReqFrame(r) = f \o g
  BY DEF ReqFrame
<1> HIDE DEF f, g, n
<1>4. /\ IsRun(f \o g, HeaderSize + n) /\ Len(f \o g) = HeaderSize + n
      /\ \A i \in 1..HeaderSize : (f \o g)[i] = f[i]
      /\ \A i \in 1..n : (f \o g)[HeaderSize + i] = g[i]
  <2>1. IsRun(f, HeaderSize) /\ IsRun(g, n)
    BY <1>1, <1>2 DEF f, g, n
  <2>2. Joins(HeaderSize, n, f, g)
    BY <2>1, JoinFacts
  <2> QED BY <2>2 DEF Joins
<1> QED BY <1>3, <1>4 DEF f, g, n

\* What is cited of an answer.
LEMMA AnswerFacts ==
  ASSUME NEW a \in AnswerSet
  PROVE  /\ a = [head |-> a.head, data |-> a.data]
         /\ a.head \in [op : Ops, status : Statuses, tag : Nat, lba : Nat, count : Nat]
         /\ a.data \in Seq(Contents \cup {CapacityBlocks})
         /\ IsRun(a.data, AnswerLength(a.head))
         /\ Width(a.head.op) \in Nat \ {0}
         /\ ReplyPayload(a.head) \in Nat /\ FitsRing(ReplyPayload(a.head))
         /\ ReplyPayload(a.head) = AnswerLength(a.head) * Width(a.head.op)
         /\ IsRun(AnsData(a), ReplyPayload(a.head))
<1>1. /\ a = [head |-> a.head, data |-> a.data]
      /\ a.head \in [op : Ops, status : Statuses, tag : Nat, lba : Nat, count : Nat]
      /\ a.data \in Seq(Contents \cup {CapacityBlocks})
      /\ Len(a.data) = AnswerLength(a.head)
      /\ FitsRing(ReplyPayload(a.head))
  BY DEF AnswerSet
<1> DEFINE l == AnswerLength(a.head)
           w == Width(a.head.op)
<1>2. IsRun(a.data, l) /\ l \in Nat
  <2>1. IsRun(a.data, Len(a.data)) /\ Len(a.data) \in Nat
    BY <1>1, SequenceRuns
  <2> QED BY <1>1, <2>1
<1>3. w \in Nat \ {0}
  BY ChannelAssumption DEF Width
<1>4. l * w \in Nat
  <2> HIDE DEF l, w
  <2> QED BY <1>2, <1>3, Products
<1>5. ReplyPayload(a.head) = l * w
  <2>1. 0 * w = 0 /\ 1 * w = w
    <3> HIDE DEF w
    <3> QED BY <1>3
  <2>2. CASE a.head.status # "OK"
    <3>1. l = 0 /\ ReplyPayload(a.head) = 0
      BY <2>2 DEF AnswerLength, ReplyPayload
    <3> HIDE DEF l, w
    <3> QED BY <2>1, <3>1
  <2>3. CASE a.head.status = "OK" /\ a.head.op = "READ"
    BY <2>3 DEF AnswerLength, ReplyPayload, Width
  <2>4. CASE a.head.status = "OK" /\ a.head.op = "CAPACITY"
    <3>1. l = 1 /\ ReplyPayload(a.head) = w
      BY <2>4 DEF AnswerLength, ReplyPayload, Width
    <3> HIDE DEF l, w
    <3> QED BY <2>1, <3>1
  <2>5. CASE a.head.status = "OK" /\ a.head.op \notin {"READ", "CAPACITY"}
    <3>1. l = 0 /\ ReplyPayload(a.head) = 0
      BY <2>5 DEF AnswerLength, ReplyPayload
    <3> HIDE DEF l, w
    <3> QED BY <2>1, <3>1
  <2> QED BY <2>2, <2>3, <2>4, <2>5
<1>6. IsRun(AnsData(a), l * w)
  <2>1. AnsData(a) = DataCells(a.data, w)
    BY DEF AnsData
  <2> HIDE DEF l, w
  <2>2. IsRun(DataCells(a.data, w), l * w)
    BY <1>2, <1>3, DataFacts, Zenon
  <2> QED BY <2>1, <2>2
<1> QED BY <1>1, <1>2, <1>3, <1>4, <1>5, <1>6

LEMMA AnsFrameFacts ==
  ASSUME NEW a \in AnswerSet
  PROVE  /\ IsRun(AnsFrame(a), HeaderSize + ReplyPayload(a.head))
         /\ Len(AnsFrame(a)) = HeaderSize + ReplyPayload(a.head)
         /\ \A i \in 1..HeaderSize : AnsFrame(a)[i] = HeaderCells(a.head)[i]
         /\ \A i \in 1..ReplyPayload(a.head) : AnsFrame(a)[HeaderSize + i] = AnsData(a)[i]
<1>1. IsRun(AnsData(a), ReplyPayload(a.head))
  BY AnswerFacts
<1>2. IsRun(HeaderCells(a.head), HeaderSize)
  BY HeaderFacts
<1> DEFINE f == HeaderCells(a.head)
           g == AnsData(a)
           n == ReplyPayload(a.head)
<1>3. AnsFrame(a) = f \o g
  BY DEF AnsFrame
<1> HIDE DEF f, g, n
<1>4. /\ IsRun(f \o g, HeaderSize + n) /\ Len(f \o g) = HeaderSize + n
      /\ \A i \in 1..HeaderSize : (f \o g)[i] = f[i]
      /\ \A i \in 1..n : (f \o g)[HeaderSize + i] = g[i]
  <2>1. IsRun(f, HeaderSize) /\ IsRun(g, n)
    BY <1>1, <1>2 DEF f, g, n
  <2>2. Joins(HeaderSize, n, f, g)
    BY <2>1, JoinFacts
  <2> QED BY <2>2 DEF Joins
<1> QED BY <1>3, <1>4 DEF f, g, n

(* What stands at the front of a ring is what a peek returns.              *)
LEMMA FrontCells ==
  ASSUME NEW ring, IsRing(ring), NEW offset \in Nat, NEW n, NEW cells, IsRun(cells, n),
         \A i \in 1..n : CellAt(ring, offset + i - 1) = cells[i]
  PROVE  Peek(ring, offset, n) = cells
<1>1. n \in Nat
  BY DEF IsRun
<1> DEFINE p == Peek(ring, offset, n)
<1>2. p = [i \in 1..n |-> CellAt(ring, offset + i - 1)]
  BY <1>1, PeekFacts
<1> HIDE DEF p
<1>3. IsRun(p, n) /\ \A i \in 1..n : p[i] = cells[i]
  BY <1>1, <1>2 DEF IsRun
<1>4. p = cells
  BY <1>3, RunsAgree
<1> QED BY <1>4 DEF p

LEMMA FrontHeader ==
  ASSUME NEW ring, IsRing(ring), NEW head,
         \A i \in 1..HeaderSize : CellAt(ring, i - 1) = HeaderCells(head)[i]
  PROVE  HeaderAt(ring) = head
<1>1. IsRun(HeaderCells(head), HeaderSize) /\ DecodeHeader(HeaderCells(head)) = head
  BY HeaderFacts
<1>2. \A i \in 1..HeaderSize : 0 + i - 1 = i - 1
  BY ChannelAssumption
<1>3. \A i \in 1..HeaderSize : CellAt(ring, 0 + i - 1) = HeaderCells(head)[i]
  BY <1>2
<1>4. Peek(ring, 0, HeaderSize) = HeaderCells(head)
  BY <1>1, <1>3, FrontCells
<1> QED BY <1>1, <1>4 DEF HeaderAt

-----------------------------------------------------------------------------
(* What the invariant says of the front of each ring.                      *)

(* A request that was let through fits the rings both ways.                *)
LEMMA CarriedFits ==
  ASSUME NEW r \in RequestSet, Carried(r)
  PROVE  /\ FitsRing(RequestPayload(r.head)) /\ RequestPayload(r.head) \in Nat
         /\ FrameLength(r.head) = HeaderSize + RequestPayload(r.head)
         /\ \A s \in Statuses : /\ FitsRing(ReplyPayload(Response(r.head, s)))
                                /\ ReplyPayload(Response(r.head, s)) \in Nat
         /\ FitsRing(ReplyPayload([r.head EXCEPT !.status = "OK"]))
<1>1. /\ r.head \in [op : Ops, status : {"none"}, tag : Nat, lba : Nat, count : Nat]
      /\ RequestPayload(r.head) \in Nat
  BY RequestFacts
<1> DEFINE h == r.head
           p == h.count * BlockSize
<1>2. h.count \in Nat /\ h.op \in Ops
  BY <1>1
<1>3. FitsRing(0) /\ FitsRing(CapacitySize) /\ CapacitySize \in Nat /\ BlockSize \in Nat \ {0}
  BY ChannelAssumption DEF FitsRing
<1>4. p \in Nat /\ (h.op # "CAPACITY" => FitsRing(p))
  <2> HIDE DEF h
  <2>1. p \in Nat
    BY <1>2, <1>3, Products
  <2>2. h.op # "CAPACITY" => h.count <= MaxCount
    BY DEF Carried, h
  <2> QED BY <1>2, <2>1, <2>2, CountFits
<1>5. FitsRing(RequestPayload(h))
  <2> HIDE DEF p
  <2>1. RequestPayload(h) = IF h.op = "WRITE" THEN p ELSE 0
    BY DEF RequestPayload, p
  <2> QED BY <1>3, <1>4, <2>1
<1>6. ASSUME NEW s \in Statuses
      PROVE  FitsRing(ReplyPayload(Response(h, s))) /\ ReplyPayload(Response(h, s)) \in Nat
  <2> DEFINE a == Response(h, s)
             q == a.count * BlockSize
  <2>1. a.status = s /\ a.op = h.op /\ (s = "OK" => q = p)
    BY <1>1 DEF Response
  <2> HIDE DEF a, p
  <2>2. CASE s # "OK"
    <3>1. ReplyPayload(a) = 0
      BY <2>1, <2>2 DEF ReplyPayload
    <3> QED BY <1>3, <3>1 DEF a
  <2>3. CASE s = "OK"
    <3>1. h.op \in {"READ", "WRITE", "CAPACITY"}
      BY <1>2 DEF Ops
    <3>2. CASE h.op = "READ"
      <4>1. ReplyPayload(a) = q
        BY <2>1, <2>3, <3>2 DEF ReplyPayload
      <4> HIDE DEF q
      <4> QED BY <1>4, <2>1, <2>3, <3>2, <4>1 DEF a
    <3>3. CASE h.op = "WRITE"
      <4>1. ReplyPayload(a) = 0
        BY <2>1, <2>3, <3>3 DEF ReplyPayload
      <4> QED BY <1>3, <4>1 DEF a
    <3>4. CASE h.op = "CAPACITY"
      <4>1. ReplyPayload(a) = CapacitySize
        BY <2>1, <2>3, <3>4 DEF ReplyPayload
      <4> QED BY <1>3, <4>1 DEF a
    <3> QED BY <3>1, <3>2, <3>3, <3>4
  <2> QED BY <2>2, <2>3
<1>7. [h EXCEPT !.status = "OK"] = Response(h, "OK")
  BY <1>1 DEF Response
<1>8. FrameLength(h) = HeaderSize + RequestPayload(h)
  BY <1>5 DEF FrameLength
<1> QED BY <1>1, <1>5, <1>6, <1>7, <1>8 DEF Statuses

LEMMA HistoryFacts ==
  ASSUME HistoryInv
  PROVE  /\ Len(sent) \in Nat /\ Len(answers) \in Nat /\ Len(got) \in Nat
         /\ Unanswered \in Nat /\ Untaken \in Nat
         /\ \A i \in 1..Len(sent) : sent[i] \in RequestSet
         /\ \A i \in 1..Len(answers) : answers[i] \in AnswerSet
         /\ Unanswered >= 1 =>
              /\ Len(answers) + 1 \in 1..Len(sent)
              /\ sent[Len(answers) + 1] \in RequestSet /\ Carried(sent[Len(answers) + 1])
         /\ Untaken >= 1 => /\ Len(got) + 1 \in 1..Len(answers)
                            /\ answers[Len(got) + 1] \in AnswerSet
<1>1. Len(sent) \in Nat /\ Len(answers) \in Nat /\ Len(got) \in Nat
  BY LenProperties DEF HistoryInv
<1>2. /\ Len(got) <= Len(answers) /\ Len(answers) <= Len(sent)
      /\ \A i \in 1..Len(sent) : Carried(sent[i])
  BY DEF HistoryInv
<1>3. /\ \A i \in 1..Len(sent) : sent[i] \in RequestSet
      /\ \A i \in 1..Len(answers) : answers[i] \in AnswerSet
  BY ElementOfSeq DEF HistoryInv
<1> QED BY <1>1, <1>2, <1>3 DEF Unanswered, Untaken

(* The host finds the oldest unanswered request, or no whole request.      *)
LEMMA RequestFront ==
  ASSUME HistoryInv, GuestInv, RingsInv
  PROVE  /\ (Unanswered = 0 /\ guest.at # "payload") => Used(g2h) = 0
         /\ (Unanswered = 0 /\ guest.at = "payload") =>
              Used(g2h) = HeaderSize /\ HeaderAt(g2h) = guest.request.head
         /\ Unanswered >= 1 =>
              LET r == sent[Len(answers) + 1]
              IN  /\ HeaderAt(g2h) = r.head
                  /\ HeaderSize + RequestPayload(r.head) <= Used(g2h)
                  /\ Oldest = r
<1>1. /\ Unanswered \in Nat
      /\ Unanswered >= 1 => /\ sent[Len(answers) + 1] \in RequestSet
                            /\ Carried(sent[Len(answers) + 1])
  BY HistoryFacts
<1>2. IsRing(g2h) /\ Holds(g2h, RequestedCount, Requested)
  BY DEF RingsInv
<1>3. CASE Unanswered = 0 /\ guest.at # "payload"
  <2>1. RequestedCount = 0
    BY <1>3 DEF RequestedCount
  <2>2. Used(g2h) = 0
    BY <1>2, <2>1, HoldsNothing
  <2> QED BY <1>3, <2>2
<1>4. CASE Unanswered = 0 /\ guest.at = "payload"
  <2> DEFINE f == HeaderCells(guest.request.head)
  <2>1. RequestedCount = 1 /\ Requested[1] = f
    BY <1>4 DEF RequestedCount, Requested
  <2>2. IsRun(f, HeaderSize)
    BY HeaderFacts
  <2> HIDE DEF f
  <2>3. Len(f) = HeaderSize
    BY <2>2, RunFacts
  <2>4. Used(g2h) = Len(f) /\ \A j \in 1..Len(f) : CellAt(g2h, j - 1) = f[j]
    <3>1. Holds(g2h, 1, Requested)
      BY <1>2, <2>1
    <3>2. /\ \A j \in 1..Len(Requested[1]) : CellAt(g2h, j - 1) = Requested[1][j]
          /\ Used(g2h) = Len(Requested[1])
      BY <1>2, <3>1, HoldsFirst
    <3> QED BY <2>1, <3>2
  <2>5. HeaderAt(g2h) = guest.request.head
    BY <1>2, <2>3, <2>4, FrontHeader DEF f
  <2> QED BY <1>4, <2>3, <2>4, <2>5
<1>5. CASE Unanswered >= 1
  <2> DEFINE r == sent[Len(answers) + 1]
             n == RequestPayload(r.head)
             f == ReqFrame(r)
             c == DataCells(r.data, BlockSize)
  <2>1. r \in RequestSet /\ Carried(r)
    BY <1>1, <1>5
  <2> HIDE DEF r
  <2>2. n \in Nat /\ FrameLength(r.head) = HeaderSize + n
    BY <2>1, CarriedFits
  <2>3. /\ Len(f) = HeaderSize + n
        /\ \A i \in 1..HeaderSize : f[i] = HeaderCells(r.head)[i]
        /\ \A i \in 1..n : f[HeaderSize + i] = c[i]
    BY <2>1, ReqFrameFacts
  <2>4. Requested[1] = f /\ RequestedCount \in Nat \ {0}
    <3>1. 1 \in 1..Unanswered + 1 /\ 1 <= Unanswered
      BY <1>1, <1>5
    <3>2. Requested[1] = f
      BY <3>1 DEF Requested, r
    <3> QED BY <1>1, <1>5, <3>2 DEF RequestedCount
  <2>5. Len(f) <= Used(g2h) /\ \A j \in 1..Len(f) : CellAt(g2h, j - 1) = f[j]
    <3> DEFINE k == RequestedCount
    <3>1. k \in Nat \ {0} /\ Holds(g2h, k, Requested)
      BY <1>2, <2>4
    <3> HIDE DEF k
    <3>2. /\ Len(Requested[1]) \in 0..Used(g2h)
          /\ \A j \in 1..Len(Requested[1]) : CellAt(g2h, j - 1) = Requested[1][j]
      BY <1>2, <3>1, HoldsFirst
    <3>3. Used(g2h) \in Nat
      BY <1>2, UsedFacts DEF Positions
    <3> HIDE DEF f
    <3> QED BY <2>4, <3>2, <3>3
  <2> HIDE DEF f, n
  <2>6. HeaderSize \in Nat
    BY ChannelAssumption
  <2>7. HeaderAt(g2h) = r.head
    <3>1. \A i \in 1..HeaderSize : i \in 1..Len(f)
      BY <2>2, <2>3, <2>6
    <3>2. \A i \in 1..HeaderSize : CellAt(g2h, i - 1) = HeaderCells(r.head)[i]
      BY <2>3, <2>5, <3>1
    <3> QED BY <1>2, <3>2, FrontHeader
  <2>8. Peek(g2h, HeaderSize, n) = c
    <3>1. \A i \in 1..n : HeaderSize + i \in 1..Len(f) /\ HeaderSize + i - 1 = (HeaderSize + i) - 1
      BY <2>2, <2>3, <2>6
    <3>2. \A i \in 1..n : CellAt(g2h, HeaderSize + i - 1) = c[i]
      <4> TAKE i \in 1..n
      <4> DEFINE k == HeaderSize + i
      <4>1. k \in 1..Len(f) /\ HeaderSize + i - 1 = k - 1 /\ f[k] = c[i]
        BY <2>3, <3>1
      <4> HIDE DEF k, c
      <4>2. CellAt(g2h, k - 1) = f[k]
        BY <2>5, <4>1
      <4> QED BY <4>1, <4>2
    <3>3. IsRun(c, n)
      BY <2>1, RequestFacts DEF n
    <3> HIDE DEF c
    <3> QED BY <1>2, <2>6, <3>2, <3>3, FrontCells
  <2>9. DecodeData(c, BlockSize) = r.data
    <3>1. PICK l : IsRun(r.data, l)
      BY <2>1, RequestFacts
    <3>2. BlockSize \in Nat \ {0}
      BY ChannelAssumption
    <3> QED BY <3>1, <3>2, DecodeDataFacts
  <2>10. Oldest = r
    <3>1. FrameLength(HeaderAt(g2h)) - HeaderSize = n
      BY <2>2, <2>6, <2>7
    <3>2. Oldest = [head |-> r.head, data |-> DecodeData(c, BlockSize)]
      <4> HIDE DEF c
      <4> QED BY <2>7, <2>8, <3>1 DEF Oldest
    <3>3. r = [head |-> r.head, data |-> r.data]
      BY <2>1, RequestFacts
    <3> QED BY <2>9, <3>2, <3>3
  <2> QED BY <1>5, <2>3, <2>5, <2>7, <2>10 DEF r, n
<1>6. Unanswered = 0 \/ Unanswered >= 1
  BY <1>1
<1> QED BY <1>3, <1>4, <1>5, <1>6

(* The guest finds the oldest answer it has not taken, or what is left of  *)
(* it, or nothing.                                                         *)
LEMMA AnswerFront ==
  ASSUME HistoryInv, GuestInv, RingsInv
  PROVE  /\ Untaken = 0 => Used(h2g) = 0
         /\ (Untaken >= 1 /\ guest.at # "body") =>
              LET a == answers[Len(got) + 1]
              IN  /\ HeaderAt(h2g) = a.head
                  /\ HeaderSize + ReplyPayload(a.head) <= Used(h2g)
         /\ (Untaken >= 1 /\ guest.at = "body") =>
              LET a == answers[Len(got) + 1]
              IN  /\ Peek(h2g, 0, ReplyPayload(a.head)) = AnsData(a)
                  /\ ReplyPayload(a.head) <= Used(h2g)
<1>1. /\ Untaken \in Nat
      /\ Untaken >= 1 => answers[Len(got) + 1] \in AnswerSet
  BY HistoryFacts
<1>2. IsRing(h2g) /\ Holds(h2g, Untaken, Answered)
  BY DEF RingsInv
<1>3. CASE Untaken = 0
  <2>1. Used(h2g) = 0
    BY <1>2, <1>3, HoldsNothing
  <2> QED BY <1>3, <2>1
<1>4. CASE Untaken >= 1
  <2> DEFINE a == answers[Len(got) + 1]
             n == ReplyPayload(a.head)
             f == Answered[1]
             c == AnsData(a)
  <2>1. a \in AnswerSet
    BY <1>1, <1>4
  <2>2. f = IF guest.at = "body" THEN AnsData(a) ELSE AnsFrame(a)
    <3>1. 1 \in 1..Untaken
      BY <1>1, <1>4
    <3> QED BY <3>1 DEF Answered
  <2> HIDE DEF a, f
  <2>3. Len(f) <= Used(h2g) /\ \A j \in 1..Len(f) : CellAt(h2g, j - 1) = f[j]
    <3> DEFINE k == Untaken
    <3>1. k \in Nat \ {0} /\ Holds(h2g, k, Answered)
      BY <1>1, <1>2, <1>4
    <3> HIDE DEF k
    <3>2. /\ Len(Answered[1]) \in 0..Used(h2g)
          /\ \A j \in 1..Len(Answered[1]) : CellAt(h2g, j - 1) = Answered[1][j]
      BY <1>2, <3>1, HoldsFirst
    <3>3. Used(h2g) \in Nat
      BY <1>2, UsedFacts DEF Positions
    <3> QED BY <3>2, <3>3 DEF f
  <2>4. n \in Nat /\ IsRun(c, n)
    BY <2>1, AnswerFacts
  <2>5. HeaderSize \in Nat
    BY ChannelAssumption
  <2> HIDE DEF n, c
  <2>6. CASE guest.at # "body"
    <3>1. /\ Len(f) = HeaderSize + n
          /\ \A i \in 1..HeaderSize : f[i] = HeaderCells(a.head)[i]
      BY <2>1, <2>2, <2>6, AnsFrameFacts DEF n
    <3>2. \A i \in 1..HeaderSize : i \in 1..Len(f)
      BY <2>4, <2>5, <3>1
    <3>3. \A i \in 1..HeaderSize : CellAt(h2g, i - 1) = HeaderCells(a.head)[i]
      BY <2>3, <3>1, <3>2
    <3>4. HeaderAt(h2g) = a.head
      BY <1>2, <3>3, FrontHeader
    <3> QED BY <1>4, <2>3, <2>6, <3>1, <3>4 DEF a, n
  <2>7. CASE guest.at = "body"
    <3>1. f = c
      BY <2>2, <2>7 DEF c
    <3>2. Len(f) = n
      BY <2>4, <3>1, RunFacts
    <3>3. \A i \in 1..n : CellAt(h2g, 0 + i - 1) = c[i]
      <4>1. \A i \in 1..n : 0 + i - 1 = i - 1
        BY <2>4
      <4> QED BY <2>3, <3>1, <3>2, <4>1
    <3>4. Peek(h2g, 0, n) = c
      BY <1>2, <2>4, <3>3, FrontCells
    <3> QED BY <1>4, <2>3, <2>7, <3>2, <3>4 DEF a, n, c
  <2> QED BY <2>6, <2>7
<1>5. Untaken = 0 \/ Untaken >= 1
  BY <1>1
<1> QED BY <1>3, <1>4, <1>5

(* What the service can answer is the oldest request: a header whose       *)
(* payload is still to come is none.                                       *)
LEMMA ServedIsOldest ==
  ASSUME HistoryInv, GuestInv, RingsInv, CanServe
  PROVE  /\ Unanswered >= 1 /\ Oldest = sent[Len(answers) + 1]
         /\ Oldest \in RequestSet /\ Carried(Oldest) /\ HeaderAt(g2h) = Oldest.head
         /\ FrameLength(Oldest.head) = HeaderSize + RequestPayload(Oldest.head)
<1>1. /\ Unanswered \in Nat
      /\ Unanswered >= 1 => /\ sent[Len(answers) + 1] \in RequestSet
                            /\ Carried(sent[Len(answers) + 1])
  BY HistoryFacts
<1>2. HeaderSize \in Nat \ {0} /\ Used(g2h) >= HeaderSize
  BY ChannelAssumption DEF CanServe
<1>3. ~(Unanswered = 0 /\ guest.at # "payload")
  <2>1. ~(Used(g2h) = 0)
    BY <1>2
  <2> QED BY <2>1, RequestFront
<1>4. ~(Unanswered = 0 /\ guest.at = "payload")
  <2> SUFFICES ASSUME Unanswered = 0, guest.at = "payload" PROVE FALSE
    OBVIOUS
  <2> DEFINE r == guest.request
  <2>1. Used(g2h) = HeaderSize /\ HeaderAt(g2h) = r.head
    BY RequestFront
  <2>2. r \in RequestSet /\ Carried(r) /\ r.head.op = "WRITE" /\ r.head.count # 0
    BY DEF GuestInv
  <2> HIDE DEF r
  <2>3. FrameLength(r.head) = HeaderSize + RequestPayload(r.head)
    BY <2>2, CarriedFits
  <2>4. RequestPayload(r.head) \in Nat \ {0}
    <3> DEFINE c == r.head.count
    <3>1. c \in Nat /\ c # 0 /\ BlockSize \in Nat \ {0}
      BY <2>2, RequestFacts, ChannelAssumption
    <3>2. RequestPayload(r.head) = c * BlockSize
      BY <2>2 DEF RequestPayload
    <3> HIDE DEF c
    <3>3. c * BlockSize \in Nat /\ c * BlockSize # 0
      BY <3>1, Products
    <3> QED BY <3>2, <3>3
  <2>5. Used(g2h) >= FrameLength(r.head)
    BY <2>1 DEF CanServe
  <2> QED BY <1>2, <2>1, <2>3, <2>4, <2>5
<1>5. Unanswered >= 1
  BY <1>1, <1>3, <1>4
<1> DEFINE r == sent[Len(answers) + 1]
<1>6. r \in RequestSet /\ Carried(r) /\ Oldest = r /\ HeaderAt(g2h) = r.head
  BY <1>1, <1>5, RequestFront
<1> HIDE DEF r
<1>7. FrameLength(r.head) = HeaderSize + RequestPayload(r.head)
  BY <1>6, CarriedFits
<1> QED BY <1>5, <1>6, <1>7 DEF r

(* The answer the service gives is a well-formed answer to the request.    *)
LEMMA AnswerIsAnswer ==
  ASSUME DiskInv, NEW r \in RequestSet, Carried(r), NEW outcome
  PROVE  /\ Answer(r.head, outcome) \in AnswerSet
         /\ Answers(Answer(r.head, outcome), r)
         /\ Answer(r.head, outcome).head.status \in {Status(r.head), "DEVICE"}
         /\ Answer(r.head, outcome).head = Response(r.head, Answer(r.head, outcome).head.status)
<1> DEFINE h == r.head
           status == IF outcome = "done" THEN Status(h) ELSE "DEVICE"
           a == Answer(h, outcome)
<1>1. h \in [op : Ops, status : {"none"}, tag : Nat, lba : Nat, count : Nat]
  BY RequestFacts
<1>2. /\ Judge(h) \in {"OK", "INVALID", "UNSUPPORTED"} /\ Status(h) \in {Judge(h), "DEVICE"}
      /\ status \in {Judge(h), "DEVICE"} /\ status \in Statuses /\ status \in {Status(h), "DEVICE"}
  BY DEF Judge, Status, Statuses
<1>3. a = [head |-> Response(h, status),
           data |-> IF status # "OK" THEN <<>>
                    ELSE CASE h.op = "READ" -> [j \in 1..h.count |-> store[h.lba + j - 1]]
                           [] h.op = "CAPACITY" -> <<CapacityBlocks>>
                           [] OTHER -> <<>>]
  BY DEF Answer
<1> HIDE DEF a
<1>4. status = "OK" => /\ Judge(h) = "OK"
                       /\ h.op # "CAPACITY" => h.lba + h.count <= CapacityBlocks
  BY <1>2 DEF Judge, Statuses
<1> HIDE DEF status
<1>5. /\ Response(h, status) \in
           [op : Ops, status : Statuses, tag : Nat, lba : Nat, count : Nat]
      /\ Response(h, status).status = status /\ Response(h, status).op = h.op
      /\ status = "OK" => Response(h, status).count = h.count
  BY <1>1, <1>2 DEF Response
<1>6. /\ a.data \in Seq(Contents \cup {CapacityBlocks})
      /\ Len(a.data) = AnswerLength(Response(h, status))
  <2> DEFINE S == Contents \cup {CapacityBlocks}
             rh == Response(h, status)
  <2>1. <<>> \in Seq(S) /\ Len(<<>>) = 0
    BY EmptySeq
  <2>2. CASE status # "OK"
    <3>1. a.data = <<>> /\ AnswerLength(rh) = 0
      BY <1>3, <1>5, <2>2 DEF AnswerLength
    <3> QED BY <2>1, <3>1
  <2>3. CASE status = "OK" /\ h.op = "READ"
    <3> DEFINE d == [j \in 1..h.count |-> store[h.lba + j - 1]]
    <3>1. a.data = d /\ AnswerLength(rh) = h.count
      BY <1>3, <1>5, <2>3 DEF AnswerLength
    <3>2. h.count \in Nat /\ h.lba \in Nat /\ h.lba + h.count <= CapacityBlocks
      BY <1>1, <1>4, <2>3
    <3>3. \A j \in 1..h.count : h.lba + j - 1 \in 0..CapacityBlocks - 1
      BY <3>2, ChannelAssumption
    <3>4. \A j \in 1..h.count : store[h.lba + j - 1] \in S
      BY <3>3 DEF DiskInv
    <3>5. d \in [1..h.count -> S]
      <4> HIDE DEF S
      <4> QED BY <3>4
    <3>6. d \in Seq(S)
      <4> HIDE DEF d, S
      <4> QED BY <3>2, <3>5, SeqDef
    <3>7. IsRun(d, h.count)
      BY <3>2 DEF IsRun
    <3> HIDE DEF d, S
    <3>8. Len(d) = h.count
      BY <3>7, RunFacts
    <3> QED BY <3>1, <3>6, <3>8 DEF S
  <2>4. CASE status = "OK" /\ h.op = "CAPACITY"
    <3>1. a.data = <<CapacityBlocks>> /\ AnswerLength(rh) = 1
      BY <1>3, <1>5, <2>4 DEF AnswerLength
    <3>2. CapacityBlocks \in S
      OBVIOUS
    <3> HIDE DEF S
    <3>3. <<CapacityBlocks>> \in Seq(S) /\ Len(<<CapacityBlocks>>) = 1
      BY <3>2
    <3> QED BY <3>1, <3>3
  <2>5. CASE status = "OK" /\ h.op \notin {"READ", "CAPACITY"}
    <3>1. a.data = <<>> /\ AnswerLength(rh) = 0
      BY <1>3, <1>5, <2>5 DEF AnswerLength
    <3> QED BY <2>1, <3>1
  <2> QED BY <2>2, <2>3, <2>4, <2>5 DEF S
<1>7. FitsRing(ReplyPayload(Response(h, status)))
  BY <1>2, CarriedFits
<1>8. a \in AnswerSet
  <2>1. a.head = Response(h, status) /\ a = [head |-> a.head, data |-> a.data]
    BY <1>3
  <2> QED BY <1>5, <1>6, <1>7, <2>1 DEF AnswerSet
<1>9. Answers(a, r)
  BY <1>2, <1>3 DEF Answers
<1> QED BY <1>2, <1>3, <1>5, <1>8, <1>9 DEF a

(* And it is short enough for the ring: the service has made sure of it.   *)
LEMMA AnswerFits ==
  ASSUME HistoryInv, GuestInv, RingsInv, DiskInv, CanServe, NEW outcome
  PROVE  LET a == Answer(Oldest.head, outcome)
         IN  /\ a \in AnswerSet /\ AnsFrame(a) = HeaderCells(a.head)
                                              \o DataCells(a.data, Width(a.head.op))
             /\ Len(AnsFrame(a)) \in Nat /\ Len(AnsFrame(a)) <= Free(h2g)
<1> DEFINE r == Oldest
           a == Answer(r.head, outcome)
<1>1. r \in RequestSet /\ Carried(r) /\ HeaderAt(g2h) = r.head
  BY ServedIsOldest
<1> HIDE DEF r
<1>2. /\ a \in AnswerSet /\ a.head.status \in {Status(r.head), "DEVICE"}
      /\ a.head = Response(r.head, a.head.status)
  BY <1>1, AnswerIsAnswer
<1>3. HeaderSize + ReplyPayload(Response(r.head, Status(r.head))) <= Free(h2g)
  BY <1>1 DEF CanServe
<1>4. ReplyPayload(Response(r.head, Status(r.head))) \in Nat /\ HeaderSize \in Nat
  <2>1. Status(r.head) \in Statuses
    BY DEF Status, Judge, Statuses
  <2> QED BY <1>1, <2>1, CarriedFits, ChannelAssumption
<1> HIDE DEF a
<1>5. a.head.status = "DEVICE" => ReplyPayload(a.head) = 0
  BY DEF ReplyPayload
<1>6. Free(h2g) \in Int
  <2>1. IsRing(h2g)
    BY DEF RingsInv
  <2>2. Used(h2g) \in Positions /\ Free(h2g) = RingSize - 1 - Used(h2g)
    BY <2>1, UsedFacts
  <2> QED BY <2>2, ChannelAssumption DEF Positions
<1>7. ReplyPayload(a.head) \in Nat /\ HeaderSize + ReplyPayload(a.head) <= Free(h2g)
  <2>1. ReplyPayload(a.head) \in Nat
    BY <1>2, AnswerFacts
  <2>2. CASE a.head.status = "DEVICE"
    BY <1>3, <1>4, <1>5, <1>6, <2>2
  <2>3. CASE a.head.status = Status(r.head)
    BY <1>2, <1>3, <2>1, <2>3
  <2> QED BY <1>2, <2>2, <2>3
<1>8. Len(AnsFrame(a)) = HeaderSize + ReplyPayload(a.head)
  BY <1>2, AnsFrameFacts
<1>9. AnsFrame(a) = HeaderCells(a.head) \o DataCells(a.data, Width(a.head.op))
  BY DEF AnsFrame, AnsData
<1> QED BY <1>2, <1>4, <1>7, <1>8, <1>9 DEF a, r

-----------------------------------------------------------------------------
(* Every step keeps the invariant.                                         *)

LEMMA HoldsSame ==
  ASSUME NEW ring, NEW n, NEW F, Holds(ring, n, F), NEW G, \A i \in 1..n : G[i] = F[i]
  PROVE  Holds(ring, n, G)
<1>1. PICK off \in [0..n -> Positions] : Places(ring, n, F, off)
  BY DEF Holds
<1>2. Places(ring, n, G, off)
  <2>1. /\ off \in [0..n -> Positions] /\ off[0] = 0 /\ off[n] = Used(ring)
        /\ \A i, j \in 0..n : i <= j => off[i] <= off[j]
    BY <1>1 DEF Places
  <2>2. \A i \in 1..n :
          /\ Len(F[i]) \in Nat /\ off[i] = off[i - 1] + Len(F[i])
          /\ \A j \in 1..Len(F[i]) : CellAt(ring, off[i - 1] + j - 1) = F[i][j]
    BY <1>1 DEF Places
  <2>3. \A i \in 1..n :
          /\ Len(G[i]) \in Nat /\ off[i] = off[i - 1] + Len(G[i])
          /\ \A j \in 1..Len(G[i]) : CellAt(ring, off[i - 1] + j - 1) = G[i][j]
    <3> TAKE i \in 1..n
    <3>1. G[i] = F[i]
      OBVIOUS
    <3> QED BY <2>2, <3>1
  <2> QED BY <2>1, <2>3 DEF Places
<1> QED BY <1>2 DEF Holds

LEMMA AppendFacts ==
  ASSUME NEW S, NEW s \in Seq(S), NEW e \in S
  PROVE  /\ Append(s, e) \in Seq(S) /\ Len(s) \in Nat /\ Len(Append(s, e)) = Len(s) + 1
         /\ \A i \in 1..Len(s) : Append(s, e)[i] = s[i]
         /\ Append(s, e)[Len(s) + 1] = e
<1>1. Len(s) \in Nat
  BY LenProperties
<1> QED BY <1>1, AppendProperties

(* A request without a payload is its header.                              *)
LEMMA BareFrame ==
  ASSUME NEW r \in RequestSet, RequestPayload(r.head) = 0
  PROVE  ReqFrame(r) = HeaderCells(r.head)
<1> DEFINE f == ReqFrame(r)
           g == HeaderCells(r.head)
<1>1. HeaderSize \in Nat /\ HeaderSize + 0 = HeaderSize
  BY ChannelAssumption
<1>2. IsRun(f, HeaderSize) /\ IsRun(g, HeaderSize) /\ \A i \in 1..HeaderSize : f[i] = g[i]
  BY <1>1, ReqFrameFacts, HeaderFacts
<1> HIDE DEF f, g
<1>3. f = g
  BY <1>2, RunsAgree
<1> QED BY <1>3 DEF f, g

(* What a step leaves alone in a ring that it does not touch.              *)
LEMMA RequestedSame ==
  ASSUME RingsInv, UNCHANGED <<g2h, sent, answers>>, HistoryInv,
         guest' = guest \/ (guest.at # "payload" /\ guest'.at # "payload")
  PROVE  IsRing(g2h') /\ Holds(g2h', RequestedCount', Requested')
<1>1. Unanswered' = Unanswered /\ Unanswered \in Nat
  BY HistoryFacts DEF Unanswered
<1>2. RequestedCount' = RequestedCount
  BY <1>1 DEF RequestedCount
<1>3. IsRing(g2h) /\ Holds(g2h, RequestedCount, Requested)
  BY DEF RingsInv
<1>4. \A i \in 1..RequestedCount : Requested'[i] = Requested[i]
  <2>1. CASE guest' = guest
    BY <1>1, <2>1 DEF Requested
  <2>2. CASE guest.at # "payload" /\ guest'.at # "payload"
    <3>1. \A i \in 1..RequestedCount : i \in 1..Unanswered + 1 /\ i <= Unanswered
      BY <1>1, <2>2 DEF RequestedCount
    <3> QED BY <1>1, <3>1 DEF Requested
  <2> QED BY <2>1, <2>2
<1>5. Holds(g2h, RequestedCount, Requested')
  BY <1>3, <1>4, HoldsSame
<1> QED BY <1>2, <1>3, <1>5

LEMMA AnsweredSame ==
  ASSUME RingsInv, UNCHANGED <<h2g, answers, got>>, (guest.at = "body") = (guest'.at = "body")
  PROVE  IsRing(h2g') /\ Holds(h2g', Untaken', Answered')
<1>1. Untaken' = Untaken /\ Answered' = Answered
  BY DEF Untaken, Answered
<1> QED BY <1>1 DEF RingsInv

(* One more request.                                                       *)
LEMMA SentGrows ==
  ASSUME HistoryInv, NEW r \in RequestSet, Carried(r),
         sent' = Append(sent, r), UNCHANGED <<answers, got>>
  PROVE  /\ HistoryInv' /\ Unanswered' = Unanswered + 1 /\ Len(sent') = Len(sent) + 1
         /\ \A i \in 1..Unanswered : /\ Requested[i] = ReqFrame(sent[Len(answers) + i])
                                     /\ Requested'[i] = Requested[i]
         /\ Requested'[Unanswered + 1] = ReqFrame(r)
<1>1. /\ sent' \in Seq(RequestSet) /\ Len(sent') = Len(sent) + 1
      /\ \A i \in 1..Len(sent) : sent'[i] = sent[i]
      /\ sent'[Len(sent) + 1] = r
  BY AppendFacts DEF HistoryInv
<1>2. Unanswered \in Nat /\ Len(sent) \in Nat /\ Len(answers) \in Nat
  BY HistoryFacts
<1>3. Unanswered' = Unanswered + 1
  BY <1>1, <1>2 DEF Unanswered
<1>4. HistoryInv'
  <2>1. \A i \in 1..Len(sent') : i \in 1..Len(sent) \/ i = Len(sent) + 1
    BY <1>1, <1>2
  <2>2. \A i \in 1..Len(sent') : Carried(sent'[i])
    BY <1>1, <2>1 DEF HistoryInv
  <2>3. \A i \in 1..Len(answers) : Answers(answers[i], sent'[i])
    <3>1. \A i \in 1..Len(answers) : i \in 1..Len(sent)
      BY <1>2 DEF HistoryInv
    <3> QED BY <1>1, <3>1 DEF HistoryInv
  <2>4. Len(answers) <= Len(sent')
    BY <1>1, <1>2 DEF HistoryInv
  <2>5. /\ answers \in Seq(AnswerSet) /\ got \in Seq(AnswerSet) /\ Len(got) <= Len(answers)
        /\ \A i \in 1..Len(got) : got[i] = answers[i]
    BY DEF HistoryInv
  <2> QED BY <1>1, <2>2, <2>3, <2>4, <2>5 DEF HistoryInv, Carried, Answers
<1> DEFINE n == Unanswered
<1>5. (\A i \in 1..n : Requested[i] = ReqFrame(sent[Len(answers) + i])
                         /\ Requested'[i] = Requested[i])
      /\ Requested'[n + 1] = ReqFrame(r)
  <2> HIDE DEF n
  <2>1. \A i \in 1..n + 1 : /\ i \in 1..(n + 1) + 1 /\ i <= n + 1
                            /\ Len(answers) + i \in 1..Len(sent) + 1
    BY <1>2 DEF Unanswered, n
  <2>2. \A i \in 1..n + 1 : Requested'[i] = ReqFrame(sent'[Len(answers) + i])
    BY <1>3, <2>1 DEF Requested, n
  <2>3. \A i \in 1..n : /\ i \in 1..n + 1 /\ i \in 1..Unanswered + 1 /\ i <= Unanswered
                        /\ Len(answers) + i \in 1..Len(sent)
    BY <1>2 DEF Unanswered, n
  <2>4. \A i \in 1..n : Requested[i] = ReqFrame(sent[Len(answers) + i])
    BY <2>3 DEF Requested
  <2>5. n + 1 \in 1..n + 1 /\ Len(answers) + (n + 1) = Len(sent) + 1
    BY <1>2 DEF Unanswered, n
  <2> QED BY <1>1, <2>2, <2>3, <2>4, <2>5
<1> QED BY <1>1, <1>3, <1>4, <1>5

LEMMA SubmitHeaderStep ==
  ASSUME CInv, NEW request \in RequestSet, SubmitHeader(request)
  PROVE  CInv'
<1>1. DiskInv /\ HistoryInv /\ GuestInv /\ RingsInv
  BY DEF CInv
<1> DEFINE c == HeaderCells(request.head)
           n == Unanswered
           pay == RequestPayload(request.head)
<1>2. /\ guest.at = "idle" /\ Carried(request) /\ HeaderSize + pay <= Free(g2h)
      /\ g2h' = Push(g2h, c)
      /\ UNCHANGED <<h2g, overflow, doorbell, serving, store, failNext, broken, answers, got>>
  BY DEF SubmitHeader, Accepts, Carried, diskVars
<1>3. /\ pay = 0 => /\ guest' = [guest EXCEPT !.at = "bell", !.request = request]
                    /\ sent' = Append(sent, request)
      /\ pay # 0 => /\ guest' = [guest EXCEPT !.at = "payload", !.request = request]
                    /\ UNCHANGED sent
  BY DEF SubmitHeader
<1>4. pay \in Nat /\ HeaderSize \in Nat /\ n \in Nat /\ Len(sent) \in Nat /\ Len(answers) \in Nat
  BY <1>1, RequestFacts, HistoryFacts, ChannelAssumption
<1>5. guest = [at |-> guest.at, request |-> guest.request, response |-> guest.response]
  BY <1>1 DEF GuestInv
<1>6. /\ IsRing(g2h) /\ Holds(g2h, n, Requested) /\ overflow = FALSE
      /\ Free(g2h) = RingSize - 1 - Used(g2h) /\ Used(g2h) \in Int /\ RingSize \in Nat
  <2>1. RequestedCount = n
    BY <1>2 DEF RequestedCount
  <2> QED BY <1>1, <2>1, UsedFacts, ChannelAssumption DEF RingsInv, Positions
<1>7. IsRun(c, HeaderSize) /\ Len(c) = HeaderSize
  BY HeaderFacts, RunFacts
<1> HIDE DEF c, pay, n
<1>8. Len(c) \in Nat /\ Len(c) <= Free(g2h) /\ Free(g2h) \in Int
  BY <1>2, <1>4, <1>6, <1>7
<1>9. IsRing(g2h') /\ Used(g2h') = Used(g2h) + HeaderSize
  BY <1>2, <1>4, <1>6, <1>7, <1>8, PushFacts
<1>10. DiskInv'
  BY <1>1, <1>2 DEF DiskInv
<1>11. CASE pay = 0
  <2>1. /\ guest' = [at |-> "bell", request |-> request, response |-> guest.response]
        /\ sent' = Append(sent, request)
    BY <1>3, <1>5, <1>11
  <2>2. /\ HistoryInv' /\ Unanswered' = n + 1
        /\ (\A i \in 1..n : Requested'[i] = Requested[i])
        /\ Requested'[n + 1] = ReqFrame(request)
    BY <1>1, <1>2, <2>1, SentGrows DEF n
  <2>4. GuestInv'
    BY <2>1 DEF GuestInv
  <2>5. RequestedCount' = n + 1
    BY <2>1, <2>2 DEF RequestedCount
  <2>6. (\A i \in 1..n : Requested'[i] = Requested[i]) /\ Requested'[n + 1] = c
    <3>1. ReqFrame(request) = c
      BY <1>11, BareFrame DEF pay, c
    <3> QED BY <2>2, <3>1
  <2>7. Holds(g2h', n + 1, Requested')
    BY <1>2, <1>4, <1>6, <1>8, <2>6, HoldsPush
  <2>8. IsRing(h2g') /\ Holds(h2g', Untaken', Answered')
    <3>1. guest'.at = "bell"
      BY <2>1
    <3> QED BY <1>1, <1>2, <3>1, AnsweredSame
  <2> QED BY <1>2, <1>6, <1>9, <1>10, <2>2, <2>4, <2>5, <2>7, <2>8 DEF CInv, RingsInv
<1>12. CASE pay # 0
  <2>1. /\ guest' = [at |-> "payload", request |-> request, response |-> guest.response]
        /\ sent' = sent
    BY <1>3, <1>5, <1>12
  <2>2. HistoryInv'
    BY <1>1, <1>2, <2>1 DEF HistoryInv, Carried, Answers
  <2>3. GuestInv'
    <3>1. request.head.op = "WRITE" /\ request.head.count # 0
      BY <1>12, ChannelAssumption DEF pay, RequestPayload
    <3>2. pay <= Free(g2h')
      BY <1>2, <1>4, <1>6, <1>9 DEF Free
    <3> QED BY <1>2, <2>1, <3>1, <3>2 DEF GuestInv, Carried, pay
  <2>4. Unanswered' = n /\ RequestedCount' = n + 1 /\ Unanswered = n
    BY <1>2, <2>1 DEF Unanswered, n, RequestedCount
  <2>5. (\A i \in 1..n : Requested'[i] = Requested[i]) /\ Requested'[n + 1] = c
    <3>1. \A i \in 1..n : i \in 1..n + 1 /\ i <= n
      BY <1>4
    <3>2. n + 1 \in 1..n + 1 /\ ~(n + 1 <= n)
      BY <1>4
    <3>3. \A i \in 1..n : Requested'[i] = ReqFrame(sent[Len(answers) + i])
                          /\ Requested[i] = ReqFrame(sent[Len(answers) + i])
      BY <1>2, <2>1, <2>4, <3>1 DEF Requested
    <3>4. Requested'[n + 1] = c
      BY <1>2, <2>1, <2>4, <3>2 DEF Requested, c
    <3> QED BY <3>3, <3>4
  <2>6. Holds(g2h', n + 1, Requested')
    BY <1>2, <1>4, <1>6, <1>8, <2>5, HoldsPush
  <2>7. IsRing(h2g') /\ Holds(h2g', Untaken', Answered')
    <3>1. guest'.at = "payload"
      BY <2>1
    <3> QED BY <1>1, <1>2, <3>1, AnsweredSame
  <2> QED BY <1>2, <1>6, <1>9, <1>10, <2>2, <2>3, <2>4, <2>6, <2>7 DEF CInv, RingsInv
<1> QED BY <1>11, <1>12

LEMMA SubmitPayloadStep ==
  ASSUME CInv, SubmitPayload
  PROVE  CInv'
<1>1. DiskInv /\ HistoryInv /\ GuestInv /\ RingsInv
  BY DEF CInv
<1> DEFINE r == guest.request
           c == DataCells(r.data, BlockSize)
           n == Unanswered
           pay == RequestPayload(r.head)
<1>2. /\ guest.at = "payload" /\ g2h' = Push(g2h, c)
      /\ guest' = [guest EXCEPT !.at = "bell"] /\ sent' = Append(sent, r)
      /\ UNCHANGED <<h2g, overflow, doorbell, serving, store, failNext, broken, answers, got>>
  BY DEF SubmitPayload, diskVars
<1>3. r \in RequestSet /\ Carried(r) /\ pay <= Free(g2h)
  BY <1>1, <1>2 DEF GuestInv
<1>4. guest' = [at |-> "bell", request |-> guest.request, response |-> guest.response]
  BY <1>1, <1>2 DEF GuestInv
<1>5. IsRing(g2h) /\ Holds(g2h, n + 1, Requested) /\ overflow = FALSE
  <2>1. RequestedCount = n + 1
    BY <1>2 DEF RequestedCount
  <2> QED BY <1>1, <2>1 DEF RingsInv
<1>6. pay \in Nat /\ IsRun(c, pay) /\ n \in Nat
  BY <1>1, <1>3, RequestFacts, HistoryFacts
<1>7. /\ HistoryInv' /\ Unanswered' = n + 1
      /\ (\A i \in 1..n : Requested'[i] = Requested[i])
      /\ Requested'[n + 1] = ReqFrame(r)
  <2> HIDE DEF r
  <2> QED BY <1>1, <1>2, <1>3, SentGrows DEF n
<1>8. Requested[n + 1] = HeaderCells(r.head)
  <2>1. n + 1 \in 1..n + 1 /\ ~(n + 1 <= n)
    BY <1>6
  <2> QED BY <2>1 DEF Requested
<1>9. /\ Len(HeaderCells(r.head)) = HeaderSize /\ Len(ReqFrame(r)) = HeaderSize + pay
      /\ \A i \in 1..HeaderSize : ReqFrame(r)[i] = HeaderCells(r.head)[i]
      /\ \A i \in 1..pay : ReqFrame(r)[HeaderSize + i] = c[i]
  <2>1. IsRun(HeaderCells(r.head), HeaderSize)
    BY HeaderFacts
  <2> HIDE DEF r
  <2> QED BY <1>3, <2>1, RunFacts, ReqFrameFacts
<1> HIDE DEF c, pay, n, r
<1>10. Len(c) = pay
  BY <1>6, RunFacts
<1>11. IsRing(g2h') /\ Holds(g2h', n + 1, Requested')
  <2>1. Len(c) \in Nat /\ Len(c) <= Free(g2h)
    BY <1>3, <1>6, <1>10
  <2>2. IsRing(g2h')
    BY <1>2, <1>5, <2>1, PushFacts
  <2> DEFINE m == n + 1
             F == Requested
             G == Requested'
  <2>3. m \in Nat \ {0} /\ m - 1 = n
    BY <1>6
  <2>4. /\ Len(G[m]) = Len(F[m]) + Len(c)
        /\ \A j \in 1..Len(F[m]) : G[m][j] = F[m][j]
        /\ \A j \in 1..Len(c) : G[m][Len(F[m]) + j] = c[j]
    BY <1>7, <1>8, <1>9, <1>10
  <2>5. (\A i \in 1..m - 1 : G[i] = F[i]) /\ Holds(g2h, m, F)
    BY <1>5, <1>7, <2>3
  <2> HIDE DEF m, F, G
  <2>6. Holds(Push(g2h, c), m, G)
    BY <1>5, <2>1, <2>3, <2>4, <2>5, HoldsExtend
  <2> QED BY <1>2, <2>2, <2>6 DEF m, G
<1>12. RequestedCount' = n + 1
  BY <1>4, <1>7 DEF RequestedCount
<1>13. IsRing(h2g') /\ Holds(h2g', Untaken', Answered')
  <2>1. guest'.at = "bell"
    BY <1>4
  <2> QED BY <1>1, <1>2, <2>1, AnsweredSame
<1>14. GuestInv'
  BY <1>4 DEF GuestInv
<1>15. DiskInv'
  BY <1>1, <1>2 DEF DiskInv
<1> QED BY <1>2, <1>5, <1>7, <1>11, <1>12, <1>13, <1>14, <1>15 DEF CInv, RingsInv

LEMMA RingDoorbellStep ==
  ASSUME CInv, RingDoorbell
  PROVE  CInv'
<1>1. DiskInv /\ HistoryInv /\ GuestInv /\ RingsInv
  BY DEF CInv
<1>2. /\ guest.at = "bell" /\ guest' = Idle
      /\ UNCHANGED <<g2h, h2g, overflow, store, failNext, broken, sent, answers, got>>
  BY DEF RingDoorbell, diskVars
<1>3. guest'.at = "idle"
  BY <1>2 DEF Idle
<1>4. DiskInv' /\ HistoryInv'
  BY <1>1, <1>2 DEF DiskInv, HistoryInv, Carried, Answers
<1>5. GuestInv'
  BY <1>2 DEF GuestInv, Idle
<1>6. IsRing(g2h') /\ Holds(g2h', RequestedCount', Requested')
  BY <1>1, <1>2, <1>3, RequestedSame
<1>7. IsRing(h2g') /\ Holds(h2g', Untaken', Answered')
  BY <1>1, <1>2, <1>3, AnsweredSame
<1> QED BY <1>1, <1>2, <1>4, <1>5, <1>6, <1>7 DEF CInv, RingsInv

(* One more answer taken.                                                  *)
LEMMA GotGrows ==
  ASSUME HistoryInv, Untaken >= 1, got' = Append(got, answers[Len(got) + 1]),
         UNCHANGED <<sent, answers>>, guest'.at # "body"
  PROVE  /\ HistoryInv' /\ Untaken' = Untaken - 1 /\ Len(got') = Len(got) + 1
         /\ \A i \in 1..Untaken - 1 : Answered'[i] = Answered[i + 1]
<1> DEFINE a == answers[Len(got) + 1]
<1>1. /\ Len(got) \in Nat /\ Len(answers) \in Nat /\ Untaken \in Nat
      /\ a \in AnswerSet /\ Len(got) + 1 \in 1..Len(answers)
  BY HistoryFacts
<1>2. /\ got' \in Seq(AnswerSet) /\ Len(got') = Len(got) + 1
      /\ \A i \in 1..Len(got) : got'[i] = got[i]
      /\ got'[Len(got) + 1] = a
  <2>1. got' = Append(got, a) /\ got \in Seq(AnswerSet)
    BY DEF HistoryInv
  <2> HIDE DEF a
  <2> QED BY <1>1, <2>1, AppendFacts
<1>3. Untaken' = Untaken - 1
  BY <1>1, <1>2 DEF Untaken
<1>4. HistoryInv'
  <2>1. \A i \in 1..Len(got') : i \in 1..Len(got) \/ i = Len(got) + 1
    BY <1>1, <1>2
  <2>2. \A i \in 1..Len(got') : got'[i] = answers[i]
    BY <1>2, <2>1 DEF HistoryInv
  <2>3. Len(got') <= Len(answers)
    BY <1>1, <1>2
  <2> QED BY <1>2, <2>2, <2>3 DEF HistoryInv, Carried, Answers
<1>5. ASSUME NEW i \in 1..Untaken - 1 PROVE Answered'[i] = Answered[i + 1]
  <2>1. /\ i + 1 \in 1..Untaken /\ i + 1 # 1 /\ i \in 1..Untaken'
        /\ Len(got') + i = Len(got) + (i + 1)
    BY <1>1, <1>2, <1>3
  <2>2. Answered'[i] = AnsFrame(answers[Len(got') + i])
    BY <2>1 DEF Answered
  <2>3. Answered[i + 1] = AnsFrame(answers[Len(got) + (i + 1)])
    BY <2>1 DEF Answered
  <2> QED BY <2>1, <2>2, <2>3
<1> QED BY <1>2, <1>3, <1>4, <1>5

(* What the guest takes is the next answer.                                *)
LEMMA TakesNext ==
  ASSUME CInv, guest.at = "idle", Takes
  PROVE  /\ Untaken >= 1 /\ answers[Len(got) + 1] \in AnswerSet
         /\ HeaderAt(h2g) = answers[Len(got) + 1].head
         /\ ~Malformed(answers[Len(got) + 1].head)
<1>1. HistoryInv /\ GuestInv /\ RingsInv
  BY DEF CInv
<1>2. Untaken \in Nat /\ (Untaken >= 1 => answers[Len(got) + 1] \in AnswerSet)
  BY <1>1, HistoryFacts
<1>3. Untaken >= 1
  <2>1. ~(Used(h2g) = 0)
    BY ChannelAssumption DEF Takes
  <2> QED BY <1>1, <1>2, <2>1, AnswerFront
<1> DEFINE a == answers[Len(got) + 1]
<1>4. a \in AnswerSet /\ HeaderAt(h2g) = a.head
  BY <1>1, <1>2, <1>3, AnswerFront
<1> HIDE DEF a
<1>5. ~Malformed(a.head)
  <2>1. a.head.op \in Ops /\ FitsRing(ReplyPayload(a.head))
    BY <1>4, AnswerFacts
  <2> QED BY <2>1 DEF Malformed, Ops
<1> QED BY <1>3, <1>4, <1>5 DEF a

(* An answer whose payload is empty has no data.                           *)
LEMMA EmptyAnswer ==
  ASSUME NEW a \in AnswerSet, ReplyPayload(a.head) = 0
  PROVE  a = [head |-> a.head, data |-> <<>>] /\ Len(AnsFrame(a)) = HeaderSize
<1>1. /\ a = [head |-> a.head, data |-> a.data] /\ a.data \in Seq(Contents \cup {CapacityBlocks})
      /\ IsRun(a.data, AnswerLength(a.head)) /\ Width(a.head.op) \in Nat \ {0}
      /\ ReplyPayload(a.head) = AnswerLength(a.head) * Width(a.head.op)
  BY AnswerFacts
<1>2. AnswerLength(a.head) = 0
  <2> DEFINE l == AnswerLength(a.head)
             w == Width(a.head.op)
  <2>1. l \in Nat /\ w \in Nat \ {0} /\ l * w = 0
    BY <1>1 DEF IsRun
  <2> HIDE DEF l, w
  <2>2. l = 0
    BY <2>1, Products
  <2> QED BY <2>2 DEF l
<1>3. Len(a.data) = 0
  BY <1>1, <1>2, RunFacts
<1>4. a.data = <<>>
  BY <1>1, <1>3, EmptySeq
<1>5. Len(AnsFrame(a)) = HeaderSize
  <2>1. Len(AnsFrame(a)) = HeaderSize + 0
    BY AnsFrameFacts
  <2> QED BY <2>1, ChannelAssumption
<1> QED BY <1>1, <1>4, <1>5

LEMMA TakeHeaderStep ==
  ASSUME CInv, TakeHeader
  PROVE  CInv' /\ (got' = got \/ got' = Append(got, answers[Len(got) + 1]))
<1>1. DiskInv /\ HistoryInv /\ GuestInv /\ RingsInv
  BY DEF CInv
<1>2. /\ guest.at = "idle" /\ Takes /\ h2g' = Drop(h2g, HeaderSize)
      /\ UNCHANGED <<g2h, overflow, store, failNext, broken, sent, answers>>
  BY DEF TakeHeader, diskVars
<1> DEFINE a == answers[Len(got) + 1]
<1>3. /\ Untaken >= 1 /\ a \in AnswerSet
      /\ HeaderAt(h2g) = a.head /\ ~Malformed(a.head)
  BY <1>2, TakesNext
<1>4. /\ ReplyPayload(a.head) = 0 => /\ got' = Append(got, [head |-> a.head, data |-> <<>>])
                                     /\ guest' = guest
      /\ ReplyPayload(a.head) # 0 => /\ guest' = [guest EXCEPT !.at = "body", !.response = a.head]
                                     /\ got' = got
  <2> HIDE DEF a
  <2> QED BY <1>3 DEF TakeHeader
<1>5. /\ IsRing(h2g) /\ Holds(h2g, Untaken, Answered) /\ overflow = FALSE
      /\ Untaken \in Nat \ {0} /\ Answered[1] = AnsFrame(a)
  <2>1. Untaken \in Nat \ {0}
    BY <1>1, <1>3, HistoryFacts
  <2>2. 1 \in 1..Untaken
    BY <2>1
  <2> QED BY <1>1, <1>2, <2>1, <2>2 DEF RingsInv, Answered
<1>6. DiskInv'
  BY <1>1, <1>2 DEF DiskInv
<1>7. guest'.at # "payload" /\ guest.at # "payload" /\ guest.at # "body"
  BY <1>1, <1>2, <1>4 DEF GuestInv
<1>8. IsRing(g2h') /\ Holds(g2h', RequestedCount', Requested')
  BY <1>1, <1>2, <1>7, RequestedSame
<1>9. /\ Len(AnsFrame(a)) = HeaderSize + ReplyPayload(a.head) /\ ReplyPayload(a.head) \in Nat
      /\ HeaderSize \in Nat
      /\ \A i \in 1..ReplyPayload(a.head) : AnsFrame(a)[HeaderSize + i] = AnsData(a)[i]
      /\ Len(AnsData(a)) = ReplyPayload(a.head)
  <2> HIDE DEF a
  <2>1. ReplyPayload(a.head) \in Nat /\ IsRun(AnsData(a), ReplyPayload(a.head))
    BY <1>3, AnswerFacts
  <2>2. Len(AnsData(a)) = ReplyPayload(a.head)
    BY <2>1, RunFacts
  <2> QED BY <1>3, <2>1, <2>2, AnsFrameFacts, ChannelAssumption
<1>10. IsRing(h2g')
  <2>1. /\ Len(Answered[1]) \in 0..Used(h2g) /\ Used(h2g) \in Nat
    <3> DEFINE k == Untaken
    <3>1. k \in Nat \ {0} /\ Holds(h2g, k, Answered)
      BY <1>5
    <3> HIDE DEF k
    <3> QED BY <1>5, <3>1, HoldsFirst, UsedFacts DEF Positions
  <2>2. HeaderSize \in 0..Used(h2g)
    BY <1>5, <1>9, <2>1
  <2> QED BY <1>2, <1>5, <2>2, DropFacts
<1>11. CASE ReplyPayload(a.head) = 0
  <2>1. got' = Append(got, a) /\ guest' = guest /\ Len(AnsFrame(a)) = HeaderSize
    <3> HIDE DEF a
    <3> QED BY <1>3, <1>4, <1>11, EmptyAnswer
  <2>2. /\ HistoryInv' /\ Untaken' = Untaken - 1
        /\ \A i \in 1..Untaken - 1 : Answered'[i] = Answered[i + 1]
    BY <1>1, <1>2, <1>3, <1>7, <2>1, GotGrows
  <2>3. Holds(h2g', Untaken', Answered')
    <3> DEFINE k == Untaken
               F == Answered
               G == Answered'
    <3>1. /\ k \in Nat \ {0} /\ Holds(h2g, k, F) /\ \A i \in 1..k - 1 : G[i] = F[i + 1]
      BY <1>5, <2>2
    <3>2. Len(F[1]) = HeaderSize /\ Untaken' = k - 1
      BY <1>5, <2>1, <2>2
    <3> HIDE DEF k, F, G
    <3>3. Holds(Drop(h2g, Len(F[1])), k - 1, G)
      BY <1>5, <3>1, HoldsDrop
    <3> QED BY <1>2, <3>2, <3>3 DEF G
  <2>4. GuestInv'
    BY <1>1, <1>2, <2>1 DEF GuestInv
  <2> QED BY <1>2, <1>5, <1>6, <1>8, <1>10, <2>1, <2>2, <2>3, <2>4 DEF CInv, RingsInv
<1>12. CASE ReplyPayload(a.head) # 0
  <2>1. guest' = [at |-> "body", request |-> guest.request, response |-> a.head] /\ got' = got
    BY <1>1, <1>4, <1>12 DEF GuestInv
  <2>2. HistoryInv'
    BY <1>1, <1>2, <2>1 DEF HistoryInv, Carried, Answers
  <2>3. Untaken' = Untaken
    BY <1>2, <2>1 DEF Untaken
  <2>4. Answered'[1] = AnsData(a) /\ \A i \in 2..Untaken : Answered'[i] = Answered[i]
    <3>1. 1 \in 1..Untaken /\ \A i \in 2..Untaken : i \in 1..Untaken /\ i # 1
      BY <1>5
    <3>2. Answered'[1] = AnsData(a)
      BY <1>2, <2>1, <2>3, <3>1 DEF Answered
    <3>3. \A i \in 2..Untaken : Answered'[i] = AnsFrame(answers[Len(got) + i])
                                /\ Answered[i] = AnsFrame(answers[Len(got) + i])
      BY <1>2, <2>1, <2>3, <3>1 DEF Answered
    <3> QED BY <3>2, <3>3
  <2>5. Holds(h2g', Untaken', Answered')
    <3> DEFINE k == Untaken
               F == Answered
               G == Answered'
               f == AnsFrame(a)
               d == AnsData(a)
    <3>1. /\ k \in Nat \ {0} /\ Holds(h2g, k, F) /\ F[1] = f /\ G[1] = d
          /\ \A i \in 2..k : G[i] = F[i]
      BY <1>5, <2>4
    <3> HIDE DEF k, F, G, f, d
    <3>2. /\ HeaderSize \in 0..Len(F[1]) /\ Len(G[1]) = Len(F[1]) - HeaderSize
          /\ \A j \in 1..Len(F[1]) - HeaderSize : G[1][j] = F[1][HeaderSize + j]
      <4> DEFINE pay == ReplyPayload(a.head)
      <4>1. /\ Len(f) = HeaderSize + pay /\ Len(d) = pay /\ pay \in Nat /\ HeaderSize \in Nat
            /\ \A i \in 1..pay : f[HeaderSize + i] = d[i]
        BY <1>9 DEF f, d
      <4> HIDE DEF pay
      <4>2. Len(f) - HeaderSize = pay /\ HeaderSize \in 0..Len(f)
        BY <4>1
      <4> QED BY <3>1, <4>1, <4>2
    <3>3. Holds(Drop(h2g, HeaderSize), k, G)
      BY <1>5, <3>1, <3>2, HoldsSplit
    <3> QED BY <1>2, <2>3, <3>3 DEF k, G
  <2>6. GuestInv'
    <3>1. Len(got) < Len(answers)
      BY <1>1, <1>3, HistoryFacts DEF Untaken
    <3> HIDE DEF a
    <3>2. a = (answers[Len(got) + 1])'
      BY <1>2, <2>1 DEF a
    <3> QED BY <1>2, <1>12, <2>1, <3>1, <3>2 DEF GuestInv
  <2> QED BY <1>2, <1>5, <1>6, <1>8, <1>10, <2>1, <2>2, <2>5, <2>6 DEF CInv, RingsInv
<1> QED BY <1>11, <1>12

LEMMA TakeBodyStep ==
  ASSUME CInv, TakeBody
  PROVE  CInv' /\ got' = Append(got, answers[Len(got) + 1]) /\ Untaken >= 1
<1>1. DiskInv /\ HistoryInv /\ GuestInv /\ RingsInv
  BY DEF CInv
<1> DEFINE a == answers[Len(got) + 1]
           n == ReplyPayload(a.head)
<1>2. /\ guest.at = "body" /\ guest' = Idle
      /\ UNCHANGED <<g2h, overflow, store, failNext, broken, sent, answers>>
  BY DEF TakeBody, diskVars
<1>3. Len(got) < Len(answers) /\ guest.response = a.head
  BY <1>1, <1>2 DEF GuestInv
<1>4. Untaken >= 1 /\ Untaken \in Nat /\ a \in AnswerSet
  BY <1>1, <1>3, HistoryFacts DEF Untaken
<1>5. /\ Peek(h2g, 0, n) = AnsData(a) /\ n <= Used(h2g)
  BY <1>1, <1>2, <1>4, AnswerFront
<1>6. got' = Append(got, a) /\ h2g' = Drop(h2g, n)
  <2> HIDE DEF a
  <2>1. /\ got' = Append(got, [head |-> a.head,
                               data |-> DecodeData(Peek(h2g, 0, n), Width(a.head.op))])
        /\ h2g' = Drop(h2g, n)
    BY <1>3 DEF TakeBody
  <2>2. DecodeData(AnsData(a), Width(a.head.op)) = a.data
    <3> DEFINE w == Width(a.head.op)
               l == AnswerLength(a.head)
    <3>1. IsRun(a.data, l) /\ w \in Nat \ {0}
      BY <1>4, AnswerFacts
    <3>2. AnsData(a) = DataCells(a.data, w)
      BY DEF AnsData
    <3> HIDE DEF w, l
    <3>3. DecodeData(DataCells(a.data, w), w) = a.data
      BY <3>1, DecodeDataFacts
    <3> QED BY <3>2, <3>3 DEF w
  <2>3. a = [head |-> a.head, data |-> a.data]
    BY <1>4, AnswerFacts
  <2> HIDE DEF n
  <2> QED BY <1>5, <2>1, <2>2, <2>3
<1>7. guest'.at = "idle"
  BY <1>2 DEF Idle
<1>8. /\ HistoryInv' /\ Untaken' = Untaken - 1
      /\ \A i \in 1..Untaken - 1 : Answered'[i] = Answered[i + 1]
  BY <1>1, <1>2, <1>4, <1>6, <1>7, GotGrows
<1>9. /\ IsRing(h2g) /\ Holds(h2g, Untaken, Answered) /\ overflow = FALSE
      /\ Answered[1] = AnsData(a)
  <2>1. 1 \in 1..Untaken
    BY <1>4
  <2> QED BY <1>1, <1>2, <2>1 DEF RingsInv, Answered
<1>10. n \in Nat /\ Len(AnsData(a)) = n /\ Used(h2g) \in Nat
  <2> HIDE DEF a
  <2>1. IsRun(AnsData(a), n) /\ n \in Nat
    BY <1>4, AnswerFacts
  <2> HIDE DEF n
  <2>2. Len(AnsData(a)) = n
    BY <2>1, RunFacts
  <2>3. Used(h2g) \in Nat
    BY <1>9, UsedFacts DEF Positions
  <2> QED BY <2>1, <2>2, <2>3
<1>11. IsRing(h2g') /\ Holds(h2g', Untaken', Answered')
  <2> HIDE DEF n
  <2>1. IsRing(h2g')
    BY <1>5, <1>6, <1>9, <1>10, DropFacts
  <2> DEFINE k == Untaken
             F == Answered
             G == Answered'
  <2>2. k \in Nat \ {0} /\ Holds(h2g, k, F) /\ \A i \in 1..k - 1 : G[i] = F[i + 1]
    BY <1>4, <1>8, <1>9
  <2>3. Len(F[1]) = n /\ Untaken' = k - 1
    BY <1>8, <1>9, <1>10
  <2> HIDE DEF k, F, G
  <2>4. Holds(Drop(h2g, Len(F[1])), k - 1, G)
    BY <1>9, <2>2, HoldsDrop
  <2> QED BY <1>6, <2>1, <2>3, <2>4 DEF G
<1>12. IsRing(g2h') /\ Holds(g2h', RequestedCount', Requested')
  BY <1>1, <1>2, <1>7, RequestedSame
<1>13. DiskInv' /\ GuestInv'
  BY <1>1, <1>2 DEF DiskInv, GuestInv, Idle
<1> QED BY <1>2, <1>4, <1>6, <1>8, <1>9, <1>11, <1>12, <1>13 DEF CInv, RingsInv

(* One more answer given.                                                  *)
LEMMA AnswersGrow ==
  ASSUME HistoryInv, GuestInv, Unanswered >= 1, NEW a \in AnswerSet,
         Answers(a, sent[Len(answers) + 1]), answers' = Append(answers, a),
         UNCHANGED <<sent, got, guest>>
  PROVE  /\ HistoryInv' /\ Unanswered' = Unanswered - 1 /\ Untaken' = Untaken + 1
         /\ RequestedCount \in Nat \ {0} /\ RequestedCount' = RequestedCount - 1
         /\ \A i \in 1..RequestedCount - 1 : Requested'[i] = Requested[i + 1]
         /\ \A i \in 1..Untaken : Answered'[i] = Answered[i]
         /\ Answered'[Untaken + 1] = AnsFrame(a)
         /\ Untaken >= 1 => answers'[Len(got) + 1] = answers[Len(got) + 1]
<1>1. /\ Len(sent) \in Nat /\ Len(answers) \in Nat /\ Len(got) \in Nat
      /\ Unanswered \in Nat /\ Untaken \in Nat
  BY HistoryFacts
<1>2. /\ answers' \in Seq(AnswerSet) /\ Len(answers') = Len(answers) + 1
      /\ \A i \in 1..Len(answers) : answers'[i] = answers[i]
      /\ answers'[Len(answers) + 1] = a
  BY AppendFacts DEF HistoryInv
<1>3. Unanswered' = Unanswered - 1 /\ Untaken' = Untaken + 1
  BY <1>1, <1>2 DEF Unanswered, Untaken
<1>4. HistoryInv'
  <2>1. \A i \in 1..Len(answers') : i \in 1..Len(answers) \/ i = Len(answers) + 1
    BY <1>1, <1>2
  <2>2. \A i \in 1..Len(answers') : Answers(answers'[i], sent[i])
    BY <1>2, <2>1 DEF HistoryInv
  <2>3. \A i \in 1..Len(got) : got[i] = answers'[i]
    <3>1. \A i \in 1..Len(got) : i \in 1..Len(answers)
      BY <1>1 DEF HistoryInv
    <3> QED BY <1>2, <3>1 DEF HistoryInv
  <2>4. Len(got) <= Len(answers') /\ Len(answers') <= Len(sent)
    BY <1>1, <1>2 DEF HistoryInv, Unanswered
  <2>5. /\ got \in Seq(AnswerSet) /\ sent \in Seq(RequestSet)
        /\ \A i \in 1..Len(sent) : Carried(sent[i])
    BY DEF HistoryInv
  <2> QED BY <1>2, <2>2, <2>3, <2>4, <2>5 DEF HistoryInv, Carried, Answers
<1>5. RequestedCount \in Nat \ {0} /\ RequestedCount' = RequestedCount - 1
  BY <1>1, <1>3 DEF RequestedCount
<1>6. ASSUME NEW i \in 1..RequestedCount - 1 PROVE Requested'[i] = Requested[i + 1]
  <2>1. /\ i \in 1..Unanswered' + 1 /\ i + 1 \in 1..Unanswered + 1
        /\ (i <= Unanswered' <=> i + 1 <= Unanswered) /\ Len(answers') + i = Len(answers) + (i + 1)
    BY <1>1, <1>2, <1>3 DEF RequestedCount
  <2>2. CASE i + 1 <= Unanswered
    <3>1. Requested'[i] = ReqFrame(sent[Len(answers') + i])
      BY <2>1, <2>2 DEF Requested
    <3>2. Requested[i + 1] = ReqFrame(sent[Len(answers) + (i + 1)])
      BY <2>1, <2>2 DEF Requested
    <3> QED BY <2>1, <3>1, <3>2
  <2>3. CASE ~(i + 1 <= Unanswered)
    BY <2>1, <2>3 DEF Requested
  <2> QED BY <2>2, <2>3
<1>7. \A i \in 1..Untaken : Answered'[i] = Answered[i]
  <2> TAKE i \in 1..Untaken
  <2>1. i \in 1..Untaken' /\ Len(got) + i \in 1..Len(answers) /\ Len(got) + 1 \in 1..Len(answers)
    BY <1>1, <1>3 DEF Untaken
  <2>2. /\ answers'[Len(got) + i] = answers[Len(got) + i]
        /\ answers'[Len(got) + 1] = answers[Len(got) + 1]
    BY <1>2, <2>1
  <2>3. CASE i = 1 /\ guest.at = "body"
    <3>1. /\ Answered'[i] = AnsData(answers'[Len(got) + 1])
          /\ Answered[i] = AnsData(answers[Len(got) + 1])
      BY <2>1, <2>3 DEF Answered
    <3> QED BY <2>2, <3>1
  <2>4. CASE ~(i = 1 /\ guest.at = "body")
    <3>1. /\ Answered'[i] = AnsFrame(answers'[Len(got) + i])
          /\ Answered[i] = AnsFrame(answers[Len(got) + i])
      BY <2>1, <2>4 DEF Answered
    <3> QED BY <2>2, <3>1
  <2> QED BY <2>3, <2>4
<1>8. Answered'[Untaken + 1] = AnsFrame(a)
  <2>1. /\ Untaken + 1 \in 1..Untaken' /\ Len(got) + (Untaken + 1) = Len(answers) + 1
        /\ ~(Untaken + 1 = 1 /\ guest.at = "body")
    BY <1>1, <1>3 DEF Untaken, GuestInv
  <2>2. Answered'[Untaken + 1] = AnsFrame(answers'[Len(got) + (Untaken + 1)])
    BY <2>1 DEF Answered
  <2> QED BY <1>2, <2>1, <2>2
<1>9. Untaken >= 1 => answers'[Len(got) + 1] = answers[Len(got) + 1]
  <2>1. Untaken >= 1 => Len(got) + 1 \in 1..Len(answers)
    BY <1>1 DEF Untaken
  <2> QED BY <1>2, <2>1
<1> QED BY <1>3, <1>4, <1>5, <1>6, <1>7, <1>8, <1>9

(* The disk after a request is a disk.                                     *)
LEMMA AccessKeepsDisk ==
  ASSUME DiskInv, NEW r \in RequestSet, NEW outcome, Access(r.head, r.data, outcome)
  PROVE  store' \in [0..CapacityBlocks - 1 -> Contents] /\ broken' \in BOOLEAN
<1> DEFINE blocks == r.head.lba .. r.head.lba + r.head.count - 1
           writes == Reaches(r.head) /\ r.head.op = "WRITE" /\ outcome # "unable" /\ ~broken
           after(state) ==
             [b \in DOMAIN store |->
                IF b \notin blocks \/ state[b] = "old" THEN store[b]
                ELSE IF state[b] = "new" THEN r.data[b - r.head.lba + 1] ELSE Torn]
<1>1. /\ r.head \in [op : Ops, status : {"none"}, tag : Nat, lba : Nat, count : Nat]
      /\ r.data \in Seq(Values)
      /\ IsRun(r.data, IF r.head.op = "WRITE" THEN r.head.count ELSE 0)
  BY RequestFacts
<1>2. DOMAIN store = 0..CapacityBlocks - 1 /\ \A b \in DOMAIN store : store[b] \in Contents
  BY DEF DiskInv
<1>3. broken' \in BOOLEAN
  BY DEF Access, DiskInv
<1>4. (writes => \E state : store' = after(state)) /\ (~writes => store' = store)
  BY DEF Access
<1>5. ASSUME NEW state, writes PROVE after(state) \in [0..CapacityBlocks - 1 -> Contents]
  <2>1. Len(r.data) = r.head.count
    BY <1>1, <1>5, RunFacts
  <2>2. ASSUME NEW b \in blocks PROVE r.data[b - r.head.lba + 1] \in Values
    <3>1. b - r.head.lba + 1 \in 1..Len(r.data)
      BY <1>1, <2>1
    <3> QED BY <1>1, <3>1, ElementOfSeq
  <2>3. ASSUME NEW b \in DOMAIN store
        PROVE  (IF b \notin blocks \/ state[b] = "old" THEN store[b]
                ELSE IF state[b] = "new" THEN r.data[b - r.head.lba + 1] ELSE Torn) \in Contents
    <3>1. store[b] \in Contents /\ Torn \in Contents
      BY <1>2 DEF Contents
    <3>2. b \in blocks => r.data[b - r.head.lba + 1] \in Contents
      BY <2>2 DEF Contents
    <3> HIDE DEF blocks
    <3> QED BY <3>1, <3>2
  <2> HIDE DEF blocks
  <2> QED BY <1>2, <2>3
<1>6. store \in [0..CapacityBlocks - 1 -> Contents]
  BY DEF DiskInv
<1> HIDE DEF writes, after
<1> QED BY <1>3, <1>4, <1>5, <1>6

\* One round of the service, with what it reads and writes named.
Serves(r, outcome, a) ==
  /\ Unanswered >= 1 /\ r = sent[Len(answers) + 1]
  /\ r \in RequestSet /\ Carried(r)
  /\ outcome \in Outcomes(r.head) /\ a = Answer(r.head, outcome)
  /\ g2h' = Drop(g2h, HeaderSize + RequestPayload(r.head))
  /\ Access(r.head, r.data, outcome)
  /\ h2g' = Push(h2g, AnsFrame(a)) /\ overflow' = FALSE
  /\ a \in AnswerSet /\ Answers(a, r) /\ Len(AnsFrame(a)) \in Nat /\ Len(AnsFrame(a)) <= Free(h2g)
  /\ answers' = Append(answers, a)
  /\ failNext' = (failNext /\ ~Faulted(r.head))
  /\ UNCHANGED <<guest, sent, got, faults>>

LEMMA ServeMeans ==
  ASSUME CInv, Serve
  PROVE  \E outcome : Serves(Oldest, outcome, Answer(Oldest.head, outcome))
<1>1. DiskInv /\ HistoryInv /\ GuestInv /\ RingsInv
  BY DEF CInv
<1>2. CanServe
  BY DEF Serve
<1> DEFINE r == Oldest
<1>3. /\ Unanswered >= 1 /\ r = sent[Len(answers) + 1] /\ r \in RequestSet /\ Carried(r)
      /\ FrameLength(r.head) = HeaderSize + RequestPayload(r.head)
  BY <1>1, <1>2, ServedIsOldest
<1>4. PICK outcome \in Outcomes(r.head) :
        LET a == Answer(r.head, outcome)
        IN  /\ g2h' = Drop(g2h, FrameLength(r.head))
            /\ Access(r.head, r.data, outcome)
            /\ Publish(HeaderCells(a.head) \o DataCells(a.data, Width(a.head.op)))
            /\ answers' = Append(answers, a)
            /\ failNext' = (failNext /\ ~Faulted(r.head))
  <2> HIDE DEF r
  <2>1. \E request \in {r} : \E outcome \in Outcomes(request.head) :
          \E answer \in {Answer(request.head, outcome)} :
            /\ g2h' = Drop(g2h, FrameLength(request.head))
            /\ Access(request.head, request.data, outcome)
            /\ Publish(HeaderCells(answer.head) \o DataCells(answer.data, Width(answer.head.op)))
            /\ answers' = Append(answers, answer)
            /\ failNext' = (failNext /\ ~Faulted(request.head))
    BY DEF Serve, r
  <2> QED BY <2>1, Zenon
<1> DEFINE a == Answer(r.head, outcome)
           f == AnsFrame(a)
<1>5. /\ a \in AnswerSet /\ Len(f) \in Nat /\ Len(f) <= Free(h2g)
      /\ f = HeaderCells(a.head) \o DataCells(a.data, Width(a.head.op))
  BY <1>1, <1>2, AnswerFits
<1>6. Answers(a, r)
  <2> HIDE DEF r
  <2> QED BY <1>1, <1>3, AnswerIsAnswer
<1>7. h2g' = Push(h2g, f) /\ overflow' = FALSE
  <2>1. Publish(f)
    BY <1>4, <1>5
  <2>2. overflow = FALSE /\ Free(h2g) \in Int
    <3>1. IsRing(h2g)
      BY <1>1 DEF RingsInv
    <3>2. Used(h2g) \in Positions /\ Free(h2g) = RingSize - 1 - Used(h2g)
      BY <3>1, UsedFacts
    <3> QED BY <1>1, <3>2, ChannelAssumption DEF Positions, RingsInv
  <2> HIDE DEF f
  <2>3. ~(Len(f) > Free(h2g))
    BY <1>5, <2>2
  <2>4. overflow' = (overflow \/ Len(f) > Free(h2g)) /\ h2g' = Push(h2g, f)
    BY <2>1 DEF Publish
  <2>5. (overflow \/ Len(f) > Free(h2g)) = FALSE
    BY <2>2, <2>3, Zenon
  <2> QED BY <2>4, <2>5, Zenon
<1>8. UNCHANGED <<guest, sent, got, faults>>
  BY DEF Serve
<1>9. Serves(r, outcome, a)
  <2> HIDE DEF r, f
  <2>1. /\ g2h' = Drop(g2h, FrameLength(r.head)) /\ Access(r.head, r.data, outcome)
        /\ answers' = Append(answers, a) /\ failNext' = (failNext /\ ~Faulted(r.head))
    BY <1>4
  <2> HIDE DEF a
  <2>2. f = AnsFrame(a)
    BY DEF f
  <2>3. a = Answer(r.head, outcome)
    BY DEF a
  <2> QED BY <1>3, <1>4, <1>5, <1>6, <1>7, <1>8, <2>1, <2>2, <2>3 DEF Serves
<1> QED BY <1>9

LEMMA ServesStep ==
  ASSUME CInv, NEW r, NEW outcome, NEW a, Serves(r, outcome, a)
  PROVE  CInv'
<1>1. DiskInv /\ HistoryInv /\ GuestInv /\ RingsInv
  BY DEF CInv
<1> DEFINE pay == RequestPayload(r.head)
           f == AnsFrame(a)
<1>2. /\ Unanswered >= 1 /\ r = sent[Len(answers) + 1] /\ r \in RequestSet /\ Carried(r)
      /\ a \in AnswerSet /\ Answers(a, r) /\ Len(f) \in Nat /\ Len(f) <= Free(h2g)
      /\ g2h' = Drop(g2h, HeaderSize + pay) /\ h2g' = Push(h2g, f) /\ overflow' = FALSE
      /\ answers' = Append(answers, a) /\ Access(r.head, r.data, outcome)
      /\ failNext' = (failNext /\ ~Faulted(r.head))
      /\ UNCHANGED <<guest, sent, got>>
  BY DEF Serves
<1> HIDE DEF f
<1>3. /\ HistoryInv' /\ Unanswered' = Unanswered - 1 /\ Untaken' = Untaken + 1
      /\ RequestedCount \in Nat \ {0} /\ RequestedCount' = RequestedCount - 1
      /\ \A i \in 1..RequestedCount - 1 : Requested'[i] = Requested[i + 1]
      /\ \A i \in 1..Untaken : Answered'[i] = Answered[i]
      /\ Answered'[Untaken + 1] = f
      /\ Untaken >= 1 => answers'[Len(got) + 1] = answers[Len(got) + 1]
  BY <1>1, <1>2, AnswersGrow DEF f
<1>4. /\ IsRing(g2h) /\ Holds(g2h, RequestedCount, Requested)
      /\ IsRing(h2g) /\ Holds(h2g, Untaken, Answered)
  BY <1>1 DEF RingsInv
<1>5. Len(Requested[1]) = HeaderSize + pay /\ pay \in Nat /\ HeaderSize \in Nat
  <2>1. 1 \in 1..Unanswered + 1 /\ 1 <= Unanswered
    BY <1>1, <1>2, HistoryFacts
  <2>2. Requested[1] = ReqFrame(r)
    BY <1>2, <2>1 DEF Requested
  <2> QED BY <1>2, <2>2, ReqFrameFacts, RequestFacts, ChannelAssumption
<1>6. /\ IsRing(g2h') /\ Holds(g2h', RequestedCount', Requested')
      /\ Used(g2h') = Used(g2h) - (HeaderSize + pay) /\ Used(g2h) \in Int
  <2> DEFINE k == RequestedCount
             F == Requested
             G == Requested'
             l == HeaderSize + pay
  <2>1. k \in Nat \ {0} /\ Holds(g2h, k, F) /\ (\A i \in 1..k - 1 : G[i] = F[i + 1])
    BY <1>3, <1>4
  <2>2. Len(F[1]) = l
    BY <1>5
  <2>3. g2h' = Drop(g2h, l) /\ RequestedCount' = k - 1
    BY <1>2, <1>3
  <2> HIDE DEF k, F, G, l
  <2>4. l \in 0..Used(g2h)
    BY <1>4, <2>1, <2>2, HoldsFirst
  <2>5. IsRing(g2h') /\ Used(g2h') = Used(g2h) - l
    BY <1>4, <2>3, <2>4, DropFacts
  <2>6. Holds(g2h', k - 1, G)
    BY <1>4, <2>1, <2>2, <2>3, HoldsDrop
  <2>7. Used(g2h) \in Int
    BY <1>4, UsedFacts DEF Positions
  <2> QED BY <2>3, <2>5, <2>6, <2>7 DEF G, l
<1>7. IsRing(h2g') /\ Holds(h2g', Untaken', Answered')
  <2>1. IsRing(h2g')
    BY <1>2, <1>4, PushFacts
  <2>2. Untaken \in Nat
    BY <1>1, HistoryFacts
  <2> DEFINE k == Untaken
             F == Answered
             G == Answered'
  <2>3. /\ k \in Nat /\ Holds(h2g, k, F) /\ (\A i \in 1..k : G[i] = F[i]) /\ G[k + 1] = f
        /\ Untaken' = k + 1
    BY <1>3, <1>4, <2>2
  <2> HIDE DEF k, F, G
  <2>4. Holds(Push(h2g, f), k + 1, G)
    BY <1>2, <1>4, <2>3, HoldsPush
  <2> QED BY <1>2, <2>1, <2>3, <2>4 DEF G
<1>8. GuestInv'
  <2>1. Free(g2h) <= Free(g2h') /\ Free(g2h) \in Int /\ Free(g2h') \in Int
    BY <1>5, <1>6, ChannelAssumption DEF Free
  <2>2. guest.at = "payload" =>
          /\ guest.request \in RequestSet /\ Carried(guest.request)
          /\ guest.request.head.op = "WRITE" /\ guest.request.head.count # 0
          /\ RequestPayload(guest.request.head) <= Free(g2h')
    <3>1. SUFFICES ASSUME guest.at = "payload"
                   PROVE  /\ guest.request \in RequestSet /\ Carried(guest.request)
                          /\ guest.request.head.op = "WRITE" /\ guest.request.head.count # 0
                          /\ RequestPayload(guest.request.head) <= Free(g2h')
      OBVIOUS
    <3>2. /\ guest.request \in RequestSet /\ Carried(guest.request)
          /\ guest.request.head.op = "WRITE" /\ guest.request.head.count # 0
          /\ RequestPayload(guest.request.head) <= Free(g2h)
      BY <1>1, <3>1 DEF GuestInv
    <3>3. RequestPayload(guest.request.head) \in Nat
      BY <3>2, RequestFacts
    <3> QED BY <2>1, <3>2, <3>3
  <2>3. guest.at = "body" =>
          /\ Len(got) < Len(answers') /\ guest.response = answers'[Len(got) + 1].head
          /\ ReplyPayload(guest.response) # 0
    <3>1. SUFFICES ASSUME guest.at = "body"
                   PROVE  /\ Len(got) < Len(answers')
                          /\ guest.response = answers'[Len(got) + 1].head
                          /\ ReplyPayload(guest.response) # 0
      OBVIOUS
    <3>2. /\ Len(got) < Len(answers) /\ guest.response = answers[Len(got) + 1].head
          /\ ReplyPayload(guest.response) # 0
      BY <1>1, <3>1 DEF GuestInv
    <3>3. Len(got) \in Nat /\ Len(answers) \in Nat /\ Len(got) <= Len(answers)
      BY <1>1, HistoryFacts DEF HistoryInv
    <3>4. Untaken >= 1 /\ Len(answers') \in Nat
      BY <1>3, <3>2, <3>3, LenProperties DEF Untaken, HistoryInv
    <3>5. Len(answers') = Len(answers) + 1
      <4>1. answers \in Seq(AnswerSet)
        BY <1>1 DEF HistoryInv
      <4> QED BY <1>2, <4>1, AppendFacts
    <3> QED BY <1>3, <3>2, <3>3, <3>4, <3>5
  <2>4. /\ guest = [at |-> guest.at, request |-> guest.request, response |-> guest.response]
        /\ guest.at \in {"idle", "payload", "bell", "body"}
    BY <1>1 DEF GuestInv
  <2> QED BY <1>2, <2>2, <2>3, <2>4 DEF GuestInv, Carried
<1>9. DiskInv'
  <2>1. store' \in [0..CapacityBlocks - 1 -> Contents] /\ broken' \in BOOLEAN
    BY <1>1, <1>2, AccessKeepsDisk
  <2>2. failNext' \in BOOLEAN
    BY <1>2
  <2> QED BY <2>1, <2>2 DEF DiskInv
<1> QED BY <1>2, <1>3, <1>6, <1>7, <1>8, <1>9 DEF CInv, RingsInv

(* The steps that move no cell.                                            *)
LEMMA QuietStep ==
  ASSUME CInv, UNCHANGED <<g2h, h2g, overflow, guest, store, broken, sent, answers, got>>,
         failNext' \in BOOLEAN
  PROVE  CInv'
<1>1. DiskInv /\ HistoryInv /\ GuestInv /\ RingsInv
  BY DEF CInv
<1>2. DiskInv' /\ HistoryInv'
  BY <1>1 DEF DiskInv, HistoryInv, Carried, Answers
<1>3. GuestInv'
  BY <1>1 DEF GuestInv, Carried
<1>4. IsRing(g2h') /\ Holds(g2h', RequestedCount', Requested')
  BY <1>1, RequestedSame
<1>5. IsRing(h2g') /\ Holds(h2g', Untaken', Answered')
  BY <1>1, AnsweredSame
<1> QED BY <1>1, <1>2, <1>3, <1>4, <1>5 DEF CInv, RingsInv

(* Everything but a submit: what the adapter's steps share with a client's. *)
LEMMA ChannelStepKeeps ==
  ASSUME CInv, SubmitPayload \/ RingDoorbell \/ TakeHeader \/ TakeBody \/ HostStep
               \/ InjectFault \/ UNCHANGED vars
  PROVE  CInv'
<1>1. CASE SubmitPayload BY <1>1, SubmitPayloadStep
<1>2. CASE RingDoorbell BY <1>2, RingDoorbellStep
<1>3. CASE TakeHeader BY <1>3, TakeHeaderStep
<1>4. CASE TakeBody BY <1>4, TakeBodyStep
<1>5. CASE Serve BY <1>5, ServeMeans, ServesStep
<1>6. CASE Break
  <2>1. UNCHANGED <<g2h, h2g, overflow, guest, store, broken, sent, answers, got, failNext>>
    BY <1>6 DEF Break, diskVars
  <2> QED BY <2>1, QuietStep DEF CInv, DiskInv
<1>7. CASE InjectFault
  <2>1. /\ UNCHANGED <<g2h, h2g, overflow, guest, store, broken, sent, answers, got>>
        /\ failNext' = TRUE
    BY <1>7 DEF InjectFault, ringVars
  <2> QED BY <2>1, QuietStep
<1>8. CASE UNCHANGED vars
  <2>1. UNCHANGED <<g2h, h2g, overflow, guest, store, broken, sent, answers, got, failNext>>
    BY <1>8 DEF vars, ringVars, diskVars
  <2> QED BY <2>1, QuietStep DEF CInv, DiskInv
<1> QED BY <1>1, <1>2, <1>3, <1>4, <1>5, <1>6, <1>7, <1>8 DEF HostStep

LEMMA ChannelInit ==
  ASSUME Init
  PROVE  CInv
<1>1. PICK start \in Starts : g2h = DrainedRing(start) /\ h2g = DrainedRing(start)
  BY DEF Init
<1>2. /\ overflow = FALSE /\ guest = Idle /\ store \in [0..CapacityBlocks - 1 -> Values]
      /\ failNext = FALSE /\ broken = FALSE /\ sent = <<>> /\ answers = <<>> /\ got = <<>>
  BY DEF Init
<1> DEFINE ring == DrainedRing(start)
<1>3. IsRing(ring) /\ Used(ring) = 0
  <2>1. start \in Positions
    BY ChannelAssumption DEF Positions
  <2>2. /\ ring = [head |-> start, tail |-> start, cell |-> [k \in Positions |-> BlankCell]]
        /\ ring.head = start /\ ring.tail = start /\ ring.cell = [k \in Positions |-> BlankCell]
    BY DEF DrainedRing, Positions
  <2> HIDE DEF ring
  <2>3. IsRing(ring)
    BY <2>1, <2>2 DEF IsRing
  <2>4. Used(ring) = IF start <= start THEN start - start ELSE start - start + RingSize
    BY <2>2, <2>3, UsedFacts
  <2> QED BY <2>1, <2>3, <2>4, ChannelAssumption DEF Positions
<1>4. Len(sent) = 0 /\ Len(answers) = 0 /\ Len(got) = 0 /\ \A S : <<>> \in Seq(S)
  BY <1>2
<1>5. Unanswered = 0 /\ Untaken = 0 /\ RequestedCount = 0
  BY <1>2, <1>4 DEF Unanswered, Untaken, RequestedCount, Idle
<1>6. HistoryInv
  <2>1. sent \in Seq(RequestSet) /\ answers \in Seq(AnswerSet) /\ got \in Seq(AnswerSet)
    BY <1>2, <1>4
  <2>2. \A i \in 1..0 : FALSE
    OBVIOUS
  <2> QED BY <1>4, <2>1, <2>2 DEF HistoryInv
<1>7. GuestInv
  BY <1>2 DEF GuestInv, Idle
<1>8. DiskInv
  BY <1>2 DEF DiskInv, Contents
<1>9. RingsInv
  <2> HIDE DEF ring
  <2>1. Holds(ring, 0, Requested) /\ Holds(ring, 0, Answered)
    BY <1>3, HoldsNothing
  <2>2. g2h = ring /\ h2g = ring
    BY <1>1 DEF ring
  <2> QED BY <1>2, <1>3, <1>5, <2>1, <2>2 DEF RingsInv
<1> QED BY <1>6, <1>7, <1>8, <1>9 DEF CInv

LEMMA RequestsAreRequests == Requests \subseteq RequestSet
BY RequestAssumption DEF IsRequest, RequestSet, Ops

LEMMA NextKeeps ==
  ASSUME CInv, [Next]_vars
  PROVE  CInv'
<1>1. ASSUME NEW request \in Requests, SubmitHeader(request) PROVE CInv'
  BY <1>1, RequestsAreRequests, SubmitHeaderStep
<1> QED BY <1>1, ChannelStepKeeps DEF Next, Submit, GuestStep

(***************************************************************************)
(* The rings hold exactly the frames that are on their way, in order and  *)
(* whole but for the one a push or a pop has split; the overrun latch is  *)
(* never set; and the guest has taken exactly the first of the answers    *)
(* that were given, one for each of the first requests.                   *)
(***************************************************************************)
THEOREM ChannelInvariant == Spec => []CInv
<1>1. Init => CInv
  BY ChannelInit
<1>2. CInv /\ [Next]_vars => CInv'
  BY NextKeeps
<1> QED BY <1>1, <1>2, PTL DEF Spec

-----------------------------------------------------------------------------
(* The channel is the device.                                              *)

\* A client of Spec submits only its own requests.
OwnInv == guest.at = "payload" => guest.request \in Requests

(* The service's verdict on a request is the device's.                     *)
LEMMA JudgeIsValid ==
  ASSUME NEW r \in RequestSet, Carried(r)
  PROVE  Judge(r.head) = IF Device!Valid(r.head) THEN "OK" ELSE "INVALID"
<1>1. r.head.op \in Ops /\ r.head.count \in Nat
  BY RequestFacts
<1>2. /\ FitsRing(RequestPayload(r.head))
      /\ FitsRing(ReplyPayload([r.head EXCEPT !.status = "OK"]))
  BY CarriedFits
<1>3. r.head.op # "CAPACITY" => (r.head.count # 0 <=> r.head.count \in 1..MaxCount)
  <2>1. MaxCount \in Int
    BY ChannelAssumption DEF MaxCount
  <2> QED BY <1>1, <2>1 DEF Carried
<1>4. Judge(r.head) = IF IF r.head.op = "CAPACITY"
                           THEN r.head.lba = 0 /\ r.head.count = 0
                           ELSE r.head.count # 0 /\ r.head.lba + r.head.count <= CapacityBlocks
                        THEN "OK" ELSE "INVALID"
  BY <1>1, <1>2 DEF Judge, Ops
<1> QED BY <1>3, <1>4 DEF Device!Valid

(* One round of the service is one answer of the device.                   *)
LEMMA ServesIsAnswer ==
  ASSUME CInv, NEW r, NEW outcome, NEW a, Serves(r, outcome, a)
  PROVE  Device!Answer
<1> DEFINE h == r.head
           st == IF outcome = "done" THEN Status(h) ELSE "DEVICE"
<1>1. DiskInv /\ HistoryInv
  BY DEF CInv
<1>2. /\ Unanswered >= 1 /\ r = sent[Len(answers) + 1] /\ r \in RequestSet /\ Carried(r)
      /\ outcome \in Outcomes(h) /\ a = Answer(h, outcome) /\ Access(h, r.data, outcome)
      /\ answers' = Append(answers, a) /\ failNext' = (failNext /\ ~Faulted(h))
      /\ UNCHANGED <<sent, got>>
  BY DEF Serves
<1>3. Len(answers) < Len(sent) /\ Device!Turn = r
  BY <1>1, <1>2, HistoryFacts DEF Unanswered, Device!Turn
<1>4. /\ Judge(h) = IF Device!Valid(h) THEN "OK" ELSE "INVALID"
      /\ h.op \in Ops /\ h.count \in Nat /\ h.lba \in Nat
  BY <1>2, JudgeIsValid, RequestFacts
<1>5. failNext \in BOOLEAN /\ broken \in BOOLEAN /\ DOMAIN store = 0..CapacityBlocks - 1
  BY <1>1 DEF DiskInv
<1>6. a = Device!Reply(r, st, IF st # "OK" THEN <<>>
                              ELSE CASE h.op = "READ" -> [j \in 1..h.count |-> store[h.lba + j - 1]]
                                     [] h.op = "CAPACITY" -> <<CapacityBlocks>>
                                     [] OTHER -> <<>>)
  BY <1>2 DEF Answer, Response, Device!Reply
<1> DEFINE writes == Reaches(h) /\ h.op = "WRITE" /\ outcome # "unable" /\ ~broken
<1>7. /\ ~writes => store' = store
      /\ broken' = (broken \/ outcome = "failed")
  BY <1>2 DEF Access
<1>8. CASE ~Device!Valid(h)
  <2>1. Judge(h) = "INVALID" /\ ~Faulted(h) /\ Status(h) = "INVALID" /\ ~Reaches(h)
    BY <1>4, <1>8 DEF Faulted, Status, Reaches
  <2>2. outcome = "done" /\ st = "INVALID"
    BY <1>2, <2>1 DEF Outcomes
  <2>3. a = Device!Reply(r, "INVALID", <<>>)
    BY <1>6, <2>2
  <2>4. UNCHANGED <<store, failNext, broken>>
    BY <1>2, <1>5, <1>7, <2>1, <2>2
  <2>5. Device!Reject
    BY <1>2, <1>3, <1>8, <2>3, <2>4 DEF Device!Reject
  <2> QED BY <1>2, <1>3, <2>5 DEF Device!Answer
<1>9. CASE Device!Valid(h) /\ h.op = "CAPACITY"
  <2>1. Judge(h) = "OK" /\ ~Faulted(h) /\ Status(h) = "OK" /\ ~Reaches(h)
    BY <1>4, <1>9 DEF Faulted, Status, Reaches
  <2>2. outcome = "done" /\ st = "OK"
    BY <1>2, <2>1 DEF Outcomes
  <2>3. a = Device!Reply(r, "OK", <<CapacityBlocks>>)
    BY <1>6, <1>9, <2>2
  <2>4. UNCHANGED <<store, failNext, broken>>
    BY <1>2, <1>5, <1>7, <2>1, <2>2
  <2>5. Device!TellCapacity
    BY <1>2, <1>3, <1>9, <2>3, <2>4 DEF Device!TellCapacity
  <2> QED BY <1>2, <1>3, <2>5 DEF Device!Answer
<1>10. CASE Device!Valid(h) /\ h.op # "CAPACITY" /\ failNext
  <2>1. Judge(h) = "OK" /\ Faulted(h) /\ Status(h) = "DEVICE" /\ ~Reaches(h)
    BY <1>4, <1>10 DEF Faulted, Status, Reaches
  <2>2. outcome = "done" /\ st = "DEVICE"
    BY <1>2, <2>1 DEF Outcomes
  <2>3. a = Device!Reply(r, "DEVICE", <<>>)
    BY <1>6, <2>2
  <2>4. UNCHANGED <<store, broken>> /\ failNext' = FALSE
    BY <1>2, <1>5, <1>7, <2>1, <2>2
  <2>5. Device!Touches(h)
    BY <1>4, <1>10 DEF Device!Touches, Ops
  <2>6. Device!Fault
    BY <1>2, <1>3, <1>10, <2>3, <2>4, <2>5 DEF Device!Fault
  <2> QED BY <1>2, <1>3, <2>6 DEF Device!Answer
<1>11. CASE Device!Valid(h) /\ h.op # "CAPACITY" /\ ~failNext
  <2>1. Judge(h) = "OK" /\ ~Faulted(h) /\ Status(h) = "OK" /\ Reaches(h)
    BY <1>4, <1>11 DEF Faulted, Status, Reaches
  <2>2. outcome \in {"unable", "failed", "done"} /\ (outcome = "done" => ~broken)
    BY <1>2, <2>1 DEF Outcomes
  <2>3. UNCHANGED failNext /\ Device!Touches(h) /\ h.op \in {"READ", "WRITE"}
    BY <1>2, <1>4, <1>5, <1>11, <2>1 DEF Device!Touches, Ops
  <2>4. CASE outcome = "done" /\ h.op = "READ"
    <3>1. a = Device!Reply(r, "OK", [j \in 1..h.count |-> store[h.lba + j - 1]])
      BY <1>6, <2>1, <2>4
    <3>2. UNCHANGED <<store, broken>>
      BY <1>5, <1>7, <2>4
    <3>3. Device!Read
      BY <1>2, <1>3, <1>11, <2>2, <2>3, <2>4, <3>1, <3>2 DEF Device!Read
    <3> QED BY <1>2, <1>3, <3>3 DEF Device!Answer
  <2>5. CASE outcome = "done" /\ h.op = "WRITE"
    <3>1. a = Device!Reply(r, "OK", <<>>)
      BY <1>6, <2>1, <2>5
    <3>2. writes /\ UNCHANGED broken /\ ~broken
      BY <1>5, <1>7, <2>1, <2>2, <2>5
    <3>3. store' = [b \in DOMAIN store |->
                      IF b \in Device!Blocks(h) THEN r.data[b - h.lba + 1] ELSE store[b]]
      <4> DEFINE blocks == h.lba .. h.lba + h.count - 1
      <4>1. PICK state \in {[b \in blocks |-> "new"]} :
              store' = [b \in DOMAIN store |->
                          IF b \notin blocks \/ state[b] = "old" THEN store[b]
                          ELSE IF state[b] = "new" THEN r.data[b - h.lba + 1] ELSE Torn]
        BY <1>2, <2>1, <2>5, <3>2 DEF Access
      <4>2. \A b \in blocks : state[b] = "new"
        BY <4>1
      <4>3. blocks = Device!Blocks(h)
        BY DEF Device!Blocks
      <4> HIDE DEF blocks
      <4> QED BY <4>1, <4>2, <4>3
    <3>4. Device!Write
      BY <1>2, <1>3, <1>11, <2>2, <2>3, <2>5, <3>1, <3>2, <3>3 DEF Device!Write
    <3> QED BY <1>2, <1>3, <3>4 DEF Device!Answer
  <2>6. CASE outcome # "done"
    <3>1. a = Device!Reply(r, "DEVICE", <<>>)
      BY <1>6, <2>6
    <3>2. broken' \in {broken, TRUE}
      BY <1>5, <1>7
    <3>3. \A b \in DOMAIN store :
            (store'[b] # store[b]) =>
              /\ ~broken /\ broken' /\ h.op = "WRITE" /\ b \in Device!Blocks(h)
              /\ store'[b] \in {r.data[b - h.lba + 1], Torn}
      <4>1. CASE writes
        <5> DEFINE blocks == h.lba .. h.lba + h.count - 1
        <5>1. PICK state \in [blocks -> {"old", "new", "torn"}] :
                store' = [b \in DOMAIN store |->
                            IF b \notin blocks \/ state[b] = "old" THEN store[b]
                            ELSE IF state[b] = "new" THEN r.data[b - h.lba + 1] ELSE Torn]
          BY <1>2, <2>6, <4>1 DEF Access
        <5>2. ~broken /\ broken' /\ h.op = "WRITE"
          BY <1>5, <1>7, <2>2, <2>6, <4>1
        <5>3. blocks = Device!Blocks(h)
          BY DEF Device!Blocks
        <5> HIDE DEF blocks
        <5> QED BY <5>1, <5>2, <5>3
      <4>2. CASE ~writes
        BY <1>7, <4>2
      <4> QED BY <4>1, <4>2
    <3>4. store' \in [DOMAIN store -> Values \cup {Torn}]
      BY <1>1, <1>2, <1>5, AccessKeepsDisk DEF Contents
    <3>5. Device!Break
      BY <1>2, <1>3, <1>11, <2>3, <3>1, <3>2, <3>3, <3>4 DEF Device!Break
    <3> QED BY <1>2, <1>3, <3>5 DEF Device!Answer
  <2> QED BY <2>3, <2>4, <2>5, <2>6
<1> QED BY <1>5, <1>8, <1>9, <1>10, <1>11

(* Every step of the channel is a step of the device or none at all.       *)
LEMMA NextIsDevice ==
  ASSUME CInv, OwnInv, [Next]_vars
  PROVE  [Device!Next]_(Device!vars) /\ OwnInv'
<1> USE DEF Device!Next
<1>1. DiskInv /\ HistoryInv /\ GuestInv
  BY DEF CInv
<1>2. CASE Submit
  <2>1. PICK request \in Requests : SubmitHeader(request)
    BY <1>2 DEF Submit
  <2>2. UNCHANGED <<store, failNext, broken, answers, got>>
    BY <2>1 DEF SubmitHeader, diskVars
  <2>3. guest'.request = request
    BY <1>1, <2>1 DEF SubmitHeader, GuestInv
  <2>4. CASE RequestPayload(request.head) = 0
    <3>1. sent' = Append(sent, request)
      BY <2>1, <2>4 DEF SubmitHeader
    <3>2. Device!Submit
      BY <2>2, <3>1 DEF Device!Submit
    <3> QED BY <2>3, <3>2 DEF OwnInv
  <2>5. CASE RequestPayload(request.head) # 0
    <3>1. UNCHANGED sent
      BY <2>1, <2>5 DEF SubmitHeader
    <3> QED BY <2>2, <2>3, <3>1 DEF Device!vars, OwnInv
  <2> QED BY <2>4, <2>5
<1>3. CASE SubmitPayload
  <2>1. /\ guest.at = "payload" /\ sent' = Append(sent, guest.request)
        /\ UNCHANGED <<store, failNext, broken, answers, got>>
    BY <1>3 DEF SubmitPayload, diskVars
  <2>2. Device!Submit
    BY <2>1 DEF OwnInv, Device!Submit
  <2>3. guest'.at = "bell"
    BY <1>1, <1>3 DEF SubmitPayload, GuestInv
  <2> QED BY <2>2, <2>3 DEF OwnInv
<1>4. CASE RingDoorbell
  BY <1>4 DEF RingDoorbell, diskVars, Device!vars, OwnInv, Idle
<1>5. CASE TakeHeader
  <2>1. /\ guest.at = "idle" /\ Takes
        /\ UNCHANGED <<store, failNext, broken, sent, answers>>
    BY <1>5 DEF TakeHeader, diskVars
  <2>2. Untaken >= 1
    BY <2>1, TakesNext
  <2>3. Len(got) < Len(answers)
    BY <1>1, <2>2, HistoryFacts DEF Untaken
  <2>4. got' = got \/ got' = Append(got, answers[Len(got) + 1])
    BY <1>5, TakeHeaderStep
  <2>5. Device!Receive \/ UNCHANGED Device!vars
    BY <2>1, <2>3, <2>4 DEF Device!Receive, Device!vars
  <2>6. guest'.at # "payload"
    BY <1>1, <1>5, <2>1 DEF TakeHeader, GuestInv
  <2> QED BY <2>5, <2>6 DEF OwnInv
<1>6. CASE TakeBody
  <2>1. UNCHANGED <<store, failNext, broken, sent, answers>> /\ guest' = Idle
    BY <1>6 DEF TakeBody, diskVars
  <2>2. got' = Append(got, answers[Len(got) + 1]) /\ Untaken >= 1
    BY <1>6, TakeBodyStep
  <2>3. Len(got) < Len(answers)
    BY <1>1, <2>2, HistoryFacts DEF Untaken
  <2>4. Device!Receive
    BY <2>1, <2>2, <2>3 DEF Device!Receive
  <2> QED BY <2>1, <2>4 DEF OwnInv, Idle
<1>7. CASE Serve
  <2>1. PICK outcome : Serves(Oldest, outcome, Answer(Oldest.head, outcome))
    BY <1>7, ServeMeans
  <2>2. Device!Answer
    BY <2>1, ServesIsAnswer
  <2>3. guest' = guest
    BY <1>7 DEF Serve
  <2> QED BY <2>2, <2>3 DEF OwnInv
<1>8. CASE Break
  BY <1>8 DEF Break, diskVars, Device!vars, OwnInv
<1>9. CASE InjectFault
  <2>1. Device!InjectFault
    BY <1>9 DEF InjectFault, Device!InjectFault
  <2> QED BY <1>9, <2>1 DEF InjectFault, OwnInv
<1>10. CASE UNCHANGED vars
  BY <1>10 DEF vars, ringVars, diskVars, Device!vars, OwnInv
<1> QED BY <1>2, <1>3, <1>4, <1>5, <1>6, <1>7, <1>8, <1>9, <1>10 DEF Next, GuestStep, HostStep

(***************************************************************************)
(* The rings, the framing and the service are the device of BlockDevice:  *)
(* each request is answered once, whole, in order, from the parameters it *)
(* was sent with; the guest takes exactly those answers; an injected      *)
(* fault is spent by one of them, and a failed file never answers OK.     *)
(***************************************************************************)
THEOREM ChannelIsDevice == Spec => DeviceSpec
<1>1. Init => CInv /\ OwnInv /\ Device!Init
  <2> SUFFICES ASSUME Init PROVE CInv /\ OwnInv /\ Device!Init
    OBVIOUS
  <2>1. Device!Init
    BY DEF Init, Device!Init
  <2>2. OwnInv
    BY DEF Init, OwnInv, Idle
  <2> QED BY <2>1, <2>2, ChannelInit
<1>2. CInv /\ OwnInv /\ [Next]_vars => CInv' /\ OwnInv' /\ [Device!Next]_(Device!vars)
  BY NextKeeps, NextIsDevice
<1> QED BY <1>1, <1>2, PTL DEF Spec, DeviceSpec, Device!Spec

-----------------------------------------------------------------------------
(* The invariant of the adapter.                                           *)

IsAdapter ==
  /\ adapter = [initialized |-> adapter.initialized, busy |-> adapter.busy,
                failed |-> adapter.failed, nextTag |-> adapter.nextTag,
                op |-> adapter.op, tag |-> adapter.tag, lba |-> adapter.lba]
  /\ adapter.initialized \in BOOLEAN /\ adapter.busy \in BOOLEAN /\ adapter.failed \in BOOLEAN
  /\ adapter.nextTag \in Nat
  /\ result = [outcome |-> result.outcome, op |-> result.op, lba |-> result.lba,
               written |-> result.written, data |-> result.data]
  /\ adapter.initialized => MaxCount >= 1

\* The request is the one the call in progress has made, and one the disk can carry out.
IsAsked(request) ==
  /\ request.head = [op |-> adapter.op, status |-> "none", tag |-> adapter.tag,
                     lba |-> adapter.lba, count |-> IF adapter.op = "CAPACITY" THEN 0 ELSE 1]
  /\ request.data = result.written
  /\ IF adapter.op = "CAPACITY" THEN adapter.lba = 0 ELSE adapter.lba \in 0..CapacityBlocks - 1
  /\ result.op = adapter.op /\ result.lba = adapter.lba

\* Between calls nothing is on its way; in a call, one request or its answer.
CallInv ==
  /\ ~adapter.busy => guest.at = "idle" /\ Len(got) = Len(answers) /\ Len(answers) = Len(sent)
  /\ adapter.busy =>
       /\ adapter.initialized /\ result.outcome = "none"
       /\ IF guest.at = "payload"
            THEN /\ Len(got) = Len(answers) /\ Len(answers) = Len(sent)
                 /\ IsAsked(guest.request)
            ELSE /\ Len(sent) >= 1 /\ Len(sent) <= Len(got) + 1
                 /\ IsAsked(sent[Len(sent)])

\* What an answer with this status and data says of the disk.
SaysTruth(op, lba, written, data) ==
  CASE op = "READ"     -> ~broken /\ data = <<store[lba]>>
    [] op = "WRITE"    -> ~broken /\ written = <<store[lba]>>
    [] op = "CAPACITY" -> data = <<CapacityBlocks>>

\* The answer to the call in progress is true from the moment it is given.
TruthInv ==
  (adapter.busy /\ guest.at # "payload" /\ Len(answers) = Len(sent)) =>
    LET last == answers[Len(answers)]
    IN  /\ last.head.status \in {"OK", "DEVICE"}
        /\ last.head.status = "OK" =>
             SaysTruth(adapter.op, adapter.lba, result.written, last.data)

ReturnInv ==
  /\ (~adapter.busy /\ result.outcome = "OK") =>
       /\ result.op \in Ops
       /\ SaysTruth(result.op, result.lba, result.written, result.data)
  /\ AlarmMeansReentry

AInv == CInv /\ IsAdapter /\ CallInv /\ TruthInv /\ ReturnInv

-----------------------------------------------------------------------------
(* Every step of the adapter keeps it.                                     *)

\* The parts of the invariant that speak of the adapter.
OwnerInv == IsAdapter /\ CallInv /\ TruthInv /\ ReturnInv

(* The call in progress is none the wiser for a step of the doorbell, of a *)
(* take, or of a host that answers nothing.                                *)
LEMMA SameCall ==
  ASSUME OwnerInv, UNCHANGED <<adapterVars, store, broken, sent, answers>>,
         HistoryInv, HistoryInv',
         \/ guest' = guest /\ got' = got
         \/ /\ adapter.busy /\ guest.at # "payload" /\ guest'.at # "payload"
            /\ Len(got) <= Len(got')
  PROVE  OwnerInv'
<1>1. IsAdapter /\ CallInv /\ TruthInv /\ ReturnInv
  BY DEF OwnerInv
<1>2. adapter' = adapter /\ result' = result /\ reentered' = reentered
  BY DEF adapterVars
<1>3. IsAdapter'
  BY <1>1, <1>2 DEF IsAdapter
<1>4. ReturnInv'
  BY <1>1, <1>2 DEF ReturnInv, SaysTruth, AlarmMeansReentry
<1>5. CASE guest' = guest /\ got' = got
  <2>1. CallInv'
    BY <1>1, <1>2, <1>5 DEF CallInv, IsAsked
  <2>2. TruthInv'
    BY <1>1, <1>2, <1>5 DEF TruthInv, SaysTruth
  <2> QED BY <1>3, <1>4, <2>1, <2>2 DEF OwnerInv
<1>6. CASE /\ adapter.busy /\ guest.at # "payload" /\ guest'.at # "payload"
           /\ Len(got) <= Len(got')
  <2>1. Len(sent) \in Nat /\ Len(got) \in Nat /\ Len(got') \in Nat
    <3>1. Len(sent) \in Nat /\ Len(got) \in Nat
      BY HistoryFacts
    <3>2. got' \in Seq(AnswerSet)
      BY DEF HistoryInv
    <3> QED BY <3>1, <3>2, LenProperties
  <2>2. /\ adapter.initialized /\ result.outcome = "none"
        /\ Len(sent) >= 1 /\ Len(sent) <= Len(got) + 1 /\ IsAsked(sent[Len(sent)])
    BY <1>1, <1>6 DEF CallInv
  <2>3. CallInv'
    BY <1>2, <1>6, <2>1, <2>2 DEF CallInv, IsAsked
  <2>4. TruthInv'
    BY <1>1, <1>2, <1>6 DEF TruthInv, SaysTruth
  <2> QED BY <1>3, <1>4, <2>3, <2>4 DEF OwnerInv
<1> QED BY <1>5, <1>6

(* While something is under way at the guest, a call is in progress.       *)
LEMMA ActiveIsBusy ==
  ASSUME AInv, guest.at # "idle" \/ Unanswered # 0 \/ Untaken # 0
  PROVE  adapter.busy
<1>1. HistoryInv /\ CallInv /\ IsAdapter
  BY DEF AInv, CInv
<1>2. Len(sent) \in Nat /\ Len(answers) \in Nat /\ Len(got) \in Nat
  BY <1>1, HistoryFacts
<1> QED BY <1>1, <1>2 DEF CallInv, Unanswered, Untaken

LEMMA TakeStep ==
  ASSUME AInv, adapter.busy, TakeHeader \/ TakeBody, UNCHANGED adapterVars
  PROVE  AInv'
<1>1. CInv /\ OwnerInv /\ HistoryInv /\ GuestInv
  BY DEF AInv, OwnerInv, CInv
<1>2. CInv'
  BY <1>1, ChannelStepKeeps
<1>3. UNCHANGED <<store, broken, sent, answers>> /\ guest.at # "payload" /\ guest'.at # "payload"
  <2>1. CASE TakeHeader
    BY <1>1, <2>1 DEF TakeHeader, diskVars, GuestInv
  <2>2. CASE TakeBody
    BY <2>2 DEF TakeBody, diskVars, Idle
  <2> QED BY <2>1, <2>2
<1>4. \/ got' = got
      \/ got' = Append(got, answers[Len(got) + 1]) /\ Untaken >= 1
  <2>1. CASE TakeHeader
    <3>1. Untaken >= 1
      BY <1>1, <2>1, TakesNext DEF TakeHeader
    <3> QED BY <1>1, <2>1, <3>1, TakeHeaderStep
  <2>2. CASE TakeBody
    BY <1>1, <2>2, TakeBodyStep
  <2> QED BY <2>1, <2>2
<1>5. Len(got) <= Len(got')
  <2>1. Len(got) \in Nat /\ got \in Seq(AnswerSet)
    BY <1>1, HistoryFacts DEF HistoryInv
  <2>2. CASE got' = got
    BY <2>1, <2>2
  <2>3. CASE got' = Append(got, answers[Len(got) + 1]) /\ Untaken >= 1
    <3>1. answers[Len(got) + 1] \in AnswerSet
      BY <1>1, <2>3, HistoryFacts
    <3>2. Len(got') = Len(got) + 1
      BY <2>1, <2>3, <3>1, AppendFacts
    <3> QED BY <2>1, <3>2
  <2> QED BY <1>4, <2>2, <2>3
<1>6. HistoryInv'
  BY <1>2 DEF CInv
<1>7. OwnerInv'
  BY <1>1, <1>3, <1>5, <1>6, SameCall
<1> QED BY <1>2, <1>7 DEF AInv, OwnerInv

LEMMA PayloadStep ==
  ASSUME AInv, SubmitPayload, UNCHANGED adapterVars
  PROVE  AInv'
<1>1. CInv /\ OwnerInv /\ HistoryInv /\ GuestInv
  BY DEF AInv, OwnerInv, CInv
<1>2. CInv'
  BY <1>1, ChannelStepKeeps
<1> DEFINE r == guest.request
<1>3. /\ guest.at = "payload" /\ guest'.at = "bell" /\ sent' = Append(sent, r)
      /\ UNCHANGED <<store, broken, answers, got>>
  BY <1>1 DEF SubmitPayload, diskVars, GuestInv
<1>4. adapter.busy
  BY <1>3, ActiveIsBusy
<1>5. IsAdapter /\ CallInv /\ ReturnInv
  BY <1>1 DEF OwnerInv
<1>6. /\ adapter.initialized /\ result.outcome = "none"
      /\ Len(got) = Len(answers) /\ Len(answers) = Len(sent) /\ IsAsked(r)
  BY <1>3, <1>4, <1>5 DEF CallInv
<1>7. sent \in Seq(RequestSet) /\ r \in RequestSet
  BY <1>1, <1>3 DEF HistoryInv, GuestInv
<1> HIDE DEF r
<1>8. Len(sent) \in Nat /\ Len(sent') = Len(sent) + 1 /\ sent'[Len(sent')] = r
  <2>1. /\ Len(sent) \in Nat /\ Len(sent') = Len(sent) + 1
        /\ sent'[Len(sent) + 1] = r
    BY <1>3, <1>7, AppendFacts
  <2> QED BY <2>1
<1>9. adapter' = adapter /\ result' = result /\ reentered' = reentered
  BY DEF adapterVars
<1>10. CallInv'
  BY <1>3, <1>4, <1>6, <1>8, <1>9 DEF CallInv, IsAsked
<1>11. TruthInv'
  BY <1>3, <1>6, <1>8 DEF TruthInv
<1>12. IsAdapter' /\ ReturnInv'
  BY <1>3, <1>5, <1>9 DEF IsAdapter, ReturnInv, SaysTruth, AlarmMeansReentry
<1> QED BY <1>2, <1>10, <1>11, <1>12 DEF AInv

(* The answer to a request that the adapter has made is true of the disk   *)
(* it leaves, and its status is OK or a device error.                      *)
LEMMA AnswerIsTrue ==
  ASSUME CInv, IsAdapter, adapter.initialized, NEW r, IsAsked(r), adapter.op \in Ops,
         NEW outcome, NEW a, Serves(r, outcome, a)
  PROVE  /\ a.head.status \in {"OK", "DEVICE"}
         /\ a.head.status = "OK" =>
              CASE adapter.op = "READ"  -> ~broken' /\ a.data = <<store'[adapter.lba]>>
                [] adapter.op = "WRITE" -> ~broken' /\ result.written = <<store'[adapter.lba]>>
                [] adapter.op = "CAPACITY" -> a.data = <<CapacityBlocks>>
<1> DEFINE h == r.head
           st == IF outcome = "done" THEN Status(h) ELSE "DEVICE"
<1>1. /\ r \in RequestSet /\ Carried(r) /\ outcome \in Outcomes(h) /\ a = Answer(h, outcome)
      /\ Access(h, r.data, outcome)
  BY DEF Serves
<1>2. /\ h.op = adapter.op /\ h.lba = adapter.lba
      /\ h.count = IF adapter.op = "CAPACITY" THEN 0 ELSE 1
      /\ IF adapter.op = "CAPACITY" THEN adapter.lba = 0 ELSE adapter.lba \in 0..CapacityBlocks - 1
      /\ r.data = result.written
  BY DEF IsAsked
<1>3. MaxCount >= 1 /\ MaxCount \in Int /\ CapacityBlocks \in Nat
  BY ChannelAssumption DEF IsAdapter, MaxCount
<1>4. Device!Valid(h)
  BY <1>2, <1>3 DEF Device!Valid
<1>5. Judge(h) = "OK" /\ Status(h) \in {"OK", "DEVICE"}
  BY <1>1, <1>4, JudgeIsValid DEF Status
<1>6. a.head.status = st /\ st \in {"OK", "DEVICE"}
  <2>1. h \in [op : Ops, status : {"none"}, tag : Nat, lba : Nat, count : Nat]
    BY <1>1, RequestFacts
  <2> QED BY <1>1, <1>5, <2>1 DEF Answer, Response
<1>7. a.data = IF st # "OK" THEN <<>>
               ELSE CASE h.op = "READ" -> [j \in 1..h.count |-> store[h.lba + j - 1]]
                      [] h.op = "CAPACITY" -> <<CapacityBlocks>>
                      [] OTHER -> <<>>
  BY <1>1 DEF Answer
<1>8. CASE st = "OK"
  <2>1. outcome = "done" /\ Status(h) = "OK"
    BY <1>8
  <2>2. CASE adapter.op = "CAPACITY"
    BY <1>2, <1>6, <1>7, <1>8, <2>2
  <2>3. CASE adapter.op # "CAPACITY"
    <3>1. Reaches(h) /\ ~broken /\ broken' = FALSE
      <4>1. Reaches(h)
        BY <1>2, <2>1, <2>3 DEF Reaches
      <4>2. ~broken
        BY <1>1, <2>1, <4>1 DEF Outcomes
      <4>3. broken' = (broken \/ outcome = "failed")
        BY <1>1 DEF Access
      <4>4. (broken \/ outcome = "failed") = FALSE
        BY <2>1, <4>2
      <4> QED BY <4>1, <4>2, <4>3, <4>4
    <3>2. CASE adapter.op = "READ"
      <4>1. store' = store
        BY <1>1, <1>2, <3>2 DEF Access
      <4>2. a.data = [j \in 1..1 |-> store[h.lba + j - 1]]
        BY <1>2, <1>7, <1>8, <3>2
      <4>3. a.data = <<store[h.lba]>>
        <5>1. \A j \in 1..1 : h.lba + j - 1 = h.lba
          BY <1>2, <2>3
        <5> QED BY <4>2, <5>1
      <4> QED BY <1>2, <1>6, <3>1, <3>2, <4>1, <4>3
    <3>3. CASE adapter.op = "WRITE"
      <4> DEFINE blocks == h.lba .. h.lba + h.count - 1
                 b == adapter.lba
      <4>1. PICK state \in {[k \in blocks |-> "new"]} :
              store' = [k \in DOMAIN store |->
                          IF k \notin blocks \/ state[k] = "old" THEN store[k]
                          ELSE IF state[k] = "new" THEN r.data[k - h.lba + 1] ELSE Torn]
        BY <1>1, <1>2, <2>1, <3>1, <3>3 DEF Access
      <4>2. b \in blocks /\ b \in DOMAIN store /\ b - h.lba + 1 = 1
        <5>1. DOMAIN store = 0..CapacityBlocks - 1
          BY DEF CInv, DiskInv
        <5> QED BY <1>2, <1>3, <2>3, <5>1
      <4>3. state[b] = "new"
        BY <4>1, <4>2
      <4> HIDE DEF blocks, b
      <4>4. store'[b] = r.data[1]
        BY <4>1, <4>2, <4>3
      <4>5. r.data = <<r.data[1]>>
        <5>1. r.data \in Seq(Values) /\ IsRun(r.data, 1)
          BY <1>1, <1>2, <3>3, RequestFacts
        <5>2. IsRun(<<r.data[1]>>, 1) /\ \A i \in 1..1 : r.data[i] = <<r.data[1]>>[i]
          BY DEF IsRun
        <5> QED BY <5>1, <5>2, RunsAgree
      <4> QED BY <1>2, <1>6, <3>1, <3>3, <4>4, <4>5 DEF b
    <3> QED BY <2>3, <3>2, <3>3 DEF Ops
  <2> QED BY <2>2, <2>3
<1>9. CASE st # "OK"
  BY <1>6, <1>9
<1> QED BY <1>6, <1>8, <1>9

LEMMA ServeTruth ==
  ASSUME AInv, NEW r, NEW outcome, NEW a, Serves(r, outcome, a), UNCHANGED adapterVars
  PROVE  AInv'
<1>1. CInv /\ OwnerInv /\ HistoryInv /\ GuestInv /\ IsAdapter /\ CallInv
  BY DEF AInv, OwnerInv, CInv
<1>2. CInv' /\ HistoryInv'
  BY <1>1, ServesStep DEF CInv
<1>3. /\ Unanswered >= 1 /\ r = sent[Len(answers) + 1] /\ a \in AnswerSet
      /\ answers' = Append(answers, a) /\ guest' = guest /\ sent' = sent /\ got' = got
  BY DEF Serves
<1>4. adapter' = adapter /\ result' = result /\ reentered' = reentered
  BY DEF adapterVars
<1>5. Len(sent) \in Nat /\ Len(answers) \in Nat /\ Len(got) \in Nat /\ Len(got) <= Len(answers)
  BY <1>1, HistoryFacts DEF HistoryInv
<1>6. adapter.busy
  BY <1>3, <1>5, ActiveIsBusy DEF Unanswered
<1>7. guest.at # "payload"
  BY <1>1, <1>3, <1>5, <1>6 DEF CallInv, Unanswered
<1>8. /\ adapter.initialized /\ Len(sent) = Len(answers) + 1 /\ IsAsked(r)
  BY <1>1, <1>3, <1>5, <1>6, <1>7 DEF CallInv, Unanswered
<1>9. adapter.op \in Ops
  <2>1. r \in RequestSet
    BY DEF Serves
  <2>2. r.head.op \in Ops
    BY <2>1, RequestFacts
  <2> QED BY <1>8, <2>2 DEF IsAsked
<1>10. /\ a.head.status \in {"OK", "DEVICE"}
       /\ a.head.status = "OK" =>
            CASE adapter.op = "READ"  -> ~broken' /\ a.data = <<store'[adapter.lba]>>
              [] adapter.op = "WRITE" -> ~broken' /\ result.written = <<store'[adapter.lba]>>
              [] adapter.op = "CAPACITY" -> a.data = <<CapacityBlocks>>
  BY <1>1, <1>8, <1>9, AnswerIsTrue
<1>11. answers'[Len(answers')] = a
  <2>1. answers \in Seq(AnswerSet)
    BY <1>1 DEF HistoryInv
  <2>2. Len(answers') = Len(answers) + 1 /\ answers'[Len(answers) + 1] = a
    BY <1>3, <2>1, AppendFacts
  <2> QED BY <2>2
<1>12. TruthInv'
  BY <1>4, <1>10, <1>11 DEF TruthInv, SaysTruth
<1>13. IsAdapter' /\ ReturnInv'
  BY <1>1, <1>4, <1>6 DEF IsAdapter, OwnerInv, ReturnInv, AlarmMeansReentry
<1>14. CallInv'
  BY <1>1, <1>3, <1>4, <1>6, <1>7 DEF CallInv, IsAsked
<1> QED BY <1>2, <1>12, <1>13, <1>14 DEF AInv

(* A step of the channel under an adapter that stands still.               *)
LEMMA ChannelUnderAdapter ==
  ASSUME AInv, ChannelStep
  PROVE  AInv'
<1>1. CInv /\ OwnerInv /\ HistoryInv
  BY DEF AInv, OwnerInv, CInv
<1>2. UNCHANGED adapterVars
  BY DEF ChannelStep
<1>3. CASE SubmitPayload
  BY <1>2, <1>3, PayloadStep
<1>4. CASE RingDoorbell
  <2>1. CInv' /\ HistoryInv'
    BY <1>1, <1>4, ChannelStepKeeps DEF CInv
  <2>2. /\ UNCHANGED <<store, broken, sent, answers, got>>
        /\ guest.at = "bell" /\ guest'.at = "idle"
    BY <1>4 DEF RingDoorbell, diskVars, Idle
  <2>3. adapter.busy
    BY <2>2, ActiveIsBusy
  <2>4. Len(got) <= Len(got')
    BY <1>1, <2>2, HistoryFacts
  <2>5. OwnerInv'
    BY <1>1, <1>2, <2>1, <2>2, <2>3, <2>4, SameCall
  <2> QED BY <2>1, <2>5 DEF AInv, OwnerInv
<1>5. CASE TakeBody
  <2>1. adapter.busy
    BY <1>5, ActiveIsBusy DEF TakeBody
  <2> QED BY <1>2, <1>5, <2>1, TakeStep
<1>6. CASE Serve
  <2>1. PICK outcome : Serves(Oldest, outcome, Answer(Oldest.head, outcome))
    BY <1>1, <1>6, ServeMeans
  <2> QED BY <1>2, <2>1, ServeTruth
<1>7. CASE Break \/ InjectFault
  <2>1. CInv' /\ HistoryInv'
    BY <1>1, <1>7, ChannelStepKeeps DEF CInv, HostStep
  <2>2. UNCHANGED <<store, broken, sent, answers, got, guest>>
    BY <1>7 DEF Break, InjectFault, diskVars
  <2>3. OwnerInv'
    BY <1>1, <1>2, <2>1, <2>2, SameCall
  <2> QED BY <2>1, <2>3 DEF AInv, OwnerInv
<1> QED BY <1>3, <1>4, <1>5, <1>6, <1>7 DEF ChannelStep, HostStep

(* A call that stays in its owner: the adapter and its result change, the  *)
(* channel does not.                                                       *)
LEMMA OwnerStep ==
  ASSUME AInv, UNCHANGED vars, IsAdapter', CallInv', TruthInv', ReturnInv'
  PROVE  AInv'
<1>1. CInv'
  BY ChannelStepKeeps DEF AInv
<1> QED BY <1>1 DEF AInv

LEMMA OpenStep ==
  ASSUME AInv, Open
  PROVE  AInv'
<1>1. IsAdapter /\ CallInv /\ ReturnInv
  BY DEF AInv
<1>2. /\ adapter' = [initialized |-> TRUE, busy |-> FALSE, failed |-> FALSE,
                     nextTag |-> 0, op |-> "none", tag |-> 0, lba |-> 0]
      /\ ~adapter.busy /\ MaxCount >= 1
      /\ UNCHANGED vars /\ result' = result /\ reentered' = reentered
  BY DEF Open, Closed
<1>3. UNCHANGED <<store, broken, guest, sent, answers, got>>
  BY <1>2 DEF vars, diskVars
<1>4. IsAdapter'
  BY <1>1, <1>2 DEF IsAdapter
<1>5. CallInv' /\ TruthInv'
  BY <1>1, <1>2, <1>3 DEF CallInv, TruthInv
<1>6. ReturnInv'
  BY <1>1, <1>2, <1>3 DEF ReturnInv, SaysTruth, AlarmMeansReentry
<1> QED BY <1>2, <1>4, <1>5, <1>6, OwnerStep

LEMMA RefuseStep ==
  ASSUME AInv, Refuse
  PROVE  AInv'
<1>1. IsAdapter /\ CallInv /\ ReturnInv
  BY DEF AInv
<1>2. /\ result' = [outcome |-> "PROTOCOL", op |-> "none", lba |-> 0,
                    written |-> <<>>, data |-> <<>>]
      /\ ~adapter.busy
      /\ UNCHANGED vars /\ adapter' = adapter /\ reentered' = reentered
  BY DEF Refuse, NoResult
<1>3. UNCHANGED <<store, broken, guest, sent, answers, got>>
  BY <1>2 DEF vars, diskVars
<1>4. IsAdapter'
  BY <1>1, <1>2 DEF IsAdapter
<1>5. CallInv' /\ TruthInv'
  BY <1>1, <1>2, <1>3 DEF CallInv, TruthInv
<1>6. ReturnInv'
  BY <1>1, <1>2 DEF ReturnInv, AlarmMeansReentry
<1> QED BY <1>2, <1>4, <1>5, <1>6, OwnerStep

LEMMA ReenterStep ==
  ASSUME AInv, Reenter
  PROVE  AInv'
<1>1. IsAdapter /\ CallInv /\ TruthInv /\ ReturnInv
  BY DEF AInv
<1>2. /\ adapter' = [initialized |-> adapter.initialized, busy |-> adapter.busy,
                     failed |-> TRUE, nextTag |-> adapter.nextTag,
                     op |-> adapter.op, tag |-> adapter.tag, lba |-> adapter.lba]
      /\ UNCHANGED vars /\ result' = result /\ reentered' = TRUE
  BY <1>1 DEF Reenter, IsAdapter
<1>3. UNCHANGED <<store, broken, guest, sent, answers, got>>
  BY <1>2 DEF vars, diskVars
<1>4. IsAdapter'
  BY <1>1, <1>2 DEF IsAdapter
<1>5. CallInv'
  BY <1>1, <1>2, <1>3 DEF CallInv, IsAsked
<1>6. TruthInv'
  BY <1>1, <1>2, <1>3 DEF TruthInv, SaysTruth
<1>7. ReturnInv'
  BY <1>1, <1>2, <1>3 DEF ReturnInv, SaysTruth, AlarmMeansReentry
<1> QED BY <1>2, <1>4, <1>5, <1>6, <1>7, OwnerStep

(* A frame the task wakes for is one a take finds.                         *)
LEMMA WakeStep ==
  ASSUME AInv, Wake
  PROVE  AInv'
<1>1. CInv /\ HistoryInv /\ GuestInv /\ RingsInv
  BY DEF AInv, CInv
<1>2. adapter.busy /\ guest.at = "idle" /\ ResponseReady
  BY DEF Wake, Waiting
<1>3. Used(h2g) >= HeaderSize
  BY <1>2 DEF ResponseReady
<1>4. Untaken >= 1
  <2>1. ~(Used(h2g) = 0)
    BY <1>3, ChannelAssumption
  <2>2. Untaken \in Nat
    BY <1>1, HistoryFacts
  <2> QED BY <1>1, <2>1, <2>2, AnswerFront
<1>5. HeaderSize + ReplyPayload(HeaderAt(h2g)) <= Used(h2g)
  BY <1>1, <1>2, <1>4, AnswerFront
<1>6. Takes
  <2>1. Used(h2g) \in Int /\ HeaderSize \in Nat
    BY <1>1, UsedFacts, ChannelAssumption DEF RingsInv, Positions
  <2>2. ReplyPayload(HeaderAt(h2g)) \in Nat
    <3>1. answers[Len(got) + 1] \in AnswerSet
      BY <1>1, <1>4, HistoryFacts
    <3>2. HeaderAt(h2g) = answers[Len(got) + 1].head
      BY <1>1, <1>2, <1>4, AnswerFront
    <3> QED BY <3>1, <3>2, AnswerFacts
  <2>3. Used(h2g) >= HeaderSize + ReplyPayload(HeaderAt(h2g))
    BY <1>5, <2>1, <2>2
  <2> QED BY <1>3, <2>3 DEF Takes
<1>7. TakeHeader /\ UNCHANGED adapterVars
  BY <1>6 DEF Wake, adapterVars
<1> QED BY <1>2, <1>7, TakeStep

(* The frame that is paired with the call is its answer, and a true one.   *)
LEMMA PairStep ==
  ASSUME AInv, Pair
  PROVE  AInv'
<1>1. /\ CInv /\ HistoryInv /\ IsAdapter /\ CallInv /\ TruthInv /\ ReturnInv
  BY DEF AInv, CInv
<1>2. /\ adapter.busy /\ guest.at = "idle" /\ Len(got) = Len(sent)
      /\ UNCHANGED vars /\ reentered' = reentered
  BY DEF Pair
<1> DEFINE n == Len(sent)
           a == got[Len(got)]
           r == sent[n]
<1>3. /\ n \in Nat /\ n >= 1 /\ Len(got) = n /\ Len(answers) = n /\ IsAsked(r)
  <2>1. Len(sent) \in Nat /\ Len(answers) \in Nat /\ Len(got) \in Nat
    BY <1>1, HistoryFacts
  <2>2. Len(got) <= Len(answers) /\ Len(answers) <= Len(sent)
    BY <1>1 DEF HistoryInv
  <2>3. Len(sent) >= 1 /\ IsAsked(sent[Len(sent)])
    BY <1>1, <1>2 DEF CallInv
  <2> QED BY <1>2, <2>1, <2>2, <2>3
<1>4. a = answers[n] /\ Answers(a, r) /\ r \in RequestSet /\ a \in AnswerSet
  <2>1. n \in 1..Len(got) /\ n \in 1..Len(answers) /\ n \in 1..Len(sent)
    BY <1>3
  <2>2. got[n] = answers[n] /\ Answers(answers[n], sent[n])
    BY <1>1, <2>1 DEF HistoryInv
  <2>3. sent[n] \in RequestSet /\ answers[n] \in AnswerSet
    BY <1>1, <2>1, HistoryFacts
  <2> QED BY <1>3, <2>2, <2>3
<1>5. /\ a.head.status \in {"OK", "DEVICE"}
      /\ a.head.status = "OK" =>
           SaysTruth(adapter.op, adapter.lba, result.written, a.data)
  BY <1>1, <1>2, <1>3, <1>4 DEF TruthInv
<1> HIDE DEF a, r, n
<1>6. /\ r.head = [op |-> adapter.op, status |-> "none", tag |-> adapter.tag,
                   lba |-> adapter.lba, count |-> IF adapter.op = "CAPACITY" THEN 0 ELSE 1]
      /\ adapter.op = "CAPACITY" => adapter.lba = 0
      /\ result.op = adapter.op /\ result.lba = adapter.lba
      /\ adapter.op \in Ops
  <2>1. r.head.op \in Ops
    BY <1>4, RequestFacts
  <2> QED BY <1>3, <2>1 DEF IsAsked
<1>7. /\ a.head.op = adapter.op /\ a.head.tag = adapter.tag /\ a.head.lba = adapter.lba
      /\ a.head.count = IF a.head.status = "OK" THEN r.head.count ELSE 0
  <2>1. PICK status : a.head = Response(r.head, status)
    BY <1>4 DEF Answers
  <2> DEFINE h == r.head
             c == r.head.count
             k == IF status = "OK" THEN c ELSE 0
  <2>2. h = [op |-> adapter.op, status |-> "none", tag |-> adapter.tag,
                  lba |-> adapter.lba, count |-> c]
    BY <1>6
  <2>3. a.head = [h EXCEPT !.status = status, !.count = k]
    BY <2>1 DEF Response
  <2> HIDE DEF h, c, k
  <2>4. a.head = [op |-> adapter.op, status |-> status, tag |-> adapter.tag,
                  lba |-> adapter.lba, count |-> k]
    BY <2>2, <2>3
  <2> QED BY <2>4 DEF c, k
<1>8. Plausible(a.head)
  BY <1>6, <1>7 DEF Plausible, ShapeOf, Ops
<1>9. Verdict(a) = IF a.head.status = "OK" THEN "OK" ELSE "IO_ERROR"
  BY <1>5, <1>7, <1>8 DEF Verdict
<1>10. Finish(Verdict(a), a.data)
  BY DEF Pair, a
<1>11. /\ adapter' = [initialized |-> adapter.initialized, busy |-> FALSE,
                      failed |-> adapter.failed, nextTag |-> adapter.nextTag,
                      op |-> "none", tag |-> 0, lba |-> 0]
       /\ result' = [outcome |-> Verdict(a), op |-> result.op, lba |-> result.lba,
                     written |-> result.written, data |-> a.data]
  <2>1. /\ adapter' = [adapter EXCEPT !.busy = FALSE, !.op = "none", !.tag = 0, !.lba = 0,
                                      !.failed = @ \/ Verdict(a) = "PROTOCOL"]
        /\ result' = [result EXCEPT !.outcome = Verdict(a), !.data = a.data]
    BY <1>10 DEF Finish
  <2>2. (adapter.failed \/ Verdict(a) = "PROTOCOL") = adapter.failed
    <3>1. Verdict(a) # "PROTOCOL"
      BY <1>9
    <3> QED BY <1>1, <3>1 DEF IsAdapter
  <2> DEFINE f == adapter.failed \/ Verdict(a) = "PROTOCOL"
  <2>3. adapter' = [adapter EXCEPT !.busy = FALSE, !.op = "none", !.tag = 0, !.lba = 0,
                                   !.failed = f]
    BY <2>1
  <2>4. f = adapter.failed
    BY <2>2
  <2> HIDE DEF f
  <2> QED BY <1>1, <2>1, <2>3, <2>4 DEF IsAdapter
<1>12. UNCHANGED <<store, broken, guest, sent, answers, got>>
  BY <1>2 DEF vars, diskVars
<1>13. IsAdapter'
  BY <1>1, <1>11 DEF IsAdapter
<1>14. CallInv' /\ TruthInv'
  BY <1>2, <1>3, <1>11, <1>12 DEF CallInv, TruthInv
<1>15. ReturnInv'
  <2>1. result'.outcome = "OK" => a.head.status = "OK"
    BY <1>9, <1>11
  <2>2. result'.outcome # "PROTOCOL"
    BY <1>9, <1>11
  <2>3. AlarmMeansReentry'
    BY <1>1, <1>2, <1>11, <2>2 DEF ReturnInv, AlarmMeansReentry
  <2>4. result'.outcome = "OK" => SaysTruth(result.op, result.lba, result.written, a.data)
    BY <1>5, <1>6, <2>1
  <2> QED BY <1>6, <1>11, <1>12, <2>3, <2>4 DEF ReturnInv, SaysTruth
<1> QED BY <1>2, <1>13, <1>14, <1>15, OwnerStep

\* What YanFS asks for: blocks of the disk, one at a time.
IsCall(op, lba, data) ==
  /\ op \in Ops
  /\ IF op = "CAPACITY" THEN lba = 0 ELSE lba \in 0..CapacityBlocks - 1
  /\ IF op = "WRITE" THEN \E value \in Values : data = <<value>> ELSE data = <<>>

(* A call finds a channel with room for its whole frame, and becomes the   *)
(* one request under way.                                                  *)
LEMMA CallStep ==
  ASSUME AInv, NEW op, NEW lba, NEW data, IsCall(op, lba, data), Call(op, lba, data)
  PROVE  AInv'
<1>1. /\ CInv /\ HistoryInv /\ GuestInv /\ RingsInv /\ IsAdapter /\ CallInv /\ ReturnInv
  BY DEF AInv, CInv
<1> DEFINE r == RequestOf(op, lba, data)
           pay == RequestPayload(r.head)
<1>2. /\ guest.at = "idle" /\ adapter.initialized /\ ~adapter.failed /\ ~adapter.busy
      /\ reentered' = reentered
  BY DEF Call, MayCall
<1>3. /\ r.head = [op |-> op, status |-> "none", tag |-> adapter.nextTag, lba |-> lba,
                   count |-> IF op = "CAPACITY" THEN 0 ELSE 1]
      /\ r.data = data /\ r = [head |-> r.head, data |-> r.data]
  BY DEF RequestOf
<1>4. /\ op \in Ops /\ lba \in Nat /\ adapter.nextTag \in Nat
      /\ data \in Seq(Values) /\ Len(data) = IF op = "WRITE" THEN 1 ELSE 0
  <2>1. op \in Ops /\ lba \in Nat /\ adapter.nextTag \in Nat
    BY <1>1, ChannelAssumption DEF IsCall, IsAdapter
  <2>2. CASE op = "WRITE"
    <3>1. PICK value \in Values : data = <<value>>
      BY <2>2 DEF IsCall
    <3>2. data \in Seq(Values) /\ Len(data) = 1
      BY <3>1
    <3> QED BY <2>1, <2>2, <3>2
  <2>3. CASE op # "WRITE"
    <3>1. data = <<>>
      BY <2>3 DEF IsCall
    <3>2. data \in Seq(Values) /\ Len(data) = 0
      BY <3>1
    <3> QED BY <2>1, <2>3, <3>2
  <2> QED BY <2>2, <2>3
<1>5. /\ Len(got) = Len(answers) /\ Len(answers) = Len(sent)
      /\ Len(got) \in Nat
  BY <1>1, <1>2, HistoryFacts DEF CallInv
<1>6. MaxCount >= 1 /\ MaxCount \in Int
  BY <1>1, <1>2, ChannelAssumption DEF IsAdapter, MaxCount
<1> HIDE DEF r
<1>7. r \in RequestSet /\ Carried(r)
  <2>1. r.head \in [op : Ops, status : {"none"}, tag : Nat, lba : Nat, count : Nat]
    BY <1>3, <1>4
  <2>2. Len(r.data) = IF r.head.op = "WRITE" THEN r.head.count ELSE 0
    BY <1>3, <1>4
  <2>3. r \in RequestSet
    BY <1>3, <1>4, <2>1, <2>2 DEF RequestSet
  <2>4. Carried(r)
    BY <1>3, <1>6 DEF Carried
  <2> QED BY <2>3, <2>4
<1>8. pay = IF op = "WRITE" THEN BlockSize ELSE 0
  <2>1. pay = IF op = "WRITE" THEN r.head.count * BlockSize ELSE 0
    BY <1>3 DEF RequestPayload
  <2>2. op = "WRITE" => r.head.count = 1
    BY <1>3
  <2>3. 1 * BlockSize = BlockSize
    BY ChannelAssumption
  <2> QED BY <2>1, <2>2, <2>3
<1>9. FitsRing(pay)
  <2>1. FitsRing(1 * BlockSize)
    BY <1>6, CountFits
  <2>2. 1 * BlockSize = BlockSize
    BY ChannelAssumption
  <2> HIDE DEF pay
  <2> QED BY <1>8, <2>1, <2>2, ChannelAssumption DEF FitsRing
<1>10. Accepts(r)
  <2>1. Used(g2h) = 0
    BY <1>1, <1>2, <1>5, RequestFront DEF Unanswered
  <2>2. Free(g2h) = RingSize - 1
    BY <2>1, ChannelAssumption DEF Free
  <2>3. HeaderSize + pay \in Int /\ RingSize \in Nat
    BY <1>8, ChannelAssumption
  <2> HIDE DEF pay
  <2>4. Free(g2h) >= HeaderSize + pay
    BY <1>9, <2>2, <2>3 DEF FitsRing
  <2> QED BY <1>7, <2>4 DEF Accepts, Carried, pay
<1>11. ~overflow /\ ~(MaxCount < 1)
  BY <1>1, <1>6 DEF RingsInv
<1>12. /\ SubmitHeader(r)
       /\ adapter' = [adapter EXCEPT !.busy = TRUE, !.op = op, !.tag = adapter.nextTag,
                                     !.lba = lba, !.nextTag = (@ + 1) % TagModulus]
       /\ result' = [outcome |-> "none", op |-> op, lba |-> lba,
                     written |-> data, data |-> <<>>]
  BY <1>10, <1>11 DEF Call, r, NoResult
<1> DEFINE next == (adapter.nextTag + 1) % TagModulus
<1>13. next \in Nat
  <2> DEFINE x == adapter.nextTag + 1
  <2>1. x \in Nat /\ TagModulus \in Nat \ {0}
    BY <1>4, TagAssumption
  <2> HIDE DEF x
  <2>2. x % TagModulus \in 0..TagModulus - 1
    BY <2>1
  <2> QED BY <2>1, <2>2 DEF x
<1> HIDE DEF next
<1>14. /\ adapter' = [initialized |-> TRUE, busy |-> TRUE, failed |-> FALSE,
                      nextTag |-> next, op |-> op, tag |-> adapter.nextTag, lba |-> lba]
       /\ result' = [outcome |-> "none", op |-> op, lba |-> lba,
                     written |-> data, data |-> <<>>]
  <2>1. adapter.initialized = TRUE /\ adapter.failed = FALSE
    BY <1>1, <1>2 DEF IsAdapter
  <2>2. adapter' = [adapter EXCEPT !.busy = TRUE, !.op = op, !.tag = adapter.nextTag,
                                   !.lba = lba, !.nextTag = next]
    BY <1>12 DEF next
  <2>3. adapter' = [initialized |-> TRUE, busy |-> TRUE, failed |-> FALSE,
                    nextTag |-> next, op |-> op, tag |-> adapter.nextTag, lba |-> lba]
    BY <1>1, <2>1, <2>2 DEF IsAdapter
  <2> QED BY <1>12, <2>3
<1>15. CInv' /\ HistoryInv'
  BY <1>1, <1>7, <1>12, SubmitHeaderStep DEF CInv
<1>16. IsAdapter'
  BY <1>6, <1>13, <1>14 DEF IsAdapter
<1>17. ReturnInv'
  BY <1>14 DEF ReturnInv, AlarmMeansReentry
<1>18. /\ r.head = [op |-> adapter'.op, status |-> "none", tag |-> adapter'.tag,
                    lba |-> adapter'.lba,
                    count |-> IF adapter'.op = "CAPACITY" THEN 0 ELSE 1]
       /\ r.data = result'.written
       /\ IF adapter'.op = "CAPACITY" THEN adapter'.lba = 0
                                     ELSE adapter'.lba \in 0..CapacityBlocks - 1
       /\ result'.op = adapter'.op /\ result'.lba = adapter'.lba
  BY <1>3, <1>14 DEF IsCall
<1>19. UNCHANGED <<store, broken, answers, got>> /\ guest'.at \in {"payload", "bell"}
  BY <1>1, <1>12 DEF SubmitHeader, diskVars, GuestInv
<1>20. CallInv' /\ TruthInv'
  <2>1. adapter'.busy /\ adapter'.initialized /\ result'.outcome = "none"
    BY <1>14
  <2>2. CASE pay = 0
    <3>1. guest'.at = "bell" /\ sent' = Append(sent, r)
      BY <1>1, <1>12, <2>2 DEF SubmitHeader, GuestInv
    <3>2. Len(sent') = Len(sent) + 1 /\ sent'[Len(sent) + 1] = r
      BY <1>1, <1>7, <3>1, AppendFacts DEF HistoryInv
    <3>3. Len(sent') = Len(got') + 1 /\ Len(answers') = Len(got') /\ Len(got') \in Nat
      BY <1>5, <1>19, <3>2
    <3>4. sent'[Len(sent')] = r
      BY <1>5, <3>2
    <3>5. IsAsked(sent[Len(sent)])'
      BY <1>18, <3>4 DEF IsAsked
    <3>6. CallInv'
      BY <2>1, <3>1, <3>3, <3>5 DEF CallInv
    <3>7. TruthInv'
      BY <3>3 DEF TruthInv
    <3> QED BY <3>6, <3>7
  <2>3. CASE pay # 0
    <3>1. guest'.at = "payload" /\ guest'.request = r /\ sent' = sent
      BY <1>1, <1>12, <2>3 DEF SubmitHeader, GuestInv
    <3>2. IsAsked(guest.request)'
      BY <1>18, <3>1 DEF IsAsked
    <3>3. CallInv'
      BY <1>5, <1>19, <2>1, <3>1, <3>2 DEF CallInv
    <3>4. TruthInv'
      BY <3>1 DEF TruthInv
    <3> QED BY <3>3, <3>4
  <2> QED BY <2>2, <2>3
<1> QED BY <1>15, <1>16, <1>17, <1>20 DEF AInv

LEMMA AdapterStart ==
  ASSUME AdapterInit
  PROVE  AInv
<1>1. CInv
  BY ChannelInit DEF AdapterInit
<1>2. /\ guest.at = "idle" /\ sent = <<>> /\ answers = <<>> /\ got = <<>>
      /\ adapter = [initialized |-> FALSE, busy |-> FALSE, failed |-> FALSE,
                    nextTag |-> 0, op |-> "none", tag |-> 0, lba |-> 0]
      /\ result = [outcome |-> "none", op |-> "none", lba |-> 0,
                   written |-> <<>>, data |-> <<>>]
  BY DEF AdapterInit, Init, Idle, Closed, NoResult
<1>3. IsAdapter
  BY <1>2 DEF IsAdapter
<1>4. CallInv /\ TruthInv /\ ReturnInv
  BY <1>2 DEF CallInv, TruthInv, ReturnInv, AlarmMeansReentry
<1> QED BY <1>1, <1>3, <1>4 DEF AInv

LEMMA AdapterKeeps ==
  ASSUME AInv, [AdapterNext]_allVars
  PROVE  AInv'
<1>1. CASE Open
  BY <1>1, OpenStep
<1>2. CASE Calls
  <2>1. CASE \E lba \in 0..CapacityBlocks - 1 : Call("READ", lba, <<>>)
    <3>1. PICK lba \in 0..CapacityBlocks - 1 : Call("READ", lba, <<>>)
      BY <2>1
    <3>2. IsCall("READ", lba, <<>>)
      BY DEF IsCall, Ops
    <3> QED BY <3>1, <3>2, CallStep
  <2>2. CASE \E lba \in 0..CapacityBlocks - 1 : \E value \in Values :
               Call("WRITE", lba, <<value>>)
    <3>1. PICK lba \in 0..CapacityBlocks - 1, value \in Values : Call("WRITE", lba, <<value>>)
      BY <2>2
    <3>2. IsCall("WRITE", lba, <<value>>)
      BY DEF IsCall, Ops
    <3> QED BY <3>1, <3>2, CallStep
  <2>3. CASE Call("CAPACITY", 0, <<>>)
    <3>1. IsCall("CAPACITY", 0, <<>>)
      BY DEF IsCall, Ops
    <3> QED BY <2>3, <3>1, CallStep
  <2> QED BY <1>2, <2>1, <2>2, <2>3 DEF Calls
<1>3. CASE Refuse
  BY <1>3, RefuseStep
<1>4. CASE Reenter
  BY <1>4, ReenterStep
<1>5. CASE Wake
  BY <1>5, WakeStep
<1>6. CASE Pair
  BY <1>6, PairStep
<1>7. CASE ChannelStep
  BY <1>7, ChannelUnderAdapter
<1>8. CASE UNCHANGED allVars
  <2>1. /\ UNCHANGED vars /\ adapter' = adapter /\ result' = result /\ reentered' = reentered
        /\ UNCHANGED <<store, broken, guest, sent, answers, got>>
    BY <1>8 DEF allVars, adapterVars, vars, diskVars
  <2>2. IsAdapter' /\ CallInv' /\ TruthInv' /\ ReturnInv'
    BY <2>1 DEF AInv, IsAdapter, CallInv, IsAsked, TruthInv, SaysTruth, ReturnInv,
                AlarmMeansReentry
  <2> QED BY <2>1, <2>2, OwnerStep
<1> QED BY <1>1, <1>2, <1>3, <1>4, <1>5, <1>6, <1>7, <1>8 DEF AdapterNext, AdapterStep

(* Through every step of the adapter of os/yanfs_block.c over the channel, *)
(* a call in progress has exactly one request or one answer on its way,    *)
(* the answer is to the request it made, and is true of the disk from the  *)
(* moment it is given until the call returns.                              *)
THEOREM AdapterInvariant == AdapterSpec => []AInv
<1>1. AdapterInit => AInv
  BY AdapterStart
<1>2. AInv /\ [AdapterNext]_allVars => AInv'
  BY AdapterKeeps
<1> QED BY <1>1, <1>2, PTL DEF AdapterSpec

(* What a returned call says is true of the disk: the block that was read  *)
(* is the block on the disk, the block that was written is on it, and no   *)
(* call succeeds on a failed file (adapter_read_block, adapter_write_block *)
(* and run_request of os/yanfs_block.c).                                   *)
THEOREM ResultsAreTrue == AdapterSpec => []ResultIsTrue
<1>1. AInv => ResultIsTrue
  BY DEF AInv, ReturnInv, SaysTruth, ResultIsTrue, Ops
<1> QED BY <1>1, AdapterInvariant, PTL

(* The adapter closes itself only on a reentrant call, and a call that     *)
(* reached the channel never returns PROTOCOL (finish_protocol of          *)
(* os/yanfs_block.c): neither a ring without room, nor a wake without a    *)
(* frame, nor a frame of another call ever comes from this host.           *)
THEOREM AlarmsMeanReentry == AdapterSpec => []AlarmMeansReentry
<1>1. AInv => AlarmMeansReentry
  BY DEF AInv, ReturnInv
<1> QED BY <1>1, AdapterInvariant, PTL
=============================================================================

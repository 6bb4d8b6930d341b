---------------------------- MODULE FramesProofs ----------------------------
(***************************************************************************)
(* A call of Frames stores outside the memory of a frame only as           *)
(* InsideMemory says, and one that succeeds leaves no byte unset but the   *)
(* border ImageComplete names; the decoders that keep a sample keep it in  *)
(* its place, and those that mix samples mix those of a colour; and        *)
(* conversions that lose nothing on the way, of even width, end in the     *)
(* same picture: for pictures of every size (decoded ones from five        *)
(* columns and four rows on) and depth, tiles of every side, memory of     *)
(* every history, and whenever malloc() fails.                             *)
(***************************************************************************)
EXTENDS Frames, TLAPS, FiniteSetTheorems

Fields == DOMAIN Calloced

\* A frame's memory is what its description says.
MemoryOK(f) ==
    /\ f.size \in Nat \X Nat /\ f.padding \in Nat
    /\ f.allocated \in Nat /\ f.image_bytes \in Nat
    /\ DOMAIN f.image = 0 .. f.allocated - 1
    /\ f.fresh \subseteq DOMAIN f.image
    /\ f.image # NULL => f.image_bytes + f.padding <= f.allocated

\* What a call on frame i leaves behind, for as long as neither frame changes.
CompleteOK(f, from, op, arg, err) ==
    err = "SUCCESS" =>
        /\ f.fresh \cap (0 .. f.image_bytes + f.padding - 1) \subseteq Border(f, arg)
        /\ f.padding = from.padding
        /\ \/ op = "convert" /\ RowsPadded(from, f)
           \/ \A k \in 0 .. f.padding - 1 :
                 f.image[f.image_bytes + k] = from.image[from.image_bytes + k]

\* What it may do that is undefined.
KnownOK(f, from, op, arg, err) == err = "UNDEFINED" => KnownUndefined(op, arg, from, f)

Inv ==
    /\ stray # {} => \E i \in 2 .. 3 : made[i].op = "convert" /\ RowsPadded(frame[i - 1], frame[i])
    /\ DOMAIN frame = 1 .. 3 /\ frame[1] \in Captured
    /\ \A i \in 2 .. 3 : DOMAIN frame[i] = Fields
    /\ \A i \in 1 .. 3 : MemoryOK(frame[i])
    /\ \A i \in 2 .. 3 :
          /\ CompleteOK(frame[i], frame[i - 1], made[i].op, made[i].arg, made[i].err)
          /\ KnownOK(frame[i], frame[i - 1], made[i].op, made[i].arg, made[i].err)

-----------------------------------------------------------------------------
(* Offsets in a picture.                                                   *)

Whole(w, h) == 0 .. 3 * (w * h) - 1

LEMMA Monotone ==
    ASSUME NEW a \in Nat, NEW b \in Nat, NEW c \in Nat, a <= b
    PROVE  a * c <= b * c
OBVIOUS

LEMMA Divided ==
    ASSUME NEW a \in Nat, NEW d \in Nat, d > 0
    PROVE  /\ a \div d \in Nat /\ a % d \in 0 .. d - 1
           /\ a = (a \div d) * d + (a % d)
OBVIOUS

LEMMA Multiple ==
    ASSUME NEW a \in Nat, NEW d \in Nat, d > 0
    PROVE  (a * d) % d = 0
<1> DEFINE s == (a * d) \div d  r == (a * d) % d
<1>1. a * d \in Nat
  OBVIOUS
<1>2. s \in Nat /\ r \in 0 .. d - 1 /\ a * d = s * d + r
  BY <1>1, Divided
<1> HIDE DEF s, r
<1>3. CASE a >= s + 1
  <2>1. (s + 1) * d <= a * d
    BY <1>2, <1>3, Monotone
  <2>2. (s + 1) * d = s * d + d
    BY <1>2
  <2> DEFINE p == a * d  q == s * d
  <2>3. q + d <= p /\ p = q + r /\ q \in Nat
    BY <1>2, <2>1, <2>2
  <2> HIDE DEF p, q
  <2> QED BY <1>2, <2>3
<1>4. CASE a <= s
  <2>1. a * d <= s * d
    BY <1>2, <1>4, Monotone
  <2> DEFINE p == a * d  q == s * d
  <2>2. p <= q /\ p = q + r /\ q \in Nat
    BY <1>2, <2>1
  <2> HIDE DEF p, q
  <2>3. r = 0
    BY <1>2, <2>2
  <2> QED BY <2>3 DEF r
<1> QED BY <1>2, <1>3, <1>4

LEMMA PlaceInside ==
    ASSUME NEW w \in Nat, NEW h \in Nat, NEW y \in 0 .. h - 1, NEW x \in 0 .. w - 1, NEW c \in 0 .. 2
    PROVE  3 * (y * w + x) + c \in Whole(w, h)
<1>1. (y + 1) * w <= h * w
  BY Monotone
<1>2. y * w + x <= w * h - 1 /\ y * w + x \in Nat
  BY <1>1
<1> DEFINE p == y * w + x  q == w * h
<1>3. p \in Nat /\ q \in Nat /\ p <= q - 1
  BY <1>2
<1> HIDE DEF p, q
<1>4. 3 * p + c \in 0 .. 3 * q - 1
  BY <1>3
<1> QED BY <1>4 DEF p, q, Whole

LEMMA OffsetPlace ==
    ASSUME NEW w \in Nat, NEW h \in Nat, NEW i \in Whole(w, h)
    PROVE  /\ w > 0 /\ Row(w, i) \in 0 .. h - 1 /\ Column(w, i) \in 0 .. w - 1 /\ i % 3 \in 0 .. 2
           /\ i = 3 * (Row(w, i) * w + Column(w, i)) + (i % 3)
<1> DEFINE q == w * h  p == i \div 3  y == p \div w  x == p % w
<1>1. q \in Nat /\ i \in 0 .. 3 * q - 1
  BY DEF Whole
<1> HIDE DEF q
<1>2. p \in 0 .. q - 1 /\ i = 3 * p + (i % 3) /\ i % 3 \in 0 .. 2
  BY <1>1
<1> HIDE DEF p
<1>3. w > 0
  BY <1>2 DEF q
<1>4. y \in Nat /\ x \in 0 .. w - 1 /\ p = y * w + x
  BY <1>2, <1>3, Divided
<1> HIDE DEF x, y
<1>5. y < h
  <2>1. SUFFICES ASSUME h <= y PROVE FALSE
    BY <1>4
  <2>2. h * w <= y * w
    BY <1>4, <2>1, Monotone
  <2> QED BY <1>2, <1>4, <2>2 DEF q
<1> QED BY <1>2, <1>3, <1>4, <1>5 DEF Row, Column, p, x, y

LEMMA PlacesInside ==
    ASSUME NEW w \in Nat, NEW h \in Nat,
           NEW rows, rows \subseteq 0 .. h - 1, NEW cols, cols \subseteq 0 .. w - 1
    PROVE  Places(w, rows, cols) \subseteq Whole(w, h)
<1> SUFFICES ASSUME NEW i \in Places(w, rows, cols) PROVE i \in Whole(w, h)
  OBVIOUS
<1>1. PICK y \in rows, x \in cols, c \in 0 .. 2 : i = 3 * (y * w + x) + c
  BY DEF Places
<1>2. y \in 0 .. h - 1 /\ x \in 0 .. w - 1
  OBVIOUS
<1> QED BY <1>1, <1>2, PlaceInside, Zenon

LEMMA InPlaces ==
    ASSUME NEW w \in Nat, NEW h \in Nat, NEW i \in Whole(w, h),
           NEW rows, Row(w, i) \in rows, NEW cols, Column(w, i) \in cols
    PROVE  i \in Places(w, rows, cols)
<1> DEFINE y == Row(w, i)  x == Column(w, i)  c == i % 3
<1>1. c \in 0 .. 2 /\ i = 3 * (y * w + x) + c
  BY OffsetPlace
<1> HIDE DEF y, x, c
<1>2. y \in rows /\ x \in cols
  BY DEF y, x
<1> QED BY <1>1, <1>2 DEF Places

\* The sums in the code's loops over a border, with the product written once.
LEMMA LastInside ==
    ASSUME NEW w \in Nat \ {0}, NEW h \in Nat \ {0}
    PROVE  LastRowAndColumn(w, h) \subseteq Whole(w, h)
<1> SUFFICES ASSUME NEW i \in LastRowAndColumn(w, h) PROVE i \in Whole(w, h)
  OBVIOUS
<1> DEFINE q == w * h
<1>1. /\ 3 * w * (h - 1) = 3 * q - 3 * w /\ 3 * w * h = 3 * q
      /\ q \in Nat /\ w <= q
  <2>1. 1 * w <= h * w
    BY Monotone
  <2> QED BY <2>1
<1>2. CASE i \in 3 * w * (h - 1) .. 3 * w * h - 1
  <2> HIDE DEF q
  <2>1. i \in 0 .. 3 * q - 1
    BY <1>1, <1>2
  <2> QED BY <2>1 DEF Whole, q
<1>3. CASE \E k \in 0 .. h - 1, c \in 0 .. 2 : i = 3 * (w - 1) + 3 * w * k + c
  <2>1. PICK k \in 0 .. h - 1, c \in 0 .. 2 : i = 3 * (w - 1) + 3 * w * k + c
    BY <1>3
  <2>2. i = 3 * (k * w + (w - 1)) + c
    BY <2>1
  <2>3. w - 1 \in 0 .. w - 1
    OBVIOUS
  <2> QED BY <2>2, <2>3, PlaceInside
<1> QED BY <1>2, <1>3 DEF LastRowAndColumn

LEMMA LastCovers ==
    ASSUME NEW w \in Nat \ {0}, NEW h \in Nat \ {0}, NEW i \in Whole(w, h),
           Row(w, i) = h - 1 \/ Column(w, i) = w - 1
    PROVE  i \in LastRowAndColumn(w, h)
<1> DEFINE y == Row(w, i)  x == Column(w, i)  c == i % 3
<1>1. y \in 0 .. h - 1 /\ x \in 0 .. w - 1 /\ c \in 0 .. 2 /\ i = 3 * (y * w + x) + c
  BY OffsetPlace
<1>2. CASE y = h - 1
  <2>1. i \in 3 * w * (h - 1) .. 3 * w * h - 1
    <3> HIDE DEF y, x, c
    <3>1. i = 3 * ((h - 1) * w + x) + c
      BY <1>1, <1>2
    <3>2. i = 3 * (w * (h - 1)) + 3 * x + c /\ 3 * w * h = 3 * (w * (h - 1)) + 3 * w
      BY <1>1, <3>1
    <3> DEFINE p == w * (h - 1)
    <3>3. 3 * w * (h - 1) = 3 * p /\ 3 * w * h = 3 * p + 3 * w /\ i = 3 * p + 3 * x + c /\ p \in Nat
      BY <3>2
    <3> HIDE DEF p
    <3> QED BY <1>1, <3>3
  <2> QED BY <2>1 DEF LastRowAndColumn
<1>3. CASE x = w - 1
  <2>1. i = 3 * (w - 1) + 3 * w * y + c
    <3> HIDE DEF y, x, c
    <3>1. 3 * (y * w + x) = 3 * (w - 1) + 3 * w * y
      BY <1>1, <1>3
    <3> QED BY <1>1, <3>1
  <2> HIDE DEF y, x, c
  <2>2. \E k \in 0 .. h - 1, d \in 0 .. 2 : i = 3 * (w - 1) + 3 * w * k + d
    BY <1>1, <2>1
  <2> QED BY <2>2 DEF LastRowAndColumn
<1> QED BY <1>2, <1>3

LEMMA BordersInside ==
    ASSUME NEW k \in {1, 2}, NEW w \in Nat, NEW h \in Nat, w >= 2 * k, h >= 2 * k
    PROVE  ClearBorders(w, h, k) \subseteq Whole(w, h)
<1> SUFFICES ASSUME NEW i \in ClearBorders(w, h, k) PROVE i \in Whole(w, h)
  OBVIOUS
<1> DEFINE q == w * h  low == 3 * w * (k - 1) + 3 * k - 1
<1>1. /\ 3 * w * (h - k) = 3 * q - 3 * (w * k) /\ 3 * w * h = 3 * q
      /\ 3 * w * k = 3 * (w * k) /\ q \in Nat /\ w * k \in Nat /\ w * k <= q
  <2>1. k * w <= h * w
    BY Monotone
  <2> QED BY <2>1
<1>2. CASE i \in 0 .. 3 * w * k - 1 \/ i \in 3 * w * (h - k) .. 3 * w * h - 1
  <2>1. i \in 0 .. 3 * q - 1
    <3> DEFINE p == w * k
    <3>1. /\ i \in 0 .. 3 * p - 1 \/ i \in 3 * q - 3 * p .. 3 * q - 1
          /\ p \in Nat /\ q \in Nat /\ p <= q
      BY <1>1, <1>2
    <3> HIDE DEF p, q
    <3> QED BY <3>1
  <2> QED BY <2>1 DEF Whole
<1>3. CASE \E n \in 1 .. h - 2 * k + 1, j \in 0 .. 6 * k - 1 : i = low + 3 * w * n - j
  <2>1. PICK n \in 1 .. h - 2 * k + 1, j \in 0 .. 6 * k - 1 : i = low + 3 * w * n - j
    BY <1>3
  <2> DEFINE m == n + k - 1
  <2>2. m \in k .. h - k /\ m \in Nat
    OBVIOUS
  <2>3. low + 3 * w * n = 3 * (m * w) + 3 * k - 1
    <3>1. CASE k = 1 BY <3>1
    <3>2. CASE k = 2 BY <3>2
    <3> QED BY <3>1, <3>2
  <2>4. k * w <= m * w /\ m * w <= (h - k) * w
    BY <2>2, Monotone
  <2>5. (h - k) * w = q - k * w /\ k * w >= 2 * k /\ m * w \in Nat
    <3>1. CASE k = 1 BY <2>2, <3>1
    <3>2. CASE k = 2 BY <2>2, <3>2
    <3> QED BY <3>1, <3>2
  <2>6. i \in 0 .. 3 * q - 1
    <3> DEFINE p == m * w  r == k * w
    <3>1. /\ i = 3 * p + 3 * k - 1 - j /\ r <= p /\ p <= q - r /\ r >= 2 * k
          /\ p \in Nat /\ q \in Nat /\ r \in Nat
      BY <1>1, <2>1, <2>3, <2>4, <2>5
    <3> HIDE DEF p, q, r
    <3> QED BY <3>1
  <2> QED BY <2>6 DEF Whole
<1> QED BY <1>2, <1>3 DEF ClearBorders

LEMMA BordersCover ==
    ASSUME NEW k \in {1, 2}, NEW w \in Nat, NEW h \in Nat, w >= 2 * k, h >= 2 * k,
           NEW i \in Whole(w, h),
           Row(w, i) \notin k .. h - 1 - k \/ Column(w, i) \notin k .. w - 1 - k
    PROVE  i \in ClearBorders(w, h, k)
<1> DEFINE y == Row(w, i)  x == Column(w, i)  c == i % 3  low == 3 * w * (k - 1) + 3 * k - 1
<1>1. y \in 0 .. h - 1 /\ x \in 0 .. w - 1 /\ c \in 0 .. 2 /\ i = 3 * (y * w + x) + c
  BY OffsetPlace
<1>2. y \notin k .. h - 1 - k \/ x \notin k .. w - 1 - k
  OBVIOUS
<1> HIDE DEF y, x, c
<1>3. CASE y < k
  <2>1. y * w <= (k - 1) * w /\ y * w \in Nat
    BY <1>1, <1>3, Monotone
  <2>2. 3 * w * k = 3 * ((k - 1) * w) + 3 * w
    OBVIOUS
  <2> DEFINE p == y * w  r == (k - 1) * w
  <2>3. i = 3 * (p + x) + c /\ p <= r /\ p \in Nat /\ r \in Nat /\ 3 * w * k = 3 * r + 3 * w
    BY <1>1, <2>1, <2>2
  <2> HIDE DEF p, r
  <2>4. i \in 0 .. 3 * w * k - 1
    BY <1>1, <2>3
  <2> QED BY <2>4 DEF ClearBorders
<1>4. CASE y >= h - k
  <2>1. (h - k) * w <= y * w /\ (y + 1) * w <= h * w /\ y * w \in Nat
    BY <1>1, <1>4, Monotone
  <2>2. 3 * w * (h - k) = 3 * ((h - k) * w) /\ 3 * w * h = 3 * (h * w) /\ (y + 1) * w = y * w + w
    BY <1>1
  <2> DEFINE p == y * w  r == (h - k) * w  q == h * w
  <2>3. /\ i = 3 * (p + x) + c /\ p \in Nat /\ r \in Nat /\ q \in Nat
        /\ r <= p /\ p + w <= q
        /\ 3 * w * (h - k) = 3 * r /\ 3 * w * h = 3 * q
    BY <1>1, <2>1, <2>2
  <2> HIDE DEF p, r, q
  <2>4. i \in 3 * w * (h - k) .. 3 * w * h - 1
    BY <1>1, <2>3
  <2> QED BY <2>4 DEF ClearBorders
<1>5. CASE y \in k .. h - 1 - k /\ x < k
  <2> DEFINE n == y - k + 1  j == 3 * k - 1 - 3 * x - c
  <2>1. n \in 1 .. h - 2 * k + 1 /\ j \in 0 .. 6 * k - 1
    BY <1>1, <1>5
  <2>2. i = low + 3 * w * n - j
    <3>1. CASE k = 1 BY <1>1, <3>1
    <3>2. CASE k = 2 BY <1>1, <3>2
    <3> QED BY <3>1, <3>2
  <2> HIDE DEF n, j, low
  <2>3. \E m \in 1 .. h - 2 * k + 1, o \in 0 .. 6 * k - 1 : i = low + 3 * w * m - o
    BY <2>1, <2>2
  <2> QED BY <2>3 DEF ClearBorders, low
<1>6. CASE y \in k .. h - 1 - k /\ x >= w - k
  <2> DEFINE n == y - k + 2  j == 3 * w + 3 * k - 1 - 3 * x - c
  <2>1. n \in 1 .. h - 2 * k + 1 /\ j \in 0 .. 6 * k - 1
    BY <1>1, <1>6
  <2>2. i = low + 3 * w * n - j
    <3>1. CASE k = 1 BY <1>1, <3>1
    <3>2. CASE k = 2 BY <1>1, <3>2
    <3> QED BY <3>1, <3>2
  <2> HIDE DEF n, j, low
  <2>3. \E m \in 1 .. h - 2 * k + 1, o \in 0 .. 6 * k - 1 : i = low + 3 * w * m - o
    BY <2>1, <2>2
  <2> QED BY <2>3 DEF ClearBorders, low
<1> QED BY <1>1, <1>2, <1>3, <1>4, <1>5, <1>6

-----------------------------------------------------------------------------
(* What the decoders store to.                                             *)

LEMMA LastJoins ==
    ASSUME NEW w \in Nat \ {0}, NEW h \in Nat \ {0}
    PROVE  Places(w, 0 .. h - 2, 0 .. w - 2) \cup LastRowAndColumn(w, h) = Whole(w, h)
<1>1. Places(w, 0 .. h - 2, 0 .. w - 2) \subseteq Whole(w, h)
  <2>1. 0 .. h - 2 \subseteq 0 .. h - 1 /\ 0 .. w - 2 \subseteq 0 .. w - 1
    OBVIOUS
  <2> QED BY <2>1, PlacesInside
<1>2. ASSUME NEW i \in Whole(w, h), i \notin LastRowAndColumn(w, h)
      PROVE  i \in Places(w, 0 .. h - 2, 0 .. w - 2)
  <2>1. Row(w, i) \in 0 .. h - 1 /\ Column(w, i) \in 0 .. w - 1
    BY OffsetPlace
  <2>2. Row(w, i) # h - 1 /\ Column(w, i) # w - 1
    BY <1>2, LastCovers
  <2>3. Row(w, i) \in 0 .. h - 2 /\ Column(w, i) \in 0 .. w - 2
    BY <2>1, <2>2
  <2> QED BY <2>3, InPlaces
<1> QED BY <1>1, <1>2, LastInside

LEMMA BordersJoin ==
    ASSUME NEW k \in {1, 2}, NEW w \in Nat, NEW h \in Nat, w >= 2 * k, h >= 2 * k
    PROVE  Places(w, k .. h - 1 - k, k .. w - 1 - k) \cup ClearBorders(w, h, k) = Whole(w, h)
<1>1. Places(w, k .. h - 1 - k, k .. w - 1 - k) \subseteq Whole(w, h)
  <2>1. k .. h - 1 - k \subseteq 0 .. h - 1 /\ k .. w - 1 - k \subseteq 0 .. w - 1
    OBVIOUS
  <2> QED BY <2>1, PlacesInside
<1>2. ASSUME NEW i \in Whole(w, h), i \notin ClearBorders(w, h, k)
      PROVE  i \in Places(w, k .. h - 1 - k, k .. w - 1 - k)
  BY <1>2, BordersCover, InPlaces
<1> QED BY <1>1, <1>2, BordersInside

LEMMA NearestStores ==
    ASSUME NEW raw, raw.w \in Nat \ {0}, raw.h \in Nat \ {0}, NEW tile, NEW bits
    PROVE  /\ DOMAIN NearestNeighbor(raw, tile) = Whole(raw.w, raw.h)
           /\ DOMAIN NearestNeighbor_uint16(raw, tile, bits) = Whole(raw.w, raw.h)
           /\ DOMAIN Simple(raw, tile) = Whole(raw.w, raw.h)
           /\ DOMAIN Simple_uint16(raw, tile, bits) = Whole(raw.w, raw.h)
<1> DEFINE P == Places(raw.w, 0 .. raw.h - 2, 0 .. raw.w - 2)
           L == LastRowAndColumn(raw.w, raw.h)
<1>1. P \cup L = Whole(raw.w, raw.h)
  BY LastJoins
<1>2. DOMAIN Zero(L) = L
  BY DEF Zero
<1>3. DOMAIN NearestNeighbor(raw, tile) = P \cup L
  BY <1>2 DEF Over, NearestNeighbor
<1>4. DOMAIN NearestNeighbor_uint16(raw, tile, bits) = P \cup L
  BY <1>2 DEF Over, NearestNeighbor_uint16
<1>5. DOMAIN Simple(raw, tile) = P \cup L
  BY <1>2 DEF Over, Simple
<1>6. DOMAIN Simple_uint16(raw, tile, bits) = L \cup P
  BY <1>2 DEF Over, Simple_uint16
<1> HIDE DEF P, L
<1> QED BY <1>1, <1>3, <1>4, <1>5, <1>6

LEMMA BilinearStores ==
    ASSUME NEW raw, raw.w \in Nat, raw.h \in Nat, raw.w >= 2, raw.h >= 2, NEW tile, NEW bits
    PROVE  /\ DOMAIN Bilinear(raw, tile) = Whole(raw.w, raw.h)
           /\ DOMAIN Bilinear_uint16(raw, tile, bits) \subseteq Whole(raw.w, raw.h)
           /\ DOMAIN Bilinear_uint16(raw, tile, bits) = Places(raw.w, 1 .. raw.h - 2, 1 .. raw.w - 2)
<1> DEFINE P == Places(raw.w, 1 .. raw.h - 2, 1 .. raw.w - 2)
           B == ClearBorders(raw.w, raw.h, 1)
<1>1. P \cup B = Whole(raw.w, raw.h)
  <2>1. raw.h - 1 - 1 = raw.h - 2 /\ raw.w - 1 - 1 = raw.w - 2
    OBVIOUS
  <2>2. Places(raw.w, 1 .. raw.h - 1 - 1, 1 .. raw.w - 1 - 1) \cup B = Whole(raw.w, raw.h)
    BY BordersJoin
  <2> QED BY <2>1, <2>2
<1>2. DOMAIN Zero(B) = B
  BY DEF Zero
<1>3. DOMAIN Bilinear(raw, tile) = P \cup B
  BY <1>2 DEF Over, Bilinear
<1>4. DOMAIN Bilinear_uint16(raw, tile, bits) = P
  BY DEF Bilinear_uint16
<1>5. P = Places(raw.w, 1 .. raw.h - 2, 1 .. raw.w - 2)
  OBVIOUS
<1> HIDE DEF P, B
<1> QED BY <1>1, <1>3, <1>4, <1>5

LEMMA HQLinearStores ==
    ASSUME NEW raw, raw.w \in Nat, raw.h \in Nat, raw.w >= 4, raw.h >= 4, NEW tile, NEW bits
    PROVE  /\ DOMAIN HQLinear(raw, tile) = Whole(raw.w, raw.h)
           /\ DOMAIN HQLinear_uint16(raw, tile, bits) = Whole(raw.w, raw.h)
<1> DEFINE P == Places(raw.w, 2 .. raw.h - 3, 2 .. raw.w - 3)
           B == ClearBorders(raw.w, raw.h, 2)
<1>1. P \cup B = Whole(raw.w, raw.h)
  <2>1. raw.h - 1 - 2 = raw.h - 3 /\ raw.w - 1 - 2 = raw.w - 3
    OBVIOUS
  <2>2. Places(raw.w, 2 .. raw.h - 1 - 2, 2 .. raw.w - 1 - 2) \cup B = Whole(raw.w, raw.h)
    BY BordersJoin
  <2> QED BY <2>1, <2>2
<1>2. DOMAIN Zero(B) = B
  BY DEF Zero
<1>3. DOMAIN HQLinear(raw, tile) = P \cup B
  BY <1>2 DEF Over, HQLinear
<1>4. DOMAIN HQLinear_uint16(raw, tile, bits) = P \cup B
  BY <1>2 DEF Over, HQLinear_uint16
<1> HIDE DEF P, B
<1> QED BY <1>1, <1>3, <1>4

LEMMA VNGStores ==
    ASSUME NEW raw, raw.w \in Nat, raw.h \in Nat, raw.w >= 4, raw.h >= 4,
           NEW tile, NEW bits, NEW old
    PROVE  /\ DOMAIN VNG(raw, tile, old) = Whole(raw.w, raw.h)
           /\ DOMAIN VNG_uint16(raw, tile, bits, old) \subseteq Whole(raw.w, raw.h)
           /\ Places(raw.w, 1 .. raw.h - 2, 1 .. raw.w - 2) \subseteq DOMAIN VNG_uint16(raw, tile, bits, old)
<1>1. ASSUME NEW first, NEW b PROVE DOMAIN VNGRows(raw, tile, b, first) \subseteq Whole(raw.w, raw.h)
  <2> DEFINE P == Places(raw.w, 2 .. raw.h - 3, 2 .. raw.w - 3)
             low == {y \in {raw.h - 4, raw.h - 3} : raw.h >= 4 /\ y < 2}
             Z == Places(raw.w, low, 2 .. raw.w - 3)
  <2>1. DOMAIN Zero(Z) = Z
    BY DEF Zero
  <2>2. DOMAIN VNGRows(raw, tile, b, first) = P \cup Z
    BY <2>1 DEF Over, VNGRows
  <2>3. 2 .. raw.h - 3 \subseteq 0 .. raw.h - 1 /\ 2 .. raw.w - 3 \subseteq 0 .. raw.w - 1
    OBVIOUS
  <2>4. low \subseteq 0 .. raw.h - 1
    OBVIOUS
  <2> HIDE DEF low
  <2>5. P \subseteq Whole(raw.w, raw.h) /\ Z \subseteq Whole(raw.w, raw.h)
    BY <2>3, <2>4, PlacesInside
  <2> HIDE DEF P, Z
  <2> QED BY <2>2, <2>5
<1>2. DOMAIN VNG(raw, tile, old)
        = DOMAIN VNGRows(raw, tile, 8, Over(Bilinear(raw, tile), old)) \cup DOMAIN Bilinear(raw, tile)
  BY DEF Over, VNG
<1>3. DOMAIN VNG_uint16(raw, tile, bits, old)
        = DOMAIN VNGRows(raw, tile, bits, Over(Bilinear_uint16(raw, tile, bits), old))
            \cup DOMAIN Bilinear_uint16(raw, tile, bits)
  BY DEF Over, VNG_uint16
<1>4. /\ DOMAIN VNGRows(raw, tile, 8, Over(Bilinear(raw, tile), old)) \subseteq Whole(raw.w, raw.h)
      /\ DOMAIN VNGRows(raw, tile, bits, Over(Bilinear_uint16(raw, tile, bits), old))
            \subseteq Whole(raw.w, raw.h)
  BY <1>1
<1> QED BY <1>2, <1>3, <1>4, BilinearStores

LEMMA DownsampleStores ==
    ASSUME NEW raw, raw.w \in Nat, raw.h \in Nat, raw.w % 2 = 0, raw.h % 2 = 0, NEW tile, NEW bits
    PROVE  /\ DOMAIN Downsample(raw, tile) = Whole(raw.w \div 2, raw.h \div 2)
           /\ DOMAIN Downsample_uint16(raw, tile, bits) = Whole(raw.w \div 2, raw.h \div 2)
<1> DEFINE w == raw.w  h == raw.h  u == w \div 2  v == h \div 2
           Even(n) == {m \in 0 .. n - 1 : m % 2 = 0}
           D == {3 * ((y * w) \div 4 + x \div 2) + c : y \in Even(h), x \in Even(w), c \in 0 .. 2}
<1>1. u \in Nat /\ v \in Nat /\ w = 2 * u /\ h = 2 * v
  OBVIOUS
<1>2. DOMAIN Downsample(raw, tile) = D
  BY DEF Downsample
<1>3. DOMAIN Downsample_uint16(raw, tile, bits) = D
  BY DEF Downsample_uint16
<1> HIDE DEF w, h, u, v
<1>4. ASSUME NEW y \in Nat PROVE ((2 * y) * w) \div 4 = y * u
  <2>1. (2 * y) * w = 4 * (y * u)
    BY <1>1
  <2> DEFINE p == y * u
  <2>2. (2 * y) * w = 4 * p /\ p \in Nat
    BY <1>1, <2>1
  <2> HIDE DEF p
  <2>3. ((2 * y) * w) \div 4 = p
    BY <2>2
  <2> QED BY <2>3 DEF p
<1>5. D \subseteq Whole(u, v)
  <2>1. SUFFICES ASSUME NEW i \in D PROVE i \in Whole(u, v)
    OBVIOUS
  <2>2. PICK y \in Even(h), x \in Even(w), c \in 0 .. 2 : i = 3 * ((y * w) \div 4 + x \div 2) + c
    OBVIOUS
  <2>3. /\ y \div 2 \in 0 .. v - 1 /\ y = 2 * (y \div 2)
        /\ x \div 2 \in 0 .. u - 1
    BY <1>1
  <2>4. i = 3 * ((y \div 2) * u + x \div 2) + c
    BY <1>4, <2>2, <2>3
  <2> HIDE DEF D, Even
  <2>5. v \in Nat /\ u \in Nat
    BY <1>1
  <2> DEFINE p == y \div 2  q == x \div 2
  <2>6. p \in 0 .. v - 1 /\ q \in 0 .. u - 1 /\ i = 3 * (p * u + q) + c
    BY <2>3, <2>4
  <2> HIDE DEF p, q
  <2> QED BY <2>5, <2>6, PlaceInside
<1>6. ASSUME NEW i \in Whole(u, v) PROVE i \in D
  <2> DEFINE y == Row(u, i)  x == Column(u, i)  c == i % 3
  <2>1. y \in 0 .. v - 1 /\ x \in 0 .. u - 1 /\ c \in 0 .. 2 /\ i = 3 * (y * u + x) + c
    BY <1>1, OffsetPlace
  <2> HIDE DEF y, x, c
  <2>2. /\ 2 * y \in Even(h) /\ 2 * x \in Even(w) /\ (2 * x) \div 2 = x
    BY <1>1, <2>1
  <2>3. ((2 * y) * w) \div 4 = y * u
    BY <1>4, <2>1
  <2>4. i = 3 * (((2 * y) * w) \div 4 + (2 * x) \div 2) + c
    BY <2>1, <2>2, <2>3
  <2> QED BY <2>1, <2>2, <2>4
<1>7. D = Whole(u, v)
  <2> HIDE DEF D
  <2> QED BY <1>5, <1>6
<1> HIDE DEF D, Even
<1> QED BY <1>2, <1>3, <1>7 DEF u, v, w, h

\* The tiles of AHD leave no line of the inside out: each is three or more away
\* from the edges of one of them.
LEMMA TilesMeet ==
    ASSUME NEW size \in Nat, NEW n \in 3 .. size - 4
    PROVE  \E top \in Tops(size) : InTile(top, n)
<1> DEFINE m == TS - 6  q == (n - 3) \div m  top == q * m
<1>1. m \in Nat /\ m > 0 /\ n - 3 \in Nat /\ TS = m + 6
  BY TSAssumption
<1>2. q \in Nat /\ n - 3 = top + ((n - 3) % m) /\ (n - 3) % m \in 0 .. m - 1
  BY <1>1, Divided
<1>3. top \in Nat
  <2>1. q \in Nat /\ m \in Nat
    BY <1>1, <1>2
  <2> HIDE DEF q, m
  <2> QED BY <2>1
<1>4. top % m = 0
  BY <1>1, <1>2, Multiple
<1> HIDE DEF q, top
<1>5. top \in 0 .. size - 1 /\ top + 3 <= n /\ n < top + TS - 3
  BY <1>1, <1>2, <1>3
<1> QED BY <1>4, <1>5 DEF Tops, InTile

LEMMA AHDStores ==
    ASSUME NEW raw, raw.w \in Nat \ {0}, raw.h \in Nat \ {0}, NEW tile, NEW win, NEW bits
    PROVE  /\ DOMAIN AHD(raw, tile, win) = Whole(raw.w, raw.h)
           /\ DOMAIN AHD_uint16(raw, tile, bits, win) = Whole(raw.w, raw.h)
<1> DEFINE w == raw.w  h == raw.h
           inner(size) == {n \in 3 .. size - 4 : \E top \in Tops(size) : InTile(top, n)}
           all(size)   == 0 .. size - 1
           outer(size) == all(size) \ (3 .. size - 4)
           A == Places(w, inner(h), inner(w))
           B == Places(w, outer(h), all(w))
           C == Places(w, all(h), outer(w))
           S == {i \in Places(w, all(h), all(w)) : i % 3 = FC(tile, Row(w, i), Column(w, i))}
<1>1. ASSUME NEW b PROVE DOMAIN AHDRows(raw, tile, win, b) = A \cup ((B \cup C) \cup S)
  BY DEF AHDRows, Over
<1>2. \A size \in Nat : inner(size) = 3 .. size - 4
  BY TilesMeet
<1>3. /\ \A size \in Nat : /\ inner(size) \subseteq all(size) /\ outer(size) \subseteq all(size)
                           /\ \A n \in all(size) : n \in inner(size) \/ n \in outer(size)
  <2> HIDE DEF inner
  <2> QED BY <1>2
<1> HIDE DEF inner, outer
<1>4. A \subseteq Whole(w, h) /\ B \subseteq Whole(w, h) /\ C \subseteq Whole(w, h) /\ S \subseteq Whole(w, h)
  <2>1. A \subseteq Whole(w, h)
    BY <1>3, PlacesInside
  <2>2. B \subseteq Whole(w, h)
    BY <1>3, PlacesInside
  <2>3. C \subseteq Whole(w, h)
    BY <1>3, PlacesInside
  <2>4. Places(w, all(h), all(w)) \subseteq Whole(w, h)
    BY PlacesInside
  <2> QED BY <2>1, <2>2, <2>3, <2>4
<1>5. ASSUME NEW i \in Whole(w, h) PROVE i \in A \cup (B \cup C)
  <2> DEFINE y == Row(w, i)  x == Column(w, i)
  <2>1. y \in all(h) /\ x \in all(w)
    BY OffsetPlace
  <2>2. CASE y \in inner(h) /\ x \in inner(w)
    <3>1. i \in A BY <2>2, InPlaces
    <3> QED BY <3>1
  <2>3. CASE y \in outer(h)
    <3>1. i \in B BY <2>1, <2>3, InPlaces
    <3> QED BY <3>1
  <2>4. CASE x \in outer(w)
    <3>1. i \in C BY <2>1, <2>4, InPlaces
    <3> QED BY <3>1
  <2> QED BY <1>3, <2>1, <2>2, <2>3, <2>4
<1>6. AHD(raw, tile, win) = AHDRows(raw, tile, win, 8)
  BY DEF AHD
<1>7. AHD_uint16(raw, tile, bits, win) = AHDRows(raw, tile, win, bits)
  BY DEF AHD_uint16
<1> HIDE DEF A, B, C, S
<1> QED BY <1>1, <1>4, <1>5, <1>6, <1>7

\* The decoders, by the way the frames name them.
DecodedSize(size, method) ==
    IF method = "DOWNSAMPLE" THEN <<size[1] \div 2, size[2] \div 2>> ELSE size

LEMMA Decodes ==
    ASSUME NEW in, in.size \in Nat \X Nat, in.size[1] >= 4, in.size[2] >= 4,
           NEW method \in Methods, method = "DOWNSAMPLE" => in.size[1] % 2 = 0 /\ in.size[2] % 2 = 0,
           NEW out, NEW win, NEW bits,
           NEW size, size = DecodedSize(in.size, method)
    PROVE  /\ \A b \in bayer_decoding_8bit(in, out, method, win) : DOMAIN b = Whole(size[1], size[2])
           /\ \A s \in bayer_decoding_16bit(in, out, method, bits, win) :
                 /\ DOMAIN s \subseteq Whole(size[1], size[2])
                 /\ IF method \in {"BILINEAR", "VNG"}
                    THEN Places(size[1], 1 .. size[2] - 2, 1 .. size[1] - 2) \subseteq DOMAIN s
                    ELSE DOMAIN s = Whole(size[1], size[2])
<1> DEFINE w == in.size[1]  h == in.size[2]
           raw8  == [w |-> w, h |-> h, s |-> in.image]
           raw16 == [w |-> w, h |-> h, s |-> [k \in 0 .. w * h - 1 |-> Host(in.image, k)]]
           old == [k \in 0 .. (out.allocated \div 2) - 1 |-> Host(out.image, k)]
           t == in.filter
           D8 == bayer_decoding_8bit(in, out, method, win)
           D16 == bayer_decoding_16bit(in, out, method, bits, win)
<1>1. w \in Nat /\ h \in Nat /\ w >= 4 /\ h >= 4
  OBVIOUS
<1>2. raw8.w = w /\ raw8.h = h /\ raw16.w = w /\ raw16.h = h
  OBVIOUS
<1>3. /\ method = "NEAREST"    => D8 = {NearestNeighbor(raw8, t)}
      /\ method = "SIMPLE"     => D8 = {Simple(raw8, t)}
      /\ method = "BILINEAR"   => D8 = {Bilinear(raw8, t)}
      /\ method = "HQLINEAR"   => D8 = {HQLinear(raw8, t)}
      /\ method = "DOWNSAMPLE" => D8 = {Downsample(raw8, t)}
      /\ method = "VNG"        => D8 = {VNG(raw8, t, out.image)}
      /\ method = "AHD"        => D8 = {AHD(raw8, t, win)}
      /\ method = "EDGESENSE"  => D8 = {}
  BY DEF bayer_decoding_8bit
<1>4. /\ method = "NEAREST"    => D16 = {NearestNeighbor_uint16(raw16, t, bits)}
      /\ method = "SIMPLE"     => D16 = {Simple_uint16(raw16, t, bits)}
      /\ method = "BILINEAR"   => D16 = {Bilinear_uint16(raw16, t, bits)}
      /\ method = "HQLINEAR"   => D16 = {HQLinear_uint16(raw16, t, bits)}
      /\ method = "DOWNSAMPLE" => D16 = {Downsample_uint16(raw16, t, bits)}
      /\ method = "VNG"        => D16 = {VNG_uint16(raw16, t, bits, old)}
      /\ method = "AHD"        => D16 = {AHD_uint16(raw16, t, bits, win)}
      /\ method = "EDGESENSE"  => D16 = {}
  BY DEF bayer_decoding_16bit
<1> HIDE DEF w, h, raw8, raw16, old, t, D8, D16
<1>5. /\ method # "DOWNSAMPLE" => size[1] = w /\ size[2] = h
      /\ method = "DOWNSAMPLE" => size[1] = w \div 2 /\ size[2] = h \div 2 /\ w % 2 = 0 /\ h % 2 = 0
  BY DEF DecodedSize, w, h
<1>6. method \in {"NEAREST", "SIMPLE", "BILINEAR", "HQLINEAR", "DOWNSAMPLE", "VNG", "AHD", "EDGESENSE"}
  BY DEF Methods
<1>7. CASE method \in {"NEAREST", "SIMPLE"}
  <2>1. ASSUME NEW raw, raw.w = w, raw.h = h
        PROVE  /\ DOMAIN NearestNeighbor(raw, t) = Whole(w, h)
               /\ DOMAIN NearestNeighbor_uint16(raw, t, bits) = Whole(w, h)
               /\ DOMAIN Simple(raw, t) = Whole(w, h)
               /\ DOMAIN Simple_uint16(raw, t, bits) = Whole(w, h)
    <3>1. raw.w \in Nat \ {0} /\ raw.h \in Nat \ {0}
      BY <1>1, <2>1
    <3> QED BY <2>1, <3>1, NearestStores
  <2> QED BY <1>2, <1>3, <1>4, <1>5, <1>7, <2>1 DEF D8, D16
<1>8. CASE method = "BILINEAR"
  <2>1. ASSUME NEW raw, raw.w = w, raw.h = h
        PROVE  /\ DOMAIN Bilinear(raw, t) = Whole(w, h)
               /\ DOMAIN Bilinear_uint16(raw, t, bits) \subseteq Whole(w, h)
               /\ Places(w, 1 .. h - 2, 1 .. w - 2) \subseteq DOMAIN Bilinear_uint16(raw, t, bits)
    <3>1. raw.w \in Nat /\ raw.h \in Nat /\ raw.w >= 2 /\ raw.h >= 2
      BY <1>1, <2>1
    <3> QED BY <2>1, <3>1, BilinearStores
  <2> QED BY <1>2, <1>3, <1>4, <1>5, <1>8, <2>1 DEF D8, D16
<1>9. CASE method = "HQLINEAR"
  <2>1. ASSUME NEW raw, raw.w = w, raw.h = h
        PROVE  /\ DOMAIN HQLinear(raw, t) = Whole(w, h)
               /\ DOMAIN HQLinear_uint16(raw, t, bits) = Whole(w, h)
    <3>1. raw.w \in Nat /\ raw.h \in Nat /\ raw.w >= 4 /\ raw.h >= 4
      BY <1>1, <2>1
    <3> QED BY <2>1, <3>1, HQLinearStores
  <2> QED BY <1>2, <1>3, <1>4, <1>5, <1>9, <2>1 DEF D8, D16
<1>10. CASE method = "DOWNSAMPLE"
  <2>1. ASSUME NEW raw, raw.w = w, raw.h = h
        PROVE  /\ DOMAIN Downsample(raw, t) = Whole(w \div 2, h \div 2)
               /\ DOMAIN Downsample_uint16(raw, t, bits) = Whole(w \div 2, h \div 2)
    <3>1. raw.w \in Nat /\ raw.h \in Nat /\ raw.w % 2 = 0 /\ raw.h % 2 = 0
      BY <1>1, <1>5, <1>10, <2>1
    <3> QED BY <2>1, <3>1, DownsampleStores
  <2> QED BY <1>2, <1>3, <1>4, <1>5, <1>10, <2>1 DEF D8, D16
<1>11. CASE method = "VNG"
  <2>1. ASSUME NEW raw, raw.w = w, raw.h = h, NEW o
        PROVE  /\ DOMAIN VNG(raw, t, o) = Whole(w, h)
               /\ DOMAIN VNG_uint16(raw, t, bits, o) \subseteq Whole(w, h)
               /\ Places(w, 1 .. h - 2, 1 .. w - 2) \subseteq DOMAIN VNG_uint16(raw, t, bits, o)
    <3>1. raw.w \in Nat /\ raw.h \in Nat /\ raw.w >= 4 /\ raw.h >= 4
      BY <1>1, <2>1
    <3> QED BY <2>1, <3>1, VNGStores
  <2> QED BY <1>2, <1>3, <1>4, <1>5, <1>11, <2>1 DEF D8, D16
<1>12. CASE method = "AHD"
  <2>1. ASSUME NEW raw, raw.w = w, raw.h = h
        PROVE  /\ DOMAIN AHD(raw, t, win) = Whole(w, h)
               /\ DOMAIN AHD_uint16(raw, t, bits, win) = Whole(w, h)
    <3>1. raw.w \in Nat \ {0} /\ raw.h \in Nat \ {0}
      BY <1>1, <2>1
    <3> QED BY <2>1, <3>1, AHDStores
  <2> QED BY <1>2, <1>3, <1>4, <1>5, <1>12, <2>1 DEF D8, D16
<1>13. CASE method = "EDGESENSE"
  BY <1>3, <1>4, <1>13 DEF D8, D16
<1> QED BY <1>6, <1>7, <1>8, <1>9, <1>10, <1>11, <1>12, <1>13

\* Two bytes for a sample.
LEMMA BytesOfSamples ==
    ASSUME NEW s, NEW n \in Nat, DOMAIN s \subseteq 0 .. n - 1
    PROVE  /\ DOMAIN HostBytes(s) \subseteq 0 .. 2 * n - 1
           /\ DOMAIN s = 0 .. n - 1 => DOMAIN HostBytes(s) = 0 .. 2 * n - 1
           /\ \A k \in 0 .. 2 * n - 1 : k \div 2 \in DOMAIN s => k \in DOMAIN HostBytes(s)
<1> DEFINE D == {2 * k : k \in DOMAIN s} \cup {2 * k + 1 : k \in DOMAIN s}
<1>1. DOMAIN HostBytes(s) = D
  BY DEF HostBytes
<1>2. D \subseteq 0 .. 2 * n - 1
  OBVIOUS
<1>3. ASSUME NEW i \in 0 .. 2 * n - 1, i \div 2 \in DOMAIN s PROVE i \in D
  <2>1. i \div 2 \in DOMAIN s /\ (i = 2 * (i \div 2) \/ i = 2 * (i \div 2) + 1)
    BY <1>3
  <2> DEFINE k == i \div 2
  <2>2. k \in DOMAIN s /\ (i = 2 * k \/ i = 2 * k + 1)
    BY <2>1
  <2> HIDE DEF k
  <2> QED BY <2>2
<1>4. \A i \in 0 .. 2 * n - 1 : i \div 2 \in 0 .. n - 1
  OBVIOUS
<1> HIDE DEF D
<1> QED BY <1>1, <1>2, <1>3, <1>4

-----------------------------------------------------------------------------
(* Adapt_buffer_*                                                          *)

LEMMA NoBytes ==
    ASSUME NEW S, NEW e(_), S = {}
    PROVE  [i \in S |-> e(i)] = NULL
BY DEF NULL

\* The padding has been copied behind the image, if there is memory.
Padded(a, in) ==
    a.image # NULL =>
        /\ a.fresh \cap (a.image_bytes .. a.image_bytes + a.padding - 1) = {}
        /\ \A k \in 0 .. a.padding - 1 : a.image[a.image_bytes + k] = in.image[in.image_bytes + k]

LEMMA Adapted ==
    ASSUME NEW in, in.padding \in Nat, in.image_bytes \in Nat, NEW out, MemoryOK(out),
           NEW size \in Nat \X Nat, NEW position, NEW coding, BitSize(coding) \in Nat,
           NEW depth, NEW fill,
           NEW a, a = Adapt(in, out, size, position, coding, depth, fill)
    PROVE  /\ DOMAIN a = Fields
           /\ a.size = size /\ a.coding = coding /\ a.padding = in.padding /\ a.order = out.order
           /\ a.image_bytes = (size[1] * size[2] * BitSize(coding)) \div 8
           /\ MemoryOK(a) /\ Padded(a, in)
<1> DEFINE b == Adapt(in, out, size, position, coding, depth, fill)
           bytes == (size[1] * size[2] * BitSize(coding)) \div 8
           total == bytes + in.padding
           grows == total > out.allocated
           image == Memory(out, total, fill)
           tail  == IF image = NULL THEN {} ELSE bytes .. total - 1
<1>1. /\ DOMAIN b = Fields
      /\ b.size = size /\ b.coding = coding /\ b.padding = in.padding /\ b.order = out.order
      /\ b.image_bytes = bytes
  <2>1. DOMAIN b = Fields BY DEF Adapt, Fields, Calloced
  <2>2. b.size = size BY DEF Adapt
  <2>3. b.coding = coding BY DEF Adapt
  <2>4. b.padding = in.padding BY DEF Adapt
  <2>5. b.image_bytes = bytes BY DEF Adapt
  <2>6. b.order = out.order BY DEF Adapt
  <2> QED BY <2>1, <2>2, <2>3, <2>4, <2>5, <2>6, Zenon
<1>2. /\ b.allocated = IF grows THEN Cardinality(DOMAIN image) ELSE out.allocated
      /\ b.fresh = (IF grows THEN DOMAIN image ELSE out.fresh) \ tail
  <2>1. b.allocated = IF grows THEN Cardinality(DOMAIN image) ELSE out.allocated BY Zenon DEF Adapt
  <2>2. b.fresh = (IF grows THEN DOMAIN image ELSE out.fresh) \ tail BY Zenon DEF Adapt
  <2> QED BY <2>1, <2>2, Zenon
<1>3. b.image = [i \in DOMAIN image |-> IF i \in tail THEN in.image[in.image_bytes + i - bytes] ELSE image[i]]
  BY Zenon DEF Adapt
<1>0. a = b
  OBVIOUS
<1> HIDE DEF b
<1>4. bytes \in Nat
  <2>1. size[1] \in Nat /\ size[2] \in Nat
    OBVIOUS
  <2>2. size[1] * size[2] * BitSize(coding) \in Nat
    BY <2>1
  <2> QED BY <2>2
<1> HIDE DEF bytes
<1>5. total \in Nat /\ out.allocated \in Nat
  <2>1. in.padding \in Nat /\ out.allocated \in Nat
    BY Zenon DEF MemoryOK
  <2> QED BY <1>4, <2>1
<1> HIDE DEF total
<1>6. /\ b.allocated \in Nat /\ DOMAIN image = 0 .. b.allocated - 1
      /\ (IF grows THEN DOMAIN image ELSE out.fresh) \subseteq DOMAIN image
      /\ image # NULL => total <= b.allocated
  <2>1. CASE ~grows
    <3>1. image = out.image
      BY <1>5, <2>1 DEF Memory
    <3> HIDE DEF image
    <3> QED BY <1>2, <1>5, <2>1, <3>1, SMTT(30) DEF MemoryOK
  <2>2. CASE grows /\ fill = NoMemory
    <3>1. image = NULL
      BY <1>5, <2>2 DEF Memory
    <3>2. DOMAIN image = {}
      BY <3>1 DEF NULL
    <3>3. Cardinality(DOMAIN image) = 0
      BY <3>2, FS_EmptySet, Zenon
    <3> QED BY <1>2, <2>2, <3>1, <3>2, <3>3
  <2>3. CASE grows /\ fill # NoMemory
    <3>1. image = [i \in 0 .. total - 1 |-> fill]
      BY <1>5, <2>3 DEF Memory
    <3> HIDE DEF image
    <3>2. DOMAIN image = 0 .. total - 1
      BY <3>1
    <3>3. Cardinality(0 .. total - 1) = total
      BY <1>5, FS_Interval
    <3> QED BY <1>2, <1>5, <2>3, <3>2, <3>3
  <2> QED BY <2>1, <2>2, <2>3
<1>7. b.image # NULL => image # NULL
  <2>1. SUFFICES ASSUME image = NULL PROVE b.image = NULL
    OBVIOUS
  <2>2. DOMAIN image = {}
    BY <2>1 DEF NULL
  <2> QED BY <1>3, <2>2, NoBytes
<1> HIDE DEF grows, image, tail
<1>8. DOMAIN b.image = 0 .. b.allocated - 1
  BY <1>3, <1>6
<1>9. b.fresh \subseteq DOMAIN b.image
  BY <1>2, <1>6, <1>8
<1>10. b.image # NULL => b.image_bytes + b.padding <= b.allocated
  BY <1>1, <1>6, <1>7 DEF total
<1>11. MemoryOK(b)
  BY <1>1, <1>4, <1>6, <1>8, <1>9, <1>10 DEF MemoryOK
<1>12. Padded(b, in)
  <2>1. SUFFICES ASSUME b.image # NULL
                 PROVE  /\ b.fresh \cap (bytes .. bytes + in.padding - 1) = {}
                        /\ \A k \in 0 .. in.padding - 1 : b.image[bytes + k] = in.image[in.image_bytes + k]
    BY <1>1 DEF Padded
  <2>2. tail = bytes .. bytes + in.padding - 1
    <3>1. tail = bytes .. total - 1
      BY <1>7, <2>1, Zenon DEF tail
    <3> QED BY <1>4, <3>1 DEF total
  <2>3. b.fresh \cap (bytes .. bytes + in.padding - 1) = {}
    BY <1>2, <2>2
  <2>4. ASSUME NEW k \in 0 .. in.padding - 1 PROVE b.image[bytes + k] = in.image[in.image_bytes + k]
    <3>1. bytes + k \in DOMAIN image /\ bytes + k \in tail
      BY <1>4, <1>6, <1>7, <2>1, <2>2, SMTT(30) DEF total
    <3>2. in.image_bytes + (bytes + k) - bytes = in.image_bytes + k
      BY <1>4
    <3> QED BY <1>3, <3>1, <3>2
  <2> QED BY <2>3, <2>4
<1> QED BY <1>0, <1>1, <1>11, <1>12 DEF bytes

-----------------------------------------------------------------------------
(* What is stored to an adapted frame.                                     *)

LEMMA Stored8Cases ==
    ASSUME NEW a, NEW b, NEW o, o = Stored8(a, b)
    PROVE  \/ DOMAIN b \subseteq DOMAIN a.image /\ o.err = "SUCCESS"
           \/ /\ ~(DOMAIN b \subseteq DOMAIN a.image)
              /\ o.out = a /\ o.err = "UNDEFINED" /\ o.stray = DOMAIN b \ DOMAIN a.image
<1>1. CASE DOMAIN b \subseteq DOMAIN a.image
  BY <1>1, Zenon DEF Stored8, Outcome
<1>2. CASE ~(DOMAIN b \subseteq DOMAIN a.image)
  <2>1. o = [Lost(a) EXCEPT !.stray = DOMAIN b \ DOMAIN a.image]
    BY <1>2, Zenon DEF Stored8
  <2>2. o = [out |-> a, err |-> "UNDEFINED", stray |-> DOMAIN b \ DOMAIN a.image]
    BY <2>1 DEF Lost, Outcome
  <2> QED BY <1>2, <2>2
<1> QED BY <1>1, <1>2

LEMMA Stored8Fields ==
    ASSUME NEW a, DOMAIN a = Fields, NEW b, DOMAIN b \subseteq DOMAIN a.image, NEW o, o = Stored8(a, b)
    PROVE  /\ DOMAIN o.out = Fields
           /\ o.out.size = a.size /\ o.out.coding = a.coding /\ o.out.padding = a.padding
           /\ o.out.image_bytes = a.image_bytes /\ o.out.allocated = a.allocated
           /\ o.out.fresh = a.fresh \ DOMAIN b
           /\ o.out.image = [i \in DOMAIN a.image |-> IF i \in DOMAIN b THEN b[i] ELSE a.image[i]]
           /\ o.err = "SUCCESS" /\ o.stray = {}
<1> DEFINE im == [i \in DOMAIN a.image |-> IF i \in DOMAIN b THEN b[i] ELSE a.image[i]]
           s == Stored8(a, b)
<1>0. /\ "size" \in DOMAIN a /\ "coding" \in DOMAIN a /\ "padding" \in DOMAIN a
      /\ "image_bytes" \in DOMAIN a /\ "allocated" \in DOMAIN a
      /\ "fresh" \in DOMAIN a /\ "image" \in DOMAIN a
  BY DEF Fields, Calloced
<1>1. s.out = [a EXCEPT !.image = im, !.fresh = a.fresh \ DOMAIN b]
  BY Zenon DEF Stored8, Outcome
<1>2. s.err = "SUCCESS" 
  BY Zenon DEF Stored8, Outcome
<1>3. s.stray = {}
  BY Zenon DEF Stored8, Outcome
<1> HIDE DEF im, s
<1>4. DOMAIN s.out = Fields
  BY <1>1, Zenon
<1>5. s.out.size = a.size
  BY <1>0, <1>1, Zenon
<1>6. s.out.fresh = a.fresh \ DOMAIN b
  BY <1>0, <1>1, Zenon
<1>7. s.out.image = im
  BY <1>0, <1>1, Zenon
<1>8. s.out.coding = a.coding
  BY <1>0, <1>1, Zenon
<1>9. s.out.padding = a.padding
  BY <1>0, <1>1, Zenon
<1>10. s.out.image_bytes = a.image_bytes
  BY <1>0, <1>1, Zenon
<1>11. s.out.allocated = a.allocated
  BY <1>0, <1>1, Zenon
<1> QED BY <1>2, <1>3, <1>4, <1>5, <1>6, <1>7, <1>8, <1>9, <1>10, <1>11, Zenon DEF im, s

LEMMA Redescribed ==
    ASSUME NEW f, DOMAIN f = Fields, MemoryOK(f), NEW c, NEW r
    PROVE  LET g == [f EXCEPT !.coding = c, !.order = r] IN DOMAIN g = Fields /\ MemoryOK(g)
<1> DEFINE g == [f EXCEPT !.coding = c, !.order = r]
<1>0. /\ "size" \in DOMAIN f /\ "coding" \in DOMAIN f /\ "padding" \in DOMAIN f
      /\ "image_bytes" \in DOMAIN f /\ "allocated" \in DOMAIN f
      /\ "fresh" \in DOMAIN f /\ "image" \in DOMAIN f
  BY DEF Fields, Calloced
<1>1. DOMAIN g = Fields
  BY <1>0, Zenon
<1>2. g.size = f.size /\ g.padding = f.padding
  BY <1>0, Zenon
<1>3. g.allocated = f.allocated /\ g.image_bytes = f.image_bytes
  BY <1>0, Zenon
<1>4. g.image = f.image /\ g.fresh = f.fresh
  BY <1>0, Zenon
<1>5. MemoryOK(g)
  <2> HIDE DEF g
  <2> QED BY <1>2, <1>3, <1>4 DEF MemoryOK
<1> QED BY <1>1, <1>5, Zenon

\* What a call leaves is in order, and complete if it says so.
OutcomeOK(o, in, op, arg) ==
    /\ o.stray # {} => op = "convert" /\ RowsPadded(in, o.out)
    /\ DOMAIN o.out = Fields /\ MemoryOK(o.out)
    /\ CompleteOK(o.out, in, op, arg, o.err) /\ KnownOK(o.out, in, op, arg, o.err)

LEMMA Fails ==
    ASSUME NEW out, DOMAIN out = Fields, MemoryOK(out), NEW err, err # "SUCCESS",
           NEW in, NEW op, NEW arg, err = "UNDEFINED" => KnownUndefined(op, arg, in, out)
    PROVE  OutcomeOK(Outcome(out, err), in, op, arg)
<1> DEFINE o == Outcome(out, err)
<1>1. o.out = out /\ o.err = err /\ o.stray = {}
  BY DEF Outcome
<1> HIDE DEF o
<1>2. OutcomeOK(o, in, op, arg)
  BY <1>1 DEF OutcomeOK, CompleteOK, KnownOK
<1> QED BY <1>2 DEF o

\* Stores that keep to the image, and reach all of it unless the method is one of
\* those that leave a border; or rows that are a pixel longer than the image's.
LEMMA Stores ==
    ASSUME NEW in, in.padding \in Nat,
           NEW a, DOMAIN a = Fields, MemoryOK(a), Padded(a, in), a.image # NULL, a.padding = in.padding,
           NEW op, NEW arg, NEW b,
           DOMAIN b \subseteq 0 .. a.image_bytes - 1 \/ (op = "convert" /\ RowsPadded(in, a)),
           \A k \in 0 .. a.image_bytes - 1 : k \in DOMAIN b \/ k \in Border(a, arg)
    PROVE  OutcomeOK(Stored8(a, b), in, op, arg)
<1> DEFINE o == Stored8(a, b)
<1>1. /\ a.image_bytes \in Nat /\ a.allocated \in Nat /\ a.image_bytes + a.padding <= a.allocated
      /\ DOMAIN a.image = 0 .. a.allocated - 1 /\ a.fresh \subseteq DOMAIN a.image
  BY DEF MemoryOK
<1>2. CASE ~(DOMAIN b \subseteq DOMAIN a.image)
  <2>1. o.out = a /\ o.err = "UNDEFINED"
    BY <1>2, Stored8Cases
  <2>2. op = "convert" /\ RowsPadded(in, a)
    BY <1>1, <1>2
  <2> HIDE DEF o
  <2>3. OutcomeOK(o, in, op, arg)
    BY <2>1, <2>2 DEF OutcomeOK, CompleteOK, KnownOK, KnownUndefined
  <2> QED BY <2>3 DEF o
<1>3. CASE DOMAIN b \subseteq DOMAIN a.image
  <2>1. /\ DOMAIN o.out = Fields
        /\ o.out.size = a.size /\ o.out.coding = a.coding /\ o.out.padding = a.padding
        /\ o.out.image_bytes = a.image_bytes /\ o.out.allocated = a.allocated
        /\ o.out.fresh = a.fresh \ DOMAIN b
        /\ o.out.image = [i \in DOMAIN a.image |-> IF i \in DOMAIN b THEN b[i] ELSE a.image[i]]
        /\ o.err = "SUCCESS" /\ o.stray = {}
    BY <1>3, Stored8Fields
  <2> HIDE DEF o
  <2>2. MemoryOK(o.out)
    <3>1. DOMAIN o.out.image = DOMAIN a.image
      BY <2>1
    <3> QED BY <1>1, <2>1, <3>1 DEF MemoryOK
  <2>3. Border(o.out, arg) = Border(a, arg) /\ (RowsPadded(in, a) => RowsPadded(in, o.out))
    BY <2>1, Zenon DEF Border, Framed, Wide, RowsPadded
  <2>4. ASSUME NEW k \in o.out.fresh, k \in 0 .. a.image_bytes + a.padding - 1
        PROVE  k \in Border(a, arg)
    <3>1. a.fresh \cap (a.image_bytes .. a.image_bytes + a.padding - 1) = {}
      BY DEF Padded
    <3> QED BY <1>1, <2>1, <2>4, <3>1
  <2>5. ASSUME ~(op = "convert" /\ RowsPadded(in, a)), NEW k \in 0 .. a.padding - 1
        PROVE  o.out.image[a.image_bytes + k] = in.image[in.image_bytes + k]
    <3>0. DOMAIN b \subseteq 0 .. a.image_bytes - 1
      BY <2>5, Zenon
    <3>1. a.image_bytes + k \in DOMAIN a.image /\ a.image_bytes + k \notin DOMAIN b
      BY SMTT(60), <1>1, <3>0
    <3>2. o.out.image[a.image_bytes + k] = a.image[a.image_bytes + k]
      BY <2>1, <3>1
    <3> QED BY <3>2 DEF Padded
  <2>6. CompleteOK(o.out, in, op, arg, o.err)
    BY <2>1, <2>3, <2>4, <2>5 DEF CompleteOK
  <2>7. OutcomeOK(o, in, op, arg)
    BY <2>1, <2>2, <2>6 DEF OutcomeOK, KnownOK
  <2> QED BY <2>7 DEF o
<1> QED BY <1>2, <1>3

-----------------------------------------------------------------------------
(* The three calls.                                                        *)

LEMMA ImageBytes ==
    ASSUME NEW size \in Nat \X Nat
    PROVE  /\ (size[1] * size[2] * 8) \div 8 = size[1] * size[2]
           /\ (size[1] * size[2] * 16) \div 8 = 2 * (size[1] * size[2])
           /\ (size[1] * size[2] * 24) \div 8 = 3 * (size[1] * size[2])
           /\ (size[1] * size[2] * 48) \div 8 = 6 * (size[1] * size[2])
           /\ size[1] * size[2] \in Nat
<1> DEFINE n == size[1] * size[2]
<1>1. n \in Nat
  OBVIOUS
<1> HIDE DEF n
<1>2. (n * 8) \div 8 = n /\ (n * 16) \div 8 = 2 * n /\ (n * 24) \div 8 = 3 * n /\ (n * 48) \div 8 = 6 * n
  BY <1>1
<1> QED BY <1>1, <1>2 DEF n

\* The output frame, described for the method, and its memory.
LEMMA BayerAdapted ==
    ASSUME NEW in, MemoryOK(in), NEW out, DOMAIN out = Fields, MemoryOK(out), NEW method, NEW fill
    PROVE  LET a == Adapt_buffer_bayer(in, out, method, fill)
               wide == in.coding \in {"RAW16", "MONO16"}
               size == DecodedSize(in.size, method)
           IN
           /\ size \in Nat \X Nat /\ a.size = size
           /\ DOMAIN a = Fields /\ MemoryOK(a) /\ Padded(a, in) /\ a.padding = in.padding
           /\ a.coding = (IF wide THEN "RGB16" ELSE "RGB8")
           /\ a.image_bytes = (IF wide THEN 6 ELSE 3) * (size[1] * size[2])
<1> DEFINE a == Adapt_buffer_bayer(in, out, method, fill)
           wide == in.coding \in {"RAW16", "MONO16"}
           size == DecodedSize(in.size, method)
           position == IF method = "DOWNSAMPLE"
                       THEN <<in.position[1] \div 2, in.position[2] \div 2>> ELSE in.position
           coding == IF wide THEN "RGB16" ELSE "RGB8"
           depth == IF wide THEN in.depth ELSE 8
<1>1. /\ in.size \in Nat \X Nat /\ in.padding \in Nat /\ in.image_bytes \in Nat
      /\ in.size[1] \in Nat /\ in.size[2] \in Nat
  BY DEF MemoryOK
<1>2. size \in Nat \X Nat
  <2>1. CASE method = "DOWNSAMPLE"
    <3>1. in.size[1] \div 2 \in Nat /\ in.size[2] \div 2 \in Nat
      BY <1>1
    <3> QED BY <2>1, <3>1 DEF DecodedSize
  <2>2. CASE method # "DOWNSAMPLE"
    BY <1>1, <2>2 DEF DecodedSize
  <2> QED BY <2>1, <2>2
<1>3. a = Adapt(in, out, size, position, coding, depth, fill)
  BY Zenon DEF Adapt_buffer_bayer, DecodedSize
<1>4. BitSize(coding) = (IF wide THEN 48 ELSE 24)
  BY DEF BitSize
<1> HIDE DEF a, size, wide, coding, position, depth
<1>5. BitSize(coding) \in Nat
  BY <1>4
<1>6. /\ DOMAIN a = Fields /\ MemoryOK(a) /\ Padded(a, in) /\ a.padding = in.padding /\ a.size = size
      /\ a.coding = coding /\ a.image_bytes = (size[1] * size[2] * BitSize(coding)) \div 8
  BY <1>1, <1>2, <1>3, <1>5, Adapted
<1>7. a.image_bytes = (IF wide THEN 6 ELSE 3) * (size[1] * size[2])
  BY <1>2, <1>4, <1>6, ImageBytes
<1> QED BY <1>2, <1>6, <1>7 DEF a, size, wide, coding

\* What the call comes to.
LEMMA BayerCases ==
    ASSUME NEW in, NEW out, NEW method, NEW fill, NEW work, NEW win,
           NEW o \in Debayered(in, out, method, fill, work, win)
    PROVE  LET a == Adapt_buffer_bayer(in, out, method, fill)
               wide == in.coding \in {"RAW16", "MONO16"}
           IN
           \/ \E e \in {"INVALID_BAYER_METHOD", "FUNCTION_NOT_SUPPORTED"} : o = Outcome(out, e)
           \/ \E e \in {"MEMORY_ALLOCATION_FAILURE", "FUNCTION_NOT_SUPPORTED", "INVALID_COLOR_FILTER"} :
                 o = Outcome(a, e)
           \/ (method \in NeedMemory \/ (method = "DOWNSAMPLE" /\ OddSize(in))) /\ o = Outcome(a, "UNDEFINED")
           \/ /\ method \in Methods /\ a.image # NULL /\ in.filter \in Tiles
              /\ wide \/ in.coding \in {"RAW8", "MONO8"}
              /\ method = "DOWNSAMPLE" => ~OddSize(in)
              /\ \E b \in IF wide
                         THEN {HostBytes(s) : s \in bayer_decoding_16bit(in, a, method, in.depth, win)}
                         ELSE bayer_decoding_8bit(in, a, method, win) : o = Stored8(a, b)
BY DEF Debayered, Lost

LEMMA DebayerOutcome ==
    ASSUME NEW in, MemoryOK(in), in.size[1] > 4, in.size[2] > 3,
           NEW out, DOMAIN out = Fields, MemoryOK(out),
           NEW method, NEW fill, NEW work, NEW win, NEW o \in Debayered(in, out, method, fill, work, win)
    PROVE  OutcomeOK(o, in, "debayer", method)
<1> DEFINE a == Adapt_buffer_bayer(in, out, method, fill)
           wide == in.coding \in {"RAW16", "MONO16"}
           size == DecodedSize(in.size, method)
           D8 == bayer_decoding_8bit(in, a, method, win)
           D16 == bayer_decoding_16bit(in, a, method, in.depth, win)
<1>1. /\ in.size \in Nat \X Nat /\ in.padding \in Nat
      /\ in.size[1] \in Nat /\ in.size[2] \in Nat
  BY DEF MemoryOK
<1>2. /\ size \in Nat \X Nat /\ a.size = size
      /\ DOMAIN a = Fields /\ MemoryOK(a) /\ Padded(a, in) /\ a.padding = in.padding
      /\ a.coding = (IF wide THEN "RGB16" ELSE "RGB8")
      /\ a.image_bytes = (IF wide THEN 6 ELSE 3) * (size[1] * size[2])
  BY BayerAdapted
<1>3. \/ \E e \in {"INVALID_BAYER_METHOD", "FUNCTION_NOT_SUPPORTED"} : o = Outcome(out, e)
      \/ \E e \in {"MEMORY_ALLOCATION_FAILURE", "FUNCTION_NOT_SUPPORTED", "INVALID_COLOR_FILTER"} :
            o = Outcome(a, e)
      \/ (method \in NeedMemory \/ (method = "DOWNSAMPLE" /\ OddSize(in))) /\ o = Outcome(a, "UNDEFINED")
      \/ /\ method \in Methods /\ a.image # NULL /\ (method = "DOWNSAMPLE" => ~OddSize(in))
         /\ \E b \in IF wide THEN {HostBytes(s) : s \in D16} ELSE D8 : o = Stored8(a, b)
  BY BayerCases
<1>4. CASE \E e \in {"INVALID_BAYER_METHOD", "FUNCTION_NOT_SUPPORTED"} : o = Outcome(out, e)
  BY <1>4, Fails
<1>5. CASE \E e \in {"MEMORY_ALLOCATION_FAILURE", "FUNCTION_NOT_SUPPORTED", "INVALID_COLOR_FILTER"} :
              o = Outcome(a, e)
  <2> HIDE DEF a
  <2> QED BY <1>2, <1>5, Fails
<1>6. CASE /\ method \in NeedMemory \/ (method = "DOWNSAMPLE" /\ OddSize(in))
           /\ o = Outcome(a, "UNDEFINED")
  <2> HIDE DEF a
  <2>1. KnownUndefined("debayer", method, in, a)
    BY <1>6 DEF KnownUndefined
  <2> QED BY <1>2, <1>6, <2>1, Fails
<1>7. ASSUME method \in Methods, a.image # NULL, method = "DOWNSAMPLE" => ~OddSize(in),
             NEW b \in IF wide THEN {HostBytes(s) : s \in D16} ELSE D8, o = Stored8(a, b)
      PROVE  OutcomeOK(o, in, "debayer", method)
  <2> HIDE DEF a, size, D8, D16
  <2>1. /\ \A d \in D8 : DOMAIN d = Whole(size[1], size[2])
        /\ \A s \in D16 :
              /\ DOMAIN s \subseteq Whole(size[1], size[2])
              /\ IF method \in {"BILINEAR", "VNG"}
                 THEN Places(size[1], 1 .. size[2] - 2, 1 .. size[1] - 2) \subseteq DOMAIN s
                 ELSE DOMAIN s = Whole(size[1], size[2])
    <3>1. in.size[1] >= 4 /\ in.size[2] >= 4
      BY <1>1
    <3>2. method = "DOWNSAMPLE" => in.size[1] % 2 = 0 /\ in.size[2] % 2 = 0
      BY <1>1, <1>7 DEF OddSize
    <3> HIDE DEF wide
    <3> QED BY <1>1, <1>7, <3>1, <3>2, Decodes DEF size, D8, D16
  <2> DEFINE n == 3 * (size[1] * size[2])
             P == Places(size[1], 1 .. size[2] - 2, 1 .. size[1] - 2)
  <2>2. n \in Nat /\ Whole(size[1], size[2]) = 0 .. n - 1
    <3>1. size[1] * size[2] \in Nat
      BY <1>2, ImageBytes
    <3> QED BY <3>1 DEF Whole
  <2>3. a.image_bytes = IF wide THEN 2 * n ELSE n
    <3> DEFINE m == size[1] * size[2]
    <3>1. m \in Nat
      BY <1>2, ImageBytes
    <3>2. a.image_bytes = (IF wide THEN 6 ELSE 3) * m /\ n = 3 * m
      BY <1>2
    <3> HIDE DEF m, n
    <3> QED BY <3>1, <3>2
  <2> HIDE DEF n, P
  <2>4. /\ DOMAIN b \subseteq 0 .. a.image_bytes - 1
        /\ \A k \in 0 .. a.image_bytes - 1 : k \in DOMAIN b \/ k \in Border(a, method)
    <3>1. CASE wide
      <4>1. PICK s \in D16 : b = HostBytes(s)
        BY <1>7, <3>1
      <4>2. /\ DOMAIN s \subseteq 0 .. n - 1
            /\ IF method \in {"BILINEAR", "VNG"} THEN P \subseteq DOMAIN s ELSE DOMAIN s = 0 .. n - 1
        BY <2>1, <2>2 DEF P
      <4>3. /\ DOMAIN b \subseteq 0 .. 2 * n - 1
            /\ DOMAIN s = 0 .. n - 1 => DOMAIN b = 0 .. 2 * n - 1
            /\ \A k \in 0 .. 2 * n - 1 : k \div 2 \in DOMAIN s => k \in DOMAIN b
        BY <2>2, <4>1, <4>2, BytesOfSamples
      <4>4. Wide(a)
        BY <1>2, <3>1 DEF Wide
      <4>5. ASSUME method \in {"BILINEAR", "VNG"}, NEW k \in 0 .. a.image_bytes - 1, k \notin DOMAIN b
            PROVE  k \in Border(a, method)
        <5>1. k \div 2 \notin P
          BY <2>3, <3>1, <4>2, <4>3, <4>5
        <5>2. Framed(a, method)
          BY <4>4, <4>5 DEF Framed
        <5> QED BY <1>2, <5>1, <5>2, Zenon DEF Border, P
      <4> HIDE DEF wide
      <4> QED BY <2>3, <3>1, <4>2, <4>3, <4>5
    <3>2. CASE ~wide
      <4>1. DOMAIN b = 0 .. n - 1
        BY <1>7, <2>1, <2>2, <3>2
      <4> QED BY <2>3, <3>2, <4>1
    <3> QED BY <3>1, <3>2
  <2> HIDE DEF wide
  <2>5. OutcomeOK(Stored8(a, b), in, "debayer", method)
    BY <1>1, <1>2, <1>7, <2>4, Stores
  <2> QED BY <1>7, <2>5
<1> HIDE DEF a, size, D8, D16
<1> QED BY <1>3, <1>4, <1>5, <1>6, <1>7

\* A decoder that succeeds has stored what it gives inside the memory of its frame.
LEMMA DebayerStored ==
    ASSUME NEW in, NEW out, NEW method, NEW fill, NEW work, NEW win,
           NEW o \in Debayered(in, out, method, fill, work, win), o.err = "SUCCESS"
    PROVE  LET a == Adapt_buffer_bayer(in, out, method, fill)
               wide == in.coding \in {"RAW16", "MONO16"}
           IN
           /\ method \in Methods /\ in.filter \in Tiles /\ a.image # NULL
           /\ wide \/ in.coding \in {"RAW8", "MONO8"}
           /\ method = "DOWNSAMPLE" => ~OddSize(in)
           /\ \E b \in IF wide
                      THEN {HostBytes(s) : s \in bayer_decoding_16bit(in, a, method, in.depth, win)}
                      ELSE bayer_decoding_8bit(in, a, method, win) :
                 o = Stored8(a, b) /\ DOMAIN b \subseteq DOMAIN a.image
<1> DEFINE a == Adapt_buffer_bayer(in, out, method, fill)
           wide == in.coding \in {"RAW16", "MONO16"}
           B == IF wide THEN {HostBytes(s) : s \in bayer_decoding_16bit(in, a, method, in.depth, win)}
                ELSE bayer_decoding_8bit(in, a, method, win)
<1>1. \A f, e : o = Outcome(f, e) => o.err = e
  BY DEF Outcome
<1>2. \/ \E e \in {"INVALID_BAYER_METHOD", "FUNCTION_NOT_SUPPORTED"} : o = Outcome(out, e)
      \/ \E e \in {"MEMORY_ALLOCATION_FAILURE", "FUNCTION_NOT_SUPPORTED", "INVALID_COLOR_FILTER"} :
            o = Outcome(a, e)
      \/ o = Outcome(a, "UNDEFINED")
      \/ /\ method \in Methods /\ in.filter \in Tiles /\ a.image # NULL
         /\ wide \/ in.coding \in {"RAW8", "MONO8"}
         /\ method = "DOWNSAMPLE" => ~OddSize(in)
         /\ \E b \in B : o = Stored8(a, b)
  BY BayerCases
<1> HIDE DEF a, wide, B
<1>3. /\ method \in Methods /\ in.filter \in Tiles /\ a.image # NULL
      /\ wide \/ in.coding \in {"RAW8", "MONO8"}
      /\ method = "DOWNSAMPLE" => ~OddSize(in)
      /\ \E b \in B : o = Stored8(a, b)
  BY <1>1, <1>2
<1>4. PICK b \in B : o = Stored8(a, b)
  BY <1>3
<1>5. DOMAIN b \subseteq DOMAIN a.image
  BY <1>4, Stored8Cases
<1> QED BY <1>3, <1>4, <1>5 DEF a, wide, B

\* A picture of n pixels, and one in rows of pairs.
Rectangle(width, height, n) == width \in Nat /\ height \in Nat /\ n \in Nat /\ n = width * height
EvenRows(width, height, n) == Rectangle(width, height, n) /\ width % 2 = 0

\* The conversions, by the way the frames name them.
LEMMA ConvertsToYUV ==
    ASSUME NEW src, NEW width, NEW height, NEW n, Rectangle(width, height, n), NEW order, NEW coding, NEW bits,
           NEW b \in convert_to_YUV422(src, width, height, order, coding, bits)
    PROVE  /\ 0 .. 2 * n - 1 \subseteq DOMAIN b
           /\ (coding \in {"MONO8", "RAW8"} /\ width % 2 = 1) \/ DOMAIN b = 0 .. 2 * n - 1
<1>1. width \in Nat /\ height \in Nat /\ n \in Nat /\ n = width * height
  BY DEF Rectangle
<1>2. /\ 0 .. 2 * n - 1 \subseteq DOMAIN MONO8_to_YUV422(src, width, height, order)
      /\ width % 2 = 1 \/ DOMAIN MONO8_to_YUV422(src, width, height, order) = 0 .. 2 * n - 1
  <2> DEFINE padded == width + (width % 2)
  <2>1. DOMAIN MONO8_to_YUV422(src, width, height, order) = 0 .. 2 * padded * height - 1
    BY DEF MONO8_to_YUV422
  <2>2. (width % 2 = 0 /\ padded = width) \/ (width % 2 = 1 /\ padded = width + 1)
    BY <1>1
  <2> HIDE DEF padded
  <2>3. /\ width % 2 = 0 => 2 * padded * height = 2 * n
        /\ width % 2 = 1 => 2 * padded * height = 2 * n + 2 * height
    BY <1>1, <2>2
  <2> DEFINE all == 2 * padded * height
  <2>4. all \in Int /\ all >= 2 * n /\ (width % 2 = 1 \/ all = 2 * n)
    BY <1>1, <2>2, <2>3
  <2> HIDE DEF all
  <2>5. 0 .. 2 * n - 1 \subseteq 0 .. all - 1
    BY <1>1, <2>4
  <2> QED BY <2>1, <2>4, <2>5 DEF all
<1>3. \/ b = YUV422_to_YUV422(src, n, order) \/ b = YUV411_to_YUV422(src, n, order)
      \/ b = YUV444_to_YUV422(src, n, order) \/ b = RGB8_to_YUV422(src, n, order)
      \/ coding \in {"MONO8", "RAW8"} /\ b = MONO8_to_YUV422(src, width, height, order)
      \/ b = MONO16_to_YUV422(src, n, order, bits) \/ b = RGB16_to_YUV422(src, n, order, bits)
  BY <1>1 DEF convert_to_YUV422
<1>4. DOMAIN YUV422_to_YUV422(src, n, order) = 0 .. 2 * n - 1 BY DEF YUV422_to_YUV422
<1>5. DOMAIN YUV411_to_YUV422(src, n, order) = 0 .. 2 * n - 1 BY DEF YUV411_to_YUV422
<1>6. DOMAIN YUV444_to_YUV422(src, n, order) = 0 .. 2 * n - 1 BY DEF YUV444_to_YUV422
<1>7. DOMAIN RGB8_to_YUV422(src, n, order) = 0 .. 2 * n - 1 BY DEF RGB8_to_YUV422
<1>8. DOMAIN MONO16_to_YUV422(src, n, order, bits) = 0 .. 2 * n - 1 BY DEF MONO16_to_YUV422
<1>9. DOMAIN RGB16_to_YUV422(src, n, order, bits) = 0 .. 2 * n - 1 BY DEF RGB16_to_YUV422
<1>10. 0 .. 2 * n - 1 \subseteq 0 .. 2 * n - 1 OBVIOUS
<1> QED BY <1>2, <1>3, <1>4, <1>5, <1>6, <1>7, <1>8, <1>9, <1>10, Zenon

LEMMA ConvertsToRGB ==
    ASSUME NEW src, NEW width, NEW height, NEW order, NEW coding, NEW bits,
           NEW b \in convert_to_RGB8(src, width, height, order, coding, bits)
    PROVE  DOMAIN b = 0 .. 3 * (width * height) - 1
<1> DEFINE n == width * height
<1>1. \/ b = RGB16_to_RGB8(src, n, bits) \/ b = YUV444_to_RGB8(src, n)
      \/ b = YUV422_to_RGB8(src, n, order) \/ b = YUV411_to_RGB8(src, n)
      \/ b = MONO8_to_RGB8(src, n) \/ b = MONO16_to_RGB8(src, n, bits) \/ b = Copied(src, 3 * n)
  BY DEF convert_to_RGB8
<1>2. DOMAIN RGB16_to_RGB8(src, n, bits) = 0 .. 3 * n - 1 BY DEF RGB16_to_RGB8
<1>3. DOMAIN YUV444_to_RGB8(src, n) = 0 .. 3 * n - 1 BY DEF YUV444_to_RGB8
<1>4. DOMAIN YUV422_to_RGB8(src, n, order) = 0 .. 3 * n - 1 BY DEF YUV422_to_RGB8
<1>5. DOMAIN YUV411_to_RGB8(src, n) = 0 .. 3 * n - 1 BY DEF YUV411_to_RGB8
<1>6. DOMAIN MONO8_to_RGB8(src, n) = 0 .. 3 * n - 1 BY DEF MONO8_to_RGB8
<1>7. DOMAIN MONO16_to_RGB8(src, n, bits) = 0 .. 3 * n - 1 BY DEF MONO16_to_RGB8
<1>8. DOMAIN Copied(src, 3 * n) = 0 .. 3 * n - 1 BY DEF Copied
<1> QED BY <1>1, <1>2, <1>3, <1>4, <1>5, <1>6, <1>7, <1>8, Zenon

LEMMA ConvertsToMono ==
    ASSUME NEW src, NEW width, NEW height, NEW coding, NEW bits,
           NEW b \in convert_to_MONO8(src, width, height, coding, bits)
    PROVE  DOMAIN b = 0 .. width * height - 1
<1>1. b = MONO16_to_MONO8(src, width * height, bits) \/ b = Copied(src, width * height)
  BY DEF convert_to_MONO8
<1>2. DOMAIN MONO16_to_MONO8(src, width * height, bits) = 0 .. width * height - 1
  BY DEF MONO16_to_MONO8
<1>3. DOMAIN Copied(src, width * height) = 0 .. width * height - 1
  BY DEF Copied
<1> QED BY <1>1, <1>2, <1>3, Zenon

LEMMA ConvertOutcome ==
    ASSUME NEW in, MemoryOK(in),
           NEW out, DOMAIN out = Fields, MemoryOK(out),
           NEW fill, NEW o \in Converted(in, out, fill), NEW arg
    PROVE  OutcomeOK(o, in, "convert", arg)
<1> DEFINE a == Adapt_buffer_convert(in, out, fill)
           w == in.size[1]  h == in.size[2]  n == w * h
           Y == convert_to_YUV422(in.image, w, h, out.order, in.coding, in.depth)
           M == convert_to_MONO8(in.image, w, h, in.coding, in.depth)
           R == convert_to_RGB8(in.image, w, h, in.order, in.coding, in.depth)
<1>1. /\ in.size \in Nat \X Nat /\ in.padding \in Nat /\ in.image_bytes \in Nat
      /\ w \in Nat /\ h \in Nat /\ n \in Nat
  BY ImageBytes DEF MemoryOK
<1>2. ASSUME BitSize(out.coding) \in Nat
      PROVE  /\ DOMAIN a = Fields /\ MemoryOK(a) /\ Padded(a, in) /\ a.padding = in.padding
             /\ a.coding = out.coding /\ a.order = out.order
             /\ a.image_bytes = (w * h * BitSize(out.coding)) \div 8
  <2>1. a = Adapt(in, out, in.size, in.position, out.coding, 8, fill)
    BY Zenon DEF Adapt_buffer_convert
  <2> HIDE DEF a
  <2> QED BY <1>1, <1>2, <2>1, Adapted
<1> DEFINE odd == in.coding \in {"MONO8", "RAW8"} /\ w % 2 = 1
<1>3. /\ \A b \in Y : 0 .. 2 * n - 1 \subseteq DOMAIN b /\ (odd \/ DOMAIN b = 0 .. 2 * n - 1)
      /\ \A b \in M : DOMAIN b = 0 .. n - 1
      /\ \A b \in R : DOMAIN b = 0 .. 3 * n - 1
  <2>1. Rectangle(w, h, n)
    BY <1>1 DEF Rectangle
  <2> HIDE DEF w, h
  <2>2. ASSUME NEW b
        PROVE  /\ b \in Y => 0 .. 2 * n - 1 \subseteq DOMAIN b /\ (odd \/ DOMAIN b = 0 .. 2 * n - 1)
               /\ b \in M => DOMAIN b = 0 .. n - 1
               /\ b \in R => DOMAIN b = 0 .. 3 * n - 1
    <3>1. b \in Y => 0 .. 2 * n - 1 \subseteq DOMAIN b /\ (odd \/ DOMAIN b = 0 .. 2 * n - 1)
      BY <2>1, ConvertsToYUV
    <3>2. b \in M => DOMAIN b = 0 .. n - 1 BY ConvertsToMono
    <3>3. b \in R => DOMAIN b = 0 .. 3 * n - 1 BY ConvertsToRGB
    <3> QED BY <3>1, <3>2, <3>3
  <2> HIDE DEF n, Y, M, R, odd
  <2> QED BY <2>2
<1>4. \/ o = Outcome(out, "FUNCTION_NOT_SUPPORTED")
      \/ \E e \in {"MEMORY_ALLOCATION_FAILURE", "INVALID_BYTE_ORDER"} :
            out.coding \in {"YUV422", "MONO8", "RGB8"} /\ o = Outcome(a, e)
      \/ /\ out.coding \in {"YUV422", "MONO8", "RGB8"} /\ HalfPair(in, out)
         /\ o = Outcome(a, "UNDEFINED")
      \/ /\ a.image # NULL
         /\ \/ out.coding = "YUV422" /\ \E b \in Y : o = Stored8(a, b)
            \/ out.coding = "MONO8" /\ \E b \in M : o = Stored8(a, b)
            \/ out.coding = "RGB8" /\ \E b \in R : o = Stored8(a, b)
  <2> DEFINE bytes == CASE out.coding = "YUV422" -> Y [] out.coding = "MONO8" -> M
                        [] out.coding = "RGB8" -> R
  <2>1. o \in IF ~Supported(in.coding, out.coding) THEN {Outcome(out, "FUNCTION_NOT_SUPPORTED")}
              ELSE IF a.image = NULL THEN {Outcome(a, "MEMORY_ALLOCATION_FAILURE")}
              ELSE IF HalfPair(in, out) THEN {Outcome(a, "UNDEFINED")}
              ELSE IF bytes = {} THEN {Outcome(a, "INVALID_BYTE_ORDER")}
              ELSE {Stored8(a, b) : b \in bytes}
    BY Zenon DEF Converted, Lost
  <2>2. Supported(in.coding, out.coding) => out.coding \in {"YUV422", "MONO8", "RGB8"}
    BY DEF Supported
  <2>3. /\ out.coding = "YUV422" => bytes = Y
        /\ out.coding = "MONO8" => bytes = M
        /\ out.coding = "RGB8" => bytes = R
    <3> HIDE DEF Y, M, R
    <3> QED OBVIOUS
  <2> HIDE DEF bytes, a, Y, M, R
  <2> QED BY <2>1, <2>2, <2>3
<1> HIDE DEF a, Y, M, R
<1>5. /\ BitSize("YUV422") = 16 /\ BitSize("MONO8") = 8 /\ BitSize("RGB8") = 24
  BY DEF BitSize
<1>6. CASE o = Outcome(out, "FUNCTION_NOT_SUPPORTED")
  BY <1>6, Fails
<1>7. CASE \E e \in {"MEMORY_ALLOCATION_FAILURE", "INVALID_BYTE_ORDER"} :
              out.coding \in {"YUV422", "MONO8", "RGB8"} /\ o = Outcome(a, e)
  <2>1. BitSize(out.coding) \in Nat
    BY <1>5, <1>7
  <2> QED BY <1>2, <1>7, <2>1, Fails
<1>8. ASSUME a.image # NULL, NEW b, o = Stored8(a, b),
             \/ out.coding = "YUV422" /\ b \in Y
             \/ out.coding = "MONO8" /\ b \in M
             \/ out.coding = "RGB8" /\ b \in R
      PROVE  OutcomeOK(o, in, "convert", arg)
  <2>1. BitSize(out.coding) \in Nat
    BY <1>5, <1>8
  <2>2. /\ 0 .. a.image_bytes - 1 \subseteq DOMAIN b
        /\ (odd /\ out.coding = "YUV422") \/ DOMAIN b = 0 .. a.image_bytes - 1
    <3>1. /\ (w * h * 8) \div 8 = n /\ (w * h * 16) \div 8 = 2 * n /\ (w * h * 24) \div 8 = 3 * n
      BY <1>1, ImageBytes
    <3> HIDE DEF w, h
    <3> HIDE DEF odd
    <3>2. \/ /\ out.coding = "YUV422" /\ a.image_bytes = 2 * n
             /\ 0 .. 2 * n - 1 \subseteq DOMAIN b /\ (odd \/ DOMAIN b = 0 .. 2 * n - 1)
          \/ out.coding = "MONO8" /\ DOMAIN b = 0 .. n - 1 /\ a.image_bytes = n
          \/ out.coding = "RGB8" /\ DOMAIN b = 0 .. 3 * n - 1 /\ a.image_bytes = 3 * n
      <4> HIDE DEF n
      <4> QED BY <1>2, <1>3, <1>5, <1>8, <2>1, <3>1
    <3> HIDE DEF n
    <3> QED BY <3>2
  <2>3. odd /\ out.coding = "YUV422" => RowsPadded(in, a)
    BY <1>2, <2>1 DEF RowsPadded
  <2> HIDE DEF odd
  <2>4. /\ DOMAIN b \subseteq 0 .. a.image_bytes - 1 \/ RowsPadded(in, a)
        /\ \A k \in 0 .. a.image_bytes - 1 : k \in DOMAIN b \/ k \in Border(a, arg)
    BY <2>2, <2>3
  <2>5. OutcomeOK(Stored8(a, b), in, "convert", arg)
    BY <1>1, <1>2, <1>8, <2>1, <2>4, Stores
  <2> QED BY <1>8, <2>5
<1>9. CASE /\ out.coding \in {"YUV422", "MONO8", "RGB8"} /\ HalfPair(in, out)
           /\ o = Outcome(a, "UNDEFINED")
  <2>1. BitSize(out.coding) \in Nat
    BY <1>5, <1>9
  <2>2. HalfPair(in, a)
    BY <1>2, <1>9, <2>1, Zenon DEF HalfPair, ByPairs
  <2>3. KnownUndefined("convert", arg, in, a)
    BY <2>2 DEF KnownUndefined
  <2> QED BY <1>2, <1>9, <2>1, <2>3, Fails
<1> HIDE DEF w, h, n
<1> QED BY <1>4, <1>6, <1>7, <1>8, <1>9

LEMMA DeinterlaceOutcome ==
    ASSUME NEW in, MemoryOK(in), NEW out, DOMAIN out = Fields, MemoryOK(out),
           NEW method, NEW fill, NEW arg,
           NEW o, o = Deinterlaced(in, out, method, fill)
    PROVE  OutcomeOK(o, in, "stereo", arg)
<1> DEFINE a == Adapt_buffer_stereo(in, out, fill)
           size == <<in.size[1], 2 * in.size[2]>>
           coding == IF in.coding = "RAW16" THEN "RAW8" ELSE "MONO8"
           n == size[1] * size[2]
           b == IF method = "INTERLACED" THEN deinterlace_stereo(in.image, a.size[1] * a.size[2])
                ELSE Copied(in.image, a.image_bytes)
<1>1. in.size \in Nat \X Nat /\ in.padding \in Nat /\ in.image_bytes \in Nat /\ size \in Nat \X Nat
  <2>1. in.size \in Nat \X Nat /\ in.padding \in Nat /\ in.image_bytes \in Nat
    BY DEF MemoryOK
  <2> QED BY <2>1
<1>2. BitSize(coding) = 8
  BY DEF BitSize
<1>3. /\ DOMAIN a = Fields /\ MemoryOK(a) /\ Padded(a, in) /\ a.padding = in.padding
      /\ a.size = size /\ a.image_bytes = (size[1] * size[2] * BitSize(coding)) \div 8
  <2>1. a = Adapt(in, out, size, in.position, coding, 8, fill)
    BY Zenon DEF Adapt_buffer_stereo
  <2>2. BitSize(coding) \in Nat
    BY <1>2
  <2> HIDE DEF a, size, coding
  <2> QED BY <1>1, <2>1, <2>2, Adapted
<1>4. \/ \E e \in {"FUNCTION_NOT_SUPPORTED", "INVALID_STEREO_METHOD"} : o = Outcome(out, e)
      \/ o = Outcome(a, "MEMORY_ALLOCATION_FAILURE")
      \/ a.image # NULL /\ o = Stored8(a, b)
  <2>1. o = IF in.coding \notin {"RAW16", "MONO16", "YUV422"} THEN Outcome(out, "FUNCTION_NOT_SUPPORTED")
            ELSE IF method \notin {"INTERLACED", "FIELD"} THEN Outcome(out, "INVALID_STEREO_METHOD")
            ELSE IF a.image = NULL THEN Outcome(a, "MEMORY_ALLOCATION_FAILURE")
            ELSE Stored8(a, b)
    BY Zenon DEF Deinterlaced
  <2> HIDE DEF a, b
  <2> QED BY <2>1
<1>5. n \in Nat /\ a.image_bytes = n /\ a.size[1] * a.size[2] = n
  BY <1>1, <1>2, <1>3, ImageBytes
<1> HIDE DEF a, size, coding, n
<1>6. DOMAIN b = 0 .. a.image_bytes - 1
  <2>1. DOMAIN deinterlace_stereo(in.image, n) = 0 .. n - 1
    BY DEF deinterlace_stereo
  <2>2. DOMAIN Copied(in.image, n) = 0 .. n - 1
    BY DEF Copied
  <2> QED BY <1>5, <2>1, <2>2
<1> HIDE DEF b
<1>7. CASE \E e \in {"FUNCTION_NOT_SUPPORTED", "INVALID_STEREO_METHOD"} : o = Outcome(out, e)
  BY <1>7, Fails
<1>8. CASE o = Outcome(a, "MEMORY_ALLOCATION_FAILURE")
  BY <1>3, <1>8, Fails
<1>9. CASE a.image # NULL /\ o = Stored8(a, b)
  <2>1. /\ DOMAIN b \subseteq 0 .. a.image_bytes - 1
        /\ \A k \in 0 .. a.image_bytes - 1 : k \in DOMAIN b \/ k \in Border(a, arg)
    BY <1>6
  <2> QED BY <1>1, <1>3, <1>9, <2>1, Stores
<1> QED BY <1>4, <1>7, <1>8, <1>9

-----------------------------------------------------------------------------
(* The steps.                                                              *)

LEMMA CapturedOK ==
    ASSUME NEW f \in Captured
    PROVE  MemoryOK(f)
<1>1. Described(f)
  BY FramesAssumption
<1>2. /\ f.size \in Nat \X Nat /\ f.padding \in Nat /\ f.allocated \in Nat
      /\ f.coding \in Convertible
      /\ f.image_bytes = (f.size[1] * f.size[2] * BitSize(f.coding)) \div 8
      /\ f.image_bytes + f.padding <= f.allocated
      /\ DOMAIN f.image = 0 .. f.allocated - 1 /\ f.fresh = {}
  BY <1>1, Zenon DEF Described
<1>3. f.image_bytes \in Nat
  <2>1. BitSize(f.coding) \in Nat
    BY <1>2 DEF BitSize, Convertible
  <2> DEFINE n == f.size[1] * f.size[2] * BitSize(f.coding)
  <2>2. n \in Nat
    <3>1. f.size[1] \in Nat /\ f.size[2] \in Nat
      BY <1>2
    <3> QED BY <2>1, <3>1
  <2> HIDE DEF n
  <2>3. n \div 8 \in Nat
    BY <2>2
  <2> QED BY <1>2, <2>3 DEF n
<1> QED BY <1>2, <1>3 DEF MemoryOK

LEMMA CalledOK ==
    ASSUME Inv, NEW i \in 1 .. 2, NEW op, NEW arg, NEW o, OutcomeOK(o, frame[i], op, arg),
           Call(i, op, arg, o)
    PROVE  Inv'
<1> DEFINE Good(f, from, m) ==
        CompleteOK(f, from, m.op, m.arg, m.err) /\ KnownOK(f, from, m.op, m.arg, m.err)
<1>1. /\ frame' = [frame EXCEPT ![i + 1] = o.out]
      /\ made' = [j \in 2 .. 3 |-> IF j = i + 1 THEN [op |-> op, arg |-> arg, err |-> o.err]
                                  ELSE IF j > i THEN NotMade ELSE made[j]]
      /\ stray' = o.stray
  BY DEF Call
<1>2. /\ DOMAIN frame = 1 .. 3 /\ frame[1] \in Captured
      /\ DOMAIN frame[2] = Fields /\ DOMAIN frame[3] = Fields
      /\ MemoryOK(frame[1]) /\ MemoryOK(frame[2]) /\ MemoryOK(frame[3])
      /\ Good(frame[2], frame[1], made[2])
  BY DEF Inv
<1>3. /\ stray' # {} => op = "convert" /\ RowsPadded(frame[i], o.out)
      /\ DOMAIN o.out = Fields /\ MemoryOK(o.out)
      /\ CompleteOK(o.out, frame[i], op, arg, o.err) /\ KnownOK(o.out, frame[i], op, arg, o.err)
  BY <1>1 DEF OutcomeOK
<1>4. /\ \A k \in 2 .. 3 : k = 2 \/ k = 3
      /\ \A k \in 1 .. 3 : k = 1 \/ k = 2 \/ k = 3
  OBVIOUS
<1>5. CASE i = 1
  <2>1. frame'[1] = frame[1] /\ frame'[2] = o.out /\ frame'[3] = frame[3] /\ DOMAIN frame' = 1 .. 3
    BY <1>1, <1>2, <1>5
  <2>2. made'[2].op = op /\ made'[2].arg = arg /\ made'[2].err = o.err /\ made'[3].err = "none"
    BY <1>1, <1>5 DEF NotMade
  <2>3. Good(frame'[3], frame'[2], made'[3])
    BY <2>2 DEF CompleteOK, KnownOK
  <2>4. Good(frame'[2], frame'[1], made'[2])
    BY <1>3, <1>5, <2>1, <2>2
  <2>5. stray' # {} => made'[2].op = "convert" /\ RowsPadded(frame'[1], frame'[2])
    BY <1>3, <1>5, <2>1, <2>2
  <2> HIDE DEF Good
  <2>6. /\ \A k \in 2 .. 3 : DOMAIN frame'[k] = Fields
        /\ \A k \in 1 .. 3 : MemoryOK(frame'[k])
        /\ \A k \in 2 .. 3 : Good(frame'[k], frame'[k - 1], made'[k])
        /\ stray' # {} => \E k \in 2 .. 3 : made'[k].op = "convert" /\ RowsPadded(frame'[k - 1], frame'[k])
    BY <1>2, <1>3, <1>4, <2>1, <2>3, <2>4, <2>5
  <2> QED BY <1>2, <2>1, <2>6 DEF Inv, Good
<1>6. CASE i = 2
  <2>1. frame'[1] = frame[1] /\ frame'[2] = frame[2] /\ frame'[3] = o.out /\ DOMAIN frame' = 1 .. 3
    BY <1>1, <1>2, <1>6
  <2>2. /\ made'[3].op = op /\ made'[3].arg = arg /\ made'[3].err = o.err
        /\ made'[2] = made[2]
    BY <1>1, <1>6
  <2>3. Good(frame'[3], frame'[2], made'[3])
    BY <1>3, <1>6, <2>1, <2>2
  <2>4. Good(frame'[2], frame'[1], made'[2])
    BY <1>2, <2>1, <2>2
  <2>5. stray' # {} => made'[3].op = "convert" /\ RowsPadded(frame'[2], frame'[3])
    BY <1>3, <1>6, <2>1, <2>2
  <2> HIDE DEF Good
  <2>6. /\ \A k \in 2 .. 3 : DOMAIN frame'[k] = Fields
        /\ \A k \in 1 .. 3 : MemoryOK(frame'[k])
        /\ \A k \in 2 .. 3 : Good(frame'[k], frame'[k - 1], made'[k])
        /\ stray' # {} => \E k \in 2 .. 3 : made'[k].op = "convert" /\ RowsPadded(frame'[k - 1], frame'[k])
    BY <1>2, <1>3, <1>4, <2>1, <2>3, <2>4, <2>5
  <2> QED BY <1>2, <2>1, <2>6 DEF Inv, Good
<1> QED BY <1>5, <1>6

LEMMA DebayerStep == Inv /\ Debayer => Inv'
<1> SUFFICES ASSUME Inv, Debayer PROVE Inv'
  OBVIOUS
<1>1. frame[1].size[1] > 4 /\ frame[1].size[2] > 3
  BY DEF Debayer
<1>2. PICK method \in Methods \cup {"none"}, fill \in Fills \cup {NoMemory}, work \in BOOLEAN :
        \E win \in IF frame[1].filter \in Tiles THEN 0 .. 2 ELSE {0} :
           \E outcome \in Debayered(frame[1], frame[2], method, fill, work, win) :
              Call(1, "debayer", method, outcome)
  BY Zenon DEF Debayer
<1>3. PICK win \in IF frame[1].filter \in Tiles THEN 0 .. 2 ELSE {0} :
           \E outcome \in Debayered(frame[1], frame[2], method, fill, work, win) :
              Call(1, "debayer", method, outcome)
  BY <1>2
<1>4. PICK o \in Debayered(frame[1], frame[2], method, fill, work, win) : Call(1, "debayer", method, o)
  BY <1>3
<1>5. MemoryOK(frame[1]) /\ MemoryOK(frame[2]) /\ DOMAIN frame[2] = Fields
  BY DEF Inv
<1>6. OutcomeOK(o, frame[1], "debayer", method)
  BY <1>1, <1>4, <1>5, DebayerOutcome
<1> QED BY <1>4, <1>6, CalledOK

LEMMA ConvertStep == \A i \in 1 .. 2 : Inv /\ Convert(i) => Inv'
<1> SUFFICES ASSUME NEW i \in 1 .. 2, Inv, Convert(i) PROVE Inv'
  OBVIOUS
<1>1. PICK to \in {"YUV422", "MONO8", "RGB8", "YUV444"}, order \in Orders \cup {"none"},
           fill \in Fills \cup {NoMemory} :
        LET out == [frame[i + 1] EXCEPT !.coding = to, !.order = order]
        IN  \E outcome \in Converted(frame[i], out, fill) : Call(i, "convert", to, outcome)
  BY Zenon DEF Convert
<1> DEFINE out == [frame[i + 1] EXCEPT !.coding = to, !.order = order]
<1>2. PICK o \in Converted(frame[i], out, fill) : Call(i, "convert", to, o)
  BY <1>1, Zenon
<1>3. MemoryOK(frame[i]) /\ MemoryOK(frame[i + 1]) /\ DOMAIN frame[i + 1] = Fields
  BY DEF Inv
<1>4. DOMAIN out = Fields /\ MemoryOK(out)
  BY <1>3, Redescribed, Zenon
<1> HIDE DEF out
<1>5. OutcomeOK(o, frame[i], "convert", to)
  BY <1>2, <1>3, <1>4, ConvertOutcome
<1> QED BY <1>2, <1>5, CalledOK

LEMMA DeinterlaceStep == Inv /\ Deinterlace => Inv'
<1> SUFFICES ASSUME Inv, Deinterlace PROVE Inv'
  OBVIOUS
<1>1. PICK method \in {"INTERLACED", "FIELD", "none"}, fill \in Fills \cup {NoMemory} :
        Call(1, "stereo", method, Deinterlaced(frame[1], frame[2], method, fill))
  BY DEF Deinterlace
<1>2. MemoryOK(frame[1]) /\ MemoryOK(frame[2]) /\ DOMAIN frame[2] = Fields
  BY DEF Inv
<1>3. OutcomeOK(Deinterlaced(frame[1], frame[2], method, fill), frame[1], "stereo", method)
  BY <1>2, DeinterlaceOutcome
<1> QED BY <1>1, <1>3, CalledOK

LEMMA CaptureStep == Inv /\ Capture => Inv'
<1> SUFFICES ASSUME Inv, Capture PROVE Inv'
  OBVIOUS
<1>1. PICK f \in Later(frame[1]) : frame' = [frame EXCEPT ![1] = f]
  BY DEF Capture
<1>2. made' = [i \in 2 .. 3 |-> NotMade] /\ stray' = {}
  BY DEF Capture
<1>3. /\ DOMAIN frame = 1 .. 3 /\ frame[1] \in Captured
      /\ \A i \in 2 .. 3 : DOMAIN frame[i] = Fields /\ MemoryOK(frame[i])
  BY DEF Inv
<1>4. f \in Captured
  BY <1>1, <1>3, FramesAssumption
<1>5. /\ DOMAIN frame' = 1 .. 3 /\ frame'[1] = f
      /\ \A i \in 2 .. 3 : frame'[i] = frame[i]
  BY <1>1, <1>3
<1>6. \A i \in 2 .. 3 :
        /\ CompleteOK(frame'[i], frame'[i - 1], made'[i].op, made'[i].arg, made'[i].err)
        /\ KnownOK(frame'[i], frame'[i - 1], made'[i].op, made'[i].arg, made'[i].err)
  <2>1. \A i \in 2 .. 3 : made'[i].err = "none"
    BY <1>2 DEF NotMade
  <2> QED BY <2>1 DEF CompleteOK, KnownOK
<1>7. \A i \in 1 .. 3 : MemoryOK(frame'[i])
  <2>1. \A i \in 1 .. 3 : i = 1 \/ i \in 2 .. 3 OBVIOUS
  <2> QED BY <1>3, <1>4, <1>5, <2>1, CapturedOK
<1> QED BY <1>2, <1>3, <1>4, <1>5, <1>6, <1>7 DEF Inv

LEMMA Starts == Init => Inv
<1> SUFFICES ASSUME Init PROVE Inv
  OBVIOUS
<1>1. PICK f \in Captured : frame = <<f, Calloced, Calloced>>
  BY DEF Init
<1>2. made = [i \in 2 .. 3 |-> NotMade] /\ stray = {}
  BY DEF Init
<1>3. DOMAIN frame = 1 .. 3 /\ frame[1] = f /\ frame[2] = Calloced /\ frame[3] = Calloced
  BY <1>1
<1>4. MemoryOK(Calloced)
  BY DEF MemoryOK, Calloced, NULL
<1>5. \A i \in 2 .. 3 :
        /\ CompleteOK(frame[i], frame[i - 1], made[i].op, made[i].arg, made[i].err)
        /\ KnownOK(frame[i], frame[i - 1], made[i].op, made[i].arg, made[i].err)
  <2>1. \A i \in 2 .. 3 : made[i].err = "none"
    BY <1>2 DEF NotMade
  <2> QED BY <2>1 DEF CompleteOK, KnownOK
<1>6. /\ \A i \in 2 .. 3 : frame[i] = Calloced
      /\ \A i \in 1 .. 3 : i = 1 \/ i \in 2 .. 3
  BY <1>3
<1>7. /\ \A i \in 2 .. 3 : DOMAIN frame[i] = Fields
      /\ \A i \in 1 .. 3 : MemoryOK(frame[i])
  <2> HIDE DEF Calloced
  <2> QED BY <1>3, <1>4, <1>6, CapturedOK DEF Fields
<1> QED BY <1>2, <1>3, <1>5, <1>7 DEF Inv

LEMMA Keeps == Inv /\ [Next]_vars => Inv'
<1>1. Inv /\ UNCHANGED vars => Inv'
  BY ZenonT(40) DEF Inv, vars
<1> QED BY <1>1, DebayerStep, ConvertStep, DeinterlaceStep, CaptureStep DEF Next

\* The invariant holds.
LEMMA InvHolds == Spec => []Inv
<1> QED BY Starts, Keeps, PTL DEF Spec

\* Only the four kinds of calls that InsideMemory names are undefined, and only the
\* first stores outside the memory of its frame; a frame that has memory has room for
\* its image and the padding: for pictures of every size (decoded ones from five
\* columns and four rows on, smaller ones no decoder can take), whatever the frames
\* held before and whichever malloc() fails.
THEOREM NothingOutside == Spec => []InsideMemory
<1>1. Inv => InsideMemory
  BY DEF Inv, MemoryOK, KnownOK, InsideMemory
<1> QED BY <1>1, InvHolds, PTL

\* A call that succeeds stores to all of the image but the border that BILINEAR and
\* VNG leave in 16 bits, and the padding follows it.
THEOREM NothingLeftOut == Spec => []ImageComplete
<1>1. Inv => ImageComplete
  BY DEF Inv, CompleteOK, ImageComplete
<1> QED BY <1>1, InvHolds, PTL

-----------------------------------------------------------------------------
(* The samples that decoders keep.                                         *)

\* The offset of a component of a pixel, and the pixel of that offset.
Offset(w, y, x, c) == 3 * (y * w + x) + c

LEMMA PlaceOffset ==
    ASSUME NEW w \in Nat, NEW y \in Nat, NEW x \in 0 .. w - 1, NEW c \in 0 .. 2
    PROVE  /\ Row(w, Offset(w, y, x, c)) = y /\ Column(w, Offset(w, y, x, c)) = x
<1> DEFINE p == y * w + x  i == Offset(w, y, x, c)
<1>1. p \in Nat /\ i = 3 * p + c
  BY DEF Offset
<1> HIDE DEF i
<1>2. i \div 3 = p /\ i % 3 = c
  <2> HIDE DEF p
  <2> QED BY <1>1
<1> DEFINE q == p \div w  r == p % w
<1>3. q \in Nat /\ r \in 0 .. w - 1 /\ p = q * w + r
  BY <1>1, Divided
<1>4. q * w + r = y * w + x
  BY <1>3
<1> HIDE DEF q, r, p
<1>5. q = y
  <2>1. CASE q >= y + 1
    <3>1. (y + 1) * w <= q * w
      BY <1>3, <2>1, Monotone
    <3>2. (y + 1) * w = y * w + w
      OBVIOUS
    <3> DEFINE a == q * w  b == y * w
    <3>3. b + w <= a /\ a + r = b + x /\ a \in Nat /\ b \in Nat
      BY <1>3, <1>4, <3>1, <3>2
    <3> HIDE DEF a, b
    <3> QED BY <1>3, <3>3
  <2>2. CASE y >= q + 1
    <3>1. (q + 1) * w <= y * w
      BY <1>3, <2>2, Monotone
    <3>2. (q + 1) * w = q * w + w
      BY <1>3
    <3> DEFINE a == q * w  b == y * w
    <3>3. a + w <= b /\ a + r = b + x /\ a \in Nat /\ b \in Nat
      BY <1>3, <1>4, <3>1, <3>2
    <3> HIDE DEF a, b
    <3> QED BY <1>3, <3>3
  <2> QED BY <1>3, <2>1, <2>2
<1>6. r = x
  <2> DEFINE a == y * w
  <2>1. a + r = a + x /\ a \in Nat
    BY <1>4, <1>5
  <2> HIDE DEF a
  <2> QED BY <1>3, <2>1
<1> QED BY <1>2, <1>5, <1>6 DEF q, r, p, i, Row, Column

LEMMA ComponentOf ==
    ASSUME NEW w \in Nat, NEW y \in Nat, NEW x \in 0 .. w - 1, NEW c \in 0 .. 2
    PROVE  Offset(w, y, x, c) % 3 = c
BY DEF Offset

LEMMA OverFirst ==
    ASSUME NEW f, NEW g, NEW i \in DOMAIN f
    PROVE  Over(f, g)[i] = f[i]
BY DEF Over

\* The colours by which the decoders go are those of the tile's letters.
Colour(tile, y, x) == Mosaic[tile][2 * (y % 2) + (x % 2) + 1]

LEMMA Parities ==
    ASSUME NEW y \in Nat
    PROVE  /\ y % 2 \in {0, 1}
           /\ (y - 1) % 2 = 1 - (y % 2) /\ (y + 1) % 2 = 1 - (y % 2) /\ (y - 2) % 2 = y % 2
OBVIOUS

LEMMA ColourCode ==
    ASSUME NEW tile \in Tiles, NEW y \in Nat, NEW x \in Nat
    PROVE  FC(tile, y, x) = Colour(tile, y, x) /\ Colour(tile, y, x) \in 0 .. 2
<1>1. 4 ^ 0 = 1 /\ 4 ^ 1 = 4 /\ 4 ^ 2 = 16 /\ 4 ^ 3 = 64
  OBVIOUS
<1>2. y % 2 \in {0, 1} /\ x % 2 \in {0, 1}
  OBVIOUS
<1> DEFINE a == y % 2  b == x % 2  n == 2 * a + b
<1> HIDE DEF a, b
<1>3. n \in 0 .. 3
  BY <1>2 DEF a, b
<1>4. FC(tile, y, x) = (Filters(tile) \div 4 ^ n) % 4
  BY DEF FC, a, b
<1> DEFINE d == 4 ^ n
<1>5. (n = 0 /\ d = 1) \/ (n = 1 /\ d = 4) \/ (n = 2 /\ d = 16) \/ (n = 3 /\ d = 64)
  <2>1. n = 0 => d = 1 BY <1>1, Zenon
  <2>2. n = 1 => d = 4 BY <1>1, Zenon
  <2>3. n = 2 => d = 16 BY <1>1, Zenon
  <2>4. n = 3 => d = 64 BY <1>1, Zenon
  <2> HIDE DEF d
  <2> QED BY <1>3, <2>1, <2>2, <2>3, <2>4
<1>6. FC(tile, y, x) = (Filters(tile) \div d) % 4
  BY <1>4
<1> HIDE DEF d
<1>7. Colour(tile, y, x) = Mosaic[tile][n + 1]
  BY DEF Colour, a, b
<1> HIDE DEF n
<1>8. CASE tile = "BGGR"
  <2>1. Filters(tile) = 22 /\ Mosaic[tile] = <<2, 1, 1, 0>> BY <1>8 DEF Filters, Mosaic
  <2> QED BY <1>7, <1>5, <1>6, <2>1
<1>9. CASE tile = "GRBG"
  <2>1. Filters(tile) = 97 /\ Mosaic[tile] = <<1, 0, 2, 1>> BY <1>9 DEF Filters, Mosaic
  <2> QED BY <1>7, <1>5, <1>6, <2>1
<1>10. CASE tile = "RGGB"
  <2>1. Filters(tile) = 148 /\ Mosaic[tile] = <<0, 1, 1, 2>> BY <1>10 DEF Filters, Mosaic
  <2> QED BY <1>7, <1>5, <1>6, <2>1
<1>11. CASE tile = "GBRG"
  <2>1. Filters(tile) = 73 /\ Mosaic[tile] = <<1, 2, 0, 1>> BY <1>11 DEF Filters, Mosaic
  <2> QED BY <1>7, <1>5, <1>6, <2>1
<1> QED BY <1>8, <1>9, <1>10, <1>11 DEF Tiles

\* What OpenCV's decoders know of a pixel: whether it is green, and at which side
\* of green its colour is stored if not.
LEMMA ColourStep ==
    ASSUME NEW tile \in Tiles, NEW y \in Nat, NEW x \in Nat, NEW c, c = Colour(tile, y, x)
    PROVE  /\ GreenStep(tile, y, x) <=> c = 1
           /\ c # 1 => c = 1 - BlueAt(tile, y)
           /\ BlueAt(tile, y) \in {-1, 1}
<1>1. y % 2 \in {0, 1} /\ x % 2 \in {0, 1}
  OBVIOUS
<1> DEFINE a == y % 2  b == x % 2
<1>2. /\ c = Mosaic[tile][2 * a + b + 1]
      /\ GreenStep(tile, y, x) <=> ((tile \in {"GBRG", "GRBG"}) = (a = 0)) = (b = 0)
      /\ BlueAt(tile, y) = IF (tile \in {"BGGR", "GBRG"}) = (a = 0) THEN -1 ELSE 1
  BY DEF GreenStep, BlueAt, Colour
<1> HIDE DEF a, b
<1>3. a \in {0, 1} /\ b \in {0, 1}
  BY <1>1 DEF a, b
<1>4. CASE tile = "BGGR"
  <2>1. Mosaic[tile] = <<2, 1, 1, 0>> BY <1>4 DEF Mosaic
  <2> QED BY <1>2, <1>3, <1>4, <2>1
<1>5. CASE tile = "GRBG"
  <2>1. Mosaic[tile] = <<1, 0, 2, 1>> BY <1>5 DEF Mosaic
  <2> QED BY <1>2, <1>3, <1>5, <2>1
<1>6. CASE tile = "RGGB"
  <2>1. Mosaic[tile] = <<0, 1, 1, 2>> BY <1>6 DEF Mosaic
  <2> QED BY <1>2, <1>3, <1>6, <2>1
<1>7. CASE tile = "GBRG"
  <2>1. Mosaic[tile] = <<1, 2, 0, 1>> BY <1>7 DEF Mosaic
  <2> QED BY <1>2, <1>3, <1>7, <2>1
<1> QED BY <1>4, <1>5, <1>6, <1>7 DEF Tiles

LEMMA PlaceIn ==
    ASSUME NEW w, NEW rows, NEW cols, NEW y \in rows, NEW x \in cols, NEW c \in 0 .. 2
    PROVE  Offset(w, y, x, c) \in Places(w, rows, cols)
<1>1. \E b \in rows, a \in cols, d \in 0 .. 2 : Offset(w, y, x, c) = 3 * (b * w + a) + d
  BY DEF Offset
<1> QED BY <1>1 DEF Places

LEMMA BilinearKeeps ==
    ASSUME NEW raw, raw.w \in Nat, raw.h \in Nat, NEW tile \in Tiles, NEW bits,
           NEW y \in 1 .. raw.h - 2, NEW x \in 1 .. raw.w - 2, NEW c, c = Colour(tile, y, x),
           NEW i, i = Offset(raw.w, y, x, c)
    PROVE  /\ i \in DOMAIN Bilinear(raw, tile) /\ Bilinear(raw, tile)[i] = At(raw, y, x)
           /\ i \in DOMAIN Bilinear_uint16(raw, tile, bits)
           /\ Bilinear_uint16(raw, tile, bits)[i] = At(raw, y, x)
<1> DEFINE v(b, a, d) == BilinearPixel(raw, tile, b, a, d)
           P == Places(raw.w, 1 .. raw.h - 2, 1 .. raw.w - 2)
           f == [j \in P |-> v(Row(raw.w, j), Column(raw.w, j), j % 3)]
<1>1. c \in 0 .. 2 /\ y \in Nat /\ x \in Nat
  BY ColourCode
<1>2. v(y, x, c) = At(raw, y, x)
  <2>1. /\ y - 1 \in Nat /\ x - 1 \in Nat
        /\ (y - 1) % 2 = 1 - (y % 2) /\ (x - 1) % 2 = 1 - (x % 2)
        /\ y % 2 \in {0, 1} /\ x % 2 \in {0, 1}
    BY Parities
  <2>2. (GreenStep(tile, y - 1, x - 1) <=> c = 1) /\ (c # 1 => c = 1 + BlueAt(tile, y - 1))
    <3>1. /\ GreenStep(tile, y, x) <=> c = 1
          /\ c # 1 => c = 1 - BlueAt(tile, y)
          /\ BlueAt(tile, y) \in {-1, 1}
      BY <1>1, ColourStep
    <3>2. (1 - (y % 2) = 0) <=> ~(y % 2 = 0)
      BY <2>1
    <3>3. (1 - (x % 2) = 0) <=> ~(x % 2 = 0)
      BY <2>1
    <3>4. BlueAt(tile, y - 1) = -BlueAt(tile, y)
      BY <2>1, <3>2 DEF BlueAt
    <3>5. GreenStep(tile, y - 1, x - 1) <=> GreenStep(tile, y, x)
      BY <2>1, <3>2, <3>3 DEF GreenStep
    <3> QED BY <3>1, <3>4, <3>5
  <2>3. y + 0 = y /\ x + 0 = x
    OBVIOUS
  <2>4. BlueAt(tile, y - 1) \in {-1, 1}
    BY DEF BlueAt
  <2> QED BY <2>2, <2>3, <2>4 DEF BilinearPixel, Stored
<1>3. i \in DOMAIN f /\ f[i] = v(y, x, c)
  <2>1. y \in Nat /\ x \in 0 .. raw.w - 1
    OBVIOUS
  <2>2. i \in P
    BY <1>1, PlaceIn
  <2>3. Row(raw.w, i) = y /\ Column(raw.w, i) = x /\ i % 3 = c
    <3> HIDE DEF P
    <3>1. Row(raw.w, i) = y /\ Column(raw.w, i) = x
      BY <1>1, <2>1, PlaceOffset
    <3>2. i % 3 = c
      BY <1>1, <2>1, ComponentOf
    <3> QED BY <3>1, <3>2
  <2> HIDE DEF P, v
  <2> QED BY <2>2, <2>3
<1>4. Bilinear(raw, tile) = Over(f, Zero(ClearBorders(raw.w, raw.h, 1)))
  BY DEF Bilinear
<1>5. Bilinear_uint16(raw, tile, bits) = f
  BY DEF Bilinear_uint16
<1> HIDE DEF f
<1>6. Over(f, Zero(ClearBorders(raw.w, raw.h, 1)))[i] = f[i]
  BY <1>3, OverFirst
<1>7. i \in DOMAIN Over(f, Zero(ClearBorders(raw.w, raw.h, 1)))
  BY <1>3 DEF Over
<1> QED BY <1>2, <1>3, <1>4, <1>5, <1>6, <1>7

LEMMA HQLinearKeeps ==
    ASSUME NEW raw, raw.w \in Nat, raw.h \in Nat, NEW tile \in Tiles, NEW bits,
           NEW y \in 2 .. raw.h - 3, NEW x \in 2 .. raw.w - 3, NEW c, c = Colour(tile, y, x),
           NEW i, i = Offset(raw.w, y, x, c)
    PROVE  /\ i \in DOMAIN HQLinear(raw, tile) /\ HQLinear(raw, tile)[i] = At(raw, y, x)
           /\ i \in DOMAIN HQLinear_uint16(raw, tile, bits)
           /\ HQLinear_uint16(raw, tile, bits)[i] = At(raw, y, x)
<1> DEFINE P == Places(raw.w, 2 .. raw.h - 3, 2 .. raw.w - 3)
           Z == Zero(ClearBorders(raw.w, raw.h, 2))
           f(n) == [j \in P |-> HQPixel(raw, tile, Row(raw.w, j), Column(raw.w, j), j % 3, n)]
<1>1. c \in 0 .. 2 /\ y \in Nat /\ x \in Nat
  BY ColourCode
<1>2. ASSUME NEW n PROVE HQPixel(raw, tile, y, x, c, n) = At(raw, y, x)
  <2>1. (y - 2) % 2 = y % 2 /\ (x - 2) % 2 = x % 2
    BY <1>1, Parities
  <2>2. (GreenStep(tile, y - 2, x - 2) <=> c = 1) /\ (c # 1 => c = 1 - BlueAt(tile, y - 2))
    <3>1. /\ GreenStep(tile, y, x) <=> c = 1
          /\ c # 1 => c = 1 - BlueAt(tile, y)
      BY <1>1, ColourStep
    <3>2. BlueAt(tile, y - 2) = BlueAt(tile, y)
      BY <2>1 DEF BlueAt
    <3>3. GreenStep(tile, y - 2, x - 2) <=> GreenStep(tile, y, x)
      BY <2>1 DEF GreenStep
    <3> QED BY <3>1, <3>2, <3>3
  <2>3. BlueAt(tile, y - 2) \in {-1, 1}
    BY DEF BlueAt
  <2> QED BY <2>2, <2>3 DEF HQPixel, Stored
<1>3. ASSUME NEW n PROVE i \in DOMAIN f(n) /\ f(n)[i] = At(raw, y, x)
  <2>1. y \in Nat /\ x \in 0 .. raw.w - 1
    OBVIOUS
  <2>2. i \in P
    BY <1>1, PlaceIn
  <2>3. Row(raw.w, i) = y /\ Column(raw.w, i) = x /\ i % 3 = c
    <3> HIDE DEF P
    <3>1. Row(raw.w, i) = y /\ Column(raw.w, i) = x
      BY <1>1, <2>1, PlaceOffset
    <3>2. i % 3 = c
      BY <1>1, <2>1, ComponentOf
    <3> QED BY <3>1, <3>2
  <2> HIDE DEF P
  <2>4. i \in DOMAIN f(n) /\ f(n)[i] = HQPixel(raw, tile, y, x, c, n)
    BY <2>2, <2>3
  <2> HIDE DEF f
  <2> QED BY <1>2, <2>4
<1>4. HQLinear(raw, tile) = Over(f(8), Z)
  BY DEF HQLinear
<1>5. HQLinear_uint16(raw, tile, bits) = Over(f(bits), Z)
  BY DEF HQLinear_uint16
<1> HIDE DEF f, Z
<1>6. ASSUME NEW n PROVE i \in DOMAIN Over(f(n), Z) /\ Over(f(n), Z)[i] = At(raw, y, x)
  BY <1>3, OverFirst DEF Over
<1> QED BY <1>4, <1>5, <1>6

Fits(v, bits) == v \in Nat /\ v < 2 ^ bits

LEMMA ClipKeeps ==
    ASSUME NEW bits \in Nat, NEW v, Fits(v, bits)
    PROVE  Clip(v, bits) = v
BY DEF Clip, Fits

\* What a pass of VNG over a picture g makes of a sample's own component.
LEMMA VNGRowsKeep ==
    ASSUME NEW raw, raw.w \in Nat, raw.h \in Nat, NEW tile \in Tiles, NEW bits \in Nat, NEW g,
           NEW y \in 3 .. raw.h - 4, NEW x \in 3 .. raw.w - 4, NEW c, c = Colour(tile, y, x),
           NEW i, i = Offset(raw.w, y, x, c), Fits(g[i], bits)
    PROVE  i \in DOMAIN VNGRows(raw, tile, bits, g) /\ VNGRows(raw, tile, bits, g)[i] = g[i]
<1> DEFINE P == Places(raw.w, 2 .. raw.h - 3, 2 .. raw.w - 3)
           Z == Zero(Places(raw.w, {n \in {raw.h - 4, raw.h - 3} : raw.h >= 4 /\ n < 2},
                            2 .. raw.w - 3))
           f == [j \in P |->
                   VNGPixel(tile, g, raw.w, bits, Row(raw.w, j), Column(raw.w, j), j % 3)]
<1>1. c \in 0 .. 2 /\ y \in Nat /\ x \in 0 .. raw.w - 1 /\ FC(tile, y, x) = c
  BY ColourCode
<1>2. VNGPixel(tile, g, raw.w, bits, y, x, c) = g[i]
  <2> DEFINE G == Gradients(tile, g, raw.w, y, x)
             T == Threshold(G)
  <2>1. VNGPixel(tile, g, raw.w, bits, y, x, c) = VNGMean(tile, g, raw.w, bits, y, x, c, G, T)
    BY DEF VNGPixel
  <2> HIDE DEF G, T
  <2>2. 3 * ((y + 0) * raw.w + x + 0) + c = i
    BY <1>1 DEF Offset
  <2>3. \/ VNGMean(tile, g, raw.w, bits, y, x, c, G, T) = g[3 * ((y + 0) * raw.w + x + 0) + c]
        \/ VNGMean(tile, g, raw.w, bits, y, x, c, G, T)
             = Clip(g[3 * ((y + 0) * raw.w + x + 0) + c], bits)
    BY <1>1, Zenon DEF VNGMean
  <2>4. Clip(g[i], bits) = g[i]
    BY ClipKeeps
  <2> QED BY <2>1, <2>2, <2>3, <2>4
<1>3. i \in P
  <2>1. y \in 2 .. raw.h - 3 /\ x \in 2 .. raw.w - 3
    OBVIOUS
  <2> QED BY <1>1, <2>1, PlaceIn
<1>4. Row(raw.w, i) = y /\ Column(raw.w, i) = x
  <2> HIDE DEF f, P
  <2> QED BY <1>1, PlaceOffset
<1>5. i % 3 = c
  BY <1>1, ComponentOf
<1> HIDE DEF P
<1>6. i \in DOMAIN f /\ f[i] = g[i]
  <2>1. i \in DOMAIN f
           /\ f[i] = VNGPixel(tile, g, raw.w, bits, Row(raw.w, i), Column(raw.w, i), i % 3)
    BY <1>3, Zenon
  <2> HIDE DEF f
  <2> QED BY <1>2, <1>4, <1>5, <2>1
<1>7. VNGRows(raw, tile, bits, g) = Over(f, Z)
  BY Zenon DEF VNGRows, P
<1> HIDE DEF f, Z
<1>8. Over(f, Z)[i] = f[i]
  BY <1>6, OverFirst
<1>9. i \in DOMAIN Over(f, Z)
  BY <1>6 DEF Over
<1> QED BY <1>6, <1>7, <1>8, <1>9

\* The offset of a sample.
Pixel(w, y, x) == y * w + x

\* A decoder's values have a sample in its place.
KeepsAt(raw, tile, s, y, x) ==
    /\ Offset(raw.w, y, x, Colour(tile, y, x)) \in DOMAIN s
    /\ s[Offset(raw.w, y, x, Colour(tile, y, x))] = At(raw, y, x)

LEMMA VNGKeeps ==
    ASSUME NEW raw, raw.w \in Nat, raw.h \in Nat, NEW tile \in Tiles, NEW bits \in Nat, NEW old,
           NEW y \in 3 .. raw.h - 4, NEW x \in 3 .. raw.w - 4,
           Fits(At(raw, y, x), bits)
    PROVE  /\ KeepsAt(raw, tile, VNG_uint16(raw, tile, bits, old), y, x)
           /\ bits = 8 => KeepsAt(raw, tile, VNG(raw, tile, old), y, x)
<1> DEFINE c == Colour(tile, y, x)  i == Offset(raw.w, y, x, c)
           A == Bilinear(raw, tile)  B == Bilinear_uint16(raw, tile, bits)
<1>1. y \in 1 .. raw.h - 2 /\ x \in 1 .. raw.w - 2
  OBVIOUS
<1>2. i \in DOMAIN A /\ A[i] = At(raw, y, x) /\ i \in DOMAIN B /\ B[i] = At(raw, y, x)
  BY <1>1, BilinearKeeps
<1>3. VNG(raw, tile, old) = Over(VNGRows(raw, tile, 8, Over(A, old)), A)
  BY DEF VNG
<1>4. VNG_uint16(raw, tile, bits, old) = Over(VNGRows(raw, tile, bits, Over(B, old)), B)
  BY DEF VNG_uint16
<1> HIDE DEF A, B, i, c
<1>5. ASSUME NEW g, i \in DOMAIN g, g[i] = At(raw, y, x)
      PROVE  /\ i \in DOMAIN Over(VNGRows(raw, tile, bits, Over(g, old)), g)
             /\ Over(VNGRows(raw, tile, bits, Over(g, old)), g)[i] = At(raw, y, x)
  <2> DEFINE r == VNGRows(raw, tile, bits, Over(g, old))
  <2>1. Over(g, old)[i] = At(raw, y, x)
    BY <1>5, OverFirst
  <2>2. i \in DOMAIN r /\ r[i] = At(raw, y, x)
    BY <2>1, VNGRowsKeep DEF i, c
  <2> HIDE DEF r
  <2>3. Over(r, g)[i] = r[i]
    BY <2>2, OverFirst
  <2>4. i \in DOMAIN Over(r, g)
    BY <2>2 DEF Over
  <2> QED BY <2>2, <2>3, <2>4 DEF r
<1>6. /\ i \in DOMAIN Over(VNGRows(raw, tile, bits, Over(A, old)), A)
      /\ Over(VNGRows(raw, tile, bits, Over(A, old)), A)[i] = At(raw, y, x)
      /\ i \in DOMAIN Over(VNGRows(raw, tile, bits, Over(B, old)), B)
      /\ Over(VNGRows(raw, tile, bits, Over(B, old)), B)[i] = At(raw, y, x)
  BY <1>2, <1>5
<1> QED BY <1>3, <1>4, <1>6 DEF KeepsAt, i, c

LEMMA OffsetPixel ==
    ASSUME NEW w \in Nat, NEW y \in Nat, NEW x \in Nat, NEW c \in 0 .. 2
    PROVE  Offset(w, y, x, c) \div 3 = y * w + x
<1> DEFINE p == y * w + x
<1>1. p \in Nat /\ Offset(w, y, x, c) = 3 * p + c
  BY DEF Offset
<1> HIDE DEF p
<1>2. (3 * p + c) \div 3 = p
  BY <1>1
<1> QED BY <1>1, <1>2 DEF p

\* The sample itself, for either direction, and so for their mean.
LEMMA AHDCombineKeeps ==
    ASSUME NEW raw, raw.w \in Nat, raw.h \in Nat, NEW tile \in Tiles, NEW bits \in Nat,
           NEW win \in 0 .. 2,
           NEW y \in 0 .. raw.h - 1, NEW x \in 0 .. raw.w - 1,
           Fits(At(raw, y, x), bits)
    PROVE  AHDCombine(raw, tile, win, y, x, FC(tile, y, x), bits) = At(raw, y, x)
<1> DEFINE c == FC(tile, y, x)
           v == [d \in 0 .. 1 |->
                    AHDColour(raw, tile, TopOf(y, raw.h), TopOf(x, raw.w), d, y, x, c, bits)]
           s == At(raw, y, x)
<1>1. ASSUME NEW top, NEW left, NEW d
      PROVE  AHDColour(raw, tile, top, left, d, y, x, c, bits) = s
  <2>1. AHDColour(raw, tile, top, left, d, y, x, c, bits) = At(raw, y + 0, x + 0)
    BY Zenon DEF AHDColour
  <2>2. y + 0 = y /\ x + 0 = x
    OBVIOUS
  <2> QED BY <2>1, <2>2
<1>2. v[0] = s /\ v[1] = s
  <2> HIDE DEF s
  <2> QED BY <1>1
<1>3. AHDCombine(raw, tile, win, y, x, c, bits)
        = Clip(IF win = 2 THEN (v[0] + v[1]) \div 2 ELSE v[win], bits)
  BY Zenon DEF AHDCombine
<1> HIDE DEF v, s
<1>4. (IF win = 2 THEN (v[0] + v[1]) \div 2 ELSE v[win]) = s
  <2>1. s \in Nat /\ (win = 0 \/ win = 1 \/ win = 2)
    BY DEF s, Fits
  <2> QED BY <1>2, <2>1
<1>5. Clip(s, bits) = s
  BY ClipKeeps DEF s
<1> QED BY <1>3, <1>4, <1>5 DEF s

LEMMA AHDKeeps ==
    ASSUME NEW raw, raw.w \in Nat, raw.h \in Nat, NEW tile \in Tiles, NEW bits \in Nat,
           NEW win \in 0 .. 2,
           NEW y \in 0 .. raw.h - 1, NEW x \in 0 .. raw.w - 1, NEW c, c = Colour(tile, y, x),
           NEW i, i = Offset(raw.w, y, x, c), Fits(At(raw, y, x), bits)
    PROVE  i \in DOMAIN AHDRows(raw, tile, win, bits) /\ AHDRows(raw, tile, win, bits)[i] = At(raw, y, x)
<1> DEFINE inner(size) == {n \in 3 .. size - 4 : \E top \in Tops(size) : InTile(top, n)}
           all(size)   == 0 .. size - 1
           outer(size) == all(size) \ (3 .. size - 4)
           samples == {j \in Places(raw.w, all(raw.h), all(raw.w)) :
                          j % 3 = FC(tile, Row(raw.w, j), Column(raw.w, j))}
           I == Places(raw.w, inner(raw.h), inner(raw.w))
           O == Places(raw.w, outer(raw.h), all(raw.w)) \cup Places(raw.w, all(raw.h), outer(raw.w))
           f == [j \in I |-> AHDCombine(raw, tile, win, Row(raw.w, j), Column(raw.w, j), j % 3, bits)]
           g == [j \in O |-> AHDBorder(raw, tile, Row(raw.w, j), Column(raw.w, j), j % 3)]
           k == [j \in samples |-> raw.s[j \div 3]]
<1>1. AHDRows(raw, tile, win, bits) = Over(f, Over(g, k))
  BY Zenon DEF AHDRows
<1>2. c \in 0 .. 2 /\ y \in Nat /\ x \in Nat /\ c = FC(tile, y, x)
  BY ColourCode
<1>3. Row(raw.w, i) = y /\ Column(raw.w, i) = x
  <2> HIDE DEF f, g, k, I, O, samples
  <2> QED BY <1>2, PlaceOffset
<1>4. i % 3 = c
  <2> HIDE DEF f, g, k, I, O, samples
  <2> QED BY <1>2, ComponentOf
<1>5. raw.s[i \div 3] = At(raw, y, x)
  <2> HIDE DEF f, g, k, I, O, samples
  <2> QED BY <1>2, OffsetPixel DEF At
<1>6. i \in samples
  <2>1. i \in Places(raw.w, all(raw.h), all(raw.w))
    BY <1>2, PlaceIn
  <2> QED BY <1>2, <1>3, <1>4, <2>1, Zenon
<1>7. AHDCombine(raw, tile, win, y, x, c, bits) = At(raw, y, x)
  <2> HIDE DEF f, g, k, I, O, samples
  <2>1. AHDCombine(raw, tile, win, y, x, FC(tile, y, x), bits) = At(raw, y, x)
    BY AHDCombineKeeps
  <2> QED BY <1>2, <2>1, Zenon
<1>8. AHDBorder(raw, tile, y, x, c) = At(raw, y, x)
  BY <1>2, Zenon DEF AHDBorder
<1> HIDE DEF samples, I, O
<1>9. DOMAIN f = I /\ DOMAIN g = O /\ DOMAIN k = samples
  BY Zenon
<1>10. i \in I => f[i] = AHDCombine(raw, tile, win, Row(raw.w, i), Column(raw.w, i), i % 3, bits)
  BY Zenon
<1>11. i \in O => g[i] = AHDBorder(raw, tile, Row(raw.w, i), Column(raw.w, i), i % 3)
  BY Zenon
<1>12. k[i] = raw.s[i \div 3]
  BY <1>6, Zenon
<1> HIDE DEF f, g, k
<1>13. i \in DOMAIN Over(g, k) /\ Over(g, k)[i] = At(raw, y, x)
  BY <1>3, <1>4, <1>5, <1>6, <1>8, <1>9, <1>11, <1>12, Zenon DEF Over
<1>14. i \in DOMAIN Over(f, Over(g, k)) /\ Over(f, Over(g, k))[i] = At(raw, y, x)
  <2> DEFINE h == Over(g, k)
  <2> HIDE DEF h
  <2> QED BY <1>3, <1>4, <1>7, <1>9, <1>10, <1>13, Zenon DEF Over, h
<1> QED BY <1>1, <1>14, Zenon

-----------------------------------------------------------------------------
(* Samples through a call.                                                 *)

Keeping == {"BILINEAR", "HQLINEAR", "VNG", "AHD"}

LEMMA DecodersKeep ==
    ASSUME NEW raw, raw.w \in Nat, raw.h \in Nat, NEW tile \in Tiles, NEW bits \in Nat,
           NEW win \in 0 .. 2, NEW old, NEW method \in Keeping,
           NEW y \in Edge(method) .. raw.h - 1 - Edge(method),
           NEW x \in Edge(method) .. raw.w - 1 - Edge(method),
           Fits(At(raw, y, x), bits)
    PROVE  /\ method = "BILINEAR" => /\ KeepsAt(raw, tile, Bilinear(raw, tile), y, x)
                                     /\ KeepsAt(raw, tile, Bilinear_uint16(raw, tile, bits), y, x)
           /\ method = "HQLINEAR" => /\ KeepsAt(raw, tile, HQLinear(raw, tile), y, x)
                                     /\ KeepsAt(raw, tile, HQLinear_uint16(raw, tile, bits), y, x)
           /\ method = "VNG" => /\ bits = 8 => KeepsAt(raw, tile, VNG(raw, tile, old), y, x)
                                /\ KeepsAt(raw, tile, VNG_uint16(raw, tile, bits, old), y, x)
           /\ method = "AHD" => KeepsAt(raw, tile, AHDRows(raw, tile, win, bits), y, x)
<1>1. CASE method = "BILINEAR"
  <2>1. y \in 1 .. raw.h - 2 /\ x \in 1 .. raw.w - 2
    BY <1>1 DEF Edge
  <2> QED BY <1>1, <2>1, BilinearKeeps DEF KeepsAt
<1>2. CASE method = "HQLINEAR"
  <2>1. y \in 2 .. raw.h - 3 /\ x \in 2 .. raw.w - 3
    BY <1>2 DEF Edge
  <2> QED BY <1>2, <2>1, HQLinearKeeps DEF KeepsAt
<1>3. CASE method = "VNG"
  <2>1. y \in 3 .. raw.h - 4 /\ x \in 3 .. raw.w - 4
    BY <1>3 DEF Edge
  <2> QED BY <1>3, <2>1, VNGKeeps
<1>4. CASE method = "AHD"
  <2>1. y \in 0 .. raw.h - 1 /\ x \in 0 .. raw.w - 1
    BY <1>4 DEF Edge
  <2> QED BY <1>4, <2>1, AHDKeeps DEF KeepsAt
<1> QED BY <1>1, <1>2, <1>3, <1>4 DEF Keeping

LEMMA Decoding8 ==
    ASSUME NEW in, in.size[1] \in Nat, in.size[2] \in Nat, in.filter \in Tiles,
           NEW out, NEW win \in 0 .. 2, NEW method \in Keeping,
           NEW d \in bayer_decoding_8bit(in, out, method, win),
           NEW y \in Edge(method) .. in.size[2] - 1 - Edge(method),
           NEW x \in Edge(method) .. in.size[1] - 1 - Edge(method),
           Fits(in.image[Pixel(in.size[1], y, x)], 8)
    PROVE  /\ Offset(in.size[1], y, x, Colour(in.filter, y, x)) \in DOMAIN d
           /\ d[Offset(in.size[1], y, x, Colour(in.filter, y, x))] = in.image[Pixel(in.size[1], y, x)]
<1> DEFINE raw == [w |-> in.size[1], h |-> in.size[2], s |-> in.image]
           t == in.filter
<1>1. raw.w = in.size[1] /\ raw.h = in.size[2] /\ raw.s = in.image
  OBVIOUS
<1>2. /\ method = "BILINEAR" => d = Bilinear(raw, t)
      /\ method = "HQLINEAR" => d = HQLinear(raw, t)
      /\ method = "VNG" => d = VNG(raw, t, out.image)
      /\ method = "AHD" => d = AHDRows(raw, t, win, 8)
  <2>1. AHD(raw, t, win) = AHDRows(raw, t, win, 8)
    BY Zenon DEF AHD
  <2>2. \A S : d \in {S} => d = S
    OBVIOUS
  <2>3. method = "BILINEAR" => d \in {Bilinear(raw, t)}
    BY DEF bayer_decoding_8bit
  <2>4. method = "HQLINEAR" => d \in {HQLinear(raw, t)}
    BY DEF bayer_decoding_8bit
  <2>5. method = "VNG" => d \in {VNG(raw, t, out.image)}
    BY DEF bayer_decoding_8bit
  <2>6. method = "AHD" => d \in {AHD(raw, t, win)}
    BY DEF bayer_decoding_8bit
  <2> HIDE DEF raw, t
  <2> QED BY <2>1, <2>3, <2>4, <2>5, <2>6
<1> HIDE DEF raw
<1>3. At(raw, y, x) = in.image[Pixel(in.size[1], y, x)]
  BY <1>1 DEF At, Pixel
<1>4. KeepsAt(raw, t, d, y, x)
  <2>1. Fits(At(raw, y, x), 8)
    BY <1>3
  <2>2. raw.w \in Nat /\ raw.h \in Nat /\ t \in Tiles
    BY <1>1
  <2>3. y \in Edge(method) .. raw.h - 1 - Edge(method) /\ x \in Edge(method) .. raw.w - 1 - Edge(method)
    BY <1>1
  <2> HIDE DEF t
  <2>4. /\ method = "BILINEAR" => KeepsAt(raw, t, Bilinear(raw, t), y, x)
        /\ method = "HQLINEAR" => KeepsAt(raw, t, HQLinear(raw, t), y, x)
        /\ method = "VNG" => KeepsAt(raw, t, VNG(raw, t, out.image), y, x)
        /\ method = "AHD" => KeepsAt(raw, t, AHDRows(raw, t, win, 8), y, x)
    BY <2>1, <2>2, <2>3, DecodersKeep
  <2> QED BY <1>2, <2>4 DEF Keeping
<1> QED BY <1>1, <1>3, <1>4 DEF KeepsAt

LEMMA Decoding16 ==
    ASSUME NEW in, in.size[1] \in Nat, in.size[2] \in Nat, in.filter \in Tiles,
           NEW out, NEW win \in 0 .. 2, NEW bits \in Nat, NEW method \in Keeping,
           NEW d \in bayer_decoding_16bit(in, out, method, bits, win),
           NEW y \in Edge(method) .. in.size[2] - 1 - Edge(method),
           NEW x \in Edge(method) .. in.size[1] - 1 - Edge(method),
           Fits(Host(in.image, Pixel(in.size[1], y, x)), bits)
    PROVE  /\ Offset(in.size[1], y, x, Colour(in.filter, y, x)) \in DOMAIN d
           /\ d[Offset(in.size[1], y, x, Colour(in.filter, y, x))] = Host(in.image, Pixel(in.size[1], y, x))
<1> DEFINE raw == [w |-> in.size[1], h |-> in.size[2],
                   s |-> [k \in 0 .. in.size[1] * in.size[2] - 1 |-> Host(in.image, k)]]
           old == [k \in 0 .. (out.allocated \div 2) - 1 |-> Host(out.image, k)]
           t == in.filter
<1>1. /\ raw.w = in.size[1] /\ raw.h = in.size[2]
      /\ raw.s = [k \in 0 .. in.size[1] * in.size[2] - 1 |-> Host(in.image, k)]
  OBVIOUS
<1>2. /\ method = "BILINEAR" => d = Bilinear_uint16(raw, t, bits)
      /\ method = "HQLINEAR" => d = HQLinear_uint16(raw, t, bits)
      /\ method = "VNG" => d = VNG_uint16(raw, t, bits, old)
      /\ method = "AHD" => d = AHDRows(raw, t, win, bits)
  <2>1. AHD_uint16(raw, t, bits, win) = AHDRows(raw, t, win, bits)
    BY Zenon DEF AHD_uint16
  <2>3. method = "BILINEAR" => d \in {Bilinear_uint16(raw, t, bits)}
    BY DEF bayer_decoding_16bit
  <2>4. method = "HQLINEAR" => d \in {HQLinear_uint16(raw, t, bits)}
    BY DEF bayer_decoding_16bit
  <2>5. method = "VNG" => d \in {VNG_uint16(raw, t, bits, old)}
    BY DEF bayer_decoding_16bit
  <2>6. method = "AHD" => d \in {AHD_uint16(raw, t, bits, win)}
    BY DEF bayer_decoding_16bit
  <2> HIDE DEF raw, t, old
  <2> QED BY <2>1, <2>3, <2>4, <2>5, <2>6
<1> HIDE DEF raw, old
<1>3. At(raw, y, x) = Host(in.image, Pixel(in.size[1], y, x))
  <2>1. y \in 0 .. in.size[2] - 1 /\ x \in 0 .. in.size[1] - 1
    <3>1. Edge(method) \in Nat
      BY DEF Edge, Keeping
    <3> QED BY <3>1
  <2>2. (y + 1) * in.size[1] <= in.size[2] * in.size[1]
    BY <2>1, Monotone
  <2>3. y * in.size[1] + x \in 0 .. in.size[1] * in.size[2] - 1
    BY <2>1, <2>2
  <2> DEFINE k == Pixel(in.size[1], y, x)
  <2>4. At(raw, y, x) = raw.s[k]
    BY <1>1 DEF At, Pixel
  <2> HIDE DEF k
  <2>5. raw.s[k] = Host(in.image, k)
    BY <1>1, <2>3 DEF k, Pixel
  <2> QED BY <2>4, <2>5 DEF k
<1>4. KeepsAt(raw, t, d, y, x)
  <2>1. Fits(At(raw, y, x), bits)
    BY <1>3
  <2>2. raw.w \in Nat /\ raw.h \in Nat /\ t \in Tiles
    BY <1>1
  <2>3. y \in Edge(method) .. raw.h - 1 - Edge(method) /\ x \in Edge(method) .. raw.w - 1 - Edge(method)
    BY <1>1
  <2> HIDE DEF t
  <2>4. /\ method = "BILINEAR" => KeepsAt(raw, t, Bilinear_uint16(raw, t, bits), y, x)
        /\ method = "HQLINEAR" => KeepsAt(raw, t, HQLinear_uint16(raw, t, bits), y, x)
        /\ method = "VNG" => KeepsAt(raw, t, VNG_uint16(raw, t, bits, old), y, x)
        /\ method = "AHD" => KeepsAt(raw, t, AHDRows(raw, t, win, bits), y, x)
    BY <2>1, <2>2, <2>3, DecodersKeep
  <2> QED BY <1>2, <2>4 DEF Keeping
<1> QED BY <1>1, <1>3, <1>4 DEF KeepsAt

LEMMA HostBytesBack ==
    ASSUME hostBig \in BOOLEAN, NEW s, NEW i \in Nat, i \in DOMAIN s, s[i] \in Nat
    PROVE  /\ 2 * i \in DOMAIN HostBytes(s) /\ 2 * i + 1 \in DOMAIN HostBytes(s)
           /\ Host(HostBytes(s), i) = s[i]
<1> DEFINE D == {2 * k : k \in DOMAIN s} \cup {2 * k + 1 : k \in DOMAIN s}
           high == s[i] \div 256  low == s[i] % 256
           B == HostBytes(s)
<1>1. 2 * i \in D /\ 2 * i + 1 \in D
  OBVIOUS
<1>2. B = [j \in D |-> IF (j % 2 = 0) = hostBig THEN s[j \div 2] \div 256 ELSE s[j \div 2] % 256]
  BY Zenon DEF HostBytes
<1>3. /\ (2 * i) % 2 = 0 /\ (2 * i + 1) % 2 = 1
      /\ (2 * i) \div 2 = i /\ (2 * i + 1) \div 2 = i
  OBVIOUS
<1>4. s[i] = 256 * high + low
  OBVIOUS
<1>5. DOMAIN B = D
  BY <1>2, Zenon
<1> HIDE DEF D, high, low
<1>6. B[2 * i] = IF ((2 * i) % 2 = 0) = hostBig THEN s[(2 * i) \div 2] \div 256
                                              ELSE s[(2 * i) \div 2] % 256
  BY <1>1, <1>2, ZenonT(40)
<1>7. B[2 * i + 1] = IF ((2 * i + 1) % 2 = 0) = hostBig THEN s[(2 * i + 1) \div 2] \div 256
                                                      ELSE s[(2 * i + 1) \div 2] % 256
  BY <1>1, <1>2, ZenonT(40)
<1> HIDE DEF B
<1>8. CASE hostBig
  <2>1. B[2 * i] = high /\ B[2 * i + 1] = low
    <3>1. /\ ((2 * i) % 2 = 0) = hostBig
          /\ ~(((2 * i + 1) % 2 = 0) = hostBig)
      <4>1. (2 * i) % 2 = 0 /\ ~((2 * i + 1) % 2 = 0)
        BY <1>3
      <4> QED BY <1>8, <4>1, Zenon
    <3>2. B[2 * i] = s[(2 * i) \div 2] \div 256 /\ B[2 * i + 1] = s[(2 * i + 1) \div 2] % 256
      BY <1>6, <1>7, <3>1, Zenon
    <3> QED BY <1>3, <3>2, Zenon DEF high, low
  <2>2. Host(B, i) = 256 * B[2 * i] + B[2 * i + 1]
    BY <1>8 DEF Host
  <2> QED BY <1>1, <1>4, <1>5, <2>1, <2>2 DEF B
<1>9. CASE ~hostBig
  <2>1. B[2 * i] = low /\ B[2 * i + 1] = high
    BY <1>3, <1>6, <1>7, <1>9 DEF high, low
  <2>2. Host(B, i) = 256 * B[2 * i + 1] + B[2 * i]
    BY <1>9 DEF Host
  <2> QED BY <1>1, <1>4, <1>5, <2>1, <2>2 DEF B
<1> QED BY <1>8, <1>9

\* The sample of each pixel inside the edge the method leaves.
LEMMA DebayerKeeps ==
    ASSUME hostBig \in BOOLEAN, NEW in, MemoryOK(in), Described(in), Readable(in),
           in.size[1] > 4, in.size[2] > 3,
           NEW out, DOMAIN out = Fields, MemoryOK(out),
           NEW method \in Keeping, NEW fill, NEW work, NEW win \in 0 .. 2,
           NEW o \in Debayered(in, out, method, fill, work, win), o.err = "SUCCESS",
           NEW y \in Edge(method) .. in.size[2] - 1 - Edge(method),
           NEW x \in Edge(method) .. in.size[1] - 1 - Edge(method)
    PROVE  Component(o.out, y, x, ColourAt(in, y, x)) = RawSample(in, y, x)
<1> DEFINE a == Adapt_buffer_bayer(in, out, method, fill)
           wide == in.coding \in {"RAW16", "MONO16"}
           D8 == bayer_decoding_8bit(in, a, method, win)
           D16 == bayer_decoding_16bit(in, a, method, in.depth, win)
           w == in.size[1]
           k == Pixel(w, y, x)
           c == Colour(in.filter, y, x)
           i == Offset(w, y, x, c)
<1>1. /\ in.size[1] \in Nat /\ in.size[2] \in Nat /\ in.depth \in Nat
      /\ y \in 0 .. in.size[2] - 1 /\ x \in 0 .. in.size[1] - 1
  <2>1. in.size[1] \in Nat /\ in.size[2] \in Nat /\ in.depth \in Nat
    BY DEF Described
  <2>2. Edge(method) \in Nat
    BY DEF Edge, Keeping
  <2> QED BY <2>1, <2>2
<1>2. DecodedSize(in.size, method) = in.size
  BY DEF DecodedSize, Keeping
<1>3. DOMAIN a = Fields /\ a.size = in.size /\ a.coding = (IF wide THEN "RGB16" ELSE "RGB8")
  <2>1. DOMAIN a = Fields /\ a.size = DecodedSize(in.size, method)
    BY BayerAdapted
  <2>2. a.coding = (IF wide THEN "RGB16" ELSE "RGB8")
    BY BayerAdapted
  <2> HIDE DEF a, wide
  <2> QED BY <1>2, <2>1, <2>2
<1>4. PICK b \in IF wide THEN {HostBytes(s) : s \in D16} ELSE D8 :
         /\ o = Stored8(a, b) /\ DOMAIN b \subseteq DOMAIN a.image
         /\ in.filter \in Tiles /\ (wide \/ in.coding \in {"RAW8", "MONO8"})
  BY DebayerStored
<1> HIDE DEF a, D8, D16
<1>6. /\ o.out.size = in.size /\ o.out.coding = a.coding
      /\ \A j \in DOMAIN b : o.out.image[j] = b[j]
  <2>1. /\ o.out.size = a.size /\ o.out.coding = a.coding
        /\ o.out.image = [j \in DOMAIN a.image |-> IF j \in DOMAIN b THEN b[j] ELSE a.image[j]]
    BY <1>3, <1>4, Stored8Fields
  <2> QED BY <1>3, <1>4, <2>1
<1>7. c \in 0 .. 2 /\ ColourAt(in, y, x) = c /\ k \in Nat /\ i \in Nat /\ 3 * k + c = i
  <2>1. y \in Nat /\ x \in Nat
    BY <1>1
  <2>2. c \in 0 .. 2
    BY <1>4, <2>1, ColourCode
  <2>3. ColourAt(in, y, x) = c
    BY DEF ColourAt, Colour
  <2>4. k \in Nat
    BY <1>1 DEF Pixel
  <2> HIDE DEF c
  <2>5. 3 * k + c = i
    BY DEF Offset, Pixel
  <2> HIDE DEF k
  <2>6. i \in Nat
    BY <2>2, <2>4, <2>5
  <2> QED BY <2>2, <2>3, <2>4, <2>5, <2>6
<1>8. RawSample(in, y, x) < 2 ^ in.depth
  BY <1>1 DEF Readable, Rows, Columns
<1>9. k \in 0 .. in.size[1] * in.size[2] - 1
  <2>1. (y + 1) * w <= in.size[2] * w
    BY <1>1, Monotone
  <2> QED BY <1>1, <2>1 DEF Pixel
<1>10. \A j \in DOMAIN in.image : in.image[j] \in 0 .. 255
  BY DEF Described
<1>11. /\ DOMAIN in.image = 0 .. in.allocated - 1 /\ in.allocated \in Nat
       /\ in.image_bytes <= in.allocated /\ in.image_bytes \in Nat
       /\ in.image_bytes = (in.size[1] * in.size[2] * BitSize(in.coding)) \div 8
  <2>1. /\ DOMAIN in.image = 0 .. in.allocated - 1 /\ in.allocated \in Nat /\ in.padding \in Nat
        /\ in.image_bytes + in.padding <= in.allocated
        /\ in.image_bytes = (in.size[1] * in.size[2] * BitSize(in.coding)) \div 8
    BY Zenon DEF Described
  <2>2. in.image_bytes \in Nat
    BY DEF MemoryOK
  <2> QED BY <2>1, <2>2
<1>12. /\ DOMAIN in.image = 0 .. in.allocated - 1 /\ in.allocated \in Nat
       /\ in.image_bytes <= in.allocated /\ in.image_bytes \in Nat
  BY <1>11
<1>13. CASE wide
  <2> DEFINE S == Host(in.image, k)
  <2>1. Wide(in) /\ Wide(o.out)
    BY <1>3, <1>6, <1>13 DEF Wide
  <2>2. RawSample(in, y, x) = S
    BY <2>1 DEF RawSample, Pixel
  <2>3. Component(o.out, y, x, c) = Host(o.out.image, i)
    BY <1>6, <2>1 DEF Component, Offset
  <2>4. S \in Nat
    <3>1. in.image_bytes = 2 * (in.size[1] * in.size[2])
      <4>1. BitSize(in.coding) = 16
        BY <1>13 DEF BitSize
      <4>2. in.size \in Nat \X Nat
        BY DEF MemoryOK
      <4> QED BY <1>11, <4>1, <4>2, ImageBytes
    <3> DEFINE q == in.size[1] * in.size[2]
    <3>2. k \in 0 .. q - 1 /\ in.image_bytes = 2 * q /\ q \in Nat
      BY <1>1, <1>9, <3>1
    <3> HIDE DEF q, k
    <3>3. 2 * k \in DOMAIN in.image /\ 2 * k + 1 \in DOMAIN in.image
      BY <1>7, <1>12, <3>2
    <3>4. in.image[2 * k] \in 0 .. 255 /\ in.image[2 * k + 1] \in 0 .. 255
      BY <1>10, <3>3
    <3> DEFINE m == in.image[2 * k]  n == in.image[2 * k + 1]
    <3>5. S = 256 * m + n \/ S = 256 * n + m
      BY DEF Host
    <3>6. m \in 0 .. 255 /\ n \in 0 .. 255
      BY <3>4
    <3> HIDE DEF m, n, S
    <3>7. 256 * m + n \in Nat /\ 256 * n + m \in Nat
      BY <3>6
    <3> QED BY <3>5, <3>7, Zenon
  <2>5. Fits(S, in.depth)
    BY <1>8, <2>2, <2>4 DEF Fits
  <2>6. PICK s \in D16 : b = HostBytes(s)
    BY <1>4, <1>13
  <2>7. i \in DOMAIN s /\ s[i] = S
    <3>1. PICK bits \in Nat : bits = in.depth
      BY <1>1
    <3>2. s \in bayer_decoding_16bit(in, a, method, bits, win) /\ Fits(S, bits)
      BY <2>5, <3>1 DEF D16
    <3>3. in.filter \in Tiles /\ in.size[1] \in Nat /\ in.size[2] \in Nat
      BY <1>1, <1>4
    <3> QED BY <3>2, <3>3, Decoding16
  <2> HIDE DEF S, i, c, k
  <2>8. 2 * i \in DOMAIN b /\ 2 * i + 1 \in DOMAIN b /\ Host(b, i) = S
    BY <1>7, <2>4, <2>6, <2>7, HostBytesBack
  <2>9. Host(o.out.image, i) = Host(b, i)
    BY <1>6, <2>8 DEF Host
  <2> QED BY <1>7, <2>2, <2>3, <2>8, <2>9
<1>14. CASE ~wide
  <2> DEFINE S == in.image[k]
  <2>1. ~Wide(in) /\ ~Wide(o.out)
    BY <1>3, <1>4, <1>6, <1>14 DEF Wide
  <2>2. RawSample(in, y, x) = S
    BY <2>1 DEF RawSample, Pixel
  <2>3. Component(o.out, y, x, c) = o.out.image[i]
    BY <1>6, <2>1 DEF Component, Offset
  <2>4. S \in 0 .. 255
    <3>1. in.image_bytes = in.size[1] * in.size[2]
      <4>1. BitSize(in.coding) = 8
        BY <1>4, <1>14 DEF BitSize
      <4>2. in.size \in Nat \X Nat
        BY DEF MemoryOK
      <4> QED BY <1>11, <4>1, <4>2, ImageBytes
    <3>2. k \in DOMAIN in.image
      <4> DEFINE q == in.size[1] * in.size[2]
      <4>1. k \in 0 .. q - 1 /\ in.image_bytes = q /\ q \in Nat
        BY <1>1, <1>9, <3>1
      <4> HIDE DEF q, k
      <4> QED BY <1>12, <4>1
    <3> HIDE DEF k
    <3> QED BY <1>10, <3>2
  <2>5. Fits(S, 8)
    <3> HIDE DEF S
    <3> QED BY <2>4 DEF Fits
  <2>6. b \in D8
    BY <1>4, <1>14
  <2>7. i \in DOMAIN b /\ b[i] = S
    BY <1>1, <1>4, <2>5, <2>6, Decoding8, SMTT(30) DEF D8
  <2> HIDE DEF S, i, c, k
  <2> QED BY <1>6, <1>7, <2>2, <2>3, <2>7
<1> QED BY <1>13, <1>14

LEMMA DebayerKeepsSamples == Inv /\ hostBig \in BOOLEAN /\ Debayer => SamplesKept'
<1> SUFFICES ASSUME Inv, hostBig \in BOOLEAN, Debayer PROVE SamplesKept'
  OBVIOUS
<1>1. frame[1].size[1] > 4 /\ frame[1].size[2] > 3
  BY DEF Debayer
<1>2. PICK method \in Methods \cup {"none"}, fill \in Fills \cup {NoMemory}, work \in BOOLEAN :
        \E win \in IF frame[1].filter \in Tiles THEN 0 .. 2 ELSE {0} :
           \E outcome \in Debayered(frame[1], frame[2], method, fill, work, win) :
              Call(1, "debayer", method, outcome)
  BY Zenon DEF Debayer
<1>3. PICK win \in 0 .. 2 :
         \E outcome \in Debayered(frame[1], frame[2], method, fill, work, win) :
            Call(1, "debayer", method, outcome)
  <2>1. \A n \in IF frame[1].filter \in Tiles THEN 0 .. 2 ELSE {0} : n \in 0 .. 2
    OBVIOUS
  <2> QED BY <1>2, <2>1
<1>4. PICK o \in Debayered(frame[1], frame[2], method, fill, work, win) : Call(1, "debayer", method, o)
  BY <1>3
<1>5. /\ DOMAIN frame = 1 .. 3 /\ frame[1] \in Captured
      /\ MemoryOK(frame[1]) /\ MemoryOK(frame[2]) /\ DOMAIN frame[2] = Fields
  BY DEF Inv
<1>6. /\ frame'[1] = frame[1] /\ frame'[2] = o.out /\ hostBig' = hostBig
      /\ made'[2].op = "debayer" /\ made'[2].arg = method /\ made'[2].err = o.err
  <2>1. /\ frame' = [frame EXCEPT ![1 + 1] = o.out] /\ hostBig' = hostBig
        /\ made' = [j \in 2 .. 3 |-> IF j = 1 + 1 THEN [op |-> "debayer", arg |-> method, err |-> o.err]
                                    ELSE IF j > 1 THEN NotMade ELSE made[j]]
    BY <1>4 DEF Call
  <2> QED BY <1>5, <2>1
<1>7. Described(frame[1])
  BY <1>5, FramesAssumption
<1> SUFFICES ASSUME o.err = "SUCCESS", method \in Keeping, Readable(frame[1])',
                    NEW p \in Inside(frame[1], made[2].arg)'
             PROVE  (Component(frame[2], p[1], p[2], ColourAt(frame[1], p[1], p[2]))
                       = RawSample(frame[1], p[1], p[2]))'
  BY <1>6 DEF SamplesKept, Decoded, Made, Keeping
<1>8. Readable(frame[1])
  BY <1>6 DEF Readable, RawSample, Host, Wide, Rows, Columns
<1>9. /\ p[1] \in Edge(method) .. frame[1].size[2] - 1 - Edge(method)
      /\ p[2] \in Edge(method) .. frame[1].size[1] - 1 - Edge(method)
  BY <1>6 DEF Inside, Rows, Columns, Keeping
<1> DEFINE y == p[1]  x == p[2]
<1>10. Component(o.out, y, x, ColourAt(frame[1], y, x)) = RawSample(frame[1], y, x)
  <2> HIDE DEF y, x
  <2> QED BY <1>1, <1>4, <1>5, <1>7, <1>8, <1>9, DebayerKeeps DEF y, x
<1>11. (Component(frame[2], y, x, ColourAt(frame[1], y, x)))'
          = Component(o.out, y, x, ColourAt(frame[1], y, x))
  BY <1>6 DEF Component, ColourAt, Host, Wide
<1>12. RawSample(frame[1], y, x)' = RawSample(frame[1], y, x)
  BY <1>6 DEF RawSample, Host, Wide
<1> QED BY <1>10, <1>11, <1>12

\* The other calls leave a decoded picture and what it was made of alone, or it
\* is no longer there.
LEMMA OthersLeave ==
    ASSUME Inv, Convert(1) \/ Convert(2) \/ Deinterlace \/ Capture \/ UNCHANGED vars
    PROVE  \/ made'[2].op # "debayer"
           \/ /\ frame'[1] = frame[1] /\ frame'[2] = frame[2]
              /\ made'[2] = made[2] /\ hostBig' = hostBig
<1>1. CASE Convert(1) \/ Deinterlace \/ Capture
  <2>1. ASSUME NEW op, NEW arg, NEW o, Call(1, op, arg, o), op # "debayer" PROVE made'[2].op # "debayer"
    BY <2>1 DEF Call
  <2>2. CASE Convert(1)
    <3>1. \E arg, o : Call(1, "convert", arg, o)
      BY <2>2, Zenon DEF Convert
    <3> QED BY <2>1, <3>1
  <2>3. CASE Deinterlace
    <3>1. \E arg, o : Call(1, "stereo", arg, o)
      BY <2>3 DEF Deinterlace
    <3> QED BY <2>1, <3>1
  <2>4. CASE Capture
    BY <2>4 DEF Capture, NotMade
  <2> QED BY <1>1, <2>2, <2>3, <2>4
<1>2. CASE Convert(2)
  <2>1. PICK arg, o : Call(2, "convert", arg, o)
    BY <1>2, Zenon DEF Convert
  <2>2. DOMAIN frame = 1 .. 3
    BY DEF Inv
  <2> QED BY <2>1, <2>2 DEF Call
<1>3. CASE UNCHANGED vars
  BY <1>3 DEF vars
<1> QED BY <1>1, <1>2, <1>3

LEMMA OthersKeepSamples ==
    ASSUME Inv, SamplesKept, Convert(1) \/ Convert(2) \/ Deinterlace \/ Capture \/ UNCHANGED vars
    PROVE  SamplesKept'
<1>1. CASE made'[2].op # "debayer"
  BY <1>1 DEF SamplesKept, Decoded, Made
<1>2. CASE /\ frame'[1] = frame[1] /\ frame'[2] = frame[2]
           /\ made'[2] = made[2] /\ hostBig' = hostBig
  <2> SUFFICES ASSUME Decoded(Keeping)', NEW p \in Inside(frame[1], made[2].arg)'
               PROVE  (Component(frame[2], p[1], p[2], ColourAt(frame[1], p[1], p[2]))
                         = RawSample(frame[1], p[1], p[2]))'
    BY DEF SamplesKept, Keeping
  <2>1. Readable(frame[1])' = Readable(frame[1])
    BY <1>2 DEF Readable, RawSample, Host, Wide, Rows, Columns
  <2>2. Decoded(Keeping)
    BY <1>2, <2>1 DEF Decoded, Made
  <2>3. p \in Inside(frame[1], made[2].arg)
    BY <1>2 DEF Inside, Rows, Columns
  <2>4. Component(frame[2], p[1], p[2], ColourAt(frame[1], p[1], p[2])) = RawSample(frame[1], p[1], p[2])
    BY <2>2, <2>3 DEF SamplesKept, Keeping
  <2>5. (Component(frame[2], p[1], p[2], ColourAt(frame[1], p[1], p[2])))'
           = Component(frame[2], p[1], p[2], ColourAt(frame[1], p[1], p[2]))
    BY <1>2 DEF Component, ColourAt, Host, Wide
  <2>6. RawSample(frame[1], p[1], p[2])' = RawSample(frame[1], p[1], p[2])
    BY <1>2 DEF RawSample, Host, Wide
  <2> QED BY <2>4, <2>5, <2>6
<1> QED BY <1>1, <1>2, OthersLeave

\* BILINEAR, HQLINEAR, VNG and AHD keep each sample where it was.
THEOREM SamplesStay == Spec => []SamplesKept
<1> DEFINE J == Inv /\ hostBig \in BOOLEAN /\ SamplesKept
<1>1. Init => J
  <2> SUFFICES ASSUME Init PROVE J
    OBVIOUS
  <2>1. hostBig \in BOOLEAN
    BY DEF Init
  <2>2. made[2].op # "debayer"
    BY DEF Init, NotMade
  <2>3. SamplesKept
    BY <2>2 DEF SamplesKept, Decoded, Made
  <2> QED BY <2>1, <2>3, Starts
<1>2. J /\ [Next]_vars => J'
  <2> SUFFICES ASSUME J, [Next]_vars PROVE J'
    OBVIOUS
  <2>1. Inv'
    BY Keeps
  <2>2. hostBig' \in BOOLEAN
    <3>1. hostBig' = hostBig
      BY Zenon DEF Next, Debayer, Convert, Deinterlace, Capture, Call, vars
    <3> QED BY <3>1
  <2>3. SamplesKept'
    BY DebayerKeepsSamples, OthersKeepSamples DEF Next
  <2> QED BY <2>1, <2>2, <2>3
<1>3. J => SamplesKept
  OBVIOUS
<1> QED BY <1>1, <1>2, <1>3, PTL DEF Spec

-----------------------------------------------------------------------------
(* What the simple decoders mix.                                           *)

\* The samples of a colour around a pixel.
Near(raw, tile, y, x, c) ==
    {At(raw, q[1], q[2]) :
        q \in {q \in (y - 1 .. y + 1) \X (x - 1 .. x + 1) :
                  q[1] \in 0 .. raw.h - 1 /\ q[2] \in 0 .. raw.w - 1 /\ Colour(tile, q[1], q[2]) = c}}

\* No lower than some of them, and no higher than some.
Within(N, v) == (\E a \in N : a <= v) /\ (\E a \in N : a >= v)

AllFit(raw, bits) == \A y \in 0 .. raw.h - 1, x \in 0 .. raw.w - 1 : Fits(At(raw, y, x), bits)

LEMMA MeanOfTwo ==
    ASSUME NEW N \in SUBSET Nat, NEW s \in N, NEW t \in N, NEW k \in {0, 1}
    PROVE  Within(N, (s + t + k) \div 2)
<1> DEFINE v == (s + t + k) \div 2
<1>1. s \in Nat /\ t \in Nat
  OBVIOUS
<1>2. (s <= v \/ t <= v) /\ (s >= v \/ t >= v)
  BY <1>1
<1> HIDE DEF v
<1>3. Within(N, v)
  BY <1>2 DEF Within
<1> QED BY <1>3 DEF v

LEMMA MeanOfFour ==
    ASSUME NEW N \in SUBSET Nat, NEW s \in N, NEW t \in N, NEW u \in N, NEW r \in N
    PROVE  Within(N, (s + t + u + r + 2) \div 4)
<1> DEFINE v == (s + t + u + r + 2) \div 4
<1>1. s \in Nat /\ t \in Nat /\ u \in Nat /\ r \in Nat
  OBVIOUS
<1>2. s <= v \/ t <= v \/ u <= v \/ r <= v
  BY <1>1
<1>3. s >= v \/ t >= v \/ u >= v \/ r >= v
  BY <1>1
<1> HIDE DEF v
<1>4. Within(N, v)
  BY <1>2, <1>3 DEF Within
<1> QED BY <1>4 DEF v

LEMMA Itself ==
    ASSUME NEW N \in SUBSET Nat, NEW s \in N
    PROVE  Within(N, s)
<1>1. s \in Nat
  OBVIOUS
<1> QED BY <1>1 DEF Within

LEMMA NearNat ==
    ASSUME NEW raw, NEW bits, AllFit(raw, bits), NEW tile, NEW y, NEW x, NEW c
    PROVE  Near(raw, tile, y, x, c) \in SUBSET Nat
BY DEF Near, AllFit, Fits

LEMMA NearHas ==
    ASSUME NEW raw, NEW tile, NEW y \in Nat, NEW x \in Nat, NEW c,
           NEW b \in y - 1 .. y + 1, NEW a \in x - 1 .. x + 1,
           b \in 0 .. raw.h - 1, a \in 0 .. raw.w - 1, Colour(tile, b, a) = c
    PROVE  At(raw, b, a) \in Near(raw, tile, y, x, c)
<1> DEFINE q == <<b, a>>
<1>1. q \in (y - 1 .. y + 1) \X (x - 1 .. x + 1) /\ q[1] = b /\ q[2] = a
  OBVIOUS
<1> HIDE DEF q
<1>2. \E p \in {p \in (y - 1 .. y + 1) \X (x - 1 .. x + 1) :
                  p[1] \in 0 .. raw.h - 1 /\ p[2] \in 0 .. raw.w - 1 /\ Colour(tile, p[1], p[2]) = c} :
         At(raw, b, a) = At(raw, p[1], p[2])
  BY <1>1
<1> QED BY <1>2 DEF Near

\* The colours around a pixel, as OpenCV's decoders know them.
LEMMA ColoursAround ==
    ASSUME NEW tile \in Tiles, NEW y \in Nat, NEW x \in Nat,
           NEW b \in Nat, NEW a \in Nat,
           NEW dy \in {-1, 0, 1}, NEW dx \in {-1, 0, 1}, b = y + dy, a = x + dx
    PROVE  Colour(tile, b, a) =
             IF GreenStep(tile, y, x)
             THEN IF (dy = 0) = (dx = 0) THEN 1
                  ELSE IF dy = 0 THEN 1 - BlueAt(tile, y) ELSE 1 + BlueAt(tile, y)
             ELSE IF (dy = 0) # (dx = 0) THEN 1
                  ELSE IF dy = 0 THEN 1 - BlueAt(tile, y) ELSE 1 + BlueAt(tile, y)
<1>1. /\ GreenStep(tile, b, a) <=> Colour(tile, b, a) = 1
      /\ Colour(tile, b, a) # 1 => Colour(tile, b, a) = 1 - BlueAt(tile, b)
      /\ BlueAt(tile, y) \in {-1, 1}
  BY ColourStep
<1>2. /\ dy = 0 => b % 2 = y % 2
      /\ dy # 0 => b % 2 = 1 - (y % 2)
      /\ dx = 0 => a % 2 = x % 2
      /\ dx # 0 => a % 2 = 1 - (x % 2)
      /\ y % 2 \in {0, 1} /\ x % 2 \in {0, 1}
  OBVIOUS
<1>3. /\ dy = 0 => ((b % 2 = 0) <=> (y % 2 = 0))
      /\ dy # 0 => ((b % 2 = 0) <=> ~(y % 2 = 0))
      /\ dx = 0 => ((a % 2 = 0) <=> (x % 2 = 0))
      /\ dx # 0 => ((a % 2 = 0) <=> ~(x % 2 = 0))
  BY <1>2
<1>4. /\ dy = 0 => BlueAt(tile, b) = BlueAt(tile, y)
      /\ dy # 0 => BlueAt(tile, b) = -BlueAt(tile, y)
  BY <1>3 DEF BlueAt
<1>5. /\ (dy = 0) = (dx = 0) => (GreenStep(tile, b, a) <=> GreenStep(tile, y, x))
      /\ (dy = 0) # (dx = 0) => (GreenStep(tile, b, a) <=> ~GreenStep(tile, y, x))
  BY <1>3 DEF GreenStep
<1> QED BY <1>1, <1>4, <1>5


\* The colours of the four samples that NEAREST and SIMPLE look at.
LEMMA ColoursBelow ==
    ASSUME NEW tile \in Tiles, NEW y \in Nat, NEW x \in Nat
    PROVE  /\ BlueAt(tile, y) \in {-1, 1}
           /\ GreenStep(tile, y, x) =>
                 /\ Colour(tile, y, x) = 1 /\ Colour(tile, y + 1, x + 1) = 1
                 /\ Colour(tile, y, x + 1) = 1 - BlueAt(tile, y)
                 /\ Colour(tile, y + 1, x) = 1 + BlueAt(tile, y)
           /\ ~GreenStep(tile, y, x) =>
                 /\ Colour(tile, y, x + 1) = 1 /\ Colour(tile, y + 1, x) = 1
                 /\ Colour(tile, y, x) = 1 - BlueAt(tile, y)
                 /\ Colour(tile, y + 1, x + 1) = 1 + BlueAt(tile, y)
<1> DEFINE b == y + 1  a == x + 1  y0 == y  x0 == x
<1>1. b \in Nat /\ a \in Nat /\ b = y + 1 /\ a = x + 1 /\ y = y + 0 /\ x = x + 0
  OBVIOUS
<1> HIDE DEF a, b
<1>2. Colour(tile, y, x) =
             IF GreenStep(tile, y, x) THEN 1 ELSE 1 - BlueAt(tile, y)
  BY <1>1, ColoursAround
<1>3. Colour(tile, y, a) =
             IF GreenStep(tile, y, x) THEN 1 - BlueAt(tile, y) ELSE 1
  BY <1>1, ColoursAround
<1>4. Colour(tile, b, x) =
             IF GreenStep(tile, y, x) THEN 1 + BlueAt(tile, y) ELSE 1
  BY <1>1, ColoursAround
<1>5. Colour(tile, b, a) =
             IF GreenStep(tile, y, x) THEN 1 ELSE 1 + BlueAt(tile, y)
  BY <1>1, ColoursAround
<1>6. BlueAt(tile, y) \in {-1, 1}
  BY DEF BlueAt
<1> QED BY <1>2, <1>3, <1>4, <1>5, <1>6 DEF a, b

\* Where they are.
LEMMA FourNear ==
    ASSUME NEW raw, raw.w \in Nat, raw.h \in Nat, NEW tile,
           NEW y \in 0 .. raw.h - 2, NEW x \in 0 .. raw.w - 2, NEW c
    PROVE  /\ Colour(tile, y, x) = c => At(raw, y, x) \in Near(raw, tile, y, x, c)
           /\ Colour(tile, y, x + 1) = c => At(raw, y, x + 1) \in Near(raw, tile, y, x, c)
           /\ Colour(tile, y + 1, x) = c => At(raw, y + 1, x) \in Near(raw, tile, y, x, c)
           /\ Colour(tile, y + 1, x + 1) = c => At(raw, y + 1, x + 1) \in Near(raw, tile, y, x, c)
<1>1. y \in Nat /\ x \in Nat
  OBVIOUS
<1>2. /\ y \in y - 1 .. y + 1 /\ y + 1 \in y - 1 .. y + 1
      /\ x \in x - 1 .. x + 1 /\ x + 1 \in x - 1 .. x + 1
      /\ y \in 0 .. raw.h - 1 /\ y + 1 \in 0 .. raw.h - 1
      /\ x \in 0 .. raw.w - 1 /\ x + 1 \in 0 .. raw.w - 1
  OBVIOUS
<1> DEFINE b == y + 1  a == x + 1
<1>3. /\ b \in y - 1 .. y + 1 /\ a \in x - 1 .. x + 1
      /\ b \in 0 .. raw.h - 1 /\ a \in 0 .. raw.w - 1
  BY <1>2
<1> HIDE DEF a, b
<1>4. /\ Colour(tile, y, x) = c => At(raw, y, x) \in Near(raw, tile, y, x, c)
      /\ Colour(tile, y, a) = c => At(raw, y, a) \in Near(raw, tile, y, x, c)
      /\ Colour(tile, b, x) = c => At(raw, b, x) \in Near(raw, tile, y, x, c)
      /\ Colour(tile, b, a) = c => At(raw, b, a) \in Near(raw, tile, y, x, c)
  BY <1>1, <1>2, <1>3, NearHas
<1> QED BY <1>4 DEF a, b

LEMMA NearestPixelMixes ==
    ASSUME NEW raw, raw.w \in Nat, raw.h \in Nat, NEW bits, AllFit(raw, bits), NEW tile \in Tiles,
           NEW y \in 0 .. raw.h - 2, NEW x \in 0 .. raw.w - 2, NEW c \in 0 .. 2
    PROVE  /\ NearestPixel(raw, tile, y, x, c) \in Nat
           /\ Within(Near(raw, tile, y, x, c), NearestPixel(raw, tile, y, x, c))
           /\ SimplePixel(raw, tile, y, x, c) \in Nat
           /\ Within(Near(raw, tile, y, x, c), SimplePixel(raw, tile, y, x, c))
<1> DEFINE N == Near(raw, tile, y, x, c)  B == BlueAt(tile, y)  G == GreenStep(tile, y, x)
           p == At(raw, y, x)  q == At(raw, y, x + 1)  r == At(raw, y + 1, x)  s == At(raw, y + 1, x + 1)
           v == NearestPixel(raw, tile, y, x, c)
           u == SimplePixel(raw, tile, y, x, c)
<1>1. y \in Nat /\ x \in Nat
  OBVIOUS
<1>2. N \in SUBSET Nat
  BY NearNat
<1>3. /\ G => /\ (c = 1 => p \in N /\ s \in N) /\ (c = 1 - B => q \in N) /\ (c = 1 + B => r \in N)
      /\ ~G => /\ (c = 1 => q \in N /\ r \in N) /\ (c = 1 - B => p \in N) /\ (c = 1 + B => s \in N)
  BY <1>1, ColoursBelow, FourNear
<1>4. B \in {-1, 1}
  BY DEF BlueAt
<1>5. c = 1 \/ c = 1 - B \/ c = 1 + B
  BY <1>4
<1>6. v = IF G THEN Stored(c, B, q, s, r) ELSE Stored(c, B, p, q, s)
  BY DEF NearestPixel
<1>7. u = IF G THEN Stored(c, B, q, (p + s + 1) \div 2, r) ELSE Stored(c, B, p, (q + r + 1) \div 2, s)
  BY DEF SimplePixel
<1> HIDE DEF N, B, G, p, q, r, s, u, v
<1>8. v \in N
  BY <1>3, <1>4, <1>5, <1>6 DEF Stored
<1>9. \A t \in N : t \in Nat /\ Within(N, t)
  BY <1>2, Itself
<1>10. \A t1 \in N, t2 \in N : (t1 + t2 + 1) \div 2 \in Nat /\ Within(N, (t1 + t2 + 1) \div 2)
  <2> TAKE t1 \in N, t2 \in N
  <2>1. t1 \in Nat /\ t2 \in Nat
    BY <1>2
  <2>2. (t1 + t2 + 1) \div 2 \in Nat
    BY <2>1
  <2>3. Within(N, (t1 + t2 + 1) \div 2)
    BY <1>2, MeanOfTwo
  <2> QED BY <2>2, <2>3
<1>11. u \in N \/ \E t1 \in N, t2 \in N : u = (t1 + t2 + 1) \div 2
  <2> DEFINE m == (p + s + 1) \div 2  n == (q + r + 1) \div 2
  <2>1. u = IF G THEN Stored(c, B, q, m, r) ELSE Stored(c, B, p, n, s)
    BY <1>7
  <2>2. c = 1 /\ G => \E t1 \in N, t2 \in N : m = (t1 + t2 + 1) \div 2
    BY <1>3
  <2>3. c = 1 /\ ~G => \E t1 \in N, t2 \in N : n = (t1 + t2 + 1) \div 2
    BY <1>3
  <2> HIDE DEF m, n
  <2>4. CASE c = 1
    <3>1. (G => u = m) /\ (~G => u = n)
      BY <2>1, <2>4 DEF Stored
    <3> QED BY <2>2, <2>3, <2>4, <3>1
  <2>5. CASE c # 1
    <3>1. u \in N
      BY <1>3, <1>4, <1>5, <2>1, <2>5 DEF Stored
    <3> QED BY <3>1
  <2> QED BY <2>4, <2>5
<1>12. u \in Nat /\ Within(N, u)
  BY <1>9, <1>10, <1>11
<1>13. v \in Nat /\ Within(N, v)
  BY <1>8, <1>9
<1> QED BY <1>12, <1>13 DEF N, u, v

\* The sample of given parities among the four from a pixel on.
LEMMA SampleNear ==
    ASSUME NEW raw, raw.w \in Nat, raw.h \in Nat, NEW tile,
           NEW y \in 0 .. raw.h - 2, NEW x \in 0 .. raw.w - 2,
           NEW py \in {0, 1}, NEW px \in {0, 1}, NEW c, Mosaic[tile][2 * py + px + 1] = c
    PROVE  Sample(raw, y, x, py, px) \in Near(raw, tile, y, x, c)
<1> DEFINE dy == (y + py) % 2  dx == (x + px) % 2  b == y + dy  a == x + dx
<1>1. /\ y \in Nat /\ x \in Nat
  OBVIOUS
<1>2. dy \in {0, 1} /\ dx \in {0, 1} /\ (y + dy) % 2 = py /\ (x + dx) % 2 = px
  OBVIOUS
<1> HIDE DEF dy, dx
<1>3. /\ b \in y - 1 .. y + 1 /\ a \in x - 1 .. x + 1 /\ b \in 0 .. raw.h - 1 /\ a \in 0 .. raw.w - 1
      /\ b % 2 = py /\ a % 2 = px
  BY <1>2
<1>4. Sample(raw, y, x, py, px) = At(raw, b, a)
  BY DEF Sample, dy, dx
<1> HIDE DEF b, a
<1>5. Colour(tile, b, a) = c
  BY <1>3, Zenon DEF Colour
<1>6. At(raw, b, a) \in Near(raw, tile, y, x, c)
  BY <1>1, <1>3, <1>5, NearHas
<1> QED BY <1>4, <1>6

\* The samples of a tile by the names that Coriander's decoders have for them.
LEMMA TileColours ==
    ASSUME NEW tile \in Tiles, NEW c \in 0 .. 2
    PROVE  /\ GreenFirst(tile) =>
                 /\ Mosaic[tile][1] = 1 /\ Mosaic[tile][4] = 1
                 /\ c # 1 /\ c = OutR(tile) => Mosaic[tile][2] = c
                 /\ c # 1 /\ c # OutR(tile) => Mosaic[tile][3] = c
           /\ ~GreenFirst(tile) =>
                 /\ Mosaic[tile][2] = 1 /\ Mosaic[tile][3] = 1
                 /\ c # 1 /\ c = OutR(tile) => Mosaic[tile][4] = c
                 /\ c # 1 /\ c # OutR(tile) => Mosaic[tile][1] = c
<1>4. CASE tile = "BGGR"
  <2>1. Mosaic[tile] = <<2, 1, 1, 0>> BY <1>4 DEF Mosaic
  <2>2. ~GreenFirst(tile) /\ OutR(tile) = 0 BY <1>4 DEF GreenFirst, OutR
  <2> QED BY <2>1, <2>2
<1>5. CASE tile = "GRBG"
  <2>1. Mosaic[tile] = <<1, 0, 2, 1>> BY <1>5 DEF Mosaic
  <2>2. GreenFirst(tile) /\ OutR(tile) = 0 BY <1>5 DEF GreenFirst, OutR
  <2> QED BY <2>1, <2>2
<1>6. CASE tile = "RGGB"
  <2>1. Mosaic[tile] = <<0, 1, 1, 2>> BY <1>6 DEF Mosaic
  <2>2. ~GreenFirst(tile) /\ OutR(tile) = 2 BY <1>6 DEF GreenFirst, OutR
  <2> QED BY <2>1, <2>2
<1>7. CASE tile = "GBRG"
  <2>1. Mosaic[tile] = <<1, 2, 0, 1>> BY <1>7 DEF Mosaic
  <2>2. GreenFirst(tile) /\ OutR(tile) = 2 BY <1>7 DEF GreenFirst, OutR
  <2> QED BY <2>1, <2>2
<1> QED BY <1>4, <1>5, <1>6, <1>7 DEF Tiles

LEMMA NearFits ==
    ASSUME NEW raw, NEW bits, AllFit(raw, bits), NEW tile, NEW y, NEW x, NEW c
    PROVE  \A s \in Near(raw, tile, y, x, c) : Fits(s, bits)
BY DEF Near, AllFit

\* As many as there are sets of that many numbers.
LEMMA PowerNat == ASSUME NEW bits \in Nat PROVE 2 ^ bits \in Nat /\ 2 ^ bits > 0
<1> DEFINE S == 1 .. bits
<1>1. IsFiniteSet(S) /\ Cardinality(S) = bits
  <2>1. Cardinality(S) = IF 1 > bits THEN 0 ELSE bits - 1 + 1
    BY FS_Interval
  <2>2. IsFiniteSet(S)
    BY FS_Interval
  <2> HIDE DEF S
  <2> QED BY <2>1, <2>2
<1> HIDE DEF S
<1>2. IsFiniteSet(SUBSET S) /\ Cardinality(SUBSET S) = 2 ^ Cardinality(S)
  BY <1>1, FS_SUBSET
<1>3. Cardinality(SUBSET S) \in Nat
  BY <1>2, FS_CardinalityType
<1>4. Cardinality(SUBSET S) # 0
  <2>1. SUBSET S # {}
    OBVIOUS
  <2> QED BY <1>2, <2>1, FS_EmptySet
<1> DEFINE c == Cardinality(SUBSET S)
<1> HIDE DEF c
<1>5. c \in Nat /\ c > 0
  BY <1>3, <1>4 DEF c
<1>6. c = 2 ^ bits
  BY <1>1, <1>2 DEF c
<1> QED BY <1>5, <1>6

\* Samples that fit, and their means, pass the limit.
LEMMA MeanFits ==
    ASSUME NEW bits \in Nat, NEW s, NEW t, Fits(s, bits), Fits(t, bits)
    PROVE  Fits((s + t) \div 2, bits)
<1> DEFINE m == 2 ^ bits  v == (s + t) \div 2
<1>1. m \in Nat
  BY PowerNat
<1>2. s \in Nat /\ t \in Nat /\ s < m /\ t < m
  BY DEF Fits
<1> HIDE DEF m
<1>3. v \in Nat /\ v < m
  BY <1>1, <1>2
<1> QED BY <1>3 DEF Fits, m

LEMMA Simple16Mixes ==
    ASSUME NEW raw, raw.w \in Nat, raw.h \in Nat, NEW bits \in Nat, AllFit(raw, bits), NEW tile \in Tiles,
           NEW y \in 0 .. raw.h - 2, NEW x \in 0 .. raw.w - 2, NEW c \in 0 .. 2
    PROVE  /\ Simple16Pixel(raw, tile, y, x, c, bits) \in Nat
           /\ Within(Near(raw, tile, y, x, c), Simple16Pixel(raw, tile, y, x, c, bits))
<1> DEFINE N == Near(raw, tile, y, x, c)
           p == Sample(raw, y, x, 0, 0)  q == Sample(raw, y, x, 0, 1)
           r == Sample(raw, y, x, 1, 0)  s == Sample(raw, y, x, 1, 1)
           m == (p + s) \div 2  n == (q + r) \div 2
           v == Simple16Pixel(raw, tile, y, x, c, bits)
           u == IF GreenFirst(tile) THEN IF c = 1 THEN m ELSE IF c = OutR(tile) THEN q ELSE r
                ELSE IF c = 1 THEN n ELSE IF c = OutR(tile) THEN s ELSE p
<1>1. N \in SUBSET Nat
  BY NearNat
<1>2. /\ Mosaic[tile][1] = c => p \in N
      /\ Mosaic[tile][2] = c => q \in N
      /\ Mosaic[tile][3] = c => r \in N
      /\ Mosaic[tile][4] = c => s \in N
  <2>1. 0 \in {0, 1} /\ 1 \in {0, 1} /\ 2 * 0 + 0 + 1 = 1 /\ 2 * 0 + 1 + 1 = 2 /\ 2 * 1 + 0 + 1 = 3 /\ 2 * 1 + 1 + 1 = 4
    OBVIOUS
  <2>2. \A py \in {0, 1}, px \in {0, 1} : Mosaic[tile][2 * py + px + 1] = c => Sample(raw, y, x, py, px) \in N
    BY SampleNear
  <2> HIDE DEF N
  <2> QED BY <2>1, <2>2
<1>3. v = Clip(u, bits)
  BY DEF Simple16Pixel
<1>4. \A a \in N : Fits(a, bits)
  BY NearFits
<1> HIDE DEF N, p, q, r, s, v
<1>5. \A a \in N : a \in Nat /\ Fits(a, bits) /\ Within(N, a)
  BY <1>1, <1>4, Itself
<1>6. \A a \in N, b \in N : (a + b) \div 2 \in Nat /\ Fits((a + b) \div 2, bits) /\ Within(N, (a + b) \div 2)
  <2> TAKE a \in N, b \in N
  <2>1. a \in Nat /\ b \in Nat
    BY <1>1
  <2>2. (a + b) \div 2 \in Nat
    BY <2>1
  <2>3. Fits((a + b) \div 2, bits)
    BY <1>5, MeanFits
  <2>4. (a + b + 0) \div 2 = (a + b) \div 2
    BY <2>1
  <2>5. Within(N, (a + b + 0) \div 2)
    BY <1>1, MeanOfTwo
  <2> QED BY <2>2, <2>3, <2>4, <2>5
<1>7. u \in N \/ \E a \in N, b \in N : u = (a + b) \div 2
  <2>1. CASE c = 1
    <3>1. GreenFirst(tile) => p \in N /\ s \in N /\ u = m
      BY <1>2, <2>1, TileColours
    <3>2. ~GreenFirst(tile) => q \in N /\ r \in N /\ u = n
      BY <1>2, <2>1, TileColours
    <3> QED BY <3>1, <3>2
  <2>2. CASE c # 1
    <3>1. u = IF GreenFirst(tile) THEN IF c = OutR(tile) THEN q ELSE r
                                  ELSE IF c = OutR(tile) THEN s ELSE p
      BY <2>2
    <3> HIDE DEF u
    <3>2. u \in N
      BY <1>2, <2>2, <3>1, TileColours
    <3> QED BY <3>2
  <2> QED BY <2>1, <2>2
<1> HIDE DEF u
<1>8. u \in Nat /\ Fits(u, bits) /\ Within(N, u)
  BY <1>5, <1>6, <1>7
<1>9. v = u
  BY <1>3, <1>8, ClipKeeps
<1> QED BY <1>8, <1>9 DEF N, v

\* The nine samples around a pixel that is not at the edge, and what they show.
LEMMA NineNear ==
    ASSUME NEW raw, raw.w \in Nat, raw.h \in Nat, NEW tile \in Tiles,
           NEW y \in 1 .. raw.h - 2, NEW x \in 1 .. raw.w - 2, NEW c,
           NEW dy \in {-1, 0, 1}, NEW dx \in {-1, 0, 1},
           c = IF GreenStep(tile, y, x)
               THEN IF (dy = 0) = (dx = 0) THEN 1
                    ELSE IF dy = 0 THEN 1 - BlueAt(tile, y) ELSE 1 + BlueAt(tile, y)
               ELSE IF (dy = 0) # (dx = 0) THEN 1
                    ELSE IF dy = 0 THEN 1 - BlueAt(tile, y) ELSE 1 + BlueAt(tile, y)
    PROVE  At(raw, y + dy, x + dx) \in Near(raw, tile, y, x, c)
<1> DEFINE b == y + dy  a == x + dx
<1>1. /\ y \in Nat /\ x \in Nat /\ b \in Nat /\ a \in Nat
      /\ b \in y - 1 .. y + 1 /\ a \in x - 1 .. x + 1
      /\ b \in 0 .. raw.h - 1 /\ a \in 0 .. raw.w - 1
  OBVIOUS
<1>2. b = y + dy /\ a = x + dx
  OBVIOUS
<1> HIDE DEF b, a
<1>3. Colour(tile, b, a) = c
  BY <1>1, <1>2, ColoursAround, SMTT(30)
<1>4. At(raw, b, a) \in Near(raw, tile, y, x, c)
  BY <1>1, <1>3, NearHas
<1> QED BY <1>4 DEF b, a

\* What is known one row and one column before.
LEMMA StepBefore ==
    ASSUME NEW tile, NEW y \in Nat \ {0}, NEW x \in Nat \ {0}
    PROVE  /\ GreenStep(tile, y - 1, x - 1) <=> GreenStep(tile, y, x)
           /\ BlueAt(tile, y - 1) = -BlueAt(tile, y)
           /\ BlueAt(tile, y) \in {-1, 1}
<1>1. /\ ((y - 1) % 2 = 0) <=> ~(y % 2 = 0)
      /\ ((x - 1) % 2 = 0) <=> ~(x % 2 = 0)
  OBVIOUS
<1>2. GreenStep(tile, y - 1, x - 1) <=> GreenStep(tile, y, x)
  BY <1>1 DEF GreenStep
<1> QED BY <1>1, <1>2 DEF BlueAt

LEMMA BilinearPixelMixes ==
    ASSUME NEW raw, raw.w \in Nat, raw.h \in Nat, NEW bits, AllFit(raw, bits), NEW tile \in Tiles,
           NEW y \in 1 .. raw.h - 2, NEW x \in 1 .. raw.w - 2, NEW c \in 0 .. 2
    PROVE  /\ BilinearPixel(raw, tile, y, x, c) \in Nat
           /\ Within(Near(raw, tile, y, x, c), BilinearPixel(raw, tile, y, x, c))
<1> DEFINE N == Near(raw, tile, y, x, c)  B == BlueAt(tile, y)  G == GreenStep(tile, y, x)
           a(dy, dx) == At(raw, y + dy, x + dx)
           up == a(-1, 0)  down == a(1, 0)  left == a(0, -1)  right == a(0, 1)  mid == a(0, 0)
           nw == a(-1, -1)  ne == a(-1, 1)  sw == a(1, -1)  se == a(1, 1)
           column == (up + down + 1) \div 2  line == (left + right + 1) \div 2
           cross == (nw + ne + sw + se + 2) \div 4  star == (up + left + right + down + 2) \div 4
           v == BilinearPixel(raw, tile, y, x, c)
<1>1. N \in SUBSET Nat
  BY NearNat
<1>2. B \in {-1, 1}
  BY DEF BlueAt
<1>3. v = IF G THEN Stored(c, -B, column, mid, line) ELSE Stored(c, -B, cross, star, mid)
  <2>1. (GreenStep(tile, y - 1, x - 1) <=> G) /\ BlueAt(tile, y - 1) = -B
    <3>1. y \in Nat \ {0} /\ x \in Nat \ {0}
      OBVIOUS
    <3> QED BY <3>1, StepBefore
  <2>2. v = IF GreenStep(tile, y - 1, x - 1)
            THEN Stored(c, BlueAt(tile, y - 1), column, mid, line)
            ELSE Stored(c, BlueAt(tile, y - 1), cross, star, mid)
    BY DEF BilinearPixel
  <2> HIDE DEF column, mid, line, cross, star, v, G, B
  <2> QED BY <2>1, <2>2
<1>4. /\ c = (IF G THEN 1 ELSE 1 - B) => mid \in N
      /\ c = (IF G THEN 1 + B ELSE 1) => up \in N /\ down \in N
      /\ c = (IF G THEN 1 - B ELSE 1) => left \in N /\ right \in N
      /\ c = (IF G THEN 1 ELSE 1 + B) => nw \in N /\ ne \in N /\ sw \in N /\ se \in N
  <2>1. ASSUME NEW dy \in {-1, 0, 1}, NEW dx \in {-1, 0, 1},
               c = IF G
                   THEN IF (dy = 0) = (dx = 0) THEN 1 ELSE IF dy = 0 THEN 1 - B ELSE 1 + B
                   ELSE IF (dy = 0) # (dx = 0) THEN 1 ELSE IF dy = 0 THEN 1 - B ELSE 1 + B
        PROVE  a(dy, dx) \in N
    BY <2>1, NineNear
  <2> HIDE DEF N, B, G, a
  <2>2. c = (IF G THEN 1 ELSE 1 - B) => mid \in N
    BY <2>1
  <2>3. c = (IF G THEN 1 + B ELSE 1) => up \in N /\ down \in N
    BY <2>1
  <2>4. c = (IF G THEN 1 - B ELSE 1) => left \in N /\ right \in N
    BY <2>1
  <2>5. c = (IF G THEN 1 ELSE 1 + B) => nw \in N /\ ne \in N /\ sw \in N /\ se \in N
    BY <2>1
  <2> QED BY <2>2, <2>3, <2>4, <2>5
<1> HIDE DEF N, B, G, a, up, down, left, right, mid, nw, ne, sw, se, v
<1>5. \A t \in N : t \in Nat /\ Within(N, t)
  BY <1>1, Itself
<1>6. \A t \in N, u \in N : (t + u + 1) \div 2 \in Nat /\ Within(N, (t + u + 1) \div 2)
  <2> TAKE t \in N, u \in N
  <2>1. (t + u + 1) \div 2 \in Nat
    BY <1>1
  <2> QED BY <1>1, <2>1, MeanOfTwo
<1>7. \A t \in N, u \in N, r \in N, s \in N :
         (t + u + r + s + 2) \div 4 \in Nat /\ Within(N, (t + u + r + s + 2) \div 4)
  <2> TAKE t \in N, u \in N, r \in N, s \in N
  <2>1. (t + u + r + s + 2) \div 4 \in Nat
    BY <1>1
  <2> QED BY <1>1, <2>1, MeanOfFour
<1>8. /\ up \in N /\ down \in N => column \in Nat /\ Within(N, column)
      /\ left \in N /\ right \in N => line \in Nat /\ Within(N, line)
  BY <1>6
<1>9. /\ nw \in N /\ ne \in N /\ sw \in N /\ se \in N => cross \in Nat /\ Within(N, cross)
      /\ up \in N /\ left \in N /\ right \in N /\ down \in N => star \in Nat /\ Within(N, star)
  BY <1>7
<1> HIDE DEF column, line, cross, star
<1>10. CASE G
  <2>1. v = IF c = 1 THEN mid ELSE IF c = 1 + B THEN column ELSE line
    BY <1>2, <1>3, <1>10 DEF Stored
  <2> QED BY <1>2, <1>4, <1>5, <1>8, <1>10, <2>1 DEF N, v
<1>11. CASE ~G
  <2>1. v = IF c = 1 THEN star ELSE IF c = 1 + B THEN cross ELSE mid
    BY <1>2, <1>3, <1>11 DEF Stored
  <2> QED BY <1>2, <1>4, <1>5, <1>9, <1>11, <2>1 DEF N, v
<1> QED BY <1>10, <1>11

\* A decoder's value for a component lies between samples of that colour around
\* a pixel.
Mixed(raw, tile, dec, i, y, x, c) ==
    i \in DOMAIN dec /\ dec[i] \in Nat /\ Within(Near(raw, tile, y, x, c), dec[i])

LEMMA PlaceParts ==
    ASSUME NEW w \in Nat, NEW y \in Nat, NEW x \in 0 .. w - 1, NEW c \in 0 .. 2,
           NEW i, i = Offset(w, y, x, c)
    PROVE  Row(w, i) = y /\ Column(w, i) = x /\ i % 3 = c
<1>1. Row(w, i) = y /\ Column(w, i) = x
  BY PlaceOffset
<1>2. i % 3 = c
  BY ComponentOf
<1> QED BY <1>1, <1>2

LEMMA NotLast ==
    ASSUME NEW w \in Nat, NEW h \in Nat, NEW y \in 0 .. h - 2, NEW x \in 0 .. w - 2, NEW c \in 0 .. 2,
           NEW i, i = Offset(w, y, x, c)
    PROVE  i \notin LastRowAndColumn(w, h)
<1>1. Column(w, i) = x
  <2>1. y \in Nat /\ x \in 0 .. w - 1
    OBVIOUS
  <2> QED BY <2>1, PlaceParts
<1>2. ASSUME i \in 3 * w * (h - 1) .. 3 * w * h - 1 PROVE FALSE
  <2>1. (y + 1) * w <= (h - 1) * w
    BY Monotone
  <2>2. (y + 1) * w = y * w + w /\ 3 * w * (h - 1) = 3 * ((h - 1) * w)
    OBVIOUS
  <2> DEFINE p == y * w  q == (h - 1) * w
  <2>3. p + w <= q /\ 3 * q <= i /\ i = 3 * (p + x) + c /\ p \in Int /\ q \in Int
    BY <1>2, <2>1, <2>2 DEF Offset
  <2> HIDE DEF p, q
  <2> QED BY <2>3
<1>3. ASSUME NEW k \in 0 .. h - 1, NEW d \in 0 .. 2, i = 3 * (w - 1) + 3 * w * k + d PROVE FALSE
  <2>1. i = Offset(w, k, w - 1, d)
    BY <1>3 DEF Offset
  <2> DEFINE a == w - 1
  <2>2. k \in Nat /\ a \in 0 .. w - 1 /\ a # x
    OBVIOUS
  <2>3. i = Offset(w, k, a, d)
    BY <2>1
  <2> HIDE DEF a
  <2>4. Column(w, i) = a
    BY <2>2, <2>3, PlaceParts
  <2> QED BY <1>1, <2>2, <2>4
<1> QED BY <1>2, <1>3 DEF LastRowAndColumn

LEMMA NearestMixes ==
    ASSUME NEW raw, raw.w \in Nat, raw.h \in Nat, NEW bits \in Nat, AllFit(raw, bits), NEW tile \in Tiles,
           NEW y \in 0 .. raw.h - 2, NEW x \in 0 .. raw.w - 2, NEW c \in 0 .. 2,
           NEW i, i = Offset(raw.w, y, x, c)
    PROVE  /\ Mixed(raw, tile, NearestNeighbor(raw, tile), i, y, x, c)
           /\ Mixed(raw, tile, NearestNeighbor_uint16(raw, tile, bits), i, y, x, c)
           /\ Mixed(raw, tile, Simple(raw, tile), i, y, x, c)
           /\ Mixed(raw, tile, Simple_uint16(raw, tile, bits), i, y, x, c)
<1> DEFINE P == Places(raw.w, 0 .. raw.h - 2, 0 .. raw.w - 2)
           Z == Zero(LastRowAndColumn(raw.w, raw.h))
           nearest == [j \in P |-> NearestPixel(raw, tile, Row(raw.w, j), Column(raw.w, j), j % 3)]
           simple == [j \in P |-> SimplePixel(raw, tile, Row(raw.w, j), Column(raw.w, j), j % 3)]
           simple16 == [j \in P |-> Simple16Pixel(raw, tile, Row(raw.w, j), Column(raw.w, j), j % 3, bits)]
<1>1. y \in Nat /\ x \in 0 .. raw.w - 1
  OBVIOUS
<1>2. i \in P
  BY PlaceIn
<1>3. Row(raw.w, i) = y /\ Column(raw.w, i) = x /\ i % 3 = c
  <2> HIDE DEF P
  <2> QED BY <1>1, PlaceParts
<1> HIDE DEF P
<1>4. /\ i \in DOMAIN nearest /\ nearest[i] = NearestPixel(raw, tile, y, x, c)
      /\ i \in DOMAIN simple /\ simple[i] = SimplePixel(raw, tile, y, x, c)
      /\ i \in DOMAIN simple16 /\ simple16[i] = Simple16Pixel(raw, tile, y, x, c, bits)
  BY <1>2, <1>3
<1>5. /\ NearestNeighbor(raw, tile) = Over(nearest, Z)
      /\ NearestNeighbor_uint16(raw, tile, bits) = Over(nearest, Z)
      /\ Simple(raw, tile) = Over(simple, Z)
      /\ Simple_uint16(raw, tile, bits) = Over(Z, simple16)
  BY Zenon DEF NearestNeighbor, NearestNeighbor_uint16, Simple, Simple_uint16, P
<1> HIDE DEF nearest, simple, simple16
<1>6. i \notin DOMAIN Z
  BY NotLast DEF Zero
<1> HIDE DEF Z
<1>7. /\ i \in DOMAIN Over(nearest, Z) /\ Over(nearest, Z)[i] = nearest[i]
      /\ i \in DOMAIN Over(simple, Z) /\ Over(simple, Z)[i] = simple[i]
      /\ i \in DOMAIN Over(Z, simple16) /\ Over(Z, simple16)[i] = simple16[i]
  BY <1>4, <1>6 DEF Over
<1>8. /\ NearestPixel(raw, tile, y, x, c) \in Nat
      /\ Within(Near(raw, tile, y, x, c), NearestPixel(raw, tile, y, x, c))
      /\ SimplePixel(raw, tile, y, x, c) \in Nat
      /\ Within(Near(raw, tile, y, x, c), SimplePixel(raw, tile, y, x, c))
  BY NearestPixelMixes
<1>9. /\ Simple16Pixel(raw, tile, y, x, c, bits) \in Nat
      /\ Within(Near(raw, tile, y, x, c), Simple16Pixel(raw, tile, y, x, c, bits))
  BY Simple16Mixes
<1>10. Mixed(raw, tile, Over(nearest, Z), i, y, x, c)
  BY <1>4, <1>7, <1>8, Zenon DEF Mixed
<1>11. Mixed(raw, tile, Over(simple, Z), i, y, x, c)
  BY <1>4, <1>7, <1>8, Zenon DEF Mixed
<1>12. Mixed(raw, tile, Over(Z, simple16), i, y, x, c)
  BY <1>4, <1>7, <1>9, Zenon DEF Mixed
<1> QED BY <1>5, <1>10, <1>11, <1>12, Zenon

LEMMA BilinearMixes ==
    ASSUME NEW raw, raw.w \in Nat, raw.h \in Nat, NEW bits \in Nat, AllFit(raw, bits), NEW tile \in Tiles,
           NEW y \in 1 .. raw.h - 2, NEW x \in 1 .. raw.w - 2, NEW c \in 0 .. 2,
           NEW i, i = Offset(raw.w, y, x, c)
    PROVE  /\ Mixed(raw, tile, Bilinear(raw, tile), i, y, x, c)
           /\ Mixed(raw, tile, Bilinear_uint16(raw, tile, bits), i, y, x, c)
<1> DEFINE P == Places(raw.w, 1 .. raw.h - 2, 1 .. raw.w - 2)
           Z == Zero(ClearBorders(raw.w, raw.h, 1))
           f == [j \in P |-> BilinearPixel(raw, tile, Row(raw.w, j), Column(raw.w, j), j % 3)]
<1>1. y \in Nat /\ x \in 0 .. raw.w - 1
  OBVIOUS
<1>2. i \in P
  BY PlaceIn
<1>3. Row(raw.w, i) = y /\ Column(raw.w, i) = x /\ i % 3 = c
  <2> HIDE DEF P
  <2> QED BY <1>1, PlaceParts
<1> HIDE DEF P
<1>4. i \in DOMAIN f /\ f[i] = BilinearPixel(raw, tile, y, x, c)
  BY <1>2, <1>3
<1>5. Bilinear(raw, tile) = Over(f, Z) /\ Bilinear_uint16(raw, tile, bits) = f
  BY Zenon DEF Bilinear, Bilinear_uint16, P
<1> HIDE DEF f, Z
<1>6. i \in DOMAIN Over(f, Z) /\ Over(f, Z)[i] = f[i]
  BY <1>4 DEF Over
<1>7. f[i] \in Nat /\ Within(Near(raw, tile, y, x, c), f[i])
  BY <1>4, BilinearPixelMixes
<1> QED BY <1>4, <1>5, <1>6, <1>7, Zenon DEF Mixed

\* The four samples of a tile are around its lower right one.
LEMMA TileNear ==
    ASSUME NEW raw, raw.w \in Nat, raw.h \in Nat, NEW tile,
           NEW p \in Nat, NEW q \in Nat, 2 * p + 1 <= raw.h - 1, 2 * q + 1 <= raw.w - 1,
           NEW py \in {0, 1}, NEW px \in {0, 1}, NEW c, Mosaic[tile][2 * py + px + 1] = c
    PROVE  At(raw, 2 * p + py, 2 * q + px) \in Near(raw, tile, 2 * p + 1, 2 * q + 1, c)
<1> DEFINE y == 2 * p + 1  x == 2 * q + 1  b == 2 * p + py  a == 2 * q + px
<1>1. /\ y \in Nat /\ x \in Nat /\ b \in y - 1 .. y + 1 /\ a \in x - 1 .. x + 1
      /\ b \in 0 .. raw.h - 1 /\ a \in 0 .. raw.w - 1
  OBVIOUS
<1>2. b % 2 = py /\ a % 2 = px
  OBVIOUS
<1> HIDE DEF y, x, b, a
<1>3. Colour(tile, b, a) = c
  BY <1>2, Zenon DEF Colour
<1>4. At(raw, b, a) \in Near(raw, tile, y, x, c)
  BY <1>1, <1>3, NearHas
<1> QED BY <1>4 DEF y, x, b, a

LEMMA Halves ==
    ASSUME NEW n \in Nat, n % 2 = 0
    PROVE  n \div 2 \in Nat /\ n = 2 * (n \div 2)
OBVIOUS

LEMMA DownsampleMixes ==
    ASSUME NEW raw, raw.w \in Nat, raw.h \in Nat, raw.w % 2 = 0, raw.h % 2 = 0,
           NEW bits \in Nat, AllFit(raw, bits), NEW tile \in Tiles,
           NEW p \in 0 .. (raw.h \div 2) - 1, NEW q \in 0 .. (raw.w \div 2) - 1, NEW c \in 0 .. 2,
           NEW i, i = Offset(raw.w \div 2, p, q, c)
    PROVE  /\ Mixed(raw, tile, Downsample(raw, tile), i, 2 * p + 1, 2 * q + 1, c)
           /\ ~GreenFirst(tile) =>
                 Mixed(raw, tile, Downsample_uint16(raw, tile, bits), i, 2 * p + 1, 2 * q + 1, c)
<1> DEFINE w == raw.w  h == raw.h  u == w \div 2  v == h \div 2
           y == 2 * p  x == 2 * q
           N == Near(raw, tile, 2 * p + 1, 2 * q + 1, c)
           D == {3 * ((b * raw.w) \div 4 + a \div 2) + d :
                    b \in {n \in 0 .. raw.h - 1 : n % 2 = 0},
                    a \in {n \in 0 .. raw.w - 1 : n % 2 = 0}, d \in 0 .. 2}
           s00 == At(raw, y, x)  s01 == At(raw, y, x + 1)
           s10 == At(raw, y + 1, x)  s11 == At(raw, y + 1, x + 1)
           green == IF GreenFirst(tile) THEN s00 + s11 ELSE s10 + s01
           value == IF c = 1 THEN green \div 2
                    ELSE IF c = OutR(tile)
                         THEN IF GreenFirst(tile) THEN s01 ELSE s11
                    ELSE IF GreenFirst(tile) THEN s10 ELSE s00
           value16 == Clip(IF c = 1 THEN green \div 2
                           ELSE IF c = OutR(tile) THEN s11
                           ELSE IF GreenFirst(tile) THEN s10 ELSE s00, bits)
<1>1. u \in Nat /\ v \in Nat /\ w = 2 * u /\ h = 2 * v
  BY Halves
<1>2. Row(u, i) = p /\ Column(u, i) = q /\ i % 3 = c
  <2>1. p \in Nat /\ q \in 0 .. u - 1
    BY <1>1
  <2> HIDE DEF u
  <2>2. i = Offset(u, p, q, c)
    BY DEF u
  <2> QED BY <1>1, <2>1, <2>2, PlaceParts
<1>3. i \in DOMAIN Downsample(raw, tile) /\ i \in DOMAIN Downsample_uint16(raw, tile, bits)
  <2>1. i \in Whole(u, v)
    <3> HIDE DEF u, v
    <3>1. p \in 0 .. v - 1 /\ q \in 0 .. u - 1 /\ i = 3 * (p * u + q) + c
      BY DEF u, v, Offset
    <3> QED BY <1>1, <3>1, PlaceInside
  <2>2. /\ DOMAIN Downsample(raw, tile) = Whole(u, v)
        /\ DOMAIN Downsample_uint16(raw, tile, bits) = Whole(u, v)
    BY DownsampleStores
  <2> QED BY <2>1, <2>2
<1>4. i \in D
  BY <1>3 DEF Downsample
<1>5. (i \div 3) \div (raw.w \div 2) = p /\ (i \div 3) % (raw.w \div 2) = q
  BY <1>2 DEF Row, Column
<1>6. Downsample(raw, tile)[i] = value
  <2> HIDE DEF D
  <2>1. Downsample(raw, tile) = [j \in D |->
            LET b == 2 * ((j \div 3) \div (raw.w \div 2))
                a == 2 * ((j \div 3) % (raw.w \div 2))
                g == IF GreenFirst(tile) THEN At(raw, b, a) + At(raw, b + 1, a + 1)
                                         ELSE At(raw, b + 1, a) + At(raw, b, a + 1)
            IN  IF j % 3 = 1 THEN g \div 2
                ELSE IF j % 3 = OutR(tile)
                     THEN IF GreenFirst(tile) THEN At(raw, b, a + 1) ELSE At(raw, b + 1, a + 1)
                ELSE IF GreenFirst(tile) THEN At(raw, b + 1, a) ELSE At(raw, b, a)]
    BY DEF Downsample, D
  <2> QED BY <1>2, <1>4, <1>5, <2>1, Zenon
<1>7. Downsample_uint16(raw, tile, bits)[i] = value16
  <2> HIDE DEF D
  <2>1. Downsample_uint16(raw, tile, bits) = [j \in D |->
            LET b == 2 * ((j \div 3) \div (raw.w \div 2))
                a == 2 * ((j \div 3) % (raw.w \div 2))
                g == IF GreenFirst(tile) THEN At(raw, b, a) + At(raw, b + 1, a + 1)
                                         ELSE At(raw, b + 1, a) + At(raw, b, a + 1)
            IN  Clip(IF j % 3 = 1 THEN g \div 2
                     ELSE IF j % 3 = OutR(tile) THEN At(raw, b + 1, a + 1)
                     ELSE IF GreenFirst(tile) THEN At(raw, b + 1, a) ELSE At(raw, b, a), bits)]
    BY DEF Downsample_uint16, D
  <2> QED BY <1>2, <1>4, <1>5, <2>1, Zenon
<1>8. N \in SUBSET Nat
  BY NearNat
<1>9. /\ Mosaic[tile][1] = c => s00 \in N
      /\ Mosaic[tile][2] = c => s01 \in N
      /\ Mosaic[tile][3] = c => s10 \in N
      /\ Mosaic[tile][4] = c => s11 \in N
  <2>1. /\ 2 * p + 0 = y /\ 2 * q + 0 = x /\ p \in Nat /\ q \in Nat
        /\ 2 * p + 1 <= raw.h - 1 /\ 2 * q + 1 <= raw.w - 1
    BY <1>1
  <2>2. 0 \in {0, 1} /\ 1 \in {0, 1} /\ 2 * 0 + 0 + 1 = 1 /\ 2 * 0 + 1 + 1 = 2 /\ 2 * 1 + 0 + 1 = 3 /\ 2 * 1 + 1 + 1 = 4
    OBVIOUS
  <2>3. \A py \in {0, 1}, px \in {0, 1} :
           Mosaic[tile][2 * py + px + 1] = c => At(raw, 2 * p + py, 2 * q + px) \in N
    BY <2>1, TileNear
  <2> HIDE DEF N
  <2> QED BY <2>1, <2>2, <2>3
<1>10. \A s \in N : Fits(s, bits)
  BY NearFits
<1> HIDE DEF N, s00, s01, s10, s11
<1>11. \A s \in N : s \in Nat /\ Fits(s, bits) /\ Within(N, s)
  BY <1>8, <1>10, Itself
<1>12. \A s \in N, t \in N : (s + t) \div 2 \in Nat /\ Fits((s + t) \div 2, bits) /\ Within(N, (s + t) \div 2)
  <2> TAKE s \in N, t \in N
  <2>1. s \in Nat /\ t \in Nat
    BY <1>8
  <2>2. (s + t) \div 2 \in Nat
    BY <2>1
  <2>3. Fits((s + t) \div 2, bits)
    BY <1>11, MeanFits
  <2>4. (s + t + 0) \div 2 = (s + t) \div 2
    BY <2>1
  <2>5. Within(N, (s + t + 0) \div 2)
    BY <1>8, MeanOfTwo
  <2> QED BY <2>2, <2>3, <2>4, <2>5
<1>13. value \in N \/ \E s \in N, t \in N : value = (s + t) \div 2
  <2>1. CASE c = 1
    <3>1. GreenFirst(tile) => s00 \in N /\ s11 \in N /\ value = (s00 + s11) \div 2
      BY <1>9, <2>1, TileColours
    <3>2. ~GreenFirst(tile) => s10 \in N /\ s01 \in N /\ value = (s10 + s01) \div 2
      BY <1>9, <2>1, TileColours
    <3> HIDE DEF value
    <3> QED BY <3>1, <3>2
  <2>2. CASE c # 1
    <3>1. value = IF c = OutR(tile)
                  THEN IF GreenFirst(tile) THEN s01 ELSE s11
                  ELSE IF GreenFirst(tile) THEN s10 ELSE s00
      BY <2>2
    <3> HIDE DEF value
    <3> QED BY <1>9, <2>2, <3>1, TileColours
  <2> QED BY <2>1, <2>2
<1>14. ~GreenFirst(tile) => value16 = Clip(value, bits)
  BY Zenon
<1> HIDE DEF value, value16
<1>15. value \in Nat /\ Fits(value, bits) /\ Within(N, value)
  BY <1>11, <1>12, <1>13
<1>16. ~GreenFirst(tile) => value16 = value
  BY <1>14, <1>15, ClipKeeps
<1>17. Mixed(raw, tile, Downsample(raw, tile), i, 2 * p + 1, 2 * q + 1, c)
  BY <1>3, <1>6, <1>15, Zenon DEF Mixed, N
<1>18. ASSUME ~GreenFirst(tile)
       PROVE Mixed(raw, tile, Downsample_uint16(raw, tile, bits), i, 2 * p + 1, 2 * q + 1, c)
  BY <1>3, <1>7, <1>15, <1>16, <1>18, Zenon DEF Mixed, N
<1> QED BY <1>17, <1>18

-----------------------------------------------------------------------------
(* Colours through a call.                                                 *)

Mixing == {"NEAREST", "SIMPLE", "BILINEAR", "DOWNSAMPLE"}

\* The pixels of the result that a method makes from samples around them, and
\* where in the frame those are.
Reached(method, size, y, x) ==
    IF method = "DOWNSAMPLE"
    THEN y \in 0 .. (size[2] \div 2) - 1 /\ x \in 0 .. (size[1] \div 2) - 1
    ELSE IF method = "BILINEAR" THEN y \in 1 .. size[2] - 2 /\ x \in 1 .. size[1] - 2
    ELSE y \in 0 .. size[2] - 2 /\ x \in 0 .. size[1] - 2
Centre(method, n) == IF method = "DOWNSAMPLE" THEN 2 * n + 1 ELSE n

Raw(in, s) == [w |-> in.size[1], h |-> in.size[2], s |-> s]
Samples16(in) == [k \in 0 .. in.size[1] * in.size[2] - 1 |-> Host(in.image, k)]

LEMMA DecodersMix ==
    ASSUME NEW raw, raw.w \in Nat, raw.h \in Nat, NEW size, size[1] = raw.w, size[2] = raw.h,
           NEW bits \in Nat, AllFit(raw, bits), NEW tile \in Tiles,
           NEW method \in Mixing, method = "DOWNSAMPLE" => raw.w % 2 = 0 /\ raw.h % 2 = 0,
           NEW y, NEW x, Reached(method, size, y, x), NEW c \in 0 .. 2,
           NEW i, i = Offset(DecodedSize(size, method)[1], y, x, c)
    PROVE  LET M(d) == Mixed(raw, tile, d, i, Centre(method, y), Centre(method, x), c) IN
           /\ method = "NEAREST" => /\ M(NearestNeighbor(raw, tile))
                                    /\ M(NearestNeighbor_uint16(raw, tile, bits))
           /\ method = "SIMPLE" => M(Simple(raw, tile)) /\ M(Simple_uint16(raw, tile, bits))
           /\ method = "BILINEAR" => M(Bilinear(raw, tile)) /\ M(Bilinear_uint16(raw, tile, bits))
           /\ method = "DOWNSAMPLE" => /\ M(Downsample(raw, tile))
                                       /\ ~GreenFirst(tile) => M(Downsample_uint16(raw, tile, bits))
<1>1. CASE method \in {"NEAREST", "SIMPLE"}
  <2>1. y \in 0 .. raw.h - 2 /\ x \in 0 .. raw.w - 2
    BY <1>1 DEF Reached
  <2>2. Centre(method, y) = y /\ Centre(method, x) = x /\ i = Offset(raw.w, y, x, c)
    BY <1>1 DEF Centre, DecodedSize
  <2> QED BY <1>1, <2>1, <2>2, NearestMixes
<1>2. CASE method = "BILINEAR"
  <2>1. y \in 1 .. raw.h - 2 /\ x \in 1 .. raw.w - 2
    BY <1>2 DEF Reached
  <2>2. Centre(method, y) = y /\ Centre(method, x) = x /\ i = Offset(raw.w, y, x, c)
    BY <1>2 DEF Centre, DecodedSize
  <2> QED BY <1>2, <2>1, <2>2, BilinearMixes
<1>3. CASE method = "DOWNSAMPLE"
  <2>1. y \in 0 .. (raw.h \div 2) - 1 /\ x \in 0 .. (raw.w \div 2) - 1
    BY <1>3 DEF Reached
  <2>2. /\ Centre(method, y) = 2 * y + 1 /\ Centre(method, x) = 2 * x + 1
        /\ i = Offset(raw.w \div 2, y, x, c)
    BY <1>3 DEF Centre, DecodedSize
  <2> QED BY <1>3, <2>1, <2>2, DownsampleMixes
<1> QED BY <1>1, <1>2, <1>3 DEF Mixing

LEMMA DecodingMixes ==
    ASSUME NEW in, in.size[1] \in Nat, in.size[2] \in Nat, in.filter \in Tiles, NEW bits \in Nat,
           NEW out, NEW win,
           NEW method \in Mixing, method = "DOWNSAMPLE" => in.size[1] % 2 = 0 /\ in.size[2] % 2 = 0,
           NEW y, NEW x, Reached(method, in.size, y, x), NEW c \in 0 .. 2,
           NEW i, i = Offset(DecodedSize(in.size, method)[1], y, x, c)
    PROVE  /\ \A d \in bayer_decoding_8bit(in, out, method, win) :
                 AllFit(Raw(in, in.image), bits) =>
                    Mixed(Raw(in, in.image), in.filter, d, i, Centre(method, y), Centre(method, x), c)
           /\ \A d \in bayer_decoding_16bit(in, out, method, bits, win) :
                 /\ AllFit(Raw(in, Samples16(in)), bits)
                 /\ ~(method = "DOWNSAMPLE" /\ GreenFirst(in.filter))
                 => Mixed(Raw(in, Samples16(in)), in.filter, d, i, Centre(method, y), Centre(method, x), c)
<1> DEFINE r8 == Raw(in, in.image)  r16 == Raw(in, Samples16(in))  t == in.filter
           D8 == bayer_decoding_8bit(in, out, method, win)
           D16 == bayer_decoding_16bit(in, out, method, bits, win)
           M(raw, d) == Mixed(raw, t, d, i, Centre(method, y), Centre(method, x), c)
<1>1. r8.w = in.size[1] /\ r8.h = in.size[2] /\ r16.w = in.size[1] /\ r16.h = in.size[2]
  BY DEF Raw
<1>2. /\ method = "NEAREST"    => D8 = {NearestNeighbor(r8, t)}
      /\ method = "SIMPLE"     => D8 = {Simple(r8, t)}
      /\ method = "BILINEAR"   => D8 = {Bilinear(r8, t)}
      /\ method = "DOWNSAMPLE" => D8 = {Downsample(r8, t)}
  BY DEF bayer_decoding_8bit, Raw
<1>3. /\ method = "NEAREST"    => D16 = {NearestNeighbor_uint16(r16, t, bits)}
      /\ method = "SIMPLE"     => D16 = {Simple_uint16(r16, t, bits)}
      /\ method = "BILINEAR"   => D16 = {Bilinear_uint16(r16, t, bits)}
      /\ method = "DOWNSAMPLE" => D16 = {Downsample_uint16(r16, t, bits)}
  BY DEF bayer_decoding_16bit, Raw, Samples16
<1> HIDE DEF r8, r16, t, D8, D16
<1>4. ASSUME NEW raw, raw.w = in.size[1], raw.h = in.size[2], AllFit(raw, bits)
      PROVE  /\ method = "NEAREST" => M(raw, NearestNeighbor(raw, t)) /\ M(raw, NearestNeighbor_uint16(raw, t, bits))
             /\ method = "SIMPLE" => M(raw, Simple(raw, t)) /\ M(raw, Simple_uint16(raw, t, bits))
             /\ method = "BILINEAR" => M(raw, Bilinear(raw, t)) /\ M(raw, Bilinear_uint16(raw, t, bits))
             /\ method = "DOWNSAMPLE" => /\ M(raw, Downsample(raw, t))
                                         /\ ~GreenFirst(t) => M(raw, Downsample_uint16(raw, t, bits))
  <2>1. raw.w \in Nat /\ raw.h \in Nat /\ in.size[1] = raw.w /\ in.size[2] = raw.h /\ t \in Tiles
    BY <1>4 DEF t
  <2>2. method = "DOWNSAMPLE" => raw.w % 2 = 0 /\ raw.h % 2 = 0
    BY <1>4
  <2> QED BY <1>4, <2>1, <2>2, DecodersMix
<1> HIDE DEF M
<1>5. ASSUME NEW d \in D8, AllFit(r8, bits) PROVE M(r8, d)
  BY <1>1, <1>2, <1>4, <1>5 DEF Mixing
<1>6. ASSUME NEW d \in D16, AllFit(r16, bits), ~(method = "DOWNSAMPLE" /\ GreenFirst(t)) PROVE M(r16, d)
  BY <1>1, <1>3, <1>4, <1>6 DEF Mixing
<1> QED BY <1>5, <1>6, Zenon DEF r8, r16, t, D8, D16, M

LEMMA AroundNear ==
    ASSUME NEW in, NEW raw, raw.w = in.size[1], raw.h = in.size[2],
           \A y \in Rows(in), x \in Columns(in) : At(raw, y, x) = RawSample(in, y, x),
           NEW y, NEW x, NEW c
    PROVE  Around(in, y, x, c) = Near(raw, in.filter, y, x, c)
<1> DEFINE S == {q \in (y - 1 .. y + 1) \X (x - 1 .. x + 1) :
                    q[1] \in Rows(in) /\ q[2] \in Columns(in) /\ ColourAt(in, q[1], q[2]) = c}
           T == {q \in (y - 1 .. y + 1) \X (x - 1 .. x + 1) :
                    q[1] \in 0 .. raw.h - 1 /\ q[2] \in 0 .. raw.w - 1 /\ Colour(in.filter, q[1], q[2]) = c}
<1>1. S = T
  BY DEF Rows, Columns, ColourAt, Colour
<1>2. \A q \in S : RawSample(in, q[1], q[2]) = At(raw, q[1], q[2])
  OBVIOUS
<1>3. Around(in, y, x, c) = {RawSample(in, q[1], q[2]) : q \in S}
  BY Zenon DEF Around
<1>4. Near(raw, in.filter, y, x, c) = {At(raw, q[1], q[2]) : q \in T}
  BY Zenon DEF Near
<1> HIDE DEF S, T
<1> QED BY <1>1, <1>2, <1>3, <1>4

\* The samples of a captured frame that the machine reads as they are meant.
LEMMA SamplesFit ==
    ASSUME NEW in, MemoryOK(in), Described(in), Readable(in),
           in.coding \in {"RAW16", "MONO16", "RAW8", "MONO8"},
           NEW y \in Rows(in), NEW x \in Columns(in)
    PROVE  /\ Wide(in) => /\ RawSample(in, y, x) = At(Raw(in, Samples16(in)), y, x)
                          /\ Fits(RawSample(in, y, x), in.depth)
           /\ ~Wide(in) => /\ RawSample(in, y, x) = At(Raw(in, in.image), y, x)
                           /\ Fits(RawSample(in, y, x), 8)
<1> DEFINE w == in.size[1]  n == in.size[1] * in.size[2]  k == Pixel(w, y, x)
           S == RawSample(in, y, x)
<1>1. /\ in.size \in Nat \X Nat /\ in.size[1] \in Nat /\ in.size[2] \in Nat /\ in.depth \in Nat
      /\ y \in 0 .. in.size[2] - 1 /\ x \in 0 .. in.size[1] - 1
      /\ n \in Nat
  BY SMTT(60) DEF Described, Rows, Columns
<1>2. k \in 0 .. n - 1
  <2>1. (y + 1) * w <= in.size[2] * w
    BY <1>1, Monotone
  <2> QED BY <1>1, <2>1 DEF Pixel
<1>3. /\ DOMAIN in.image = 0 .. in.allocated - 1 /\ in.allocated \in Nat
      /\ in.image_bytes <= in.allocated /\ in.image_bytes \in Nat
      /\ in.image_bytes = (in.size[1] * in.size[2] * BitSize(in.coding)) \div 8
  <2>1. /\ DOMAIN in.image = 0 .. in.allocated - 1 /\ in.allocated \in Nat /\ in.padding \in Nat
        /\ in.image_bytes + in.padding <= in.allocated
        /\ in.image_bytes = (in.size[1] * in.size[2] * BitSize(in.coding)) \div 8
    BY Zenon DEF Described
  <2>2. in.image_bytes \in Nat
    BY DEF MemoryOK
  <2> QED BY <2>1, <2>2
<1>4. \A j \in DOMAIN in.image : in.image[j] \in 0 .. 255
  BY DEF Described
<1>5. S < 2 ^ in.depth
  BY DEF Readable
<1>6. CASE Wide(in)
  <2>1. in.image_bytes = 2 * n
    <3>1. BitSize(in.coding) = 16
      BY <1>6 DEF BitSize, Wide
    <3> QED BY <1>1, <1>3, <3>1, ImageBytes
  <2>2. S = Host(in.image, k)
    BY <1>6 DEF RawSample, Pixel
  <2>3. At(Raw(in, Samples16(in)), y, x) = Samples16(in)[k]
    BY DEF At, Raw, Pixel
  <2>4. Samples16(in)[k] = Host(in.image, k)
    <3> HIDE DEF k
    <3> QED BY <1>2 DEF Samples16
  <2> HIDE DEF n, k
  <2>5. 2 * k \in DOMAIN in.image /\ 2 * k + 1 \in DOMAIN in.image
    BY SMTT(60), <1>1, <1>2, <1>3, <2>1
  <2> DEFINE a == in.image[2 * k]  b == in.image[2 * k + 1]
  <2>6. Host(in.image, k) = 256 * a + b \/ Host(in.image, k) = 256 * b + a
    BY DEF Host
  <2>7. a \in 0 .. 255 /\ b \in 0 .. 255
    BY <1>4, <2>5
  <2> HIDE DEF a, b, S
  <2>8. 256 * a + b \in Nat /\ 256 * b + a \in Nat
    BY <2>7
  <2>9. S \in Nat
    BY <2>2, <2>6, <2>8, Zenon
  <2> QED BY <1>5, <1>6, <2>2, <2>3, <2>4, <2>9 DEF Fits, S
<1>7. CASE ~Wide(in)
  <2>1. in.image_bytes = n
    <3>1. BitSize(in.coding) = 8
      BY <1>7 DEF BitSize, Wide
    <3> QED BY <1>1, <1>3, <3>1, ImageBytes
  <2>2. S = in.image[k]
    BY <1>7 DEF RawSample, Pixel
  <2>3. At(Raw(in, in.image), y, x) = in.image[k]
    BY DEF At, Raw, Pixel
  <2> HIDE DEF n, k, S
  <2>4. S \in 0 .. 255
    <3>1. DOMAIN in.image = 0 .. in.allocated - 1 /\ in.allocated \in Nat /\ in.image_bytes <= in.allocated
      BY <1>3
    <3>2. k \in DOMAIN in.image
      BY <1>1, <1>2, <2>1, <3>1
    <3> QED BY <1>4, <2>2, <3>2
  <2>5. Fits(S, 8)
    BY <2>4 DEF Fits
  <2> QED BY <1>7, <2>2, <2>3, <2>5 DEF S
<1> QED BY <1>6, <1>7

\* What a pixel of the result has of a colour lies between samples of that
\* colour around it.
LEMMA DebayerMixes ==
    ASSUME hostBig \in BOOLEAN, NEW in, MemoryOK(in), Described(in), Readable(in),
           in.size[1] > 4, in.size[2] > 3,
           NEW out, DOMAIN out = Fields, MemoryOK(out),
           NEW method \in Mixing, ~(method = "DOWNSAMPLE" /\ Wide(in) /\ GreenFirst(in.filter)),
           NEW fill, NEW work, NEW win,
           NEW o \in Debayered(in, out, method, fill, work, win), o.err = "SUCCESS",
           NEW y \in Nat, NEW x \in Nat, Reached(method, in.size, y, x), NEW c \in 0 .. 2
    PROVE  /\ o.out.size = DecodedSize(in.size, method)
           /\ Within(Around(in, Centre(method, y), Centre(method, x), c), Component(o.out, y, x, c))
<1> DEFINE a == Adapt_buffer_bayer(in, out, method, fill)
           wide == in.coding \in {"RAW16", "MONO16"}
           D8 == bayer_decoding_8bit(in, a, method, win)
           D16 == bayer_decoding_16bit(in, a, method, in.depth, win)
           size == DecodedSize(in.size, method)
           i == Offset(size[1], y, x, c)
           Y == Centre(method, y)  X == Centre(method, x)
           N == Around(in, Y, X, c)
<1>1. /\ in.size[1] \in Nat /\ in.size[2] \in Nat /\ in.depth \in Nat
  BY DEF Described
<1>2. DOMAIN a = Fields /\ a.size = size /\ a.coding = (IF wide THEN "RGB16" ELSE "RGB8")
  <2>1. DOMAIN a = Fields /\ a.size = size
    BY BayerAdapted
  <2>2. a.coding = (IF wide THEN "RGB16" ELSE "RGB8")
    BY BayerAdapted
  <2> HIDE DEF a, wide
  <2> QED BY <2>1, <2>2
<1>3. PICK b \in IF wide THEN {HostBytes(s) : s \in D16} ELSE D8 :
         /\ o = Stored8(a, b) /\ DOMAIN b \subseteq DOMAIN a.image
         /\ in.filter \in Tiles /\ (wide \/ in.coding \in {"RAW8", "MONO8"})
  BY DebayerStored
<1>4. method = "DOWNSAMPLE" => in.size[1] % 2 = 0 /\ in.size[2] % 2 = 0
  <2> HIDE DEF a, wide, D8, D16
  <2>1. method = "DOWNSAMPLE" => ~OddSize(in)
    BY DebayerStored
  <2> QED BY <1>1, <2>1 DEF OddSize
<1> HIDE DEF a
<1>5. /\ o.out.size = size /\ o.out.coding = a.coding
      /\ \A j \in DOMAIN b : o.out.image[j] = b[j]
  <2> HIDE DEF D8, D16, size
  <2>1. /\ o.out.size = a.size /\ o.out.coding = a.coding
        /\ o.out.image = [j \in DOMAIN a.image |-> IF j \in DOMAIN b THEN b[j] ELSE a.image[j]]
    BY <1>2, <1>3, Stored8Fields
  <2> QED BY <1>2, <1>3, <2>1
<1>6. in.coding \in {"RAW16", "MONO16", "RAW8", "MONO8"}
  BY <1>3
<1>7. size[1] \in Nat /\ i \in Nat
  <2>1. size[1] \in Nat
    BY BayerAdapted
  <2> HIDE DEF size
  <2> DEFINE m == y * size[1]
  <2>2. m \in Nat
    BY <2>1
  <2>3. i = 3 * (m + x) + c
    BY DEF Offset
  <2> HIDE DEF m, i
  <2> QED BY <2>1, <2>2, <2>3
<1>8. CASE wide
  <2> DEFINE r == Raw(in, Samples16(in))
  <2>1. Wide(in) /\ Wide(o.out)
    BY <1>2, <1>5, <1>8 DEF Wide
  <2>2. Component(o.out, y, x, c) = Host(o.out.image, i)
    BY <1>5, <2>1 DEF Component, Offset
  <2>3. r.w = in.size[1] /\ r.h = in.size[2]
    BY DEF Raw
  <2> HIDE DEF r
  <2>4. \A q \in Rows(in), p \in Columns(in) : At(r, q, p) = RawSample(in, q, p)
    BY <1>6, <2>1, SamplesFit DEF r
  <2>5. N = Near(r, in.filter, Y, X, c)
    <3> HIDE DEF Y, X
    <3> QED BY <2>3, <2>4, AroundNear
  <2>6. PICK bits \in Nat : bits = in.depth
    BY <1>1
  <2>7. AllFit(r, bits)
    <3>1. \A q \in Rows(in), p \in Columns(in) : Fits(At(r, q, p), bits)
      BY <1>6, <2>1, <2>4, <2>6, SamplesFit
    <3> QED BY <2>3, <3>1 DEF AllFit, Rows, Columns
  <2>8. PICK s \in D16 : b = HostBytes(s)
    BY <1>3, <1>8
  <2>9. Mixed(r, in.filter, s, i, Y, X, c)
    <3>1. s \in bayer_decoding_16bit(in, a, method, bits, win)
      BY <2>6
    <3> HIDE DEF i, Y, X, D16
    <3>2. in.filter \in Tiles /\ in.size[1] \in Nat /\ in.size[2] \in Nat
      BY <1>1, <1>3
    <3>3. \A d \in bayer_decoding_16bit(in, a, method, bits, win) :
             /\ AllFit(r, bits) /\ ~(method = "DOWNSAMPLE" /\ GreenFirst(in.filter))
             => Mixed(r, in.filter, d, i, Y, X, c)
      BY <1>4, <3>2, DecodingMixes DEF i, Y, X, r
    <3> QED BY <2>1, <2>7, <3>1, <3>3
  <2>10. i \in DOMAIN s /\ s[i] \in Nat /\ Within(N, s[i])
    BY <2>5, <2>9 DEF Mixed
  <2> HIDE DEF N, i
  <2>11. 2 * i \in DOMAIN b /\ 2 * i + 1 \in DOMAIN b /\ Host(b, i) = s[i]
    BY <1>7, <2>8, <2>10, HostBytesBack
  <2>12. Host(o.out.image, i) = Host(b, i)
    BY <1>5, <2>11 DEF Host
  <2> QED BY <1>5, <2>2, <2>10, <2>11, <2>12 DEF N
<1>9. CASE ~wide
  <2> DEFINE r == Raw(in, in.image)
  <2>1. ~Wide(in) /\ ~Wide(o.out)
    BY <1>2, <1>3, <1>5, <1>9 DEF Wide
  <2>2. Component(o.out, y, x, c) = o.out.image[i]
    BY <1>5, <2>1 DEF Component, Offset
  <2>3. r.w = in.size[1] /\ r.h = in.size[2]
    BY DEF Raw
  <2> HIDE DEF r
  <2>4. \A q \in Rows(in), p \in Columns(in) : At(r, q, p) = RawSample(in, q, p)
    BY <1>6, <2>1, SamplesFit DEF r
  <2>5. N = Near(r, in.filter, Y, X, c)
    <3> HIDE DEF Y, X
    <3> QED BY <2>3, <2>4, AroundNear
  <2>7. AllFit(r, 8)
    <3>1. \A q \in Rows(in), p \in Columns(in) : Fits(At(r, q, p), 8)
      BY <1>6, <2>1, <2>4, SamplesFit
    <3> QED BY <2>3, <3>1 DEF AllFit, Rows, Columns
  <2>8. b \in D8
    BY <1>3, <1>9
  <2>9. Mixed(r, in.filter, b, i, Y, X, c)
    <3>1. b \in bayer_decoding_8bit(in, a, method, win)
      BY <2>8
    <3> HIDE DEF i, Y, X, D8
    <3>2. in.filter \in Tiles /\ in.size[1] \in Nat /\ in.size[2] \in Nat
      BY <1>1, <1>3
    <3>3. \A d \in bayer_decoding_8bit(in, a, method, win) :
             AllFit(r, 8) => Mixed(r, in.filter, d, i, Y, X, c)
      BY <1>4, <3>2, DecodingMixes DEF i, Y, X, r
    <3> QED BY <2>7, <3>1, <3>3
  <2>10. i \in DOMAIN b /\ Within(N, b[i])
    BY <2>5, <2>9 DEF Mixed
  <2> HIDE DEF N, i
  <2> QED BY <1>5, <2>2, <2>10 DEF N
<1> QED BY <1>8, <1>9

LEMMA DebayerMixesColours == Inv /\ hostBig \in BOOLEAN /\ Debayer => ColoursFromSamples'
<1> SUFFICES ASSUME Inv, hostBig \in BOOLEAN, Debayer PROVE ColoursFromSamples'
  OBVIOUS
<1>1. frame[1].size[1] > 4 /\ frame[1].size[2] > 3
  BY DEF Debayer
<1>2. PICK method \in Methods \cup {"none"}, fill \in Fills \cup {NoMemory}, work \in BOOLEAN :
        \E win \in IF frame[1].filter \in Tiles THEN 0 .. 2 ELSE {0} :
           \E outcome \in Debayered(frame[1], frame[2], method, fill, work, win) :
              Call(1, "debayer", method, outcome)
  BY Zenon DEF Debayer
<1>3. PICK win \in 0 .. 2 :
         \E outcome \in Debayered(frame[1], frame[2], method, fill, work, win) :
            Call(1, "debayer", method, outcome)
  <2>1. \A n \in IF frame[1].filter \in Tiles THEN 0 .. 2 ELSE {0} : n \in 0 .. 2
    OBVIOUS
  <2> QED BY <1>2, <2>1
<1>4. PICK o \in Debayered(frame[1], frame[2], method, fill, work, win) : Call(1, "debayer", method, o)
  BY <1>3
<1>5. /\ DOMAIN frame = 1 .. 3 /\ frame[1] \in Captured
      /\ MemoryOK(frame[1]) /\ MemoryOK(frame[2]) /\ DOMAIN frame[2] = Fields
  BY DEF Inv
<1>6. /\ frame'[1] = frame[1] /\ frame'[2] = o.out /\ hostBig' = hostBig
      /\ made'[2].op = "debayer" /\ made'[2].arg = method /\ made'[2].err = o.err
  <2>1. /\ frame' = [frame EXCEPT ![1 + 1] = o.out] /\ hostBig' = hostBig
        /\ made' = [j \in 2 .. 3 |-> IF j = 1 + 1 THEN [op |-> "debayer", arg |-> method, err |-> o.err]
                                    ELSE IF j > 1 THEN NotMade ELSE made[j]]
    BY <1>4 DEF Call
  <2> QED BY <1>5, <2>1
<1>7. Described(frame[1])
  BY <1>5, FramesAssumption
<1>8. Wide(frame[1])' = Wide(frame[1]) /\ frame'[1].filter = frame[1].filter
  BY <1>6 DEF Wide
<1> SUFFICES ASSUME o.err = "SUCCESS", method \in Mixing, Readable(frame[1])',
                    ~(method = "DOWNSAMPLE" /\ Wide(frame[1]) /\ GreenFirst(frame[1].filter))
             PROVE  Blended(made[2].arg, frame[1], frame[2])'
  BY <1>6, <1>8 DEF ColoursFromSamples, Decoded, Made, Mixing
<1> SUFFICES ASSUME NEW p \in (IF made[2].arg = "DOWNSAMPLE" THEN Rows(frame[2]) \X Columns(frame[2])
                               ELSE Inside(frame[1], made[2].arg))', NEW c \in 0 .. 2
             PROVE  Within(IF made[2].arg = "DOWNSAMPLE"
                           THEN Around(frame[1], 2 * p[1] + 1, 2 * p[2] + 1, c)
                           ELSE Around(frame[1], p[1], p[2], c),
                           Component(frame[2], p[1], p[2], c))'
  BY Zenon DEF Blended, Within
<1>9. Readable(frame[1])
  BY <1>6 DEF Readable, RawSample, Host, Wide, Rows, Columns
<1> DEFINE y == p[1]  x == p[2]  N(b, a) == Around(frame[1], b, a, c)
           v == Component(o.out, y, x, c)
<1>10. ASSUME NEW b, NEW a PROVE N(b, a)' = N(b, a)
  BY <1>6 DEF Around, RawSample, Host, Wide, Rows, Columns, ColourAt
<1>11. Component(frame[2], y, x, c)' = v
  BY <1>6 DEF Component, Host, Wide
<1>12. /\ method = "DOWNSAMPLE" => o.out.size = DecodedSize(frame[1].size, method)
       /\ frame[1].size[1] \in Nat /\ frame[1].size[2] \in Nat
  <2>1. frame[1].size[1] \in Nat /\ frame[1].size[2] \in Nat
    BY <1>7 DEF Described
  <2>2. ASSUME method = "DOWNSAMPLE" PROVE o.out.size = DecodedSize(frame[1].size, method)
    <3>1. 0 \in Nat /\ 0 \in 0 .. 2
      OBVIOUS
    <3>2. Reached(method, frame[1].size, 0, 0)
      BY <1>1, <2>1, <2>2 DEF Reached
    <3> QED BY <1>1, <1>4, <1>5, <1>7, <1>9, <3>1, <3>2, DebayerMixes
  <2> QED BY <2>1, <2>2
<1>13. y \in Nat /\ x \in Nat /\ Reached(method, frame[1].size, y, x)
  <2>1. CASE method = "DOWNSAMPLE"
    <3>1. p \in Rows(o.out) \X Columns(o.out)
      BY <1>6, <2>1 DEF Rows, Columns
    <3>2. y \in 0 .. (frame[1].size[2] \div 2) - 1 /\ x \in 0 .. (frame[1].size[1] \div 2) - 1
      BY <1>12, <2>1, <3>1 DEF Rows, Columns, DecodedSize
    <3> HIDE DEF y, x
    <3> QED BY <1>12, <2>1, <3>2 DEF Reached
  <2>2. CASE method # "DOWNSAMPLE"
    <3>1. p \in Inside(frame[1], method)
      BY <1>6, <2>2 DEF Inside, Rows, Columns
    <3>2. CASE method = "BILINEAR"
      <4>1. y \in 1 .. frame[1].size[2] - 1 - 1 /\ x \in 1 .. frame[1].size[1] - 1 - 1
        BY <3>1, <3>2 DEF Inside, Edge, Rows, Columns
      <4> HIDE DEF y, x
      <4> QED BY <1>12, <3>2, <4>1 DEF Reached
    <3>3. CASE method \in {"NEAREST", "SIMPLE"}
      <4>1. y \in 0 .. frame[1].size[2] - 1 - 1 /\ x \in 0 .. frame[1].size[1] - 1 - 1
        BY <3>1, <3>3 DEF Inside, Edge, Rows, Columns
      <4> HIDE DEF y, x
      <4> QED BY <1>12, <3>3, <4>1 DEF Reached
    <3> QED BY <2>2, <3>2, <3>3 DEF Mixing
  <2> QED BY <2>1, <2>2
<1>14. Within(N(Centre(method, y), Centre(method, x)), v)
  <2> HIDE DEF y, x
  <2> QED BY <1>1, <1>4, <1>5, <1>7, <1>9, <1>13, DebayerMixes
<1>15. CASE method = "DOWNSAMPLE"
  <2>1. Centre(method, y) = 2 * y + 1 /\ Centre(method, x) = 2 * x + 1
    BY <1>15 DEF Centre
  <2>2. N(2 * y + 1, 2 * x + 1)' = N(2 * y + 1, 2 * x + 1)
    BY <1>10
  <2> HIDE DEF N, v, y, x
  <2>3. Within(N(2 * y + 1, 2 * x + 1)', v)
    BY <1>14, <2>1, <2>2, Zenon
  <2> QED BY <1>6, <1>11, <1>15, <2>3, Zenon DEF N, y, x, Within
<1>16. CASE method # "DOWNSAMPLE"
  <2>1. Centre(method, y) = y /\ Centre(method, x) = x
    BY <1>16 DEF Centre
  <2>2. N(y, x)' = N(y, x)
    BY <1>10
  <2> HIDE DEF N, v, y, x
  <2>3. Within(N(y, x)', v)
    BY <1>14, <2>1, <2>2, Zenon
  <2> QED BY <1>6, <1>11, <1>16, <2>3, Zenon DEF N, y, x, Within
<1> QED BY <1>15, <1>16

LEMMA OthersKeepColours ==
    ASSUME Inv, ColoursFromSamples, Convert(1) \/ Convert(2) \/ Deinterlace \/ Capture \/ UNCHANGED vars
    PROVE  ColoursFromSamples'
<1>1. CASE made'[2].op # "debayer"
  BY <1>1 DEF ColoursFromSamples, Decoded, Made
<1>2. CASE /\ frame'[1] = frame[1] /\ frame'[2] = frame[2]
           /\ made'[2] = made[2] /\ hostBig' = hostBig
  <2>1. Readable(frame[1])' = Readable(frame[1])
    BY <1>2 DEF Readable, RawSample, Host, Wide, Rows, Columns
  <2>2. Wide(frame[1])' = Wide(frame[1])
    BY <1>2 DEF Wide
  <2>3. ASSUME NEW b, NEW a, NEW c PROVE Around(frame[1], b, a, c)' = Around(frame[1], b, a, c)
    BY <1>2 DEF Around, RawSample, Host, Wide, Rows, Columns, ColourAt
  <2>4. ASSUME NEW b, NEW a, NEW c PROVE Component(frame[2], b, a, c)' = Component(frame[2], b, a, c)
    BY <1>2 DEF Component, Host, Wide
  <2>5. SUFFICES ASSUME Decoded(Mixing)',
                        ~(made[2].arg = "DOWNSAMPLE" /\ Wide(frame[1]) /\ GreenFirst(frame[1].filter))'
                 PROVE  Blended(made[2].arg, frame[1], frame[2])'
    BY DEF ColoursFromSamples, Mixing
  <2>6. Blended(made[2].arg, frame[1], frame[2])
    BY <1>2, <2>1, <2>2, <2>5 DEF ColoursFromSamples, Decoded, Made, Mixing
  <2> SUFFICES ASSUME NEW p \in (IF made[2].arg = "DOWNSAMPLE" THEN Rows(frame[2]) \X Columns(frame[2])
                                 ELSE Inside(frame[1], made[2].arg))', NEW c \in 0 .. 2
               PROVE  Within(IF made[2].arg = "DOWNSAMPLE"
                             THEN Around(frame[1], 2 * p[1] + 1, 2 * p[2] + 1, c)
                             ELSE Around(frame[1], p[1], p[2], c),
                             Component(frame[2], p[1], p[2], c))'
    BY Zenon DEF Blended, Within
  <2>7. p \in IF made[2].arg = "DOWNSAMPLE" THEN Rows(frame[2]) \X Columns(frame[2])
              ELSE Inside(frame[1], made[2].arg)
    BY <1>2 DEF Inside, Rows, Columns
  <2>8. Within(IF made[2].arg = "DOWNSAMPLE"
               THEN Around(frame[1], 2 * p[1] + 1, 2 * p[2] + 1, c)
               ELSE Around(frame[1], p[1], p[2], c),
               Component(frame[2], p[1], p[2], c))
    BY <2>6, <2>7, Zenon DEF Blended, Within
  <2>9. /\ Around(frame[1], 2 * p[1] + 1, 2 * p[2] + 1, c)' = Around(frame[1], 2 * p[1] + 1, 2 * p[2] + 1, c)
        /\ Around(frame[1], p[1], p[2], c)' = Around(frame[1], p[1], p[2], c)
    BY <2>3
  <2>10. Component(frame[2], p[1], p[2], c)' = Component(frame[2], p[1], p[2], c)
    BY <2>4
  <2>11. CASE made[2].arg = "DOWNSAMPLE"
    <3>1. made'[2].arg = "DOWNSAMPLE"
      BY <1>2, <2>11, Zenon
    <3> QED BY <2>8, <2>9, <2>10, <2>11, <3>1, Zenon DEF Within
  <2>12. CASE made[2].arg # "DOWNSAMPLE"
    <3>1. made'[2].arg # "DOWNSAMPLE"
      BY <1>2, <2>12, Zenon
    <3> QED BY <2>8, <2>9, <2>10, <2>12, <3>1, Zenon DEF Within
  <2> QED BY <2>11, <2>12
<1> QED BY <1>1, <1>2, OthersLeave

\* What a pixel has of a colour lies between samples of that colour around it.
THEOREM ColoursStay == Spec => []ColoursFromSamples
<1> DEFINE J == Inv /\ hostBig \in BOOLEAN /\ ColoursFromSamples
<1>1. Init => J
  <2> SUFFICES ASSUME Init PROVE J
    OBVIOUS
  <2>1. hostBig \in BOOLEAN
    BY DEF Init
  <2>2. made[2].op # "debayer"
    BY DEF Init, NotMade
  <2>3. ColoursFromSamples
    BY <2>2 DEF ColoursFromSamples, Decoded, Made
  <2> QED BY <2>1, <2>3, Starts
<1>2. J /\ [Next]_vars => J'
  <2> SUFFICES ASSUME J, [Next]_vars PROVE J'
    OBVIOUS
  <2>1. Inv'
    BY Keeps
  <2>2. hostBig' \in BOOLEAN
    <3>1. hostBig' = hostBig
      BY Zenon DEF Next, Debayer, Convert, Deinterlace, Capture, Call, vars
    <3> QED BY <3>1
  <2>3. ColoursFromSamples'
    BY DebayerMixesColours, OthersKeepColours DEF Next
  <2> QED BY <2>1, <2>2, <2>3
<1>3. J => ColoursFromSamples
  OBVIOUS
<1> QED BY <1>1, <1>2, <1>3, PTL DEF Spec

-----------------------------------------------------------------------------
(* What pictures show, in whatever coding.                                 *)

\* 2 * m pixels in YUV422: luma of each, chroma of every two.
Packed(b, m, order, y, u, v) ==
    \A p \in 0 .. m - 1, r \in 0 .. 3 :
        b[4 * p + r] = Pair(order, y[2 * p], u[p], y[2 * p + 1], v[p])[r + 1]

LEMMA InQuad ==
    ASSUME NEW m \in Nat, NEW p \in 0 .. m - 1, NEW r \in 0 .. 3, NEW j, j = 4 * p + r
    PROVE  j \in 0 .. 4 * m - 1 /\ j \div 4 = p /\ j % 4 = r
OBVIOUS

LEMMA OfQuad ==
    ASSUME NEW m \in Nat, NEW j \in 0 .. 4 * m - 1
    PROVE  j \div 4 \in 0 .. m - 1 /\ j % 4 \in 0 .. 3 /\ j = 4 * (j \div 4) + (j % 4)
OBVIOUS

\* The same pixels in the same order are the same bytes.
LEMMA PackedAlike ==
    ASSUME NEW m \in Nat, NEW order, NEW y, NEW u, NEW v, NEW b, NEW d,
           Packed(b, m, order, y, u, v), Packed(d, m, order, y, u, v)
    PROVE  \A j \in 0 .. 4 * m - 1 : b[j] = d[j]
<1> TAKE j \in 0 .. 4 * m - 1
<1> DEFINE p == j \div 4  r == j % 4
<1>1. p \in 0 .. m - 1 /\ r \in 0 .. 3 /\ j = 4 * p + r
  BY OfQuad
<1> HIDE DEF p, r
<1>2. b[4 * p + r] = d[4 * p + r]
  BY <1>1 DEF Packed
<1> QED BY <1>1, <1>2

LEMMA ReadPacked ==
    ASSUME NEW m \in Nat, NEW order \in Orders, NEW y, NEW u, NEW v, NEW b, Packed(b, m, order, y, u, v),
           NEW p \in 0 .. m - 1
    PROVE  /\ b[Luma(order, p, 0)] = y[2 * p] /\ b[Luma(order, p, 1)] = y[2 * p + 1]
           /\ b[ChromaU(order, p)] = u[p] /\ b[ChromaV(order, p)] = v[p]
<1> DEFINE q == Pair(order, y[2 * p], u[p], y[2 * p + 1], v[p])
<1>1. /\ b[4 * p + 0] = q[1] /\ b[4 * p + 1] = q[2] /\ b[4 * p + 2] = q[3] /\ b[4 * p + 3] = q[4]
  <2>1. \A r \in 0 .. 3 : b[4 * p + r] = q[r + 1]
    BY DEF Packed
  <2> HIDE DEF q
  <2> QED BY <2>1
<1>2. CASE order = "YUYV"
  <2>1. q = <<y[2 * p], u[p], y[2 * p + 1], v[p]>>
    BY <1>2 DEF Pair
  <2>2. /\ Luma(order, p, 0) = 4 * p + 0 /\ Luma(order, p, 1) = 4 * p + 2
        /\ ChromaU(order, p) = 4 * p + 1 /\ ChromaV(order, p) = 4 * p + 3
    BY <1>2 DEF Luma, ChromaU, ChromaV
  <2> HIDE DEF q
  <2> QED BY <1>1, <2>1, <2>2
<1>3. CASE order = "UYVY"
  <2>1. q = <<u[p], y[2 * p], v[p], y[2 * p + 1]>>
    BY <1>3 DEF Pair
  <2>2. /\ Luma(order, p, 0) = 4 * p + 1 /\ Luma(order, p, 1) = 4 * p + 3
        /\ ChromaU(order, p) = 4 * p + 0 /\ ChromaV(order, p) = 4 * p + 2
    BY <1>3 DEF Luma, ChromaU, ChromaV
  <2> HIDE DEF q
  <2> QED BY <1>1, <2>1, <2>2
<1> QED BY <1>2, <1>3 DEF Orders

\* Only the order of the bytes changes.
LEMMA Reordered ==
    ASSUME NEW m \in Nat, NEW n, n = 2 * m, NEW order \in Orders, NEW y, NEW u, NEW v, NEW b,
           Packed(b, m, "UYVY", y, u, v)
    PROVE  Packed(YUV422_to_YUV422(b, n, order), m, order, y, u, v)
<1> SUFFICES ASSUME NEW p \in 0 .. m - 1, NEW r \in 0 .. 3
             PROVE  YUV422_to_YUV422(b, n, order)[4 * p + r]
                      = Pair(order, y[2 * p], u[p], y[2 * p + 1], v[p])[r + 1]
  BY DEF Packed
<1> DEFINE j == 4 * p + r  q == Pair("UYVY", y[2 * p], u[p], y[2 * p + 1], v[p])
           s == Pair(order, y[2 * p], u[p], y[2 * p + 1], v[p])
<1>1. j \in 0 .. 2 * n - 1
  OBVIOUS
<1>2. /\ b[4 * p + 0] = q[1] /\ b[4 * p + 1] = q[2] /\ b[4 * p + 2] = q[3] /\ b[4 * p + 3] = q[4]
  <2>1. \A k \in 0 .. 3 : b[4 * p + k] = q[k + 1]
    BY DEF Packed
  <2> HIDE DEF q
  <2> QED BY <2>1
<1>3. YUV422_to_YUV422(b, n, order)[j]
        = IF order = "UYVY" THEN b[j] ELSE b[IF j % 2 = 0 THEN j + 1 ELSE j - 1]
  <2> HIDE DEF j
  <2> QED BY <1>1 DEF YUV422_to_YUV422
<1>4. q = <<u[p], y[2 * p], v[p], y[2 * p + 1]>>
  BY DEF Pair
<1>5. CASE order = "UYVY"
  <2>1. s = q
    BY <1>5
  <2>2. b[4 * p + r] = q[r + 1]
    BY DEF Packed
  <2> QED BY <1>3, <1>5, <2>1, <2>2
<1>6. CASE order = "YUYV"
  <2>1. s = <<y[2 * p], u[p], y[2 * p + 1], v[p]>>
    BY <1>6 DEF Pair
  <2>2. \/ r = 0 /\ j % 2 = 0 /\ j + 1 = 4 * p + 1
        \/ r = 1 /\ j % 2 = 1 /\ j - 1 = 4 * p + 0
        \/ r = 2 /\ j % 2 = 0 /\ j + 1 = 4 * p + 3
        \/ r = 3 /\ j % 2 = 1 /\ j - 1 = 4 * p + 2
    OBVIOUS
  <2> HIDE DEF s, q, j
  <2>3. YUV422_to_YUV422(b, n, order)[j] = s[r + 1]
    BY <1>2, <1>3, <1>4, <1>6, <2>1, <2>2
  <2> QED BY <2>3 DEF s, j
<1> QED BY <1>5, <1>6 DEF Orders

\* What the conversions to YUV422 put into their bytes.
LEMMA Packs ==
    ASSUME NEW m \in Nat, NEW order, NEW b, NEW y, NEW u, NEW v,
           NEW Q, b = [j \in 0 .. 2 * (2 * m) - 1 |-> Q[j \div 4][(j % 4) + 1]],
           \A p \in 0 .. m - 1 : Q[p] = Pair(order, y[2 * p], u[p], y[2 * p + 1], v[p])
    PROVE  Packed(b, m, order, y, u, v)
<1> SUFFICES ASSUME NEW p \in 0 .. m - 1, NEW r \in 0 .. 3
             PROVE  b[4 * p + r] = Pair(order, y[2 * p], u[p], y[2 * p + 1], v[p])[r + 1]
  BY DEF Packed
<1> DEFINE j == 4 * p + r
<1>1. j \in 0 .. 4 * m - 1 /\ j \div 4 = p /\ j % 4 = r
  BY InQuad, ZenonT(40)
<1>2. 2 * (2 * m) = 4 * m
  OBVIOUS
<1> HIDE DEF j
<1>3. b[j] = Q[j \div 4][(j % 4) + 1]
  BY <1>1, <1>2
<1>4. b[j] = Q[p][r + 1]
  BY <1>1, <1>3
<1> QED BY <1>4 DEF j

Luma411s(b, m) == [k \in 0 .. 2 * m - 1 |-> Luma411(b, k)]
Chromas411(b, m, first) == [p \in 0 .. m - 1 |-> b[6 * (p \div 2) + first]]

LEMMA Packs411 ==
    ASSUME NEW m \in Nat, NEW n, n = 2 * m, NEW order, NEW b
    PROVE  Packed(YUV411_to_YUV422(b, n, order), m, order,
                  Luma411s(b, m), Chromas411(b, m, 0), Chromas411(b, m, 3))
<1> DEFINE Q == [p \in 0 .. m - 1 |-> Pair(order, Luma411(b, 2 * p), b[6 * (p \div 2)],
                                                  Luma411(b, 2 * p + 1), b[6 * (p \div 2) + 3])]
           y == Luma411s(b, m)  u == Chromas411(b, m, 0)  v == Chromas411(b, m, 3)
           d == YUV411_to_YUV422(b, n, order)
<1>1. d = [j \in 0 .. 2 * (2 * m) - 1 |-> Q[j \div 4][(j % 4) + 1]]
  <2>1. d = [j \in 0 .. 2 * n - 1 |->
               Pair(order, Luma411(b, 2 * (j \div 4)), b[6 * ((j \div 4) \div 2)],
                    Luma411(b, 2 * (j \div 4) + 1), b[6 * ((j \div 4) \div 2) + 3])[(j % 4) + 1]]
    BY DEF YUV411_to_YUV422
  <2>2. \A j \in 0 .. 2 * (2 * m) - 1 : j \div 4 \in 0 .. m - 1
    OBVIOUS
  <2> QED BY <2>1, <2>2
<1>2. \A p \in 0 .. m - 1 : Q[p] = Pair(order, y[2 * p], u[p], y[2 * p + 1], v[p])
  <2> TAKE p \in 0 .. m - 1
  <2>1. /\ 2 * p \in 0 .. 2 * m - 1 /\ 2 * p + 1 \in 0 .. 2 * m - 1
        /\ 6 * (p \div 2) + 0 = 6 * (p \div 2)
    OBVIOUS
  <2>2. /\ y[2 * p] = Luma411(b, 2 * p) /\ y[2 * p + 1] = Luma411(b, 2 * p + 1)
    BY <2>1 DEF Luma411s
  <2>3. u[p] = b[6 * (p \div 2)] /\ v[p] = b[6 * (p \div 2) + 3]
    BY <2>1 DEF Chromas411
  <2> HIDE DEF y, u, v
  <2> QED BY <2>2, <2>3
<1> HIDE DEF Q, y, u, v, d
<1>3. Packed(d, m, order, y, u, v)
  BY <1>1, <1>2, Packs
<1> QED BY <1>3 DEF y, u, v, d

\* Through YUV422 or not, YUV411 ends in the same colours.
LEMMA Paints411 ==
    ASSUME NEW m \in Nat, NEW n, n = 2 * m, NEW order \in Orders, NEW b, NEW d,
           Packed(d, m, order, Luma411s(b, m), Chromas411(b, m, 0), Chromas411(b, m, 3))
    PROVE  \A j \in 0 .. 3 * n - 1 : YUV422_to_RGB8(d, n, order)[j] = YUV411_to_RGB8(b, n)[j]
<1> TAKE j \in 0 .. 3 * n - 1
<1> DEFINE p == j \div 6  i == (j \div 3) % 2
<1>1. /\ p \in 0 .. m - 1 /\ i \in {0, 1} /\ 2 * p + i = j \div 3 /\ p \div 2 = j \div 12
      /\ 2 * p + i \in 0 .. 2 * m - 1
  OBVIOUS
<1>2. YUV422_to_RGB8(d, n, order)[j]
        = YUV2RGB(d[Luma(order, p, i)], d[ChromaU(order, p)], d[ChromaV(order, p)])[(j % 3) + 1]
  BY DEF YUV422_to_RGB8
<1>3. YUV411_to_RGB8(b, n)[j]
        = YUV2RGB(Luma411(b, j \div 3), b[6 * (j \div 12)], b[6 * (j \div 12) + 3])[(j % 3) + 1]
  BY DEF YUV411_to_RGB8
<1> HIDE DEF p, i
<1>4. /\ d[Luma(order, p, 0)] = Luma411s(b, m)[2 * p] /\ d[Luma(order, p, 1)] = Luma411s(b, m)[2 * p + 1]
      /\ d[ChromaU(order, p)] = Chromas411(b, m, 0)[p] /\ d[ChromaV(order, p)] = Chromas411(b, m, 3)[p]
  BY <1>1, ReadPacked
<1>5. Luma411s(b, m)[2 * p + i] = Luma411(b, 2 * p + i)
  BY <1>1 DEF Luma411s
<1>6. d[Luma(order, p, i)] = Luma411(b, j \div 3)
  <2>1. CASE i = 0
    <3>1. 2 * p + i = 2 * p
      BY <1>1, <2>1
    <3> QED BY <1>1, <1>4, <1>5, <2>1, <3>1, Zenon
  <2>2. CASE i = 1
    BY <1>1, <1>4, <1>5, <2>2, Zenon
  <2> QED BY <1>1, <2>1, <2>2
<1>7. d[ChromaU(order, p)] = b[6 * (j \div 12)] /\ d[ChromaV(order, p)] = b[6 * (j \div 12) + 3]
  <2>1. 6 * (p \div 2) + 0 = 6 * (j \div 12) /\ 6 * (p \div 2) + 3 = 6 * (j \div 12) + 3
    BY <1>1
  <2>2. Chromas411(b, m, 0)[p] = b[6 * (p \div 2) + 0] /\ Chromas411(b, m, 3)[p] = b[6 * (p \div 2) + 3]
    BY <1>1 DEF Chromas411
  <2> QED BY <1>4, <2>1, <2>2, Zenon
<1> QED BY <1>2, <1>3, <1>6, <1>7, Zenon

\* A picture in grey: a value for each pixel.
NoChroma(m) == [p \in 0 .. m - 1 |-> 128]
Grey(b, coding, m, order, bits, g) ==
    /\ coding \in {"MONO8", "RAW8"} => \A k \in 0 .. 2 * m - 1 : b[k] = g[k]
    /\ coding \in {"MONO16", "RAW16"} => \A k \in 0 .. 2 * m - 1 : High(b, k, bits) = g[k]
    /\ coding = "RGB8" => \A j \in 0 .. 3 * (2 * m) - 1 : b[j] = g[j \div 3]
    /\ coding = "YUV422" => Packed(b, m, order, g, NoChroma(m), NoChroma(m))

LEMMA PacksGrey ==
    ASSUME NEW m \in Nat, NEW order, NEW b, NEW g,
           b = [j \in 0 .. 2 * (2 * m) - 1 |->
                   Pair(order, g[2 * (j \div 4)], 128, g[2 * (j \div 4) + 1], 128)[(j % 4) + 1]]
    PROVE  Packed(b, m, order, g, NoChroma(m), NoChroma(m))
<1> DEFINE Q == [p \in 0 .. m - 1 |-> Pair(order, g[2 * p], 128, g[2 * p + 1], 128)]
<1>1. \A j \in 0 .. 2 * (2 * m) - 1 : j \div 4 \in 0 .. m - 1
  OBVIOUS
<1>2. b = [j \in 0 .. 2 * (2 * m) - 1 |-> Q[j \div 4][(j % 4) + 1]]
  BY <1>1
<1>3. \A p \in 0 .. m - 1 :
         Q[p] = Pair(order, g[2 * p], NoChroma(m)[p], g[2 * p + 1], NoChroma(m)[p])
  BY DEF NoChroma
<1> HIDE DEF Q
<1> QED BY <1>2, <1>3, Packs

\* Grey stays grey in the arithmetic of either direction.
LEMMA GreyColours ==
    ASSUME NEW s \in 0 .. 255
    PROVE  YUV2RGB(s, 128, 128) = <<s, s, s>> /\ RGB2YUV(s, s, s) = <<s, 128, 128>>
<1>1. /\ s + ((128 - 128) * 1436) \div 1024 = s
      /\ s - ((128 - 128) * 352 + (128 - 128) * 731) \div 1024 = s
      /\ s + ((128 - 128) * 1814) \div 1024 = s
  OBVIOUS
<1>2. /\ (306 * s + 601 * s + 117 * s) \div 1024 = s
      /\ ((-172 * s) - 340 * s + 512 * s) \div 1024 + 128 = 128
      /\ (512 * s - 429 * s - 83 * s) \div 1024 + 128 = 128
  <2>1. /\ 306 * s + 601 * s + 117 * s = 1024 * s
        /\ (-172 * s) - 340 * s + 512 * s = 0
        /\ 512 * s - 429 * s - 83 * s = 0
    OBVIOUS
  <2>2. (1024 * s) \div 1024 = s /\ 0 \div 1024 + 128 = 128
    OBVIOUS
  <2> QED BY <2>1, <2>2
<1>3. Limit(s) = s /\ Limit(128) = 128
  BY DEF Limit
<1> DEFINE e1 == s + ((128 - 128) * 1436) \div 1024
           e2 == s - ((128 - 128) * 352 + (128 - 128) * 731) \div 1024
           e3 == s + ((128 - 128) * 1814) \div 1024
           f1 == (306 * s + 601 * s + 117 * s) \div 1024
           f2 == ((-172 * s) - 340 * s + 512 * s) \div 1024 + 128
           f3 == (512 * s - 429 * s - 83 * s) \div 1024 + 128
<1>4. YUV2RGB(s, 128, 128) = <<Limit(e1), Limit(e2), Limit(e3)>>
  BY Zenon DEF YUV2RGB
<1>5. RGB2YUV(s, s, s) = <<Limit(f1), Limit(f2), Limit(f3)>>
  BY Zenon DEF RGB2YUV
<1>6. e1 = s /\ e2 = s /\ e3 = s /\ f1 = s /\ f2 = 128 /\ f3 = 128
  BY <1>1, <1>2
<1> HIDE DEF e1, e2, e3, f1, f2, f3
<1>7. YUV2RGB(s, 128, 128) = <<s, s, s>>
  BY <1>3, <1>4, <1>6, Zenon
<1>8. RGB2YUV(s, s, s) = <<s, 128, 128>>
  BY <1>3, <1>5, <1>6, Zenon
<1> QED BY <1>7, <1>8

GreyCodings == {"MONO8", "RAW8", "MONO16", "RAW16", "RGB8", "YUV422"}

LEMMA PixelOfRow ==
    ASSUME NEW w \in Nat, NEW h \in Nat, NEW n, n = w * h, NEW k \in 0 .. n - 1
    PROVE  k % w # w /\ (k \div w) * w + (k % w) = k
<1>1. w > 0
  <2>1. w = 0 => n = 0
    OBVIOUS
  <2>2. n \in Nat
    OBVIOUS
  <2> QED BY <2>1, <2>2
<1>2. k \in Nat
  OBVIOUS
<1>3. k % w \in 0 .. w - 1 /\ k = (k \div w) * w + (k % w)
  BY <1>1, <1>2, Divided
<1> QED BY <1>3

LEMMA GreyFromMono8 ==
    ASSUME NEW m \in Nat, NEW w \in Nat, NEW h \in Nat, w * h = 2 * m, w % 2 = 0, NEW order, NEW b, NEW g,
           \A k \in 0 .. 2 * m - 1 : b[k] = g[k]
    PROVE  Packed(MONO8_to_YUV422(b, w, h, order), m, order, g, NoChroma(m), NoChroma(m))
<1> DEFINE padded == w + (w % 2)
           Y(k) == b[(k \div padded) * w + (IF k % padded = w THEN (k % padded) - 1 ELSE k % padded)]
           d == MONO8_to_YUV422(b, w, h, order)
<1>1. padded = w
  OBVIOUS
<1>2. d = [j \in 0 .. 2 * padded * h - 1 |->
             Pair(order, Y(2 * (j \div 4)), 128, Y(2 * (j \div 4) + 1), 128)[(j % 4) + 1]]
  BY DEF MONO8_to_YUV422
<1>3. 2 * padded * h = 2 * (2 * m)
  <2> HIDE DEF padded
  <2>1. 2 * padded * h = 2 * (w * h)
    BY <1>1
  <2> QED BY <2>1
<1>4. ASSUME NEW k \in 0 .. 2 * m - 1 PROVE Y(k) = g[k]
  <2>1. k % w # w /\ (k \div w) * w + (k % w) = k
    BY PixelOfRow
  <2>2. Y(k) = b[(k \div w) * w + (IF k % w = w THEN (k % w) - 1 ELSE k % w)]
    BY <1>1
  <2>3. Y(k) = b[(k \div w) * w + (k % w)]
    BY <2>1, <2>2, Zenon
  <2>4. Y(k) = b[k]
    BY <2>1, <2>3, Zenon
  <2> QED BY <2>4
<1> HIDE DEF Y, d, padded
<1>5. \A j \in 0 .. 2 * (2 * m) - 1 : Y(2 * (j \div 4)) = g[2 * (j \div 4)] /\ Y(2 * (j \div 4) + 1) = g[2 * (j \div 4) + 1]
  <2> TAKE j \in 0 .. 2 * (2 * m) - 1
  <2>1. 2 * (j \div 4) \in 0 .. 2 * m - 1 /\ 2 * (j \div 4) + 1 \in 0 .. 2 * m - 1
    OBVIOUS
  <2> QED BY <1>4, <2>1
<1>6. d = [j \in 0 .. 2 * (2 * m) - 1 |->
             Pair(order, g[2 * (j \div 4)], 128, g[2 * (j \div 4) + 1], 128)[(j % 4) + 1]]
  BY <1>2, <1>3, <1>5
<1> QED BY <1>6, PacksGrey DEF d

LEMMA GreyFromMono16 ==
    ASSUME NEW m \in Nat, NEW n, n = 2 * m, NEW order, NEW b, NEW bits, NEW g,
           \A k \in 0 .. 2 * m - 1 : High(b, k, bits) = g[k]
    PROVE  Packed(MONO16_to_YUV422(b, n, order, bits), m, order, g, NoChroma(m), NoChroma(m))
<1> DEFINE Y(k) == High(b, k, bits)  d == MONO16_to_YUV422(b, n, order, bits)
<1>1. d = [j \in 0 .. 2 * (2 * m) - 1 |->
             Pair(order, Y(2 * (j \div 4)), 128, Y(2 * (j \div 4) + 1), 128)[(j % 4) + 1]]
  BY DEF MONO16_to_YUV422
<1>2. \A j \in 0 .. 2 * (2 * m) - 1 : Y(2 * (j \div 4)) = g[2 * (j \div 4)] /\ Y(2 * (j \div 4) + 1) = g[2 * (j \div 4) + 1]
  <2> TAKE j \in 0 .. 2 * (2 * m) - 1
  <2>1. 2 * (j \div 4) \in 0 .. 2 * m - 1 /\ 2 * (j \div 4) + 1 \in 0 .. 2 * m - 1
    OBVIOUS
  <2> QED BY <2>1
<1> HIDE DEF Y, d
<1>3. d = [j \in 0 .. 2 * (2 * m) - 1 |->
             Pair(order, g[2 * (j \div 4)], 128, g[2 * (j \div 4) + 1], 128)[(j % 4) + 1]]
  BY <1>1, <1>2
<1> QED BY <1>3, PacksGrey DEF d

LEMMA GreyFromRGB ==
    ASSUME NEW m \in Nat, NEW n, n = 2 * m, NEW order, NEW b, NEW g,
           \A k \in 0 .. 2 * m - 1 : g[k] \in 0 .. 255,
           \A j \in 0 .. 3 * (2 * m) - 1 : b[j] = g[j \div 3]
    PROVE  Packed(RGB8_to_YUV422(b, n, order), m, order, g, NoChroma(m), NoChroma(m))
<1> DEFINE S(k) == Shared(order, RGB2YUV(b[k], b[k + 1], b[k + 2]), RGB2YUV(b[k + 3], b[k + 4], b[k + 5]))
           d == RGB8_to_YUV422(b, n, order)
<1>1. d = [j \in 0 .. 2 * (2 * m) - 1 |-> S(6 * (j \div 4))[(j % 4) + 1]]
  BY DEF RGB8_to_YUV422
<1>2. ASSUME NEW p \in 0 .. m - 1
      PROVE  S(6 * p) = Pair(order, g[2 * p], 128, g[2 * p + 1], 128)
  <2> DEFINE k == 6 * p
  <2>1. /\ k \in 0 .. 3 * (2 * m) - 1 /\ k + 1 \in 0 .. 3 * (2 * m) - 1 /\ k + 2 \in 0 .. 3 * (2 * m) - 1
        /\ k + 3 \in 0 .. 3 * (2 * m) - 1 /\ k + 4 \in 0 .. 3 * (2 * m) - 1 /\ k + 5 \in 0 .. 3 * (2 * m) - 1
        /\ k \div 3 = 2 * p /\ (k + 1) \div 3 = 2 * p /\ (k + 2) \div 3 = 2 * p
        /\ (k + 3) \div 3 = 2 * p + 1 /\ (k + 4) \div 3 = 2 * p + 1 /\ (k + 5) \div 3 = 2 * p + 1
    OBVIOUS
  <2>2. 2 * p \in 0 .. 2 * m - 1 /\ 2 * p + 1 \in 0 .. 2 * m - 1
    OBVIOUS
  <2> HIDE DEF k
  <2>3. /\ b[k] = g[2 * p] /\ b[k + 1] = g[2 * p] /\ b[k + 2] = g[2 * p]
        /\ b[k + 3] = g[2 * p + 1] /\ b[k + 4] = g[2 * p + 1] /\ b[k + 5] = g[2 * p + 1]
    BY <2>1
  <2> DEFINE s == g[2 * p]  t == g[2 * p + 1]
  <2>4. s \in 0 .. 255 /\ t \in 0 .. 255
    BY <2>2
  <2>5. S(k) = Shared(order, RGB2YUV(s, s, s), RGB2YUV(t, t, t))
    BY <2>3, Zenon
  <2> HIDE DEF s, t
  <2>6. RGB2YUV(s, s, s) = <<s, 128, 128>> /\ RGB2YUV(t, t, t) = <<t, 128, 128>>
    BY <2>4, GreyColours
  <2>7. (128 + 128) \div 2 = 128
    OBVIOUS
  <2> HIDE DEF S
  <2>8. S(k) = Pair(order, s, 128, t, 128)
    BY <2>5, <2>6, <2>7 DEF Shared
  <2> QED BY <2>8 DEF k, s, t
<1> HIDE DEF S
<1>3. \A j \in 0 .. 2 * (2 * m) - 1 : j \div 4 \in 0 .. m - 1
  OBVIOUS
<1> HIDE DEF d
<1>4. d = [j \in 0 .. 2 * (2 * m) - 1 |->
             Pair(order, g[2 * (j \div 4)], 128, g[2 * (j \div 4) + 1], 128)[(j % 4) + 1]]
  BY <1>1, <1>2, <1>3
<1> QED BY <1>4, PacksGrey DEF d

LEMMA GreyToYUV422 ==
    ASSUME NEW m \in Nat, NEW w \in Nat, NEW h \in Nat, w * h = 2 * m, w % 2 = 0,
           NEW order, NEW from \in GreyCodings, NEW read, from = "YUV422" => read = "UYVY",
           NEW bits, NEW b, NEW g, \A k \in 0 .. 2 * m - 1 : g[k] \in 0 .. 255,
           Grey(b, from, m, read, bits, g),
           NEW d \in convert_to_YUV422(b, w, h, order, from, bits), NEW any
    PROVE  order \in Orders /\ Grey(d, "YUV422", m, order, any, g)
<1>1. order \in Orders
  BY DEF convert_to_YUV422
<1> DEFINE n == w * h
<1>2. /\ from = "YUV422" => d = YUV422_to_YUV422(b, n, order)
      /\ from = "RGB8" => d = RGB8_to_YUV422(b, n, order)
      /\ from \in {"MONO8", "RAW8"} => d = MONO8_to_YUV422(b, w, h, order)
      /\ from \in {"MONO16", "RAW16"} => d = MONO16_to_YUV422(b, n, order, bits)
  BY DEF convert_to_YUV422
<1> HIDE DEF n
<1>3. n = 2 * m
  BY DEF n
<1>4. CASE from = "YUV422"
  BY <1>1, <1>2, <1>3, <1>4, Reordered DEF Grey
<1>5. CASE from = "RGB8"
  <2>1. \A j \in 0 .. 3 * (2 * m) - 1 : b[j] = g[j \div 3]
    BY <1>5 DEF Grey
  <2>2. Packed(RGB8_to_YUV422(b, n, order), m, order, g, NoChroma(m), NoChroma(m))
    BY <1>3, <2>1, GreyFromRGB
  <2> QED BY <1>1, <1>2, <1>5, <2>2 DEF Grey
<1>6. CASE from \in {"MONO8", "RAW8"}
  <2>1. \A k \in 0 .. 2 * m - 1 : b[k] = g[k]
    BY <1>6 DEF Grey
  <2>2. Packed(MONO8_to_YUV422(b, w, h, order), m, order, g, NoChroma(m), NoChroma(m))
    BY <2>1, GreyFromMono8
  <2> QED BY <1>1, <1>2, <1>6, <2>2 DEF Grey
<1>7. CASE from \in {"MONO16", "RAW16"}
  <2>1. \A k \in 0 .. 2 * m - 1 : High(b, k, bits) = g[k]
    BY <1>7 DEF Grey
  <2>2. Packed(MONO16_to_YUV422(b, n, order, bits), m, order, g, NoChroma(m), NoChroma(m))
    BY <1>3, <2>1, GreyFromMono16
  <2> QED BY <1>1, <1>2, <1>7, <2>2 DEF Grey
<1> QED BY <1>1, <1>4, <1>5, <1>6, <1>7 DEF GreyCodings, Grey

LEMMA GreyFromYUV422 ==
    ASSUME NEW m \in Nat, NEW n, n = 2 * m, NEW order \in Orders, NEW b, NEW g,
           \A k \in 0 .. 2 * m - 1 : g[k] \in 0 .. 255,
           Packed(b, m, order, g, NoChroma(m), NoChroma(m))
    PROVE  \A j \in 0 .. 3 * (2 * m) - 1 : YUV422_to_RGB8(b, n, order)[j] = g[j \div 3]
<1> TAKE j \in 0 .. 3 * (2 * m) - 1
<1> DEFINE p == j \div 6  i == (j \div 3) % 2  s == g[j \div 3]
<1>1. /\ p \in 0 .. m - 1 /\ i \in {0, 1} /\ 2 * p + i = j \div 3 /\ j \div 3 \in 0 .. 2 * m - 1
      /\ j % 3 \in 0 .. 2 /\ j \in 0 .. 3 * n - 1
  OBVIOUS
<1>2. YUV422_to_RGB8(b, n, order)[j]
        = YUV2RGB(b[Luma(order, p, i)], b[ChromaU(order, p)], b[ChromaV(order, p)])[(j % 3) + 1]
  BY <1>1 DEF YUV422_to_RGB8
<1>3. s \in 0 .. 255
  BY <1>1
<1> HIDE DEF p, i
<1>4. /\ b[Luma(order, p, 0)] = g[2 * p] /\ b[Luma(order, p, 1)] = g[2 * p + 1]
      /\ b[ChromaU(order, p)] = NoChroma(m)[p] /\ b[ChromaV(order, p)] = NoChroma(m)[p]
  BY <1>1, ReadPacked
<1>5. b[Luma(order, p, i)] = s
  <2>1. CASE i = 0
    <3>1. 2 * p = j \div 3
      BY <1>1, <2>1
    <3> QED BY <1>4, <2>1, <3>1, Zenon
  <2>2. CASE i = 1
    <3>1. 2 * p + 1 = j \div 3
      BY <1>1, <2>2
    <3> QED BY <1>4, <2>2, <3>1, Zenon
  <2> QED BY <1>1, <2>1, <2>2
<1>6. NoChroma(m)[p] = 128
  BY <1>1 DEF NoChroma
<1> HIDE DEF s
<1>7. YUV422_to_RGB8(b, n, order)[j] = YUV2RGB(s, 128, 128)[(j % 3) + 1]
  BY <1>2, <1>4, <1>5, <1>6, ZenonT(40)
<1>8. YUV2RGB(s, 128, 128) = <<s, s, s>>
  BY <1>3, GreyColours
<1>9. YUV422_to_RGB8(b, n, order)[j] = <<s, s, s>>[(j % 3) + 1]
  BY <1>7, <1>8, Zenon
<1>10. j % 3 = 0 \/ j % 3 = 1 \/ j % 3 = 2
  BY <1>1
<1>11. <<s, s, s>>[(j % 3) + 1] = s
  BY <1>10
<1> QED BY <1>9, <1>11 DEF s

LEMMA GreyToRGB8 ==
    ASSUME NEW m \in Nat, NEW w \in Nat, NEW h \in Nat, w * h = 2 * m,
           NEW from \in GreyCodings, NEW order, NEW bits, NEW b, NEW g,
           \A k \in 0 .. 2 * m - 1 : g[k] \in 0 .. 255,
           Grey(b, from, m, order, bits, g),
           NEW d \in convert_to_RGB8(b, w, h, order, from, bits), NEW o, NEW any
    PROVE  Grey(d, "RGB8", m, o, any, g)
<1> DEFINE n == w * h
<1>1. /\ from = "YUV422" => order \in Orders /\ d = YUV422_to_RGB8(b, n, order)
      /\ from = "RGB8" => d = Copied(b, 3 * n)
      /\ from \in {"MONO8", "RAW8"} => d = MONO8_to_RGB8(b, n)
      /\ from \in {"MONO16", "RAW16"} => d = MONO16_to_RGB8(b, n, bits)
  BY DEF convert_to_RGB8
<1> HIDE DEF n
<1>2. n = 2 * m
  BY DEF n
<1>3. \A j \in 0 .. 3 * (2 * m) - 1 : j \in 0 .. 3 * n - 1 /\ j \div 3 \in 0 .. 2 * m - 1
  BY <1>2
<1>4. CASE from = "YUV422"
  <2>1. Packed(b, m, order, g, NoChroma(m), NoChroma(m))
    BY <1>4 DEF Grey
  <2>2. \A j \in 0 .. 3 * (2 * m) - 1 : d[j] = g[j \div 3]
    BY <1>1, <1>2, <1>4, <2>1, GreyFromYUV422
  <2> QED BY <2>2 DEF Grey
<1>5. CASE from = "RGB8"
  <2>1. \A j \in 0 .. 3 * (2 * m) - 1 : b[j] = g[j \div 3]
    BY <1>5 DEF Grey
  <2>2. \A j \in 0 .. 3 * (2 * m) - 1 : d[j] = g[j \div 3]
    BY <1>1, <1>3, <1>5, <2>1 DEF Copied
  <2> QED BY <2>2 DEF Grey
<1>6. CASE from \in {"MONO8", "RAW8"}
  <2>1. \A k \in 0 .. 2 * m - 1 : b[k] = g[k]
    BY <1>6 DEF Grey
  <2>2. \A j \in 0 .. 3 * (2 * m) - 1 : d[j] = g[j \div 3]
    BY <1>1, <1>3, <1>6, <2>1 DEF MONO8_to_RGB8
  <2> QED BY <2>2 DEF Grey
<1>7. CASE from \in {"MONO16", "RAW16"}
  <2>1. \A k \in 0 .. 2 * m - 1 : High(b, k, bits) = g[k]
    BY <1>7 DEF Grey
  <2>2. \A j \in 0 .. 3 * (2 * m) - 1 : d[j] = g[j \div 3]
    BY <1>1, <1>3, <1>7, <2>1 DEF MONO16_to_RGB8
  <2> QED BY <2>2 DEF Grey
<1> QED BY <1>4, <1>5, <1>6, <1>7 DEF GreyCodings

LEMMA GreyToMono8 ==
    ASSUME NEW m \in Nat, NEW w \in Nat, NEW h \in Nat, w * h = 2 * m,
           NEW from \in GreyCodings, NEW order, NEW bits, NEW b, NEW g,
           Grey(b, from, m, order, bits, g),
           NEW d \in convert_to_MONO8(b, w, h, from, bits), NEW o, NEW any
    PROVE  Grey(d, "MONO8", m, o, any, g)
<1>1. CASE from = "MONO8" /\ d = Copied(b, w * h)
  <2>1. \A k \in 0 .. 2 * m - 1 : b[k] = g[k]
    BY <1>1 DEF Grey
  <2>2. \A k \in 0 .. 2 * m - 1 : d[k] = g[k]
    BY <1>1, <2>1 DEF Copied
  <2> QED BY <2>2 DEF Grey
<1>2. CASE from = "MONO16" /\ d = MONO16_to_MONO8(b, w * h, bits)
  <2>1. \A k \in 0 .. 2 * m - 1 : High(b, k, bits) = g[k]
    BY <1>2 DEF Grey
  <2>2. \A k \in 0 .. 2 * m - 1 : d[k] = g[k]
    BY <1>2, <2>1 DEF MONO16_to_MONO8
  <2> QED BY <2>2 DEF Grey
<1> QED BY <1>1, <1>2 DEF convert_to_MONO8

\* The bytes of a frame in another coding.
Bytes(in, to, order) ==
    CASE to = "YUV422" -> convert_to_YUV422(in.image, in.size[1], in.size[2], order, in.coding, in.depth)
      [] to = "MONO8" -> convert_to_MONO8(in.image, in.size[1], in.size[2], in.coding, in.depth)
      [] to = "RGB8" -> convert_to_RGB8(in.image, in.size[1], in.size[2], in.order, in.coding, in.depth)

GreyFrame(f, m, g) == Grey(f.image, f.coding, m, f.order, f.depth, g)

LEMMA GreyStep ==
    ASSUME NEW in, NEW m \in Nat, in.size[1] \in Nat, in.size[2] \in Nat,
           in.size[1] * in.size[2] = 2 * m, in.size[1] % 2 = 0,
           in.coding \in GreyCodings, NEW g, \A k \in 0 .. 2 * m - 1 : g[k] \in 0 .. 255,
           GreyFrame(in, m, g),
           NEW to \in {"YUV422", "MONO8", "RGB8"}, NEW order,
           ~(in.coding = "YUV422" /\ to = "YUV422" /\ in.order # "UYVY"),
           NEW d \in Bytes(in, to, order), NEW any
    PROVE  Grey(d, to, m, order, any, g)
<1> DEFINE w == in.size[1]  h == in.size[2]  b == in.image  from == in.coding  read == in.order  bits == in.depth
<1>0. Grey(b, from, m, read, bits, g)
  BY DEF GreyFrame
<1>1. CASE to = "YUV422"
  <2>1. d \in convert_to_YUV422(b, w, h, order, from, bits)
    BY <1>1 DEF Bytes
  <2>2. from = "YUV422" => read = "UYVY"
    BY <1>1
  <2>3. w \in Nat /\ h \in Nat /\ w * h = 2 * m /\ w % 2 = 0 /\ from \in GreyCodings
    OBVIOUS
  <2> HIDE DEF w, h, b, from, read, bits
  <2> QED BY <1>0, <1>1, <2>1, <2>2, <2>3, GreyToYUV422
<1>2. CASE to = "MONO8"
  <2>1. d \in convert_to_MONO8(b, w, h, from, bits)
    BY <1>2 DEF Bytes
  <2>3. w \in Nat /\ h \in Nat /\ w * h = 2 * m /\ from \in GreyCodings
    OBVIOUS
  <2> HIDE DEF w, h, b, from, read, bits
  <2> QED BY <1>0, <1>2, <2>1, <2>3, GreyToMono8
<1>3. CASE to = "RGB8"
  <2>1. d \in convert_to_RGB8(b, w, h, read, from, bits)
    BY <1>3 DEF Bytes
  <2>3. w \in Nat /\ h \in Nat /\ w * h = 2 * m /\ from \in GreyCodings
    OBVIOUS
  <2> HIDE DEF w, h, b, from, read, bits
  <2> QED BY <1>0, <1>3, <2>1, <2>3, GreyToRGB8
<1> QED BY <1>1, <1>2, <1>3

\* Bytes of a picture of 2 * m pixels.
Size(coding, m) == CASE coding = "MONO8" -> 2 * m [] coding = "YUV422" -> 4 * m [] coding = "RGB8" -> 3 * (2 * m)

\* The same value of each pixel, in the same coding and order, is the same bytes.
LEMMA GreyAlike ==
    ASSUME NEW m \in Nat, NEW coding \in {"YUV422", "MONO8", "RGB8"}, NEW order, NEW g, NEW b, NEW d,
           NEW any, NEW other, Grey(b, coding, m, order, any, g), Grey(d, coding, m, order, other, g)
    PROVE  \A k \in 0 .. Size(coding, m) - 1 : b[k] = d[k]
<1>1. CASE coding = "YUV422"
  <2>1. /\ Packed(b, m, order, g, NoChroma(m), NoChroma(m)) /\ Packed(d, m, order, g, NoChroma(m), NoChroma(m))
    BY <1>1 DEF Grey
  <2>2. \A k \in 0 .. 4 * m - 1 : b[k] = d[k]
    BY <2>1, PackedAlike
  <2> QED BY <1>1, <2>2 DEF Size
<1>2. CASE coding = "MONO8"
  BY <1>2 DEF Grey, Size
<1>3. CASE coding = "RGB8"
  BY <1>3 DEF Grey, Size
<1> QED BY <1>1, <1>2, <1>3

\* A frame that the bytes are stored to.
LEMMA PackedStored ==
    ASSUME NEW m \in Nat, NEW b, NEW d, \A k \in 0 .. 4 * m - 1 : d[k] = b[k],
           NEW order, NEW y, NEW u, NEW v, Packed(b, m, order, y, u, v)
    PROVE  Packed(d, m, order, y, u, v)
<1> SUFFICES ASSUME NEW p \in 0 .. m - 1, NEW r \in 0 .. 3
             PROVE  d[4 * p + r] = Pair(order, y[2 * p], u[p], y[2 * p + 1], v[p])[r + 1]
  BY DEF Packed
<1>1. 4 * p + r \in 0 .. 4 * m - 1
  OBVIOUS
<1>2. b[4 * p + r] = Pair(order, y[2 * p], u[p], y[2 * p + 1], v[p])[r + 1]
  BY DEF Packed
<1> QED BY <1>1, <1>2

LEMMA GreyStored ==
    ASSUME NEW m \in Nat, NEW coding \in {"YUV422", "MONO8", "RGB8"}, NEW order, NEW g, NEW b, NEW d,
           NEW any, Grey(b, coding, m, order, any, g),
           \A k \in 0 .. Size(coding, m) - 1 : d[k] = b[k]
    PROVE  Grey(d, coding, m, order, any, g)
<1>1. CASE coding = "YUV422"
  <2>1. Packed(b, m, order, g, NoChroma(m), NoChroma(m))
    BY <1>1 DEF Grey
  <2>2. \A k \in 0 .. 4 * m - 1 : d[k] = b[k]
    BY <1>1 DEF Size
  <2>3. Packed(d, m, order, g, NoChroma(m), NoChroma(m))
    BY <2>1, <2>2, PackedStored
  <2> QED BY <1>1, <2>3 DEF Grey
<1>2. CASE coding = "MONO8"
  BY <1>2 DEF Grey, Size
<1>3. CASE coding = "RGB8"
  BY <1>3 DEF Grey, Size
<1> QED BY <1>1, <1>2, <1>3

-----------------------------------------------------------------------------
(* The ways from a frame to another.                                       *)

\* One frame holds the other in its coding and order.
Shows(f, e) ==
    /\ e.size = f.size /\ f.size[1] % 2 = 0 /\ Supported(f.coding, e.coding)
    /\ e.image_bytes = (e.size[1] * e.size[2] * BitSize(e.coding)) \div 8
    /\ \E b \in Bytes(f, e.coding, e.order) : \A k \in DOMAIN b : e.image[k] = b[k]

\* As many bytes as the picture has, in every coding.
LEMMA BytesDomain ==
    ASSUME NEW f, f.size \in Nat \X Nat, f.size[1] % 2 = 0, NEW m \in Nat, f.size[1] * f.size[2] = 2 * m,
           NEW to \in {"YUV422", "MONO8", "RGB8"}, NEW order, NEW b \in Bytes(f, to, order)
    PROVE  DOMAIN b = 0 .. Size(to, m) - 1
<1> DEFINE w == f.size[1]  h == f.size[2]  n == w * h
<1>1. w \in Nat /\ h \in Nat /\ w % 2 = 0 /\ n = 2 * m
  OBVIOUS
<1>2. /\ to = "YUV422" => DOMAIN b = 0 .. 2 * n - 1
      /\ to = "MONO8" => DOMAIN b = 0 .. n - 1
      /\ to = "RGB8" => DOMAIN b = 0 .. 3 * n - 1
  <2>1. /\ to = "YUV422" => b \in convert_to_YUV422(f.image, w, h, order, f.coding, f.depth)
        /\ to = "MONO8" => b \in convert_to_MONO8(f.image, w, h, f.coding, f.depth)
        /\ to = "RGB8" => b \in convert_to_RGB8(f.image, w, h, f.order, f.coding, f.depth)
    BY DEF Bytes
  <2>0. Rectangle(w, h, n) /\ ~(w % 2 = 1)
    BY <1>1 DEF Rectangle
  <2> HIDE DEF w, h
  <2>2. CASE to = "YUV422"
    <3> DEFINE src == f.image  coding == f.coding  bits == f.depth
    <3>1. b \in convert_to_YUV422(src, w, h, order, coding, bits)
      BY <2>1, <2>2
    <3> HIDE DEF src, coding, bits, n
    <3>2. DOMAIN b = 0 .. 2 * n - 1
      BY <2>0, <3>1, ConvertsToYUV
    <3> QED BY <2>2, <3>2
  <2>3. CASE to = "MONO8"
    BY <2>1, <2>3, ConvertsToMono
  <2>4. CASE to = "RGB8"
    <3> DEFINE src == f.image  read == f.order  coding == f.coding  bits == f.depth
    <3>1. b \in convert_to_RGB8(src, w, h, read, coding, bits)
      BY <2>1, <2>4
    <3> HIDE DEF src, read, coding, bits
    <3>2. DOMAIN b = 0 .. 3 * (w * h) - 1
      BY <3>1, ConvertsToRGB
    <3> QED BY <2>4, <3>2
  <2> QED BY <2>2, <2>3, <2>4
<1> HIDE DEF w, h, n
<1>3. /\ to = "YUV422" => Size(to, m) = 2 * n
      /\ to = "MONO8" => Size(to, m) = n
      /\ to = "RGB8" => Size(to, m) = 3 * n
  BY <1>1 DEF Size
<1> QED BY <1>2, <1>3

\* The pixels of a frame that is shown come in pairs.
LEMMA ShowsBytes ==
    ASSUME NEW f, f.size \in Nat \X Nat, NEW e, e.coding \in {"YUV422", "MONO8", "RGB8"}, Shows(f, e)
    PROVE  \E m \in Nat : f.size[1] * f.size[2] = 2 * m /\ e.image_bytes = Size(e.coding, m)
<1> DEFINE w == f.size[1]  h == f.size[2]  n == w * h
<1>1. w \in Nat /\ h \in Nat /\ w % 2 = 0 /\ e.size = f.size
  BY DEF Shows
<1>2. PICK m \in Nat : n = 2 * m
  <2> HIDE DEF w, h
  <2>1. w = (w \div 2) * 2 + (w % 2) /\ w \div 2 \in Nat
    BY <1>1
  <2> DEFINE q == w \div 2
  <2>2. w = q * 2 /\ q \in Nat
    BY <1>1, <2>1
  <2> HIDE DEF q
  <2>3. n = 2 * (q * h) /\ q * h \in Nat
    BY <1>1, <2>2
  <2> QED BY <2>3
<1>3. /\ (w * h * 8) \div 8 = n /\ (w * h * 16) \div 8 = 2 * n /\ (w * h * 24) \div 8 = 3 * n
  BY ImageBytes
<1>4. e.image_bytes = (w * h * BitSize(e.coding)) \div 8
  BY <1>1 DEF Shows
<1>5. BitSize("YUV422") = 16 /\ BitSize("MONO8") = 8 /\ BitSize("RGB8") = 24
  BY DEF BitSize
<1> HIDE DEF w, h
<1>6. /\ e.coding = "YUV422" => e.image_bytes = 2 * n
      /\ e.coding = "MONO8" => e.image_bytes = n
      /\ e.coding = "RGB8" => e.image_bytes = 3 * n
  <2> HIDE DEF n
  <2> QED BY <1>3, <1>4, <1>5
<1> HIDE DEF n
<1>7. e.image_bytes = Size(e.coding, m)
  BY <1>2, <1>6 DEF Size
<1> QED BY <1>2, <1>7 DEF w, h, n

LEMMA HighByte ==
    ASSUME NEW src, NEW k, src[2 * k] \in 0 .. 255, src[2 * k + 1] \in 0 .. 255,
           NEW bits \in Nat, bits >= 8
    PROVE  High(src, k, bits) \in 0 .. 255
<1> DEFINE d == 2 ^ (bits - 8)  a == src[2 * k]  b == src[2 * k + 1]  s == 256 * a + b
<1>1. d \in Nat /\ d > 0
  <2>1. bits - 8 \in Nat
    OBVIOUS
  <2> QED BY <2>1, PowerNat
<1>2. High(src, k, bits) = (s \div d) % 256
  BY DEF High, Byte
<1>3. a \in 0 .. 255 /\ b \in 0 .. 255
  OBVIOUS
<1> HIDE DEF a, b, d
<1>4. s \in Nat
  BY <1>3
<1> HIDE DEF s
<1>5. s \div d \in Nat
  BY <1>1, <1>4, Divided
<1> DEFINE q == s \div d
<1> HIDE DEF q
<1>6. q % 256 \in 0 .. 255
  BY <1>5 DEF q
<1> QED BY <1>2, <1>6 DEF q

Greys == {"MONO8", "RAW8", "MONO16", "RAW16"}

LEMMA GreyValues ==
    ASSUME NEW f, f.size \in Nat \X Nat, f.allocated \in Nat, f.image_bytes \in Nat, f.image_bytes <= f.allocated,
           DOMAIN f.image = 0 .. f.allocated - 1, \A k \in DOMAIN f.image : f.image[k] \in 0 .. 255,
           f.image_bytes = (f.size[1] * f.size[2] * BitSize(f.coding)) \div 8,
           f.coding \in Greys, f.depth \in Nat, f.coding \in {"MONO16", "RAW16"} => f.depth >= 8,
           NEW m \in Nat, f.size[1] * f.size[2] = 2 * m
    PROVE  \E g : (\A k \in 0 .. 2 * m - 1 : g[k] \in 0 .. 255) /\ GreyFrame(f, m, g)
<1> DEFINE n == f.size[1] * f.size[2]  deep == f.coding \in {"MONO16", "RAW16"}
           g == [k \in 0 .. 2 * m - 1 |-> IF deep THEN High(f.image, k, f.depth) ELSE f.image[k]]
<1>1. f.image_bytes = IF deep THEN 2 * n ELSE n
  <2>1. (n * 8) \div 8 = n /\ (n * 16) \div 8 = 2 * n
    BY ImageBytes
  <2> HIDE DEF n
  <2>2. deep => BitSize(f.coding) = 16
    BY DEF BitSize
  <2>3. ~deep => BitSize(f.coding) = 8
    BY DEF BitSize, Greys
  <2>4. f.image_bytes = (n * BitSize(f.coding)) \div 8
    BY DEF n
  <2> QED BY <2>1, <2>2, <2>3, <2>4
<1>2. n = 2 * m
  OBVIOUS
<1> HIDE DEF n
<1>3. ASSUME NEW k \in 0 .. 2 * m - 1 PROVE g[k] \in 0 .. 255
  <2>1. CASE deep
    <3>1. 2 * k \in DOMAIN f.image /\ 2 * k + 1 \in DOMAIN f.image
      <4>1. PICK bytes \in Nat, room \in Nat :
              bytes = 2 * (2 * m) /\ bytes <= room /\ DOMAIN f.image = 0 .. room - 1
        BY <1>1, <1>2, <2>1
      <4>2. 2 * k \in 0 .. room - 1 /\ 2 * k + 1 \in 0 .. room - 1
        BY <4>1
      <4> QED BY <4>1, <4>2
    <3>2. High(f.image, k, f.depth) \in 0 .. 255
      <4>1. PICK bits \in Nat : bits = f.depth
        OBVIOUS
      <4>2. f.image[2 * k] \in 0 .. 255 /\ f.image[2 * k + 1] \in 0 .. 255 /\ bits >= 8
        BY <2>1, <3>1, <4>1
      <4>3. High(f.image, k, bits) \in 0 .. 255
        BY <4>2, HighByte
      <4> QED BY <4>1, <4>3
    <3> QED BY <2>1, <3>2
  <2>2. CASE ~deep
    <3>1. k \in DOMAIN f.image
      BY <1>1, <1>2, <2>2
    <3> QED BY <2>2, <3>1
  <2> QED BY <2>1, <2>2
<1>4. GreyFrame(f, m, g)
  <2>1. CASE deep
    <3>1. f.coding \in {"MONO16", "RAW16"} /\ f.coding \notin {"MONO8", "RAW8", "RGB8", "YUV422"}
      BY <2>1
    <3>2. \A k \in 0 .. 2 * m - 1 : High(f.image, k, f.depth) = g[k]
      BY <2>1
    <3> HIDE DEF g, deep
    <3> QED BY <3>1, <3>2 DEF GreyFrame, Grey
  <2>2. CASE ~deep
    <3>1. f.coding \in {"MONO8", "RAW8"} /\ f.coding \notin {"MONO16", "RAW16", "RGB8", "YUV422"}
      BY <2>2 DEF Greys
    <3>2. \A k \in 0 .. 2 * m - 1 : f.image[k] = g[k]
      BY <2>2
    <3> HIDE DEF g, deep
    <3> QED BY <3>1, <3>2 DEF GreyFrame, Grey
  <2> QED BY <2>1, <2>2
<1> HIDE DEF g
<1> QED BY <1>3, <1>4

\* What is stored of a picture shown by another.
LEMMA ShownBytes ==
    ASSUME NEW f, f.size \in Nat \X Nat, NEW m \in Nat, f.size[1] * f.size[2] = 2 * m,
           NEW e, e.coding \in {"YUV422", "MONO8", "RGB8"}, Shows(f, e)
    PROVE  \E b \in Bytes(f, e.coding, e.order) : \A k \in 0 .. Size(e.coding, m) - 1 : e.image[k] = b[k]
<1>1. PICK b \in Bytes(f, e.coding, e.order) : \A k \in DOMAIN b : e.image[k] = b[k]
  BY DEF Shows
<1>2. f.size[1] % 2 = 0
  BY DEF Shows
<1>3. DOMAIN b = 0 .. Size(e.coding, m) - 1
  BY <1>2, BytesDomain
<1> QED BY <1>1, <1>3

\* A grey frame of m pairs of pixels, and the values of its pixels.
GreyPicture(f, m, gr) ==
    /\ f.size \in Nat \X Nat /\ m \in Nat /\ f.size[1] * f.size[2] = 2 * m /\ f.coding \in Greys
    /\ \A k \in 0 .. 2 * m - 1 : gr[k] \in 0 .. 255
    /\ GreyFrame(f, m, gr)

\* By any way, a grey picture shows the same values of its pixels.
LEMMA GreyWay ==
    ASSUME NEW f, NEW m, NEW gr, GreyPicture(f, m, gr),
           NEW g, g.coding \in {"YUV422", "MONO8", "RGB8"}, Shows(f, g),
           NEW e, e.coding \in {"YUV422", "MONO8", "RGB8"}, Shows(g, e),
           ~(g.coding = "YUV422" /\ e.coding = "YUV422" /\ g.order = "YUYV"),
           NEW b \in Bytes(f, e.coding, e.order)
    PROVE  \A k \in 0 .. Size(e.coding, m) - 1 : b[k] = e.image[k]
<1> USE DEF GreyPicture
<1>1. /\ g.size = f.size /\ f.size[1] % 2 = 0 /\ f.size[1] \in Nat /\ f.size[2] \in Nat
      /\ f.coding \in GreyCodings /\ f.coding # "YUV422"
      /\ g.coding \in GreyCodings
  BY DEF Shows, Greys, GreyCodings
<1>2. PICK b1 \in Bytes(f, g.coding, g.order) : \A k \in 0 .. Size(g.coding, m) - 1 : g.image[k] = b1[k]
  BY ShownBytes
<1>3. PICK b2 \in Bytes(g, e.coding, e.order) : \A k \in 0 .. Size(e.coding, m) - 1 : e.image[k] = b2[k]
  <2>1. g.size \in Nat \X Nat /\ g.size[1] * g.size[2] = 2 * m
    BY <1>1
  <2> QED BY <2>1, ShownBytes
<1>4. Grey(b1, g.coding, m, g.order, g.depth, gr)
  <2>1. ~(f.coding = "YUV422" /\ g.coding = "YUV422" /\ f.order # "UYVY")
    BY <1>1
  <2> QED BY <1>1, <1>2, <2>1, GreyStep
<1>5. Grey(b, e.coding, m, e.order, e.depth, gr)
  <2>1. ~(f.coding = "YUV422" /\ e.coding = "YUV422" /\ f.order # "UYVY")
    BY <1>1
  <2> QED BY <1>1, <2>1, GreyStep
<1>6. GreyFrame(g, m, gr)
  <2>1. Grey(g.image, g.coding, m, g.order, g.depth, gr)
    BY <1>2, <1>4, GreyStored
  <2> QED BY <2>1 DEF GreyFrame
<1>7. Grey(b2, e.coding, m, e.order, e.depth, gr)
  <2>1. g.coding = "YUV422" => g.order \in Orders
    <3>1. ASSUME g.coding = "YUV422" PROVE b1 \in convert_to_YUV422(f.image, f.size[1], f.size[2], g.order, f.coding, f.depth)
      BY <1>2, <3>1 DEF Bytes
    <3> QED BY <3>1 DEF convert_to_YUV422
  <2>2. ~(g.coding = "YUV422" /\ e.coding = "YUV422" /\ g.order # "UYVY")
    BY <2>1 DEF Orders
  <2>3. /\ g.size[1] \in Nat /\ g.size[2] \in Nat /\ g.size[1] * g.size[2] = 2 * m /\ g.size[1] % 2 = 0
    BY <1>1
  <2> QED BY <1>1, <1>3, <1>6, <2>2, <2>3, GreyStep, ZenonT(40)
<1>8. \A k \in 0 .. Size(e.coding, m) - 1 : b[k] = b2[k]
  BY <1>5, <1>7, GreyAlike
<1> QED BY <1>3, <1>8

\* Two pictures have the same first n bytes.
Alike(d, e, n) == \A j \in 0 .. n - 1 : d[j] = e[j]

\* What is deep and coloured is cut to 8 bits first, by either way.
LEMMA DeepWay ==
    ASSUME NEW n \in Nat, n % 2 = 0, NEW src, NEW bits, NEW d,
           Alike(d, RGB16_to_RGB8(src, n, bits), 3 * n), NEW order
    PROVE  /\ Alike(RGB8_to_YUV422(d, n, order), RGB16_to_YUV422(src, n, order, bits), 2 * n)
           /\ Alike(Copied(d, 3 * n), RGB16_to_RGB8(src, n, bits), 3 * n)
<1>1. \A j \in 0 .. 3 * n - 1 : d[j] = High(src, j, bits)
  BY DEF Alike, RGB16_to_RGB8
<1>2. ASSUME NEW j \in 0 .. 2 * n - 1
      PROVE  RGB8_to_YUV422(d, n, order)[j] = RGB16_to_YUV422(src, n, order, bits)[j]
  <2> DEFINE k == 6 * (j \div 4)  c(i) == High(src, k + i, bits)
  <2>1. /\ k \in 0 .. 3 * n - 1 /\ k + 1 \in 0 .. 3 * n - 1 /\ k + 2 \in 0 .. 3 * n - 1
        /\ k + 3 \in 0 .. 3 * n - 1 /\ k + 4 \in 0 .. 3 * n - 1 /\ k + 5 \in 0 .. 3 * n - 1 /\ k + 0 = k
    OBVIOUS
  <2>2. RGB8_to_YUV422(d, n, order)[j]
          = Shared(order, RGB2YUV(d[k], d[k + 1], d[k + 2]), RGB2YUV(d[k + 3], d[k + 4], d[k + 5]))[(j % 4) + 1]
    BY DEF RGB8_to_YUV422
  <2>3. RGB16_to_YUV422(src, n, order, bits)[j]
          = Shared(order, RGB2YUV(c(0), c(1), c(2)), RGB2YUV(c(3), c(4), c(5)))[(j % 4) + 1]
    BY DEF RGB16_to_YUV422
  <2> HIDE DEF k
  <2>4. d[k] = c(0) /\ d[k + 1] = c(1) /\ d[k + 2] = c(2) /\ d[k + 3] = c(3) /\ d[k + 4] = c(4) /\ d[k + 5] = c(5)
    BY <1>1, <2>1
  <2> HIDE DEF c
  <2> QED BY <2>2, <2>3, <2>4, Zenon
<1>3. \A j \in 0 .. 3 * n - 1 : Copied(d, 3 * n)[j] = d[j]
  BY DEF Copied
<1>4. Alike(RGB8_to_YUV422(d, n, order), RGB16_to_YUV422(src, n, order, bits), 2 * n)
  BY <1>2 DEF Alike
<1>5. Alike(Copied(d, 3 * n), RGB16_to_RGB8(src, n, bits), 3 * n)
  BY <1>3 DEF Alike
<1> QED BY <1>4, <1>5

\* The conversion that a pair of codings names.
LEMMA BytesOf ==
    ASSUME NEW f, NEW n, n = f.size[1] * f.size[2], NEW to \in {"YUV422", "RGB8"}, NEW order,
           NEW b \in Bytes(f, to, order)
    PROVE  /\ to = "YUV422" =>
                 /\ order \in Orders
                 /\ f.coding = "YUV411" => b = YUV411_to_YUV422(f.image, n, order)
                 /\ f.coding = "YUV422" => b = YUV422_to_YUV422(f.image, n, order)
                 /\ f.coding = "RGB16" => b = RGB16_to_YUV422(f.image, n, order, f.depth)
                 /\ f.coding = "RGB8" => b = RGB8_to_YUV422(f.image, n, order)
           /\ to = "RGB8" =>
                 /\ f.coding = "YUV411" => b = YUV411_to_RGB8(f.image, n)
                 /\ f.coding = "YUV422" => f.order \in Orders /\ b = YUV422_to_RGB8(f.image, n, f.order)
                 /\ f.coding = "RGB16" => b = RGB16_to_RGB8(f.image, n, f.depth)
                 /\ f.coding = "RGB8" => b = Copied(f.image, 3 * n)
<1>1. CASE to = "YUV422"
  <2>1. b \in convert_to_YUV422(f.image, f.size[1], f.size[2], order, f.coding, f.depth)
    BY <1>1 DEF Bytes
  <2> QED BY <1>1, <2>1 DEF convert_to_YUV422
<1>2. CASE to = "RGB8"
  <2>1. b \in convert_to_RGB8(f.image, f.size[1], f.size[2], f.order, f.coding, f.depth)
    BY <1>2 DEF Bytes
  <2> QED BY <1>2, <2>1 DEF convert_to_RGB8
<1> QED BY <1>1, <1>2

LEMMA DeepFrames ==
    ASSUME NEW f, f.size \in Nat \X Nat, NEW m \in Nat, f.size[1] * f.size[2] = 2 * m, f.coding = "RGB16",
           NEW g, g.coding = "RGB8", Shows(f, g),
           NEW e, e.coding \in {"YUV422", "MONO8", "RGB8"}, Shows(g, e),
           NEW b \in Bytes(f, e.coding, e.order)
    PROVE  \A k \in 0 .. Size(e.coding, m) - 1 : b[k] = e.image[k]
<1>0. PICK n : n = f.size[1] * f.size[2] /\ n = 2 * m
  OBVIOUS
<1>1. g.size = f.size /\ n = g.size[1] * g.size[2] /\ e.coding \in {"YUV422", "RGB8"}
  BY <1>0 DEF Shows, Supported
<1>2. PICK b1 \in Bytes(f, g.coding, g.order) : \A k \in 0 .. Size(g.coding, m) - 1 : g.image[k] = b1[k]
  BY ShownBytes
<1>3. PICK b2 \in Bytes(g, e.coding, e.order) : \A k \in 0 .. Size(e.coding, m) - 1 : e.image[k] = b2[k]
  <2>1. g.size \in Nat \X Nat /\ g.size[1] * g.size[2] = 2 * m
    BY <1>1
  <2> QED BY <2>1, ShownBytes
<1>4. b1 = RGB16_to_RGB8(f.image, n, f.depth)
  BY <1>0, <1>2, BytesOf
<1>5. /\ e.coding = "YUV422" => /\ b = RGB16_to_YUV422(f.image, n, e.order, f.depth)
                               /\ b2 = RGB8_to_YUV422(g.image, n, e.order)
      /\ e.coding = "RGB8" => b = RGB16_to_RGB8(f.image, n, f.depth) /\ b2 = Copied(g.image, 3 * n)
  <2>1. /\ e.coding = "YUV422" => b = RGB16_to_YUV422(f.image, n, e.order, f.depth)
        /\ e.coding = "RGB8" => b = RGB16_to_RGB8(f.image, n, f.depth)
    BY <1>0, <1>1, BytesOf
  <2>2. /\ e.coding = "YUV422" => b2 = RGB8_to_YUV422(g.image, n, e.order)
        /\ e.coding = "RGB8" => b2 = Copied(g.image, 3 * n)
    BY <1>1, <1>3, BytesOf
  <2> QED BY <2>1, <2>2
<1>6. n = 2 * m /\ n \in Nat /\ n % 2 = 0
  BY <1>0
<1>7. Alike(g.image, RGB16_to_RGB8(f.image, n, f.depth), 3 * n)
  BY <1>2, <1>4, <1>6 DEF Size, Alike
<1>8. /\ Alike(RGB8_to_YUV422(g.image, n, e.order), RGB16_to_YUV422(f.image, n, e.order, f.depth), 2 * n)
      /\ Alike(Copied(g.image, 3 * n), RGB16_to_RGB8(f.image, n, f.depth), 3 * n)
  <2> DEFINE src == f.image  bits == f.depth  d == g.image  order == e.order
  <2>1. Alike(d, RGB16_to_RGB8(src, n, bits), 3 * n)
    BY <1>7
  <2> HIDE DEF src, bits, d, order
  <2>2. /\ Alike(RGB8_to_YUV422(d, n, order), RGB16_to_YUV422(src, n, order, bits), 2 * n)
        /\ Alike(Copied(d, 3 * n), RGB16_to_RGB8(src, n, bits), 3 * n)
    BY <1>6, <2>1, DeepWay
  <2> QED BY <2>2 DEF src, bits, d, order
<1>9. CASE e.coding = "YUV422"
  <2>1. Size(e.coding, m) = 2 * n
    BY <1>6, <1>9 DEF Size
  <2> QED BY <1>3, <1>5, <1>8, <1>9, <2>1 DEF Alike
<1>10. CASE e.coding = "RGB8"
  <2>1. Size(e.coding, m) = 3 * n
    BY <1>6, <1>10 DEF Size
  <2> QED BY <1>3, <1>5, <1>8, <1>10, <2>1 DEF Alike
<1> QED BY <1>1, <1>9, <1>10

LEMMA Frames411 ==
    ASSUME NEW f, f.size \in Nat \X Nat, NEW m \in Nat, f.size[1] * f.size[2] = 2 * m, f.coding = "YUV411",
           NEW g, g.coding = "YUV422", Shows(f, g),
           NEW e, e.coding \in {"YUV422", "MONO8", "RGB8"}, Shows(g, e),
           ~(e.coding = "YUV422" /\ g.order = "YUYV"),
           NEW b \in Bytes(f, e.coding, e.order)
    PROVE  \A k \in 0 .. Size(e.coding, m) - 1 : b[k] = e.image[k]
<1>0. PICK n : n = f.size[1] * f.size[2] /\ n = 2 * m
  OBVIOUS
<1> DEFINE y == Luma411s(f.image, m)  u == Chromas411(f.image, m, 0)  v == Chromas411(f.image, m, 3)
<1>1. g.size = f.size /\ n = g.size[1] * g.size[2] /\ e.coding \in {"YUV422", "RGB8"}
  BY <1>0 DEF Shows, Supported
<1>2. PICK b1 \in Bytes(f, g.coding, g.order) : \A k \in 0 .. Size(g.coding, m) - 1 : g.image[k] = b1[k]
  <2>1. g.coding \in {"YUV422", "MONO8", "RGB8"}
    OBVIOUS
  <2> QED BY <2>1, ShownBytes
<1>3. PICK b2 \in Bytes(g, e.coding, e.order) : \A k \in 0 .. Size(e.coding, m) - 1 : e.image[k] = b2[k]
  <2>1. g.size \in Nat \X Nat /\ g.size[1] * g.size[2] = 2 * m
    BY <1>1
  <2> QED BY <2>1, ShownBytes
<1>4. b1 = YUV411_to_YUV422(f.image, n, g.order) /\ g.order \in Orders
  BY <1>0, <1>2, BytesOf
<1>5. /\ e.coding = "YUV422" => /\ e.order \in Orders
                               /\ b = YUV411_to_YUV422(f.image, n, e.order)
                               /\ b2 = YUV422_to_YUV422(g.image, n, e.order)
      /\ e.coding = "RGB8" => b = YUV411_to_RGB8(f.image, n) /\ b2 = YUV422_to_RGB8(g.image, n, g.order)
  <2> HIDE DEF y, u, v
  <2>1. /\ e.coding = "YUV422" => e.order \in Orders /\ b = YUV411_to_YUV422(f.image, n, e.order)
        /\ e.coding = "RGB8" => b = YUV411_to_RGB8(f.image, n)
    BY <1>0, <1>1, BytesOf
  <2>2. /\ e.coding = "YUV422" => b2 = YUV422_to_YUV422(g.image, n, e.order)
        /\ e.coding = "RGB8" => b2 = YUV422_to_RGB8(g.image, n, g.order)
    BY <1>1, <1>3, BytesOf
  <2> QED BY <2>1, <2>2
<1>6. n = 2 * m
  BY <1>0
<1>7. Packed(g.image, m, g.order, y, u, v)
  <2>1. Packed(b1, m, g.order, y, u, v)
    BY <1>4, <1>6, Packs411
  <2>2. \A k \in 0 .. 4 * m - 1 : g.image[k] = b1[k]
    BY <1>2 DEF Size
  <2> HIDE DEF y, u, v
  <2> QED BY <2>1, <2>2, PackedStored
<1>8. CASE e.coding = "YUV422"
  <2>1. g.order = "UYVY"
    BY <1>4, <1>8 DEF Orders
  <2>2. Packed(b2, m, e.order, y, u, v)
    <3> HIDE DEF y, u, v
    <3> QED BY <1>5, <1>6, <1>7, <1>8, <2>1, Reordered
  <2>3. Packed(b, m, e.order, y, u, v)
    BY <1>5, <1>6, <1>8, Packs411
  <2>4. \A k \in 0 .. 4 * m - 1 : b[k] = b2[k]
    <3> HIDE DEF y, u, v
    <3> QED BY <2>2, <2>3, PackedAlike
  <2>5. Size(e.coding, m) = 4 * m
    BY <1>8 DEF Size
  <2> QED BY <1>3, <2>4, <2>5
<1>9. CASE e.coding = "RGB8"
  <2>1. \A j \in 0 .. 3 * n - 1 : YUV422_to_RGB8(g.image, n, g.order)[j] = YUV411_to_RGB8(f.image, n)[j]
    BY <1>4, <1>6, <1>7, Paints411
  <2>2. Size(e.coding, m) = 3 * n
    BY <1>6, <1>9 DEF Size
  <2> QED BY <1>3, <1>5, <1>9, <2>1, <2>2
<1> QED BY <1>1, <1>8, <1>9

\* Either way stores the same.
LEMMA Ways ==
    ASSUME NEW f, Described(f), MemoryOK(f),
           NEW g, g.coding \in {"YUV422", "MONO8", "RGB8"}, Shows(f, g),
           NEW e, e.coding \in {"YUV422", "MONO8", "RGB8"}, Shows(g, e),
           Lossless(f.coding, g.coding, e.coding),
           ~(g.coding = "YUV422" /\ e.coding = "YUV422" /\ g.order = "YUYV"),
           NEW b \in Bytes(f, e.coding, e.order)
    PROVE  /\ DOMAIN b = 0 .. e.image_bytes - 1
           /\ \A k \in 0 .. e.image_bytes - 1 : b[k] = e.image[k]
<1>1. f.size \in Nat \X Nat /\ g.size = f.size /\ f.size[1] % 2 = 0
  BY DEF MemoryOK, Shows
<1>2. PICK m \in Nat : f.size[1] * f.size[2] = 2 * m
  BY <1>1, ShowsBytes
<1>3. e.image_bytes = Size(e.coding, m)
  <2>1. PICK p \in Nat : g.size[1] * g.size[2] = 2 * p /\ e.image_bytes = Size(e.coding, p)
    <3>1. g.size \in Nat \X Nat
      BY <1>1
    <3> QED BY <3>1, ShowsBytes
  <2>2. p = m
    <3> DEFINE n == f.size[1] * f.size[2]
    <3>1. n = 2 * p /\ n = 2 * m
      BY <1>1, <1>2, <2>1
    <3> HIDE DEF n
    <3> QED BY <3>1
  <2> QED BY <2>1, <2>2
<1>4. DOMAIN b = 0 .. Size(e.coding, m) - 1
  BY <1>1, <1>2, BytesDomain
<1>5. \A k \in 0 .. Size(e.coding, m) - 1 : b[k] = e.image[k]
  <2>1. CASE f.coding \in Greys
    <3>1. \E gr : (\A k \in 0 .. 2 * m - 1 : gr[k] \in 0 .. 255) /\ GreyFrame(f, m, gr)
      <4>1. /\ f.allocated \in Nat /\ f.depth \in Nat /\ DOMAIN f.image = 0 .. f.allocated - 1
            /\ \A k \in DOMAIN f.image : f.image[k] \in 0 .. 255
            /\ f.image_bytes = (f.size[1] * f.size[2] * BitSize(f.coding)) \div 8
            /\ f.coding \in {"MONO16", "RAW16"} => f.depth \in 8 .. 16
            /\ f.padding \in Nat /\ f.image_bytes + f.padding <= f.allocated
        BY Zenon DEF Described
      <4>2. f.image_bytes \in Nat
        BY DEF MemoryOK
      <4>3. f.image_bytes <= f.allocated
        BY <4>1, <4>2
      <4>4. f.coding \in {"MONO16", "RAW16"} => f.depth >= 8
        <5>1. f.coding \in {"MONO16", "RAW16"} => f.depth \in 8 .. 16
          BY Zenon DEF Described
        <5> QED BY <5>1
      <4> QED BY <1>1, <1>2, <2>1, <4>1, <4>2, <4>3, <4>4, GreyValues
    <3>2. PICK gr : (\A k \in 0 .. 2 * m - 1 : gr[k] \in 0 .. 255) /\ GreyFrame(f, m, gr)
      BY <3>1
    <3>3. GreyPicture(f, m, gr)
      BY <1>1, <1>2, <2>1, <3>2 DEF GreyPicture
    <3> QED BY <3>3, GreyWay
  <2>2. CASE f.coding = "RGB16" /\ g.coding = "RGB8"
    BY <1>1, <1>2, <2>2, DeepFrames
  <2>3. CASE f.coding = "YUV411" /\ g.coding = "YUV422"
    <3>1. ~(e.coding = "YUV422" /\ g.order = "YUYV")
      BY <2>3
    <3> QED BY <1>1, <1>2, <2>3, <3>1, Frames411
  <2> QED BY <2>1, <2>2, <2>3 DEF Lossless, Greys
<1> QED BY <1>3, <1>4, <1>5

LEMMA ConvertedBytes ==
    ASSUME NEW in, NEW out, NEW fill, NEW o \in Converted(in, out, fill)
    PROVE  LET a == Adapt_buffer_convert(in, out, fill)
               D == Bytes(in, out.coding, out.order)
           IN
           \/ /\ o.err # "SUCCESS"
              /\ ~Supported(in.coding, out.coding) \/ a.image = NULL \/ HalfPair(in, out) \/ D = {}
           \/ Supported(in.coding, out.coding) /\ \E b \in D : o = Stored8(a, b)
<1> DEFINE a == Adapt_buffer_convert(in, out, fill)
           Y == convert_to_YUV422(in.image, in.size[1], in.size[2], out.order, in.coding, in.depth)
           M == convert_to_MONO8(in.image, in.size[1], in.size[2], in.coding, in.depth)
           R == convert_to_RGB8(in.image, in.size[1], in.size[2], in.order, in.coding, in.depth)
           bytes == CASE out.coding = "YUV422" -> Y [] out.coding = "MONO8" -> M
                      [] out.coding = "RGB8" -> R
           D == Bytes(in, out.coding, out.order)
<1>1. o \in IF ~Supported(in.coding, out.coding) THEN {Outcome(out, "FUNCTION_NOT_SUPPORTED")}
            ELSE IF a.image = NULL THEN {Outcome(a, "MEMORY_ALLOCATION_FAILURE")}
            ELSE IF HalfPair(in, out) THEN {Outcome(a, "UNDEFINED")}
            ELSE IF bytes = {} THEN {Outcome(a, "INVALID_BYTE_ORDER")}
            ELSE {Stored8(a, b) : b \in bytes}
  BY Zenon DEF Converted, Lost
<1>2. ASSUME Supported(in.coding, out.coding) PROVE bytes = D
  <2>1. out.coding \in {"YUV422", "MONO8", "RGB8"}
    BY <1>2 DEF Supported
  <2>2. /\ out.coding = "YUV422" => bytes = Y /\ D = Y
        /\ out.coding = "MONO8" => bytes = M /\ D = M
        /\ out.coding = "RGB8" => bytes = R /\ D = R
    BY DEF Bytes
  <2> QED BY <2>1, <2>2
<1>3. \A f, e : Outcome(f, e).err = e
  BY DEF Outcome
<1> HIDE DEF a, bytes, D, Y, M, R
<1>4. \/ /\ o.err # "SUCCESS"
         /\ ~Supported(in.coding, out.coding) \/ a.image = NULL \/ HalfPair(in, out) \/ D = {}
      \/ Supported(in.coding, out.coding) /\ \E b \in D : o = Stored8(a, b)
  BY <1>1, <1>2, <1>3
<1> QED BY <1>4 DEF a, D

LEMMA ConvertShows ==
    ASSUME NEW in, MemoryOK(in), in.size[1] % 2 = 0,
           NEW out, DOMAIN out = Fields, MemoryOK(out),
           NEW fill, NEW o \in Converted(in, out, fill), o.err = "SUCCESS"
    PROVE  Shows(in, o.out) /\ o.out.coding \in {"YUV422", "MONO8", "RGB8"}
<1> DEFINE a == Adapt_buffer_convert(in, out, fill)
<1>1. Supported(in.coding, out.coding) /\ \E b \in Bytes(in, out.coding, out.order) : o = Stored8(a, b)
  BY ConvertedBytes
<1>2. PICK b \in Bytes(in, out.coding, out.order) : o = Stored8(a, b) /\ DOMAIN b \subseteq DOMAIN a.image
  <2>1. PICK b \in Bytes(in, out.coding, out.order) : o = Stored8(a, b)
    BY <1>1
  <2> HIDE DEF a
  <2> QED BY <2>1, Stored8Cases
<1>3. out.coding \in {"YUV422", "MONO8", "RGB8"}
  BY <1>1 DEF Supported
<1>4. /\ DOMAIN a = Fields /\ a.size = in.size /\ a.coding = out.coding /\ a.order = out.order
      /\ a.image_bytes = (in.size[1] * in.size[2] * BitSize(out.coding)) \div 8
  <2>1. a = Adapt(in, out, in.size, in.position, out.coding, 8, fill)
    BY Zenon DEF Adapt_buffer_convert
  <2>2. a.order = out.order
    BY <2>1 DEF Adapt
  <2>3. BitSize(out.coding) \in Nat
    BY <1>3 DEF BitSize
  <2>4. in.size \in Nat \X Nat /\ in.padding \in Nat /\ in.image_bytes \in Nat
    BY DEF MemoryOK
  <2> HIDE DEF a
  <2> QED BY <2>1, <2>2, <2>3, <2>4, Adapted
<1> HIDE DEF a
<1>5. /\ o.out.size = a.size /\ o.out.coding = a.coding /\ o.out.image_bytes = a.image_bytes
      /\ o.out.image = [i \in DOMAIN a.image |-> IF i \in DOMAIN b THEN b[i] ELSE a.image[i]]
  BY <1>2, <1>4, Stored8Fields
<1>6. o.out.order = a.order
  <2> DEFINE im == [i \in DOMAIN a.image |-> IF i \in DOMAIN b THEN b[i] ELSE a.image[i]]
  <2>1. o.out = [a EXCEPT !.image = im, !.fresh = a.fresh \ DOMAIN b]
    BY <1>2, Zenon DEF Stored8, Outcome
  <2> HIDE DEF im
  <2>2. "order" \in DOMAIN a
    BY <1>4 DEF Fields, Calloced
  <2> QED BY <2>1, <2>2, Zenon
<1>8. \A k \in DOMAIN b : o.out.image[k] = b[k]
  BY <1>2, <1>5
<1>9. b \in Bytes(in, o.out.coding, o.out.order)
  BY <1>4, <1>5, <1>6
<1>10. o.out.image_bytes = (o.out.size[1] * o.out.size[2] * BitSize(o.out.coding)) \div 8
  BY <1>4, <1>5, Zenon
<1>11. o.out.size = in.size /\ Supported(in.coding, o.out.coding)
  BY <1>1, <1>4, <1>5
<1> QED BY <1>3, <1>4, <1>5, <1>8, <1>9, <1>10, <1>11 DEF Shows

\* Straight to the picture: it cannot fail.
LEMMA DirectBytes ==
    ASSUME NEW f, Described(f), MemoryOK(f), f.coding # "YUV422", f.size[1] % 2 = 0,
           NEW to, Supported(f.coding, to), NEW order, to = "YUV422" => order \in Orders,
           NEW out, out.coding = to, out.order = order, out.allocated = 0,
           NEW d \in Converted(f, out, 0)
    PROVE  \E b \in Bytes(f, to, order) :
              \A k \in 0 .. ((f.size[1] * f.size[2] * BitSize(to)) \div 8) - 1 :
                 k \in DOMAIN b => d.out.image[k] = b[k]
<1> DEFINE a == Adapt_buffer_convert(f, out, 0)
           bytes == (f.size[1] * f.size[2] * BitSize(to)) \div 8
<1>1. out.coding = to /\ out.order = order /\ out.allocated = 0
  OBVIOUS
<1>2. to \in {"YUV422", "MONO8", "RGB8"}
  BY DEF Supported
<1>0. /\ f.size \in Nat \X Nat /\ f.size[1] \in Nat /\ f.size[2] \in Nat
      /\ \E m \in Nat : f.size[1] * f.size[2] = 2 * m
  <2>1. f.size \in Nat \X Nat /\ f.size[1] \in Nat /\ f.size[2] \in Nat
    BY DEF Described
  <2> DEFINE q == f.size[1] \div 2
  <2>2. q \in Nat /\ f.size[1] = 2 * q
    BY <2>1
  <2> HIDE DEF q
  <2>3. q * f.size[2] \in Nat /\ f.size[1] * f.size[2] = 2 * (q * f.size[2])
    BY <2>1, <2>2
  <2> QED BY <2>1, <2>3
<1>3. bytes \in Nat /\ bytes > 0
  <2>1. f.size[1] \in Nat /\ f.size[2] \in Nat /\ f.size[1] > 0 /\ f.size[2] > 0 /\ f.size \in Nat \X Nat
    BY DEF Described
  <2> DEFINE n == f.size[1] * f.size[2]
  <2>2. n \in Nat /\ n > 0
    <3>1. 1 * f.size[2] <= f.size[1] * f.size[2]
      BY <2>1, Monotone
    <3> QED BY <2>1, <3>1
  <2>3. BitSize(to) \in {8, 16, 24}
    BY <1>2 DEF BitSize
  <2> HIDE DEF n
  <2>4. (n * 8) \div 8 = n /\ (n * 16) \div 8 = 2 * n /\ (n * 24) \div 8 = 3 * n
    BY <2>2
  <2>5. bytes = (n * BitSize(to)) \div 8
    BY DEF n
  <2> HIDE DEF bytes
  <2> QED BY <2>2, <2>3, <2>4, <2>5
<1>4. a.image # NULL /\ DOMAIN a.image = 0 .. bytes + f.padding - 1 /\ DOMAIN a = Fields
  <2>1. a = Adapt(f, out, f.size, f.position, to, 8, 0)
    BY <1>1, Zenon DEF Adapt_buffer_convert
  <2> DEFINE total == bytes + f.padding  image == Memory(out, total, 0)
             tail == IF image = NULL THEN {} ELSE bytes .. total - 1
  <2>2. a.image = [i \in DOMAIN image |->
                     IF i \in tail THEN f.image[f.image_bytes + i - bytes] ELSE image[i]]
    <3>1. Adapt(f, out, f.size, f.position, to, 8, 0).image
            = [i \in DOMAIN image |-> IF i \in tail THEN f.image[f.image_bytes + i - bytes] ELSE image[i]]
      <4> HIDE DEF a
      <4> QED BY Zenon DEF Adapt
    <3> HIDE DEF a, image, tail, bytes
    <3> QED BY <2>1, <3>1, Zenon
  <2>3. DOMAIN a = Fields
    BY <2>1 DEF Adapt, Fields, Calloced
  <2>4. f.padding \in Nat
    BY DEF Described
  <2> HIDE DEF a, bytes
  <2>5. image = [i \in 0 .. total - 1 |-> 0]
    <3>1. ~(total <= out.allocated) /\ 0 # NoMemory
      BY <1>1, <1>3, <2>4 DEF NoMemory
    <3> HIDE DEF total
    <3> QED BY <3>1 DEF Memory
  <2>6. DOMAIN image = 0 .. total - 1
    BY <2>5
  <2> HIDE DEF image, tail
  <2>7. DOMAIN a.image = 0 .. total - 1
    BY <2>2, <2>6
  <2>8. 0 \in 0 .. total - 1
    BY <1>3, <2>4
  <2>9. DOMAIN NULL = {}
    BY DEF NULL
  <2>10. a.image # NULL
    <3> SUFFICES ASSUME a.image = NULL PROVE FALSE
      OBVIOUS
    <3> HIDE DEF total
    <3> QED BY <2>7, <2>8, <2>9, Zenon
  <2>12. total = bytes + f.padding
    OBVIOUS
  <2> HIDE DEF total
  <2>11. DOMAIN a.image = 0 .. bytes + f.padding - 1
    BY <1>3, <2>4, <2>7, <2>12
  <2> QED BY <2>3, <2>10, <2>11
<1>5. Bytes(f, to, order) # {}
  <2>0. f.coding \in Convertible
    BY DEF Described
  <2>1. CASE to = "YUV422"
    <3>1. Bytes(f, to, order) = convert_to_YUV422(f.image, f.size[1], f.size[2], order, f.coding, f.depth)
      BY <2>1 DEF Bytes
    <3>2. convert_to_YUV422(f.image, f.size[1], f.size[2], order, f.coding, f.depth) # {}
      BY <2>0, <2>1 DEF convert_to_YUV422, Convertible
    <3> QED BY <3>1, <3>2
  <2>2. CASE to = "MONO8"
    <3>1. f.coding \in {"MONO8", "MONO16"}
      BY <2>2 DEF Supported
    <3>2. Bytes(f, to, order) = convert_to_MONO8(f.image, f.size[1], f.size[2], f.coding, f.depth)
      BY <2>2 DEF Bytes
    <3>3. convert_to_MONO8(f.image, f.size[1], f.size[2], f.coding, f.depth) # {}
      BY <3>1 DEF convert_to_MONO8
    <3> QED BY <3>2, <3>3
  <2>3. CASE to = "RGB8"
    <3>1. Bytes(f, to, order) = convert_to_RGB8(f.image, f.size[1], f.size[2], f.order, f.coding, f.depth)
      BY <2>3 DEF Bytes
    <3>2. convert_to_RGB8(f.image, f.size[1], f.size[2], f.order, f.coding, f.depth) # {}
      BY <2>0 DEF convert_to_RGB8, Convertible
    <3> QED BY <3>1, <3>2
  <2> QED BY <1>2, <2>1, <2>2, <2>3
<1>6. PICK b \in Bytes(f, to, order) : d = Stored8(a, b)
  <2>1. \/ ~Supported(f.coding, out.coding) \/ a.image = NULL \/ HalfPair(f, out)
        \/ Bytes(f, out.coding, out.order) = {}
        \/ \E b \in Bytes(f, out.coding, out.order) : d = Stored8(a, b)
    BY ConvertedBytes
  <2>2. ~HalfPair(f, out)
    <3>1. (f.size[1] * f.size[2]) % 2 = 0
      BY <1>0
    <3> QED BY <3>1 DEF HalfPair
  <2> HIDE DEF a
  <2> QED BY <1>1, <1>4, <1>5, <2>1, <2>2
<1>8. f.padding \in Nat
  BY DEF Described
<1>10. DOMAIN b \subseteq DOMAIN a.image
  <2>1. PICK m \in Nat : f.size[1] * f.size[2] = 2 * m
    BY <1>0
  <2>2. DOMAIN b = 0 .. Size(to, m) - 1
    <3> HIDE DEF a, bytes
    <3> QED BY <1>0, <1>2, <1>6, <2>1, BytesDomain
  <2>3. Size(to, m) = bytes
    <3>1. /\ BitSize("YUV422") = 16 /\ BitSize("MONO8") = 8 /\ BitSize("RGB8") = 24
      BY DEF BitSize
    <3>2. /\ (2 * m * 16) \div 8 = 4 * m /\ (2 * m * 8) \div 8 = 2 * m /\ (2 * m * 24) \div 8 = 3 * (2 * m)
      OBVIOUS
    <3>3. bytes = (2 * m * BitSize(to)) \div 8
      BY <2>1
    <3> HIDE DEF bytes
    <3> QED BY <1>2, <3>1, <3>2, <3>3 DEF Size
  <2> HIDE DEF a, bytes
  <2> QED BY <1>3, <1>4, <1>8, <2>2, <2>3
<1> HIDE DEF a, bytes
<1>7. d.out.image = [i \in DOMAIN a.image |-> IF i \in DOMAIN b THEN b[i] ELSE a.image[i]]
  <2>1. DOMAIN a = Fields
    BY <1>4
  <2> QED BY <1>6, <1>10, <2>1, Stored8Fields
<1>9. \A k \in 0 .. bytes - 1 : k \in DOMAIN b => d.out.image[k] = b[k]
  <2>1. \A k \in 0 .. bytes - 1 : k \in 0 .. bytes + f.padding - 1
    BY <1>3, <1>8
  <2> QED BY <1>4, <1>7, <2>1
<1> QED BY <1>6, <1>9 DEF bytes

\* What a successful conversion of rows of pairs has shown is still there.
RouteInv ==
    \A i \in 2 .. 3 : Made(i, "convert") /\ frame[i - 1].size[1] % 2 = 0 =>
        Shows(frame[i - 1], frame[i]) /\ frame[i].coding \in {"YUV422", "MONO8", "RGB8"}

LEMMA CalledShows ==
    ASSUME Inv, RouteInv, NEW i \in 1 .. 2, NEW op, NEW arg, NEW o, Call(i, op, arg, o),
           op = "convert" /\ o.err = "SUCCESS" /\ frame[i].size[1] % 2 = 0
             => Shows(frame[i], o.out) /\ o.out.coding \in {"YUV422", "MONO8", "RGB8"}
    PROVE  RouteInv'
<1>1. /\ frame' = [frame EXCEPT ![i + 1] = o.out]
      /\ made' = [j \in 2 .. 3 |-> IF j = i + 1 THEN [op |-> op, arg |-> arg, err |-> o.err]
                                  ELSE IF j > i THEN NotMade ELSE made[j]]
  BY DEF Call
<1>2. DOMAIN frame = 1 .. 3
  BY DEF Inv
<1> DEFINE P(k) == Made(k, "convert")' /\ frame'[k - 1].size[1] % 2 = 0 =>
                      Shows(frame'[k - 1], frame'[k]) /\ frame'[k].coding \in {"YUV422", "MONO8", "RGB8"}
<1>3. CASE i = 1
  <2>1. frame'[1] = frame[1] /\ frame'[2] = o.out
    BY <1>1, <1>2, <1>3
  <2>2. made'[2].op = op /\ made'[2].err = o.err /\ made'[3].err = "none"
    BY <1>1, <1>3 DEF NotMade
  <2>3. P(2)
    BY <1>3, <2>1, <2>2 DEF Made
  <2>4. P(3)
    BY <2>2 DEF Made
  <2> QED BY <2>3, <2>4 DEF RouteInv
<1>4. CASE i = 2
  <2>1. frame'[1] = frame[1] /\ frame'[2] = frame[2] /\ frame'[3] = o.out
    BY <1>1, <1>2, <1>4
  <2>2. made'[2] = made[2] /\ made'[3].op = op /\ made'[3].err = o.err
    BY <1>1, <1>4
  <2>3. P(2)
    <3>1. Made(2, "convert") /\ frame[2 - 1].size[1] % 2 = 0 =>
             Shows(frame[2 - 1], frame[2]) /\ frame[2].coding \in {"YUV422", "MONO8", "RGB8"}
      BY DEF RouteInv
    <3> QED BY <2>1, <2>2, <3>1 DEF Made
  <2>4. P(3)
    BY <1>4, <2>1, <2>2 DEF Made
  <2> QED BY <2>3, <2>4 DEF RouteInv
<1> QED BY <1>3, <1>4

LEMMA ConvertKeepsRoutes == \A i \in 1 .. 2 : Inv /\ RouteInv /\ Convert(i) => RouteInv'
<1> SUFFICES ASSUME NEW i \in 1 .. 2, Inv, RouteInv, Convert(i) PROVE RouteInv'
  OBVIOUS
<1>1. PICK to \in {"YUV422", "MONO8", "RGB8", "YUV444"}, order \in Orders \cup {"none"},
           fill \in Fills \cup {NoMemory} :
        LET out == [frame[i + 1] EXCEPT !.coding = to, !.order = order]
        IN  \E outcome \in Converted(frame[i], out, fill) : Call(i, "convert", to, outcome)
  BY Zenon DEF Convert
<1> DEFINE out == [frame[i + 1] EXCEPT !.coding = to, !.order = order]
<1>2. PICK o \in Converted(frame[i], out, fill) : Call(i, "convert", to, o)
  BY <1>1, Zenon
<1>3. MemoryOK(frame[i]) /\ MemoryOK(frame[i + 1]) /\ DOMAIN frame[i + 1] = Fields
  BY DEF Inv
<1>4. DOMAIN out = Fields /\ MemoryOK(out)
  BY <1>3, Redescribed, Zenon
<1> HIDE DEF out
<1>5. o.err = "SUCCESS" /\ frame[i].size[1] % 2 = 0
        => Shows(frame[i], o.out) /\ o.out.coding \in {"YUV422", "MONO8", "RGB8"}
  BY <1>2, <1>3, <1>4, ConvertShows
<1> QED BY <1>2, <1>5, CalledShows

LEMMA RoutesKeep == Inv /\ RouteInv /\ [Next]_vars => RouteInv'
<1> SUFFICES ASSUME Inv, RouteInv, [Next]_vars PROVE RouteInv'
  OBVIOUS
<1>1. CASE Convert(1) \/ Convert(2)
  BY <1>1, ConvertKeepsRoutes
<1>2. CASE Debayer \/ Deinterlace
  <2>1. PICK op, arg, o : op # "convert" /\ Call(1, op, arg, o)
    <3>1. CASE Debayer
      <4>1. \E arg, o : Call(1, "debayer", arg, o)
        BY <3>1, Zenon DEF Debayer
      <4> QED BY <4>1
    <3>2. CASE Deinterlace
      <4>1. \E arg, o : Call(1, "stereo", arg, o)
        BY <3>2 DEF Deinterlace
      <4> QED BY <4>1
    <3> QED BY <1>2, <3>1, <3>2
  <2> QED BY <2>1, CalledShows
<1>3. CASE Capture
  <2>1. made' = [i \in 2 .. 3 |-> NotMade]
    BY <1>3 DEF Capture
  <2> QED BY <2>1 DEF RouteInv, Made, NotMade
<1>4. CASE UNCHANGED vars
  BY <1>4 DEF vars, RouteInv, Made
<1> QED BY <1>1, <1>2, <1>3, <1>4 DEF Next

LEMMA RoutesMeetNow ==
    ASSUME Inv, RouteInv
    PROVE  RoutesAgree
<1> DEFINE f == frame[1]  g == frame[2]  e == frame[3]
           out == [Calloced EXCEPT !.coding = e.coding, !.order = e.order]
<1> SUFFICES ASSUME Made(2, "convert"), Made(3, "convert"), f.size[1] % 2 = 0,
                    Lossless(f.coding, g.coding, e.coding), Supported(f.coding, e.coding),
                    ~(g.coding = "YUV422" /\ e.coding = "YUV422" /\ g.order = "YUYV"),
                    NEW d \in Converted(f, out, 0),
                    NEW k \in 0 .. e.image_bytes - 1
             PROVE  d.out.image[k] = e.image[k]
  BY Zenon DEF RoutesAgree
<1>0. out.coding = e.coding /\ out.order = e.order /\ out.allocated = 0
  <2>1. "coding" \in DOMAIN Calloced /\ "order" \in DOMAIN Calloced /\ "allocated" \in DOMAIN Calloced
        /\ Calloced.allocated = 0
    BY DEF Calloced
  <2>2. out.coding = e.coding
    BY <2>1, Zenon
  <2>3. out.order = e.order
    BY <2>1, Zenon
  <2>4. out.allocated = 0
    BY <2>1, Zenon
  <2> QED BY <2>2, <2>3, <2>4, Zenon
<1> HIDE DEF out
<1>1. Described(f) /\ MemoryOK(f)
  BY FramesAssumption DEF Inv
<1>2. /\ Shows(f, g) /\ g.coding \in {"YUV422", "MONO8", "RGB8"}
      /\ Shows(g, e) /\ e.coding \in {"YUV422", "MONO8", "RGB8"}
  <2>1. Made(2, "convert") /\ frame[2 - 1].size[1] % 2 = 0 =>
             Shows(frame[2 - 1], frame[2]) /\ frame[2].coding \in {"YUV422", "MONO8", "RGB8"}
    BY DEF RouteInv
  <2>2. Made(3, "convert") /\ frame[3 - 1].size[1] % 2 = 0 =>
             Shows(frame[3 - 1], frame[3]) /\ frame[3].coding \in {"YUV422", "MONO8", "RGB8"}
    BY DEF RouteInv
  <2>3. Shows(f, g) /\ g.coding \in {"YUV422", "MONO8", "RGB8"}
    BY <2>1
  <2>4. g.size[1] % 2 = 0
    BY <2>3 DEF Shows
  <2> QED BY <2>2, <2>3, <2>4
<1> HIDE DEF f, g, e
<1>3. f.coding # "YUV422"
  BY DEF Lossless
<1>4. e.coding = "YUV422" => e.order \in Orders
  <2>1. PICK b \in Bytes(g, e.coding, e.order) : TRUE
    BY <1>2 DEF Shows
  <2>2. ASSUME e.coding = "YUV422"
        PROVE  b \in convert_to_YUV422(g.image, g.size[1], g.size[2], e.order, g.coding, g.depth)
    BY <2>1, <2>2 DEF Bytes
  <2> QED BY <2>2 DEF convert_to_YUV422
<1>5. PICK b \in Bytes(f, e.coding, e.order) :
         \A j \in 0 .. ((f.size[1] * f.size[2] * BitSize(e.coding)) \div 8) - 1 :
            j \in DOMAIN b => d.out.image[j] = b[j]
  <2> DEFINE to == e.coding  order == e.order
  <2>1. Supported(f.coding, to) /\ (to = "YUV422" => order \in Orders)
    BY <1>4
  <2>2. out.coding = to /\ out.order = order /\ out.allocated = 0
    BY <1>0
  <2> HIDE DEF to, order
  <2>3. \E b \in Bytes(f, to, order) :
           \A j \in 0 .. ((f.size[1] * f.size[2] * BitSize(to)) \div 8) - 1 :
              j \in DOMAIN b => d.out.image[j] = b[j]
    BY <1>1, <1>3, <2>1, <2>2, DirectBytes
  <2> QED BY <2>3, Zenon DEF to, order
<1>6. e.image_bytes = (f.size[1] * f.size[2] * BitSize(e.coding)) \div 8
  <2>1. e.size = g.size /\ g.size = f.size
        /\ e.image_bytes = (e.size[1] * e.size[2] * BitSize(e.coding)) \div 8
    BY <1>2, Zenon DEF Shows
  <2> QED BY <2>1, Zenon
<1>7. DOMAIN b = 0 .. e.image_bytes - 1 /\ \A j \in 0 .. e.image_bytes - 1 : b[j] = e.image[j]
  BY <1>1, <1>2, Ways, SMTT(60)
<1> QED BY <1>5, <1>6, <1>7, Zenon

\* The way of a picture of even width through another coding ends in the picture of
\* the direct way, for every even width and every height.
THEOREM RoutesMeet == Spec => []RoutesAgree
<1> DEFINE J == Inv /\ RouteInv
<1>1. Init => J
  <2> SUFFICES ASSUME Init PROVE RouteInv
    BY Starts
  <2>1. made = [i \in 2 .. 3 |-> NotMade]
    BY DEF Init
  <2> QED BY <2>1 DEF RouteInv, Made, NotMade
<1>2. J /\ [Next]_vars => J'
  BY Keeps, RoutesKeep
<1>3. J => RoutesAgree
  BY RoutesMeetNow
<1> QED BY <1>1, <1>2, <1>3, PTL DEF Spec
=============================================================================

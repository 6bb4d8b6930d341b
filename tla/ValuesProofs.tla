---------------------------- MODULE ValuesProofs ----------------------------
(***************************************************************************)
(* What the calls of Frames make of the values of a picture: every byte is *)
(* a byte, no decoder makes a component that the depth does not hold, and  *)
(* all show a scene without detail as it is.  With FramesProofs, where the *)
(* calls are shown to keep to the memory of the frames.                    *)
(***************************************************************************)
EXTENDS FramesProofs

-----------------------------------------------------------------------------
(* Induction and sums *)

\* A set of numbers that is not empty has a least one.
LEMMA NatLeast ==
    ASSUME NEW T, T \subseteq Nat, T # {}
    PROVE  \E m \in T : \A k \in T : m <= k
<1> DEFINE R == {ss \in Nat \X Nat : ss[1] < ss[2]}
<1>1. IsWellFoundedOn(R, Nat)
  BY NatLessThanWellFounded DEF OpToRel
<1>2. PICK m \in T : \A k \in T : ~ (<<k, m>> \in R)
  <2> HIDE DEF R
  <2> QED BY <1>1, WFMin
<1>3. \A k \in T : ~ (k < m)
  BY <1>2
<1> QED BY <1>3

\* What holds of 0, and of k + 1 if of k, holds up to n.
LEMMA UpTo ==
    ASSUME NEW n \in Nat, NEW H, 0 \in H, \A k \in 0 .. n - 1 : k \in H => k + 1 \in H
    PROVE  \A k \in 0 .. n : k \in H
<1> DEFINE T == {k \in 0 .. n : k \notin H}
<1> SUFFICES ASSUME T # {} PROVE FALSE
  OBVIOUS
<1>1. PICK m \in T : \A k \in T : m <= k
  <2>1. T \subseteq Nat
    OBVIOUS
  <2> HIDE DEF T
  <2> QED BY <2>1, NatLeast
<1>2. m \in 1 .. n /\ m \notin H
  OBVIOUS
<1>3. m - 1 \in 0 .. n - 1 /\ m - 1 \notin T
  BY <1>1, <1>2
<1>4. m - 1 \in H
  BY <1>3
<1>5. m - 1 + 1 \in H
  BY <1>3, <1>4
<1> QED BY <1>2, <1>5

\* The partial sums of f.
Sums(u, f, n) == u = [k \in 0 .. n |-> IF k = 0 THEN 0 ELSE u[k - 1] + f[k]]

LEMMA SumsExist ==
    ASSUME NEW n \in Nat, NEW f, \A k \in 1 .. n : f[k] \in Int
    PROVE  \E u : Sums(u, f, n)
<1> DEFINE H == {m \in 0 .. n : \E u \in [0 .. m -> Int] : Sums(u, f, m)}
<1>1. 0 \in H
  <2> DEFINE u == [k \in 0 .. 0 |-> 0]
  <2>1. u \in [0 .. 0 -> Int] /\ Sums(u, f, 0)
    BY DEF Sums
  <2> QED BY <2>1
<1>2. ASSUME NEW m \in 0 .. n - 1, m \in H PROVE m + 1 \in H
  <2>1. PICK u \in [0 .. m -> Int] : Sums(u, f, m)
    BY <1>2
  <2> DEFINE v == [k \in 0 .. m + 1 |-> IF k = m + 1 THEN u[m] + f[m + 1] ELSE u[k]]
  <2>2. v \in [0 .. m + 1 -> Int]
    OBVIOUS
  <2>3. ASSUME NEW k \in 0 .. m + 1
        PROVE  v[k] = IF k = 0 THEN 0 ELSE v[k - 1] + f[k]
    <3>1. CASE k = m + 1
      BY <3>1
    <3>2. CASE k # m + 1
      <4>1. k \in 0 .. m /\ v[k] = u[k] /\ (k # 0 => v[k - 1] = u[k - 1])
        BY <3>2
      <4>2. u[k] = IF k = 0 THEN 0 ELSE u[k - 1] + f[k]
        BY <2>1, <4>1 DEF Sums
      <4> QED BY <4>1, <4>2
    <3> QED BY <3>1, <3>2
  <2> HIDE DEF v
  <2>4. Sums(v, f, m + 1)
    BY <2>2, <2>3 DEF Sums
  <2> QED BY <2>2, <2>4
<1> HIDE DEF H
<1>3. n \in H
  BY SMTT(60), <1>1, <1>2, UpTo
<1> QED BY <1>3 DEF H

\* Total(f, n) is the last of the partial sums.
LEMMA TotalSums ==
    ASSUME NEW n \in Nat, NEW f, \A k \in 1 .. n : f[k] \in Int
    PROVE  \E u : Sums(u, f, n) /\ Total(f, n) = u[n]
<1> DEFINE u == CHOOSE u : Sums(u, f, n)
<1>1. Sums(u, f, n)
  BY SumsExist
<1>2. Total(f, n) = u[n]
  BY DEF Total, Sums
<1> QED BY <1>1, <1>2

\* A sum of numbers in proportion to others, each between so many times theirs.
LEMMA TotalBetween ==
    ASSUME NEW n \in Nat, NEW f, NEW g, NEW lo \in Int, NEW hi \in Int,
           \A k \in 1 .. n : /\ f[k] \in Int /\ g[k] \in Int
                             /\ lo * g[k] <= f[k] /\ f[k] <= hi * g[k]
    PROVE  /\ Total(f, n) \in Int /\ Total(g, n) \in Int
           /\ lo * Total(g, n) <= Total(f, n) /\ Total(f, n) <= hi * Total(g, n)
<1>1. PICK u : Sums(u, f, n) /\ Total(f, n) = u[n]
  BY TotalSums
<1>2. PICK v : Sums(v, g, n) /\ Total(g, n) = v[n]
  BY TotalSums
<1> DEFINE H == {k \in 0 .. n : /\ u[k] \in Int /\ v[k] \in Int
                                /\ lo * v[k] <= u[k] /\ u[k] <= hi * v[k]}
<1>3. 0 \in H
  <2>1. u[0] = 0 /\ v[0] = 0
    BY <1>1, <1>2 DEF Sums
  <2> QED BY <2>1
<1>4. ASSUME NEW k \in 0 .. n - 1, k \in H PROVE k + 1 \in H
  <2> DEFINE a == f[k + 1]  b == g[k + 1]  p == u[k]  q == v[k]
  <2>1. u[k + 1] = p + a /\ v[k + 1] = q + b
    BY <1>1, <1>2 DEF Sums
  <2>2. a \in Int /\ b \in Int /\ lo * b <= a /\ a <= hi * b
    OBVIOUS
  <2>3. p \in Int /\ q \in Int /\ lo * q <= p /\ p <= hi * q
    BY <1>4
  <2> HIDE DEF a, b, p, q
  <2>4. lo * (q + b) = lo * q + lo * b /\ hi * (q + b) = hi * q + hi * b
    BY <2>2, <2>3
  <2>5. /\ p + a \in Int /\ q + b \in Int
        /\ lo * (q + b) <= p + a /\ p + a <= hi * (q + b)
    BY <2>2, <2>3, <2>4
  <2> QED BY <2>1, <2>5
<1> HIDE DEF H
<1>5. n \in H
  <2>1. \A k \in 0 .. n : k \in H
    BY <1>3, <1>4, UpTo, Zenon
  <2> QED BY <2>1
<1> QED BY <1>1, <1>2, <1>5 DEF H

\* More bits hold more.
LEMMA PowerUp ==
    ASSUME NEW bits \in Nat, NEW B \in Nat, bits <= B
    PROVE  2 ^ bits <= 2 ^ B
<1> DEFINE S == 1 .. bits  T == 1 .. B
<1>1. IsFiniteSet(S) /\ Cardinality(S) = bits
  <2>1. Cardinality(S) = IF 1 > bits THEN 0 ELSE bits - 1 + 1
    BY FS_Interval
  <2>2. IsFiniteSet(S)
    BY FS_Interval
  <2> HIDE DEF S
  <2> QED BY <2>1, <2>2
<1>2. IsFiniteSet(T) /\ Cardinality(T) = B
  <2>1. Cardinality(T) = IF 1 > B THEN 0 ELSE B - 1 + 1
    BY FS_Interval
  <2>2. IsFiniteSet(T)
    BY FS_Interval
  <2> HIDE DEF T
  <2> QED BY <2>1, <2>2
<1>3. SUBSET S \in SUBSET (SUBSET T)
  OBVIOUS
<1> HIDE DEF S, T
<1>4. Cardinality(SUBSET S) = 2 ^ bits /\ Cardinality(SUBSET T) = 2 ^ B /\ IsFiniteSet(SUBSET T)
  BY <1>1, <1>2, FS_SUBSET
<1>5. Cardinality(SUBSET S) <= Cardinality(SUBSET T)
  BY <1>3, <1>4, FS_Subset
<1> QED BY <1>4, <1>5

LEMMA FitsUp ==
    ASSUME NEW bits \in Nat, NEW B \in Nat, bits <= B, NEW v, Fits(v, bits)
    PROVE  Fits(v, B)
<1> DEFINE m == 2 ^ bits  n == 2 ^ B
<1>1. m <= n /\ m \in Nat /\ n \in Nat
  BY PowerUp, PowerNat
<1>2. v \in Nat /\ v < m
  BY DEF Fits
<1> HIDE DEF m, n
<1>3. v \in Nat /\ v < n
  BY <1>1, <1>2
<1> QED BY <1>3 DEF Fits, n

\* What is limited fits.
LEMMA ClipFits ==
    ASSUME NEW bits \in Nat, NEW v \in Int
    PROVE  Fits(Clip(v, bits), bits)
<1> DEFINE m == 2 ^ bits
<1>1. m \in Nat /\ m > 0
  BY PowerNat
<1>2. Clip(v, bits) = IF v < 0 THEN 0 ELSE IF v >= m THEN m - 1 ELSE v
  BY DEF Clip
<1> HIDE DEF m
<1>3. Clip(v, bits) \in Nat /\ Clip(v, bits) < m
  BY <1>1, <1>2
<1> QED BY <1>3 DEF Fits, m

LEMMA ZeroFits == ASSUME NEW bits \in Nat PROVE Fits(0, bits)
BY PowerNat DEF Fits

\* What lies between samples that fit.
LEMMA WithinFits ==
    ASSUME NEW bits \in Nat, NEW N, \A s \in N : Fits(s, bits), NEW v \in Nat, Within(N, v)
    PROVE  Fits(v, bits)
<1> DEFINE m == 2 ^ bits
<1>1. m \in Nat
  BY PowerNat
<1>2. PICK a \in N : a >= v
  BY DEF Within
<1>3. a \in Nat /\ a < m
  BY DEF Fits
<1> HIDE DEF m
<1>4. v < m
  BY <1>1, <1>2, <1>3
<1> QED BY <1>4 DEF Fits, m

\* All that a decoder stores fits.
FitsAll(d, bits) == \A i \in DOMAIN d : Fits(d[i], bits)

LEMMA OverFits ==
    ASSUME NEW bits, NEW f, FitsAll(f, bits), NEW g, FitsAll(g, bits)
    PROVE  FitsAll(Over(f, g), bits)
BY DEF FitsAll, Over

LEMMA NothingFits == ASSUME NEW S, NEW bits \in Nat PROVE FitsAll(Zero(S), bits)
BY ZeroFits DEF FitsAll, Zero

LEMMA PlaceIs ==
    ASSUME NEW w, NEW rows, NEW cols, NEW y \in rows, NEW x \in cols, NEW c \in 0 .. 2
    PROVE  3 * (y * w + x) + c \in Places(w, rows, cols)
BY DEF Places

\* The place of an offset.
LEMMA PlaceOf ==
    ASSUME NEW w \in Nat, NEW rows \in SUBSET Nat, NEW cols, cols \subseteq 0 .. w - 1,
           NEW i \in Places(w, rows, cols)
    PROVE  Row(w, i) \in rows /\ Column(w, i) \in cols /\ i % 3 \in 0 .. 2
<1>1. PICK y \in rows, x \in cols, c \in 0 .. 2 : i = 3 * (y * w + x) + c
  BY DEF Places
<1>2. i = Offset(w, y, x, c) /\ y \in Nat /\ x \in 0 .. w - 1
  BY <1>1 DEF Offset
<1>3. Row(w, i) = y /\ Column(w, i) = x /\ i % 3 = c
  BY <1>2, PlaceParts
<1> QED BY <1>3

-----------------------------------------------------------------------------
LEMMA NearestFits ==
    ASSUME NEW raw, raw.w \in Nat \ {0}, raw.h \in Nat \ {0}, NEW B \in Nat, AllFit(raw, B),
           NEW tile \in Tiles, NEW bits \in Nat, bits <= B
    PROVE  /\ FitsAll(NearestNeighbor(raw, tile), B)
           /\ FitsAll(NearestNeighbor_uint16(raw, tile, bits), B)
           /\ FitsAll(Simple(raw, tile), B)
<1> DEFINE rows == 0 .. raw.h - 2  cols == 0 .. raw.w - 2  P == Places(raw.w, rows, cols)
           n == [i \in P |-> NearestPixel(raw, tile, Row(raw.w, i), Column(raw.w, i), i % 3)]
           s == [i \in P |-> SimplePixel(raw, tile, Row(raw.w, i), Column(raw.w, i), i % 3)]
           Z == Zero(LastRowAndColumn(raw.w, raw.h))
<1>1. ASSUME NEW y \in rows, NEW x \in cols, NEW c \in 0 .. 2
      PROVE  Fits(NearestPixel(raw, tile, y, x, c), B) /\ Fits(SimplePixel(raw, tile, y, x, c), B)
  <2>1. \A v \in Near(raw, tile, y, x, c) : Fits(v, B)
    BY NearFits
  <2> QED BY <2>1, WithinFits, NearestPixelMixes
<1>2. ASSUME NEW i \in P PROVE Row(raw.w, i) \in rows /\ Column(raw.w, i) \in cols /\ i % 3 \in 0 .. 2
  <2>1. rows \in SUBSET Nat /\ cols \subseteq 0 .. raw.w - 1
    OBVIOUS
  <2> HIDE DEF rows, cols
  <2> QED BY <2>1, PlaceOf
<1> HIDE DEF P, rows, cols
<1>3. FitsAll(n, B) /\ FitsAll(s, B)
  BY <1>1, <1>2 DEF FitsAll
<1>4. FitsAll(Z, B)
  BY NothingFits
<1>5. /\ NearestNeighbor(raw, tile) = Over(n, Z)
      /\ NearestNeighbor_uint16(raw, tile, bits) = Over(n, Z)
      /\ Simple(raw, tile) = Over(s, Z)
  BY Zenon DEF NearestNeighbor, NearestNeighbor_uint16, Simple, P, rows, cols
<1> HIDE DEF n, s, Z
<1> QED BY <1>3, <1>4, <1>5, OverFits

LEMMA BilinearFits ==
    ASSUME NEW raw, raw.w \in Nat, raw.h \in Nat, NEW B \in Nat, AllFit(raw, B),
           NEW tile \in Tiles, NEW bits \in Nat, bits <= B
    PROVE  FitsAll(Bilinear(raw, tile), B) /\ FitsAll(Bilinear_uint16(raw, tile, bits), B)
<1> DEFINE rows == 1 .. raw.h - 2  cols == 1 .. raw.w - 2  P == Places(raw.w, rows, cols)
           n == [i \in P |-> BilinearPixel(raw, tile, Row(raw.w, i), Column(raw.w, i), i % 3)]
           Z == Zero(ClearBorders(raw.w, raw.h, 1))
<1>1. ASSUME NEW y \in rows, NEW x \in cols, NEW c \in 0 .. 2
      PROVE  Fits(BilinearPixel(raw, tile, y, x, c), B)
  <2>1. \A v \in Near(raw, tile, y, x, c) : Fits(v, B)
    BY NearFits
  <2> QED BY <2>1, WithinFits, BilinearPixelMixes
<1>2. ASSUME NEW i \in P PROVE Row(raw.w, i) \in rows /\ Column(raw.w, i) \in cols /\ i % 3 \in 0 .. 2
  <2>1. rows \in SUBSET Nat /\ cols \subseteq 0 .. raw.w - 1
    OBVIOUS
  <2> HIDE DEF rows, cols
  <2> QED BY <2>1, PlaceOf
<1> HIDE DEF P, rows, cols
<1>3. FitsAll(n, B)
  BY <1>1, <1>2 DEF FitsAll
<1>4. FitsAll(Z, B)
  BY NothingFits
<1>5. Bilinear(raw, tile) = Over(n, Z) /\ Bilinear_uint16(raw, tile, bits) = n
  BY Zenon DEF Bilinear, Bilinear_uint16, P, rows, cols
<1> HIDE DEF n, Z
<1> QED BY <1>3, <1>4, <1>5, OverFits

LEMMA Simple16Fits ==
    ASSUME NEW raw, raw.w \in Nat \ {0}, raw.h \in Nat \ {0}, NEW B \in Nat, AllFit(raw, B),
           NEW tile \in Tiles, NEW bits \in Nat, bits <= B
    PROVE  FitsAll(Simple_uint16(raw, tile, bits), B)
<1> DEFINE rows == 0 .. raw.h - 2  cols == 0 .. raw.w - 2  P == Places(raw.w, rows, cols)
           s == [i \in P |-> Simple16Pixel(raw, tile, Row(raw.w, i), Column(raw.w, i), i % 3, bits)]
           Z == Zero(LastRowAndColumn(raw.w, raw.h))
<1>1. ASSUME NEW y \in rows, NEW x \in cols, NEW c
      PROVE  Fits(Simple16Pixel(raw, tile, y, x, c, bits), B)
  <2> DEFINE S(py, px) == Sample(raw, y, x, py, px)
  <2>1. ASSUME NEW py \in {0, 1}, NEW px \in {0, 1} PROVE S(py, px) \in Nat
    <3>1. y + ((y + py) % 2) \in 0 .. raw.h - 1 /\ x + ((x + px) % 2) \in 0 .. raw.w - 1
      OBVIOUS
    <3>2. At(raw, y + ((y + py) % 2), x + ((x + px) % 2)) \in Nat
      BY <3>1, Zenon DEF AllFit, Fits
    <3> QED BY <3>2 DEF Sample
  <2> DEFINE p == S(0, 0)  q == S(0, 1)  r == S(1, 0)  t == S(1, 1)
             v == IF GreenFirst(tile)
                  THEN IF c = 1 THEN (p + t) \div 2 ELSE IF c = OutR(tile) THEN q ELSE r
                  ELSE IF c = 1 THEN (q + r) \div 2 ELSE IF c = OutR(tile) THEN t ELSE p
  <2>2. p \in Nat /\ q \in Nat /\ r \in Nat /\ t \in Nat
    BY <2>1
  <2>3. Simple16Pixel(raw, tile, y, x, c, bits) = Clip(v, bits)
    BY DEF Simple16Pixel
  <2> HIDE DEF p, q, r, t
  <2>4. v \in Int
    BY <2>2
  <2> HIDE DEF v
  <2> QED BY <2>3, <2>4, ClipFits, FitsUp
<1>2. ASSUME NEW i \in P PROVE Row(raw.w, i) \in rows /\ Column(raw.w, i) \in cols
  <2>1. rows \in SUBSET Nat /\ cols \subseteq 0 .. raw.w - 1
    OBVIOUS
  <2> HIDE DEF rows, cols
  <2> QED BY <2>1, PlaceOf
<1> HIDE DEF P, rows, cols
<1>3. FitsAll(s, B)
  BY <1>1, <1>2 DEF FitsAll
<1>4. FitsAll(Z, B)
  BY NothingFits
<1>5. Simple_uint16(raw, tile, bits) = Over(Z, s)
  BY Zenon DEF Simple_uint16, P, rows, cols
<1> HIDE DEF s, Z
<1> QED BY <1>3, <1>4, <1>5, OverFits

LEMMA DownsampleFits ==
    ASSUME NEW raw, raw.w \in Nat, raw.h \in Nat, raw.w % 2 = 0, raw.h % 2 = 0,
           NEW B \in Nat, AllFit(raw, B), NEW tile, NEW bits \in Nat, bits <= B
    PROVE  FitsAll(Downsample(raw, tile), B) /\ FitsAll(Downsample_uint16(raw, tile, bits), B)
<1> DEFINE u == raw.w \div 2  v == raw.h \div 2
           d == Downsample(raw, tile)  e == Downsample_uint16(raw, tile, bits)
<1>1. u \in Nat /\ v \in Nat /\ raw.w = 2 * u /\ raw.h = 2 * v
  BY Halves
<1>2. DOMAIN d = Whole(u, v) /\ DOMAIN e = Whole(u, v)
  BY DownsampleStores
<1> SUFFICES ASSUME NEW i \in Whole(u, v) PROVE Fits(d[i], B) /\ Fits(e[i], B)
  BY <1>2 DEF FitsAll
<1> DEFINE D == {3 * ((b * raw.w) \div 4 + a \div 2) + k :
                    b \in {n \in 0 .. raw.h - 1 : n % 2 = 0},
                    a \in {n \in 0 .. raw.w - 1 : n % 2 = 0}, k \in 0 .. 2}
           y == 2 * ((i \div 3) \div (raw.w \div 2))
           x == 2 * ((i \div 3) % (raw.w \div 2))
           s00 == At(raw, y, x)  s01 == At(raw, y, x + 1)
           s10 == At(raw, y + 1, x)  s11 == At(raw, y + 1, x + 1)
           green == IF GreenFirst(tile) THEN s00 + s11 ELSE s10 + s01
           value == IF i % 3 = 1 THEN green \div 2
                    ELSE IF i % 3 = OutR(tile)
                         THEN IF GreenFirst(tile) THEN s01 ELSE s11
                    ELSE IF GreenFirst(tile) THEN s10 ELSE s00
           plain == IF i % 3 = 1 THEN green \div 2
                    ELSE IF i % 3 = OutR(tile) THEN s11
                    ELSE IF GreenFirst(tile) THEN s10 ELSE s00
<1>3. /\ y \in 0 .. raw.h - 1 /\ y + 1 \in 0 .. raw.h - 1
      /\ x \in 0 .. raw.w - 1 /\ x + 1 \in 0 .. raw.w - 1
  <2> DEFINE p == Row(u, i)  q == Column(u, i)
  <2>1. y = 2 * p /\ x = 2 * q
    BY DEF Row, Column
  <2>2. p \in 0 .. v - 1 /\ q \in 0 .. u - 1
    <3> HIDE DEF u, v
    <3> QED BY <1>1, OffsetPlace
  <2> HIDE DEF p, q, u, v, y, x
  <2> QED BY <1>1, <2>1, <2>2
<1>4. i \in D
  <2>1. i \in DOMAIN Downsample(raw, tile)
    BY <1>2
  <2> HIDE DEF D, u, v, d, e, value, plain, y, x
  <2>2. Downsample(raw, tile) = [j \in D |->
            LET b == 2 * ((j \div 3) \div (raw.w \div 2))
                a == 2 * ((j \div 3) % (raw.w \div 2))
                g == IF GreenFirst(tile) THEN At(raw, b, a) + At(raw, b + 1, a + 1)
                                         ELSE At(raw, b + 1, a) + At(raw, b, a + 1)
            IN  IF j % 3 = 1 THEN g \div 2
                ELSE IF j % 3 = OutR(tile)
                     THEN IF GreenFirst(tile) THEN At(raw, b, a + 1) ELSE At(raw, b + 1, a + 1)
                ELSE IF GreenFirst(tile) THEN At(raw, b + 1, a) ELSE At(raw, b, a)]
    BY DEF Downsample, D
  <2> QED BY <2>1, <2>2, Zenon
<1>5. d[i] = value
  <2> HIDE DEF D, u, v
  <2>1. Downsample(raw, tile) = [j \in D |->
            LET b == 2 * ((j \div 3) \div (raw.w \div 2))
                a == 2 * ((j \div 3) % (raw.w \div 2))
                g == IF GreenFirst(tile) THEN At(raw, b, a) + At(raw, b + 1, a + 1)
                                         ELSE At(raw, b + 1, a) + At(raw, b, a + 1)
            IN  IF j % 3 = 1 THEN g \div 2
                ELSE IF j % 3 = OutR(tile)
                     THEN IF GreenFirst(tile) THEN At(raw, b, a + 1) ELSE At(raw, b + 1, a + 1)
                ELSE IF GreenFirst(tile) THEN At(raw, b + 1, a) ELSE At(raw, b, a)]
    BY DEF Downsample, D
  <2> QED BY <1>4, <2>1, Zenon
<1>6. e[i] = Clip(plain, bits)
  <2> HIDE DEF D, u, v
  <2>1. Downsample_uint16(raw, tile, bits) = [j \in D |->
            LET b == 2 * ((j \div 3) \div (raw.w \div 2))
                a == 2 * ((j \div 3) % (raw.w \div 2))
                g == IF GreenFirst(tile) THEN At(raw, b, a) + At(raw, b + 1, a + 1)
                                         ELSE At(raw, b + 1, a) + At(raw, b, a + 1)
            IN  Clip(IF j % 3 = 1 THEN g \div 2
                     ELSE IF j % 3 = OutR(tile) THEN At(raw, b + 1, a + 1)
                     ELSE IF GreenFirst(tile) THEN At(raw, b + 1, a) ELSE At(raw, b, a), bits)]
    BY DEF Downsample_uint16, D
  <2> QED BY <1>4, <2>1, Zenon
<1> HIDE DEF d, e, D, y, x, u, v
<1>7. Fits(s00, B) /\ Fits(s01, B) /\ Fits(s10, B) /\ Fits(s11, B)
  BY <1>3 DEF AllFit
<1> HIDE DEF s00, s01, s10, s11
<1>8. Fits((s00 + s11) \div 2, B) /\ Fits((s10 + s01) \div 2, B)
  BY <1>7, MeanFits
<1>9. Fits(value, B)
  BY <1>7, <1>8
<1>10. plain \in Int
  BY <1>7 DEF Fits
<1> HIDE DEF value, plain
<1> QED BY <1>5, <1>6, <1>9, <1>10, ClipFits, FitsUp

\* What HQLINEAR makes of a pixel fits whatever its kernels come to.
LEMMA HQPixelFits ==
    ASSUME NEW raw, raw.w \in Nat, raw.h \in Nat, NEW B \in Nat, AllFit(raw, B),
           NEW tile \in Tiles, NEW bits \in Nat, bits <= B,
           NEW y \in 2 .. raw.h - 3, NEW x \in 2 .. raw.w - 3, NEW c
    PROVE  Fits(HQPixel(raw, tile, y, x, c, bits), B)
<1> DEFINE r(t) == Clip((t + 4) \div 8, bits)
<1>1. ASSUME NEW dy \in -2 .. 2, NEW dx \in -2 .. 2 PROVE At(raw, y + dy, x + dx) \in Nat
  <2>1. y + dy \in 0 .. raw.h - 1 /\ x + dx \in 0 .. raw.w - 1
    OBVIOUS
  <2> QED BY <2>1, Zenon DEF AllFit, Fits
<1>2. ASSUME NEW dy \in 0 .. 1, NEW dx \in 0 .. 1 PROVE HQAtGreen(raw, y, x, dy, dx) \in Int
  <2>1. 0 \in -2 .. 2 /\ 1 \in -2 .. 2 /\ -1 \in -2 .. 2
    OBVIOUS
  <2>2. /\ dy \in -2 .. 2 /\ -dy \in -2 .. 2 /\ 2 * dy \in -2 .. 2 /\ -2 * dy \in -2 .. 2
        /\ dx \in -2 .. 2 /\ -dx \in -2 .. 2 /\ 2 * dx \in -2 .. 2 /\ -2 * dx \in -2 .. 2
    OBVIOUS
  <2> DEFINE a(i, j) == At(raw, y + i, x + j)
  <2>3. /\ a(0, 0) \in Nat /\ a(dy, dx) \in Nat /\ a(-dy, -dx) \in Nat
        /\ a(2 * dy, 2 * dx) \in Nat /\ a(-2 * dy, -2 * dx) \in Nat
        /\ a(-1, -1) \in Nat /\ a(-1, 1) \in Nat /\ a(1, -1) \in Nat /\ a(1, 1) \in Nat
        /\ a(2 * dx, 2 * dy) \in Nat /\ a(-2 * dx, -2 * dy) \in Nat
    BY <1>1, <2>1, <2>2
  <2> HIDE DEF a
  <2>4. 5 * a(0, 0) + 4 * (a(dy, dx) + a(-dy, -dx))
            - a(2 * dy, 2 * dx) - a(-2 * dy, -2 * dx)
            - a(-1, -1) - a(-1, 1) - a(1, -1) - a(1, 1)
            + ((a(2 * dx, 2 * dy) + a(-2 * dx, -2 * dy) + 1) \div 2) \in Int
    BY <2>3
  <2> QED BY <2>4 DEF HQAtGreen, a
<1>3. HQOpposite(raw, y, x) \in Int /\ HQGreen(raw, y, x) \in Int
  <2> DEFINE a(i, j) == At(raw, y + i, x + j)
  <2>1. /\ a(0, 0) \in Nat /\ a(-1, -1) \in Nat /\ a(-1, 1) \in Nat /\ a(1, -1) \in Nat /\ a(1, 1) \in Nat
        /\ a(-2, 0) \in Nat /\ a(0, -2) \in Nat /\ a(0, 2) \in Nat /\ a(2, 0) \in Nat
        /\ a(-1, 0) \in Nat /\ a(0, -1) \in Nat /\ a(0, 1) \in Nat /\ a(1, 0) \in Nat
    <3>1. 0 \in -2 .. 2 /\ 1 \in -2 .. 2 /\ -1 \in -2 .. 2 /\ 2 \in -2 .. 2 /\ -2 \in -2 .. 2
      OBVIOUS
    <3> QED BY <1>1, <3>1
  <2> HIDE DEF a
  <2>2. /\ 2 * (a(-1, -1) + a(-1, 1) + a(1, -1) + a(1, 1))
            - ((3 * (a(-2, 0) + a(0, -2) + a(0, 2) + a(2, 0)) + 1) \div 2) + 6 * a(0, 0) \in Int
        /\ 2 * (a(-1, 0) + a(0, -1) + a(0, 1) + a(1, 0))
            - (a(-2, 0) + a(0, -2) + a(0, 2) + a(2, 0)) + 4 * a(0, 0) \in Int
    BY <2>1
  <2> QED BY <2>2 DEF HQOpposite, HQGreen, a
<1>4. ASSUME NEW t \in Int PROVE Fits(r(t), B)
  <2>1. (t + 4) \div 8 \in Int
    OBVIOUS
  <2> QED BY <2>1, ClipFits, FitsUp
<1>5. Fits(At(raw, y, x), B)
  BY DEF AllFit
<1>6. /\ Fits(r(HQAtGreen(raw, y, x, 1, 0)), B) /\ Fits(r(HQAtGreen(raw, y, x, 0, 1)), B)
      /\ Fits(r(HQOpposite(raw, y, x)), B) /\ Fits(r(HQGreen(raw, y, x)), B)
  <2> HIDE DEF r
  <2> QED BY <1>2, <1>3, <1>4
<1>7. HQPixel(raw, tile, y, x, c, bits) \in {r(HQAtGreen(raw, y, x, 1, 0)), At(raw, y, x), r(HQAtGreen(raw, y, x, 0, 1)),
                                             r(HQOpposite(raw, y, x)), r(HQGreen(raw, y, x))}
  BY DEF HQPixel, Stored
<1> HIDE DEF r
<1> QED BY <1>5, <1>6, <1>7

LEMMA HQLinearFits ==
    ASSUME NEW raw, raw.w \in Nat, raw.h \in Nat, NEW B \in Nat, AllFit(raw, B),
           NEW tile \in Tiles, NEW bits \in Nat, bits <= B
    PROVE  /\ 8 <= B => FitsAll(HQLinear(raw, tile), B)
           /\ FitsAll(HQLinear_uint16(raw, tile, bits), B)
<1> DEFINE rows == 2 .. raw.h - 3  cols == 2 .. raw.w - 3  P == Places(raw.w, rows, cols)
           n(m) == [i \in P |-> HQPixel(raw, tile, Row(raw.w, i), Column(raw.w, i), i % 3, m)]
           Z == Zero(ClearBorders(raw.w, raw.h, 2))
<1>1. ASSUME NEW m \in Nat, m <= B, NEW y \in rows, NEW x \in cols, NEW c
      PROVE  Fits(HQPixel(raw, tile, y, x, c, m), B)
  BY <1>1, HQPixelFits
<1>2. ASSUME NEW i \in P PROVE Row(raw.w, i) \in rows /\ Column(raw.w, i) \in cols /\ i % 3 \in 0 .. 2
  <2>1. rows \in SUBSET Nat /\ cols \subseteq 0 .. raw.w - 1
    OBVIOUS
  <2> HIDE DEF rows, cols
  <2> QED BY <2>1, PlaceOf
<1> HIDE DEF P, rows, cols
<1>3. ASSUME NEW m \in Nat, m <= B PROVE FitsAll(n(m), B)
  BY <1>1, <1>2, <1>3 DEF FitsAll
<1>4. FitsAll(Z, B)
  BY NothingFits
<1>5. HQLinear(raw, tile) = Over(n(8), Z) /\ HQLinear_uint16(raw, tile, bits) = Over(n(bits), Z)
  BY Zenon DEF HQLinear, HQLinear_uint16, P, rows, cols
<1> HIDE DEF n, Z
<1> QED BY <1>3, <1>4, <1>5, OverFits

LEMMA TotalInt ==
    ASSUME NEW n \in Nat, NEW f, \A k \in 1 .. n : f[k] \in Int
    PROVE  Total(f, n) \in Int
<1>1. PICK one \in Int : one = 1
  OBVIOUS
<1>2. \A k \in 1 .. n : f[k] \in Int /\ one * f[k] <= f[k] /\ f[k] <= one * f[k]
  BY <1>1
<1> QED BY <1>2, TotalBetween

LEMMA TotalNat ==
    ASSUME NEW n \in Nat, NEW f, \A k \in 1 .. n : f[k] \in Nat
    PROVE  Total(f, n) \in Nat
<1>1. PICK one \in Int, none \in Int : one = 1 /\ none = 0
  OBVIOUS
<1>2. \A k \in 1 .. n : f[k] \in Int /\ none * f[k] <= f[k] /\ f[k] <= one * f[k]
  BY <1>1
<1>3. Total(f, n) \in Int /\ none * Total(f, n) <= Total(f, n)
  BY <1>2, TotalBetween
<1> QED BY <1>1, <1>3

\* The pairs of VNG are within two rows and columns, and weigh once or twice.
LEMMA TermsNear ==
    ASSUME NEW n \in 1 .. 64, NEW t, t = bayervng_terms[n]
    PROVE  /\ t[1] \in -2 .. 2 /\ t[2] \in -2 .. 2 /\ t[3] \in -2 .. 2 /\ t[4] \in -2 .. 2
           /\ t[5] \in {0, 1}
BY DEF bayervng_terms

LEMMA NeighboursNear ==
    ASSUME NEW g \in 1 .. 8, NEW d, d = bayervng_chood[g]
    PROVE  d[1] \in {-1, 0, 1} /\ d[2] \in {-1, 0, 1}
BY DEF bayervng_chood

\* The threshold is no lower than the least gradient.
LEMMA SomeNear ==
    ASSUME NEW G, \A g \in 1 .. 8 : G[g] \in Nat
    PROVE  \E g \in 1 .. 8 : G[g] <= Threshold(G)
<1> DEFINE S == {G[g] : g \in 1 .. 8}
           T == {K \in Nat : \A g \in 1 .. 8 : G[g] <= K}
           low == CHOOSE m \in S : \A g \in 1 .. 8 : G[g] >= m
           high == CHOOSE m \in S : \A g \in 1 .. 8 : G[g] <= m
<1>1. low \in S /\ \A g \in 1 .. 8 : G[g] >= low
  <2>1. S \subseteq Nat /\ S # {}
    OBVIOUS
  <2>2. PICK m \in S : \A k \in S : m <= k
    <3> HIDE DEF S
    <3> QED BY <2>1, NatLeast
  <2>3. \A g \in 1 .. 8 : G[g] >= m
    BY <2>1, <2>2
  <2> HIDE DEF S
  <2> QED BY <2>3
<1>2. high \in S /\ \A g \in 1 .. 8 : G[g] <= high
  <2>1. T # {}
    <3> DEFINE K == G[1] + G[2] + G[3] + G[4] + G[5] + G[6] + G[7] + G[8]
    <3>1. \A g \in {1, 2, 3, 4, 5, 6, 7, 8} : G[g] \in Nat
      OBVIOUS
    <3>2. K \in Nat /\ \A g \in {1, 2, 3, 4, 5, 6, 7, 8} : G[g] <= K
      BY <3>1
    <3> HIDE DEF K
    <3>3. \A g \in 1 .. 8 : G[g] <= K
      BY <3>2
    <3> QED BY <3>2, <3>3
  <2>2. PICK m \in T : \A k \in T : m <= k
    <3>1. T \subseteq Nat
      OBVIOUS
    <3> HIDE DEF T
    <3> QED BY <2>1, <3>1, NatLeast
  <2>3. m \in S
    <3> SUFFICES ASSUME m \notin S PROVE FALSE
      OBVIOUS
    <3>1. \A g \in 1 .. 8 : G[g] <= m - 1
      OBVIOUS
    <3>2. m - 1 \in Nat
      <4>1. G[1] \in Nat /\ G[1] <= m - 1
        BY <3>1
      <4> QED BY <4>1
    <3>3. m - 1 \in T
      BY <3>1, <3>2
    <3> QED BY <2>2, <3>3
  <2>4. \A g \in 1 .. 8 : G[g] <= m
    OBVIOUS
  <2> HIDE DEF S, T
  <2> QED BY <2>3, <2>4
<1>3. Threshold(G) = low + high \div 2
  BY DEF Threshold
<1>4. low \in Nat /\ high \in Nat
  <2> HIDE DEF low, high
  <2> QED BY <1>1, <1>2
<1>5. PICK g \in 1 .. 8 : low = G[g]
  <2> HIDE DEF low
  <2> QED BY <1>1
<1> HIDE DEF low, high
<1>6. G[g] <= low + high \div 2
  BY <1>4, <1>5
<1> QED BY <1>3, <1>6

\* A component near a pixel fits.
LEMMA ReachFits ==
    ASSUME NEW w \in Nat, NEW h \in Nat, NEW B, NEW g, \A k \in Whole(w, h) : Fits(g[k], B),
           NEW y \in 2 .. h - 3, NEW x \in 2 .. w - 3,
           NEW dy \in -2 .. 2, NEW dx \in -2 .. 2, NEW k \in 0 .. 2
    PROVE  Fits(g[3 * ((y + dy) * w + x + dx) + k], B)
<1>1. y + dy \in 0 .. h - 1 /\ x + dx \in 0 .. w - 1
  OBVIOUS
<1>2. 3 * ((y + dy) * w + (x + dx)) + k \in Whole(w, h)
  BY <1>1, PlaceInside
<1>3. (y + dy) * w + (x + dx) = (y + dy) * w + x + dx
  OBVIOUS
<1> QED BY <1>2, <1>3

LEMMA GradientsNat ==
    ASSUME NEW w \in Nat, NEW h \in Nat, NEW B, NEW first, \A k \in Whole(w, h) : Fits(first[k], B),
           NEW tile \in Tiles, NEW y \in 2 .. h - 3, NEW x \in 2 .. w - 3, NEW g \in 1 .. 8
    PROVE  Gradients(tile, first, w, y, x)[g] \in Nat
<1> DEFINE pix(dy, dx, k) == first[3 * ((y + dy) * w + x + dx) + k]
           diff(t) == LET c == FC(tile, y + t[1], x + t[2])
                          d == pix(t[1], t[2], c) - pix(t[3], t[4], c)
                      IN  (IF d < 0 THEN -d ELSE d) * 2 ^ t[5]
           code == VNGCode[tile, y % 2, x % 2]
           f(m) == [n \in 1 .. 64 |-> IF n \in code[m] THEN diff(bayervng_terms[n]) ELSE 0]
<1>1. ASSUME NEW n \in 1 .. 64 PROVE diff(bayervng_terms[n]) \in Nat
  <2> DEFINE t == bayervng_terms[n]  c == FC(tile, y + t[1], x + t[2])
             a == pix(t[1], t[2], c)  b == pix(t[3], t[4], c)
  <2>1. /\ t[1] \in -2 .. 2 /\ t[2] \in -2 .. 2 /\ t[3] \in -2 .. 2 /\ t[4] \in -2 .. 2
        /\ t[5] \in {0, 1}
    BY TermsNear
  <2> HIDE DEF t
  <2>2. y + t[1] \in Nat /\ x + t[2] \in Nat
    BY <2>1
  <2>3. c \in 0 .. 2
    BY <2>2, ColourCode
  <2> HIDE DEF c
  <2>4. a \in Nat /\ b \in Nat
    <3>1. \A dy \in -2 .. 2, dx \in -2 .. 2, k \in 0 .. 2 : Fits(pix(dy, dx, k), B)
      BY ReachFits
    <3> HIDE DEF pix
    <3>2. Fits(a, B) /\ Fits(b, B)
      BY <2>1, <2>3, <3>1
    <3> QED BY <3>2 DEF Fits
  <2> HIDE DEF a, b, pix
  <2>5. (IF a - b < 0 THEN -(a - b) ELSE a - b) \in Nat
    BY <2>4
  <2>6. 2 ^ t[5] \in {1, 2}
    <3>1. 2 ^ 0 = 1 /\ 2 ^ 1 = 2
      OBVIOUS
    <3> QED BY <2>1, <3>1
  <2>7. (IF a - b < 0 THEN -(a - b) ELSE a - b) * 2 ^ t[5] \in Nat
    <3> DEFINE e == IF a - b < 0 THEN -(a - b) ELSE a - b  p == 2 ^ t[5]
    <3>1. e \in Nat /\ p \in Nat
      BY <2>5, <2>6
    <3> HIDE DEF e, p
    <3> QED BY <3>1 DEF e, p
  <2> QED BY <2>7 DEF a, b, c, t
<1> HIDE DEF diff, code
<1>2. ASSUME NEW m PROVE Total(f(m), 64) \in Nat
  <2>1. \A n \in 1 .. 64 : f(m)[n] \in Nat
    BY <1>1
  <2> HIDE DEF f
  <2> QED BY <2>1, TotalNat
<1>3. Gradients(tile, first, w, y, x) =
        <<Total(f(1), 64), Total(f(2), 64), Total(f(3), 64), Total(f(4), 64),
          Total(f(5), 64), Total(f(6), 64), Total(f(7), 64), Total(f(8), 64)>>
  BY Zenon DEF Gradients, diff, code
<1> HIDE DEF f
<1>4. g \in {1, 2, 3, 4, 5, 6, 7, 8}
  OBVIOUS
<1> QED BY <1>2, <1>3, <1>4

\* What VNG makes of a pixel fits whatever its differences come to, and however
\* deep what is around it.
LEMMA VNGPixelFits ==
    ASSUME NEW w \in Nat, NEW h \in Nat, NEW C \in Nat, NEW first, \A k \in Whole(w, h) : Fits(first[k], C),
           NEW tile \in Tiles, NEW B \in Nat, NEW bits \in Nat, bits <= B,
           NEW y \in 2 .. h - 3, NEW x \in 2 .. w - 3, NEW c \in 0 .. 2,
           Fits(first[3 * (y * w + x) + c], B)
    PROVE  Fits(VNGPixel(tile, first, w, bits, y, x, c), B)
<1> DEFINE gval == Gradients(tile, first, w, y, x)
           limit == Threshold(gval)
           pix(dy, dx, k) == first[3 * ((y + dy) * w + x + dx) + k]
           near  == {g \in 1 .. 8 : gval[g] <= limit}
           color == FC(tile, y, x)
           term(g, k) ==
               LET d == bayervng_chood[g]
               IN  IF /\ k = color /\ FC(tile, y + d[1], x + d[2]) # color
                      /\ FC(tile, y + 2 * d[1], x + 2 * d[2]) = color
                   THEN (pix(0, 0, k) + pix(2 * d[1], 2 * d[2], k)) \div 2
                   ELSE pix(d[1], d[2], k)
           f == [g \in 1 .. 8 |-> IF g \in near THEN term(g, c) - term(g, color) ELSE 0]
           value == IF \A g \in 1 .. 8 : gval[g] = 0 THEN pix(0, 0, c)
                    ELSE IF c = color THEN Clip(pix(0, 0, c), bits)
                    ELSE Clip(pix(0, 0, color) + Quotient(Total(f, 8), Cardinality(near)), bits)
<1>1. VNGPixel(tile, first, w, bits, y, x, c) = value
  BY Zenon DEF VNGPixel, VNGMean
<1>2. \A dy \in -2 .. 2, dx \in -2 .. 2, k \in 0 .. 2 : Fits(pix(dy, dx, k), C)
  BY ReachFits
<1>3. color \in 0 .. 2
  BY ColourCode
<1>4. \A g \in 1 .. 8 : gval[g] \in Nat
  BY GradientsNat
<1>12. Fits(pix(0, 0, c), B)
  <2>1. (y + 0) * w + x + 0 = y * w + x
    OBVIOUS
  <2>2. pix(0, 0, c) = first[3 * (y * w + x) + c]
    BY <2>1
  <2> HIDE DEF pix
  <2> QED BY <2>2
<1> HIDE DEF gval, pix, color
<1>5. ASSUME NEW g \in 1 .. 8, NEW k \in 0 .. 2 PROVE term(g, k) \in Nat
  <2> DEFINE d == bayervng_chood[g]
  <2>1. /\ 0 \in -2 .. 2 /\ d[1] \in -2 .. 2 /\ d[2] \in -2 .. 2
        /\ 2 * d[1] \in -2 .. 2 /\ 2 * d[2] \in -2 .. 2
    <3>1. d[1] \in {-1, 0, 1} /\ d[2] \in {-1, 0, 1}
      BY NeighboursNear
    <3> QED BY <3>1
  <2> HIDE DEF d
  <2>2. pix(0, 0, k) \in Nat /\ pix(2 * d[1], 2 * d[2], k) \in Nat /\ pix(d[1], d[2], k) \in Nat
    BY <1>2, <2>1 DEF Fits
  <2> DEFINE a == pix(0, 0, k)  b == pix(2 * d[1], 2 * d[2], k)
  <2>3. (a + b) \div 2 \in Nat
    <3> HIDE DEF a, b
    <3> QED BY <2>2 DEF a, b
  <2> QED BY <2>2, <2>3 DEF d
<1> HIDE DEF term
<1>6. Total(f, 8) \in Int
  <2>1. \A g \in 1 .. 8 : f[g] \in Int
    <3> TAKE g \in 1 .. 8
    <3>1. term(g, c) \in Nat /\ term(g, color) \in Nat
      BY <1>3, <1>5
    <3> HIDE DEF near
    <3>2. f[g] = IF g \in near THEN term(g, c) - term(g, color) ELSE 0
      OBVIOUS
    <3> HIDE DEF f
    <3> QED BY <3>1, <3>2
  <2> HIDE DEF f
  <2> QED BY <2>1, TotalInt
<1>7. Cardinality(near) \in Nat /\ Cardinality(near) > 0
  <2>1. near \in SUBSET (1 .. 8) /\ near # {}
    <3>1. \E g \in 1 .. 8 : gval[g] <= limit
      BY <1>4, SomeNear
    <3> HIDE DEF limit
    <3> QED BY <3>1
  <2>2. IsFiniteSet(1 .. 8)
    <3>1. 1 \in Int /\ 8 \in Int
      OBVIOUS
    <3> QED BY <3>1, FS_Interval, Zenon
  <2> HIDE DEF near
  <2>3. IsFiniteSet(near)
    BY <2>1, <2>2, FS_Subset
  <2>4. Cardinality(near) \in Nat /\ Cardinality(near) # 0
    BY <2>1, <2>3, FS_CardinalityType, FS_EmptySet
  <2> QED BY <2>4
<1> DEFINE s == Total(f, 8)  n == Cardinality(near)
<1>8. Quotient(s, n) \in Int
  <2> HIDE DEF s, n
  <2>1. s \in Int /\ n \in Nat /\ n > 0
    BY <1>6, <1>7 DEF s, n
  <2>2. s >= 0 => s \div n \in Int
    BY <2>1
  <2>3. s < 0 => -((-s) \div n) \in Int
    BY <2>1
  <2> QED BY <2>1, <2>2, <2>3 DEF Quotient
<1> HIDE DEF f, near
<1>9. Fits(pix(0, 0, color), C)
  BY <1>2, <1>3
<1>10. Fits(Clip(pix(0, 0, c), bits), B)
  <2>1. pix(0, 0, c) \in Int
    BY <1>12 DEF Fits
  <2> QED BY <2>1, ClipFits, FitsUp
<1>11. Fits(Clip(pix(0, 0, color) + Quotient(s, n), bits), B)
  <2>1. pix(0, 0, color) + Quotient(s, n) \in Int
    BY <1>8, <1>9 DEF Fits
  <2> QED BY <2>1, ClipFits, FitsUp
<1> QED BY <1>1, <1>10, <1>11, <1>12

LEMMA VNGRowsFit ==
    ASSUME NEW raw, raw.w \in Nat, raw.h \in Nat, NEW C \in Nat, NEW B \in Nat,
           NEW g, \A k \in Whole(raw.w, raw.h) : Fits(g[k], C),
           \A k \in Places(raw.w, 1 .. raw.h - 2, 1 .. raw.w - 2) : Fits(g[k], B),
           NEW tile \in Tiles, NEW bits \in Nat, bits <= B
    PROVE  FitsAll(VNGRows(raw, tile, bits, g), B)
<1> DEFINE rows == 2 .. raw.h - 3  cols == 2 .. raw.w - 3  P == Places(raw.w, rows, cols)
           n == [i \in P |-> VNGPixel(tile, g, raw.w, bits, Row(raw.w, i), Column(raw.w, i), i % 3)]
           Z == Zero(Places(raw.w, {y \in {raw.h - 4, raw.h - 3} : raw.h >= 4 /\ y < 2}, 2 .. raw.w - 3))
<1>1. ASSUME NEW y \in rows, NEW x \in cols, NEW c \in 0 .. 2
      PROVE  Fits(VNGPixel(tile, g, raw.w, bits, y, x, c), B)
  <2>1. y \in 1 .. raw.h - 2 /\ x \in 1 .. raw.w - 2
    OBVIOUS
  <2> HIDE DEF n, Z, P
  <2>2. 3 * (y * raw.w + x) + c \in Places(raw.w, 1 .. raw.h - 2, 1 .. raw.w - 2)
    BY <2>1, PlaceIs
  <2>3. PICK w \in Nat, h \in Nat : w = raw.w /\ h = raw.h
    OBVIOUS
  <2>4. y \in 2 .. h - 3 /\ x \in 2 .. w - 3 /\ Fits(g[3 * (y * w + x) + c], B)
    BY <2>2, <2>3
  <2> HIDE DEF rows, cols
  <2>5. Fits(VNGPixel(tile, g, w, bits, y, x, c), B)
    BY <2>3, <2>4, VNGPixelFits
  <2> QED BY <2>3, <2>5
<1>2. ASSUME NEW i \in P PROVE Row(raw.w, i) \in rows /\ Column(raw.w, i) \in cols /\ i % 3 \in 0 .. 2
  <2>1. rows \in SUBSET Nat /\ cols \subseteq 0 .. raw.w - 1
    OBVIOUS
  <2> HIDE DEF rows, cols
  <2> QED BY <2>1, PlaceOf
<1>3. VNGRows(raw, tile, bits, g) = Over(n, Z)
  BY Zenon DEF VNGRows
<1> HIDE DEF P, rows, cols
<1>4. FitsAll(n, B)
  BY <1>1, <1>2 DEF FitsAll
<1>5. FitsAll(Z, B)
  BY NothingFits
<1> HIDE DEF n, Z
<1> QED BY <1>3, <1>4, <1>5, OverFits

\* The picture VNG starts from is all there: what the bilinear pass leaves of
\* the 16-bit picture is what was there before, of whatever depth.
LEMMA VNGFits ==
    ASSUME NEW raw, raw.w \in Nat, raw.h \in Nat, raw.w >= 4, raw.h >= 4,
           NEW B \in Nat, AllFit(raw, B), NEW tile \in Tiles, NEW bits \in Nat, bits <= B,
           NEW C \in Nat, B <= C, NEW old, Whole(raw.w, raw.h) \subseteq DOMAIN old, FitsAll(old, C)
    PROVE  /\ 8 <= B => FitsAll(VNG(raw, tile, old), B)
           /\ FitsAll(VNG_uint16(raw, tile, bits, old), B)
<1> DEFINE P == Places(raw.w, 1 .. raw.h - 2, 1 .. raw.w - 2)
<1>1. ASSUME NEW first, FitsAll(first, B), P \subseteq DOMAIN first, NEW m \in Nat, m <= B
      PROVE  FitsAll(Over(VNGRows(raw, tile, m, Over(first, old)), first), B)
  <2> HIDE DEF P
  <2>1. FitsAll(first, C)
    BY <1>1, FitsUp DEF FitsAll
  <2>2. FitsAll(Over(first, old), C)
    BY <2>1, OverFits
  <2>3. \A k \in Whole(raw.w, raw.h) : Fits(Over(first, old)[k], C)
    BY <2>2 DEF FitsAll, Over
  <2>4. \A k \in P : Fits(Over(first, old)[k], B)
    BY <1>1 DEF FitsAll, Over
  <2>5. FitsAll(VNGRows(raw, tile, m, Over(first, old)), B)
    BY <1>1, <2>3, <2>4, VNGRowsFit DEF P
  <2> QED BY <1>1, <2>5, OverFits
<1>2. FitsAll(Bilinear(raw, tile), B) /\ FitsAll(Bilinear_uint16(raw, tile, bits), B)
  BY BilinearFits
<1>3. /\ VNG(raw, tile, old) = Over(VNGRows(raw, tile, 8, Over(Bilinear(raw, tile), old)), Bilinear(raw, tile))
      /\ VNG_uint16(raw, tile, bits, old)
           = Over(VNGRows(raw, tile, bits, Over(Bilinear_uint16(raw, tile, bits), old)),
                  Bilinear_uint16(raw, tile, bits))
  BY Zenon DEF VNG, VNG_uint16
<1>4. P \subseteq DOMAIN Bilinear(raw, tile) /\ P \subseteq DOMAIN Bilinear_uint16(raw, tile, bits)
  BY DEF Bilinear, Bilinear_uint16, Over
<1> QED BY <1>1, <1>2, <1>3, <1>4

\* No term of a sum exceeds it.
LEMMA TotalAtLeast ==
    ASSUME NEW n \in Nat, NEW f, \A k \in 1 .. n : f[k] \in Nat, NEW j \in 1 .. n
    PROVE  f[j] <= Total(f, n)
<1>1. PICK u : Sums(u, f, n) /\ Total(f, n) = u[n]
  BY TotalSums
<1> DEFINE H == {k \in 0 .. n : u[k] \in Nat /\ (j <= k => f[j] <= u[k])}
<1>2. 0 \in H
  <2>1. u[0] = 0
    BY <1>1 DEF Sums
  <2> QED BY <2>1
<1>3. ASSUME NEW k \in 0 .. n - 1, k \in H PROVE k + 1 \in H
  <2>1. u[k + 1] = u[k] + f[k + 1]
    BY <1>1 DEF Sums
  <2>2. u[k] \in Nat /\ f[k + 1] \in Nat /\ f[j] \in Nat /\ (j <= k => f[j] <= u[k])
    BY <1>3
  <2>3. u[k + 1] \in Nat /\ (j <= k + 1 => f[j] <= u[k + 1])
    <3>1. CASE j = k + 1
      BY <2>1, <2>2, <3>1
    <3>2. CASE j # k + 1
      BY <2>1, <2>2, <3>2
    <3> QED BY <3>1, <3>2
  <2> QED BY <2>3
<1> HIDE DEF H
<1>4. n \in H
  <2>1. \A k \in 0 .. n : k \in H
    BY <1>2, <1>3, UpTo, Zenon
  <2> QED BY <2>1
<1> QED BY <1>1, <1>4 DEF H

\* A mean lies where the terms do.
LEMMA MeanBetween ==
    ASSUME NEW n \in Nat, n > 0, NEW s \in Nat, NEW lo \in Nat, NEW hi \in Nat,
           lo * n <= s, s <= hi * n
    PROVE  s \div n \in Nat /\ lo <= s \div n /\ s \div n <= hi
<1> DEFINE q == s \div n  r == s % n
<1>1. q \in Nat /\ r \in 0 .. n - 1 /\ s = q * n + r
  BY Divided
<1> HIDE DEF q, r
<1>2. q <= hi
  <2> SUFFICES ASSUME hi + 1 <= q PROVE FALSE
    BY <1>1
  <2>1. (hi + 1) * n <= q * n
    BY <1>1, Monotone
  <2> DEFINE a == hi * n  b == q * n
  <2>2. (hi + 1) * n = a + n
    OBVIOUS
  <2>3. a \in Nat /\ b \in Nat /\ a + n <= b /\ s = b + r /\ s <= a
    BY <1>1, <2>1, <2>2
  <2> HIDE DEF a, b
  <2> QED BY <1>1, <2>3
<1>3. lo <= q
  <2> SUFFICES ASSUME q + 1 <= lo PROVE FALSE
    BY <1>1
  <2>1. (q + 1) * n <= lo * n
    BY <1>1, Monotone
  <2> DEFINE a == lo * n  b == q * n
  <2>2. (q + 1) * n = b + n
    BY <1>1
  <2>3. a \in Nat /\ b \in Nat /\ b + n <= a /\ s = b + r /\ a <= s
    BY <1>1, <2>1, <2>2
  <2> HIDE DEF a, b
  <2> QED BY <1>1, <2>3
<1> QED BY <1>1, <1>2, <1>3 DEF q

\* A colour is at a pixel or next to it.
ShownAt(w, h, tile, y, x, c) ==
    \E dy \in {-1, 0, 1}, dx \in {-1, 0, 1} :
       y + dy \in 0 .. h - 1 /\ x + dx \in 0 .. w - 1 /\ Colour(tile, y + dy, x + dx) = c

\* Every colour is, of every pixel.
LEMMA ColourNear ==
    ASSUME NEW w \in Nat, NEW h \in Nat, w >= 2, h >= 2, NEW tile \in Tiles, NEW c \in 0 .. 2,
           NEW y \in 0 .. h - 1, NEW x \in 0 .. w - 1
    PROVE  ShownAt(w, h, tile, y, x, c)
<1>1. PICK py \in {0, 1}, px \in {0, 1} : Mosaic[tile][2 * py + px + 1] = c
  <2>1. /\ 2 * 0 + 0 + 1 = 1 /\ 2 * 0 + 1 + 1 = 2 /\ 2 * 1 + 0 + 1 = 3 /\ 2 * 1 + 1 + 1 = 4
    OBVIOUS
  <2>2. Mosaic[tile][1] = c \/ Mosaic[tile][2] = c \/ Mosaic[tile][3] = c \/ Mosaic[tile][4] = c
    BY DEF Mosaic, Tiles
  <2> QED BY <2>1, <2>2
<1>2. ASSUME NEW n \in Nat, n >= 2, NEW m \in 0 .. n - 1, NEW p \in {0, 1}
      PROVE  \E d \in {-1, 0, 1} : m + d \in 0 .. n - 1 /\ (m + d) % 2 = p
  <2>1. CASE m % 2 = p
    BY <2>1
  <2>2. CASE m % 2 # p /\ m < n - 1
    <3>1. m + 1 \in 0 .. n - 1 /\ (m + 1) % 2 = p
      BY <2>2
    <3> QED BY <3>1
  <2>3. CASE m % 2 # p /\ m = n - 1
    <3>1. m + (-1) \in 0 .. n - 1 /\ (m + (-1)) % 2 = p
      BY <1>2, <2>3
    <3> QED BY <3>1
  <2> QED BY <2>1, <2>2, <2>3
<1>3. PICK dy \in {-1, 0, 1} : y + dy \in 0 .. h - 1 /\ (y + dy) % 2 = py
  BY <1>2
<1>4. PICK dx \in {-1, 0, 1} : x + dx \in 0 .. w - 1 /\ (x + dx) % 2 = px
  BY <1>2
<1>5. Colour(tile, y + dy, x + dx) = c
  BY <1>1, <1>3, <1>4, Zenon DEF Colour
<1> QED BY <1>3, <1>4, <1>5 DEF ShownAt

\* The border of AHD lies between the samples of the colour around it.
LEMMA BorderBetween ==
    ASSUME NEW raw, raw.w \in Nat, raw.h \in Nat, raw.w >= 2, raw.h >= 2,
           NEW tile \in Tiles, NEW c \in 0 .. 2,
           NEW y \in 0 .. raw.h - 1, NEW x \in 0 .. raw.w - 1,
           NEW lo \in Nat, NEW hi \in Nat,
           \A b \in 0 .. raw.h - 1, a \in 0 .. raw.w - 1 :
              Colour(tile, b, a) = c => At(raw, b, a) \in Nat /\ lo <= At(raw, b, a) /\ At(raw, b, a) <= hi
    PROVE  AHDBorder(raw, tile, y, x, c) \in Nat /\ lo <= AHDBorder(raw, tile, y, x, c)
              /\ AHDBorder(raw, tile, y, x, c) <= hi
<1> DEFINE row(n) == y - 1 + (n \div 3)
           col(n) == x - 1 + (n % 3)
           counts(n) == /\ row(n) \in 0 .. raw.h - 1 /\ col(n) \in 0 .. raw.w - 1
                        /\ FC(tile, row(n), col(n)) = c
           f == [n \in 1 .. 9 |-> IF counts(n - 1) THEN At(raw, row(n - 1), col(n - 1)) ELSE 0]
           g == [n \in 1 .. 9 |-> IF counts(n - 1) THEN 1 ELSE 0]
<1>1. AHDBorder(raw, tile, y, x, c)
         = IF FC(tile, y, x) = c THEN At(raw, y, x) ELSE Total(f, 9) \div Total(g, 9)
  BY Zenon DEF AHDBorder
<1>2. \A b \in 0 .. raw.h - 1, a \in 0 .. raw.w - 1 : FC(tile, b, a) = Colour(tile, b, a)
  BY ColourCode
<1>3. CASE FC(tile, y, x) = c
  <2> HIDE DEF f, g
  <2>1. AHDBorder(raw, tile, y, x, c) = At(raw, y, x) /\ Colour(tile, y, x) = c
    BY <1>1, <1>2, <1>3
  <2> QED BY <2>1
<1>4. CASE FC(tile, y, x) # c
  <2>1. ASSUME NEW n \in 1 .. 9, counts(n - 1)
        PROVE  f[n] \in Nat /\ lo <= f[n] /\ f[n] <= hi /\ g[n] = 1
    <3>1. f[n] = At(raw, row(n - 1), col(n - 1)) /\ g[n] = 1
      <4> HIDE DEF counts, row, col
      <4>1. /\ f[n] = IF counts(n - 1) THEN At(raw, row(n - 1), col(n - 1)) ELSE 0
            /\ g[n] = IF counts(n - 1) THEN 1 ELSE 0
        OBVIOUS
      <4> QED BY <2>1, <4>1, Zenon
    <3>2. Colour(tile, row(n - 1), col(n - 1)) = c
      BY <1>2, <2>1
    <3> HIDE DEF f, g, row, col
    <3> QED BY <2>1, <3>1, <3>2
  <2>2. ASSUME NEW n \in 1 .. 9, ~counts(n - 1) PROVE f[n] = 0 /\ g[n] = 0
    <3> HIDE DEF counts, row, col
    <3> QED BY <2>2
  <2>3. \E n \in 1 .. 9 : counts(n - 1)
    <3>1. ShownAt(raw.w, raw.h, tile, y, x, c)
      <4> HIDE DEF f, g, counts, row, col
      <4> QED BY ColourNear
    <3>2. PICK dy \in {-1, 0, 1}, dx \in {-1, 0, 1} :
             y + dy \in 0 .. raw.h - 1 /\ x + dx \in 0 .. raw.w - 1 /\ Colour(tile, y + dy, x + dx) = c
      BY <3>1, Zenon DEF ShownAt
    <3> DEFINE n == 3 * (dy + 1) + (dx + 1) + 1
    <3>3. n \in 1 .. 9 /\ row(n - 1) = y + dy /\ col(n - 1) = x + dx
      <4>1. n \in 1 .. 9 /\ (n - 1) \div 3 = dy + 1 /\ (n - 1) % 3 = dx + 1
        OBVIOUS
      <4> HIDE DEF n
      <4> QED BY <4>1
    <3> HIDE DEF n, row, col, f, g
    <3>4. FC(tile, y + dy, x + dx) = c
      BY <1>2, <3>2
    <3>5. counts(n - 1)
      BY <3>2, <3>3, <3>4 DEF counts
    <3> QED BY <3>3, <3>5
  <2> HIDE DEF f, g, counts
  <2>4. \A k \in 1 .. 9 : /\ f[k] \in Int /\ g[k] \in Int /\ g[k] \in Nat /\ f[k] \in Nat
                          /\ lo * g[k] <= f[k] /\ f[k] <= hi * g[k]
    <3> TAKE k \in 1 .. 9
    <3>1. CASE counts(k - 1)
      BY <2>1, <3>1
    <3>2. CASE ~counts(k - 1)
      BY <2>2, <3>2
    <3> QED BY <3>1, <3>2
  <2> DEFINE s == Total(f, 9)  n == Total(g, 9)
  <2>5. s \in Nat /\ n \in Nat /\ lo * n <= s /\ s <= hi * n
    <3>1. lo \in Int /\ hi \in Int /\ 9 \in Nat
      OBVIOUS
    <3>2. lo * n <= s /\ s <= hi * n
      BY <2>4, <3>1, TotalBetween
    <3>3. s \in Nat /\ n \in Nat
      BY <2>4, <3>1, TotalNat
    <3> QED BY <3>2, <3>3
  <2>6. n > 0
    <3>1. PICK k \in 1 .. 9 : counts(k - 1)
      BY <2>3
    <3>2. g[k] = 1
      BY <2>1, <3>1
    <3>3. g[k] <= n
      BY <2>4, TotalAtLeast
    <3> HIDE DEF n
    <3> QED BY <2>5, <3>2, <3>3
  <2>7. AHDBorder(raw, tile, y, x, c) = s \div n
    BY <1>1, <1>4
  <2> HIDE DEF s, n
  <2> QED BY <2>5, <2>6, <2>7, MeanBetween
<1> QED BY <1>3, <1>4

LEMMA AHDGreenInt ==
    ASSUME NEW raw, raw.w \in Nat, raw.h \in Nat, NEW B, AllFit(raw, B),
           NEW top, NEW left, NEW d \in 0 .. 1, NEW y \in Int, NEW x \in Int
    PROVE  AHDGreen(raw, top, left, d, y, x) \in Int
<1> DEFINE a(n) == IF d = 0 THEN At(raw, y, x + n) ELSE At(raw, y + n, x)
           val  == (2 * (a(-1) + a(0) + a(1)) - a(-2) - a(2)) \div 4
           low  == IF a(-1) < a(1) THEN a(-1) ELSE a(1)
           high == IF a(-1) < a(1) THEN a(1) ELSE a(-1)
           inside == /\ y \in top .. top + TS - 1 /\ y \in 2 .. raw.h - 3
                     /\ x \in left .. left + TS - 1 /\ x \in 2 .. raw.w - 3
<1>1. AHDGreen(raw, top, left, d, y, x)
        = IF inside THEN IF val < low THEN low ELSE IF val > high THEN high ELSE val ELSE 0
  BY Zenon DEF AHDGreen
<1>2. CASE inside
  <2>1. ASSUME NEW n \in -2 .. 2 PROVE a(n) \in Nat
    <3>1. /\ y \in 0 .. raw.h - 1 /\ x + n \in 0 .. raw.w - 1
          /\ y + n \in 0 .. raw.h - 1 /\ x \in 0 .. raw.w - 1
      BY <1>2
    <3>2. At(raw, y, x + n) \in Nat /\ At(raw, y + n, x) \in Nat
      BY <3>1, Zenon DEF AllFit, Fits
    <3> QED BY <3>2
  <2>2. a(-2) \in Nat /\ a(-1) \in Nat /\ a(0) \in Nat /\ a(1) \in Nat /\ a(2) \in Nat
    <3> HIDE DEF a
    <3> QED BY <2>1
  <2> HIDE DEF a, inside
  <2>3. val \in Int /\ low \in Int /\ high \in Int
    BY <2>2
  <2> HIDE DEF val, low, high
  <2> QED BY <1>1, <2>3
<1>3. CASE ~inside
  <2> HIDE DEF inside, val, low, high
  <2> QED BY <1>1, <1>3
<1> QED BY <1>2, <1>3

LEMMA AHDColourInt ==
    ASSUME NEW raw, raw.w \in Nat, raw.h \in Nat, NEW B \in Nat, AllFit(raw, B), NEW tile,
           NEW top, NEW left, NEW d \in 0 .. 1,
           NEW y \in 1 .. raw.h - 2, NEW x \in 1 .. raw.w - 2, NEW c, NEW bits \in Nat
    PROVE  AHDColour(raw, tile, top, left, d, y, x, c, bits) \in Int
<1> DEFINE a(dy, dx) == At(raw, y + dy, x + dx)
           g(dy, dx) == AHDGreen(raw, top, left, d, y + dy, x + dx)
           f == FC(tile, y, x)
           over(dy, dx) == a(dy, dx) - g(dy, dx)
           beside == a(0, 0) + (IF c = FC(tile, y + 1, x) THEN over(-1, 0) + over(1, 0)
                                ELSE over(0, -1) + over(0, 1)) \div 2
           across == g(0, 0) + (over(-1, -1) + over(-1, 1) + over(1, -1) + over(1, 1) + 1) \div 4
<1>1. AHDColour(raw, tile, top, left, d, y, x, c, bits)
         = IF c = f THEN a(0, 0) ELSE IF c = 1 THEN g(0, 0)
           ELSE IF f = 1 THEN Clip(beside, bits) ELSE Clip(across, bits)
  BY Zenon DEF AHDColour
<1>2. ASSUME NEW dy \in -1 .. 1, NEW dx \in -1 .. 1
      PROVE  a(dy, dx) \in Int /\ g(dy, dx) \in Int /\ over(dy, dx) \in Int
  <2>1. y + dy \in 0 .. raw.h - 1 /\ x + dx \in 0 .. raw.w - 1 /\ y + dy \in Int /\ x + dx \in Int
    OBVIOUS
  <2>2. a(dy, dx) \in Int
    <3>1. Fits(At(raw, y + dy, x + dx), B)
      BY <2>1, Zenon DEF AllFit
    <3> QED BY <3>1 DEF Fits
  <2>3. g(dy, dx) \in Int
    BY <2>1, AHDGreenInt
  <2> HIDE DEF a, g
  <2> QED BY <2>2, <2>3
<1> HIDE DEF a, g, over
<1>3. beside \in Int /\ across \in Int
  <2>1. -1 \in -1 .. 1 /\ 0 \in -1 .. 1 /\ 1 \in -1 .. 1
    OBVIOUS
  <2>2. /\ a(0, 0) \in Int /\ g(0, 0) \in Int
        /\ over(-1, 0) \in Int /\ over(1, 0) \in Int /\ over(0, -1) \in Int /\ over(0, 1) \in Int
        /\ over(-1, -1) \in Int /\ over(-1, 1) \in Int /\ over(1, -1) \in Int /\ over(1, 1) \in Int
    BY <1>2, <2>1
  <2> QED BY <2>2
<1>4. a(0, 0) \in Int /\ g(0, 0) \in Int
  BY <1>2
<1> HIDE DEF beside, across
<1>5. Clip(beside, bits) \in Int /\ Clip(across, bits) \in Int
  BY SMTT(60), <1>3, ClipFits DEF Fits
<1> QED BY <1>1, <1>4, <1>5

LEMMA AHDCombineFits ==
    ASSUME NEW raw, raw.w \in Nat, raw.h \in Nat, NEW B \in Nat, AllFit(raw, B), NEW tile,
           NEW win \in 0 .. 2, NEW y \in 1 .. raw.h - 2, NEW x \in 1 .. raw.w - 2, NEW c,
           NEW bits \in Nat, bits <= B
    PROVE  Fits(AHDCombine(raw, tile, win, y, x, c, bits), B)
<1> DEFINE v == [d \in 0 .. 1 |->
                    AHDColour(raw, tile, TopOf(y, raw.h), TopOf(x, raw.w), d, y, x, c, bits)]
           value == IF win = 2 THEN (v[0] + v[1]) \div 2 ELSE v[win]
<1>1. AHDCombine(raw, tile, win, y, x, c, bits) = Clip(value, bits)
  BY Zenon DEF AHDCombine
<1>2. \A d \in 0 .. 1 : v[d] \in Int
  BY AHDColourInt
<1> HIDE DEF v
<1>3. v[0] \in Int /\ v[1] \in Int /\ (win = 0 \/ win = 1 \/ win = 2)
  BY <1>2
<1>4. value \in Int
  BY <1>3
<1> HIDE DEF value
<1> QED BY <1>1, <1>4, ClipFits, FitsUp

LEMMA AHDBorderFits ==
    ASSUME NEW raw, raw.w \in Nat, raw.h \in Nat, raw.w >= 2, raw.h >= 2, NEW B \in Nat, AllFit(raw, B),
           NEW tile \in Tiles, NEW c \in 0 .. 2, NEW y \in 0 .. raw.h - 1, NEW x \in 0 .. raw.w - 1
    PROVE  Fits(AHDBorder(raw, tile, y, x, c), B)
<1> DEFINE m == 2 ^ B
<1>1. m \in Nat /\ m > 0
  BY PowerNat
<1>2. \A b \in 0 .. raw.h - 1, a \in 0 .. raw.w - 1 : At(raw, b, a) \in Nat /\ At(raw, b, a) < m
  BY DEF AllFit, Fits
<1> HIDE DEF m
<1>3. PICK lo \in Nat, hi \in Nat : lo = 0 /\ hi = m - 1
  BY <1>1
<1>4. \A b \in 0 .. raw.h - 1, a \in 0 .. raw.w - 1 :
         Colour(tile, b, a) = c => At(raw, b, a) \in Nat /\ lo <= At(raw, b, a) /\ At(raw, b, a) <= hi
  BY <1>1, <1>2, <1>3
<1>5. AHDBorder(raw, tile, y, x, c) \in Nat /\ AHDBorder(raw, tile, y, x, c) <= hi
  BY <1>4, BorderBetween
<1>6. AHDBorder(raw, tile, y, x, c) < m
  BY <1>1, <1>3, <1>5
<1> QED BY <1>5, <1>6 DEF Fits, m

LEMMA AHDFits ==
    ASSUME NEW raw, raw.w \in Nat, raw.h \in Nat, raw.w >= 2, raw.h >= 2, NEW B \in Nat, AllFit(raw, B),
           NEW tile \in Tiles, NEW win \in 0 .. 2, NEW bits \in Nat, bits <= B
    PROVE  FitsAll(AHDRows(raw, tile, win, bits), B)
<1> DEFINE inner(size) == {n \in 3 .. size - 4 : \E top \in Tops(size) : InTile(top, n)}
           all(size)   == 0 .. size - 1
           outer(size) == all(size) \ (3 .. size - 4)
           samples == {j \in Places(raw.w, all(raw.h), all(raw.w)) :
                          j % 3 = FC(tile, Row(raw.w, j), Column(raw.w, j))}
           I == Places(raw.w, inner(raw.h), inner(raw.w))
           O == Places(raw.w, outer(raw.h), all(raw.w)) \cup Places(raw.w, all(raw.h), outer(raw.w))
           f == [j \in I |-> AHDCombine(raw, tile, win, Row(raw.w, j), Column(raw.w, j), j % 3, bits)]
           g == [j \in O |-> AHDBorder(raw, tile, Row(raw.w, j), Column(raw.w, j), j % 3)]
           k == [j \in samples |-> raw.s[j \div 3]]
           In(rows, cols, j) == Row(raw.w, j) \in rows /\ Column(raw.w, j) \in cols /\ j % 3 \in 0 .. 2
<1>1. AHDRows(raw, tile, win, bits) = Over(f, Over(g, k))
  BY Zenon DEF AHDRows
<1>2. /\ inner(raw.h) \subseteq 1 .. raw.h - 2 /\ inner(raw.w) \subseteq 1 .. raw.w - 2
      /\ outer(raw.h) \subseteq all(raw.h) /\ outer(raw.w) \subseteq all(raw.w)
      /\ all(raw.h) \subseteq Nat /\ inner(raw.h) \subseteq Nat /\ outer(raw.h) \subseteq Nat
      /\ inner(raw.w) \subseteq 0 .. raw.w - 1 /\ all(raw.w) = 0 .. raw.w - 1 /\ all(raw.h) = 0 .. raw.h - 1
  OBVIOUS
<1> HIDE DEF inner, all, outer
<1>3. ASSUME NEW rows \in SUBSET Nat, NEW cols, cols \subseteq 0 .. raw.w - 1,
             NEW j \in Places(raw.w, rows, cols)
      PROVE  In(rows, cols, j)
  BY <1>3, PlaceOf
<1>4. FitsAll(f, B)
  <2> SUFFICES ASSUME NEW j \in I PROVE Fits(f[j], B)
    BY DEF FitsAll
  <2>1. In(inner(raw.h), inner(raw.w), j)
    BY <1>2, <1>3
  <2>2. f[j] = AHDCombine(raw, tile, win, Row(raw.w, j), Column(raw.w, j), j % 3, bits)
    OBVIOUS
  <2> HIDE DEF f
  <2>3. Row(raw.w, j) \in 1 .. raw.h - 2 /\ Column(raw.w, j) \in 1 .. raw.w - 2
    BY <1>2, <2>1, Zenon
  <2> QED BY <2>2, <2>3, AHDCombineFits
<1>5. FitsAll(g, B)
  <2> SUFFICES ASSUME NEW j \in O PROVE Fits(g[j], B)
    BY DEF FitsAll
  <2>1. In(outer(raw.h), all(raw.w), j) \/ In(all(raw.h), outer(raw.w), j)
    <3>1. j \in Places(raw.w, outer(raw.h), all(raw.w)) \/ j \in Places(raw.w, all(raw.h), outer(raw.w))
      OBVIOUS
    <3>2. all(raw.w) \subseteq 0 .. raw.w - 1 /\ outer(raw.w) \subseteq 0 .. raw.w - 1
      BY <1>2
    <3> HIDE DEF In
    <3> QED BY <1>2, <1>3, <3>1, <3>2
  <2>2. g[j] = AHDBorder(raw, tile, Row(raw.w, j), Column(raw.w, j), j % 3)
    OBVIOUS
  <2> HIDE DEF g
  <2>3. Row(raw.w, j) \in 0 .. raw.h - 1 /\ Column(raw.w, j) \in 0 .. raw.w - 1 /\ j % 3 \in 0 .. 2
    BY <1>2, <2>1, Zenon
  <2> QED BY <2>2, <2>3, AHDBorderFits
<1>6. FitsAll(k, B)
  <2> SUFFICES ASSUME NEW j \in samples PROVE Fits(k[j], B)
    BY DEF FitsAll
  <2>1. k[j] = raw.s[j \div 3]
    OBVIOUS
  <2>2. PICK y \in all(raw.h), x \in all(raw.w), c \in 0 .. 2 : j = Offset(raw.w, y, x, c)
    <3>1. j \in Places(raw.w, all(raw.h), all(raw.w))
      OBVIOUS
    <3> QED BY <3>1 DEF Places, Offset
  <2> HIDE DEF k, f, g, samples
  <2>3. y \in 0 .. raw.h - 1 /\ x \in 0 .. raw.w - 1
    BY <1>2
  <2>4. j \div 3 = y * raw.w + x
    <3>1. y \in Nat /\ x \in Nat /\ raw.w \in Nat /\ c \in 0 .. 2
      BY <2>3
    <3> QED BY <2>2, <3>1, OffsetPixel, ZenonT(60)
  <2>5. k[j] = At(raw, y, x)
    BY <2>1, <2>4 DEF At
  <2> QED BY <2>3, <2>5 DEF AllFit
<1> HIDE DEF f, g, k
<1> QED BY <1>1, <1>4, <1>5, <1>6, OverFits

\* No decoder makes a value that its samples' depth does not hold.
LEMMA DecodersFit ==
    ASSUME NEW raw, raw.w \in Nat, raw.h \in Nat, raw.w >= 4, raw.h >= 4,
           NEW B \in Nat, AllFit(raw, B), NEW tile \in Tiles, NEW bits \in Nat, bits <= B,
           NEW win \in 0 .. 2, NEW method \in Methods,
           method = "DOWNSAMPLE" => raw.w % 2 = 0 /\ raw.h % 2 = 0, NEW C \in Nat, B <= C,
           NEW old, method = "VNG" => Whole(raw.w, raw.h) \subseteq DOMAIN old /\ FitsAll(old, C)
    PROVE  /\ method = "NEAREST" => /\ FitsAll(NearestNeighbor(raw, tile), B)
                                    /\ FitsAll(NearestNeighbor_uint16(raw, tile, bits), B)
           /\ method = "SIMPLE" => /\ FitsAll(Simple(raw, tile), B)
                                   /\ FitsAll(Simple_uint16(raw, tile, bits), B)
           /\ method = "BILINEAR" => /\ FitsAll(Bilinear(raw, tile), B)
                                     /\ FitsAll(Bilinear_uint16(raw, tile, bits), B)
           /\ method = "HQLINEAR" => /\ 8 <= B => FitsAll(HQLinear(raw, tile), B)
                                     /\ FitsAll(HQLinear_uint16(raw, tile, bits), B)
           /\ method = "DOWNSAMPLE" => /\ FitsAll(Downsample(raw, tile), B)
                                       /\ FitsAll(Downsample_uint16(raw, tile, bits), B)
           /\ method = "VNG" => /\ 8 <= B => FitsAll(VNG(raw, tile, old), B)
                                /\ FitsAll(VNG_uint16(raw, tile, bits, old), B)
           /\ method = "AHD" => FitsAll(AHDRows(raw, tile, win, bits), B)
<1>1. raw.w \in Nat \ {0} /\ raw.h \in Nat \ {0} /\ raw.w >= 2 /\ raw.h >= 2
  OBVIOUS
<1>2. /\ FitsAll(NearestNeighbor(raw, tile), B) /\ FitsAll(NearestNeighbor_uint16(raw, tile, bits), B)
      /\ FitsAll(Simple(raw, tile), B)
  BY <1>1, NearestFits
<1>3. FitsAll(Simple_uint16(raw, tile, bits), B)
  BY <1>1, Simple16Fits
<1>4. FitsAll(Bilinear(raw, tile), B) /\ FitsAll(Bilinear_uint16(raw, tile, bits), B)
  BY BilinearFits
<1>5. (8 <= B => FitsAll(HQLinear(raw, tile), B)) /\ FitsAll(HQLinear_uint16(raw, tile, bits), B)
  BY HQLinearFits
<1>6. method = "DOWNSAMPLE" => FitsAll(Downsample(raw, tile), B) /\ FitsAll(Downsample_uint16(raw, tile, bits), B)
  BY DownsampleFits
<1>7. method = "VNG" => /\ 8 <= B => FitsAll(VNG(raw, tile, old), B)
                        /\ FitsAll(VNG_uint16(raw, tile, bits, old), B)
  BY VNGFits
<1>8. FitsAll(AHDRows(raw, tile, win, bits), B)
  BY <1>1, AHDFits
<1> QED BY <1>2, <1>3, <1>4, <1>5, <1>6, <1>7, <1>8

\* The samples of new or used memory, read before they are stored.
Old16(out) == [k \in 0 .. (out.allocated \div 2) - 1 |-> Host(out.image, k)]

LEMMA Decoding8Fits ==
    ASSUME NEW in, in.size[1] \in Nat, in.size[2] \in Nat, in.size[1] >= 4, in.size[2] >= 4,
           in.filter \in Tiles, NEW out, NEW win \in 0 .. 2, NEW method \in Methods,
           method = "DOWNSAMPLE" => in.size[1] % 2 = 0 /\ in.size[2] % 2 = 0,
           AllFit(Raw(in, in.image), 8),
           method = "VNG" => Whole(in.size[1], in.size[2]) \subseteq DOMAIN out.image /\ FitsAll(out.image, 8),
           NEW d \in bayer_decoding_8bit(in, out, method, win)
    PROVE  FitsAll(d, 8)
<1> DEFINE r == Raw(in, in.image)  t == in.filter
           D8 == bayer_decoding_8bit(in, out, method, win)
<1>1. /\ method = "NEAREST"    => D8 = {NearestNeighbor(r, t)}
      /\ method = "SIMPLE"     => D8 = {Simple(r, t)}
      /\ method = "BILINEAR"   => D8 = {Bilinear(r, t)}
      /\ method = "HQLINEAR"   => D8 = {HQLinear(r, t)}
      /\ method = "DOWNSAMPLE" => D8 = {Downsample(r, t)}
      /\ method = "VNG"        => D8 = {VNG(r, t, out.image)}
      /\ method = "AHD"        => D8 = {AHD(r, t, win)}
      /\ method = "EDGESENSE"  => D8 = {}
  BY DEF bayer_decoding_8bit, Raw
<1>2. AHD(r, t, win) = AHDRows(r, t, win, 8)
  BY Zenon DEF AHD
<1>3. r.w = in.size[1] /\ r.h = in.size[2]
  BY DEF Raw
<1>4. PICK B \in Nat : B = 8
  OBVIOUS
<1> HIDE DEF r, t, D8
<1>5. /\ method = "NEAREST" => FitsAll(NearestNeighbor(r, t), B)
      /\ method = "SIMPLE" => FitsAll(Simple(r, t), B)
      /\ method = "BILINEAR" => FitsAll(Bilinear(r, t), B)
      /\ method = "HQLINEAR" => FitsAll(HQLinear(r, t), B)
      /\ method = "DOWNSAMPLE" => FitsAll(Downsample(r, t), B)
      /\ method = "VNG" => FitsAll(VNG(r, t, out.image), B)
      /\ method = "AHD" => FitsAll(AHDRows(r, t, win, B), B)
  <2>1. /\ r.w \in Nat /\ r.h \in Nat /\ r.w >= 4 /\ r.h >= 4 /\ AllFit(r, B) /\ t \in Tiles
        /\ B <= B /\ 8 <= B
        /\ method = "DOWNSAMPLE" => r.w % 2 = 0 /\ r.h % 2 = 0
    BY <1>3, <1>4 DEF r, t
  <2>2. method = "VNG" => Whole(r.w, r.h) \subseteq DOMAIN out.image /\ FitsAll(out.image, B)
    BY <1>3, <1>4
  <2> QED BY <2>1, <2>2, DecodersFit
<1>6. FitsAll(d, B)
  BY <1>1, <1>2, <1>4, <1>5 DEF Methods, D8
<1> QED BY <1>4, <1>6

LEMMA Decoding16Fits ==
    ASSUME NEW in, in.size[1] \in Nat, in.size[2] \in Nat, in.size[1] >= 4, in.size[2] >= 4,
           in.filter \in Tiles, NEW out, NEW win \in 0 .. 2, NEW method \in Methods,
           method = "DOWNSAMPLE" => in.size[1] % 2 = 0 /\ in.size[2] % 2 = 0,
           NEW bits \in Nat, NEW B \in Nat, bits <= B, AllFit(Raw(in, Samples16(in)), B),
           NEW C \in Nat, B <= C,
           method = "VNG" => Whole(in.size[1], in.size[2]) \subseteq DOMAIN Old16(out) /\ FitsAll(Old16(out), C),
           NEW d \in bayer_decoding_16bit(in, out, method, bits, win)
    PROVE  FitsAll(d, B)
<1> DEFINE r == Raw(in, Samples16(in))  t == in.filter  old == Old16(out)
           D16 == bayer_decoding_16bit(in, out, method, bits, win)
<1>1. /\ method = "NEAREST"    => D16 = {NearestNeighbor_uint16(r, t, bits)}
      /\ method = "SIMPLE"     => D16 = {Simple_uint16(r, t, bits)}
      /\ method = "BILINEAR"   => D16 = {Bilinear_uint16(r, t, bits)}
      /\ method = "HQLINEAR"   => D16 = {HQLinear_uint16(r, t, bits)}
      /\ method = "DOWNSAMPLE" => D16 = {Downsample_uint16(r, t, bits)}
      /\ method = "VNG"        => D16 = {VNG_uint16(r, t, bits, old)}
      /\ method = "AHD"        => D16 = {AHD_uint16(r, t, bits, win)}
      /\ method = "EDGESENSE"  => D16 = {}
  BY DEF bayer_decoding_16bit, Raw, Samples16, Old16
<1>2. AHD_uint16(r, t, bits, win) = AHDRows(r, t, win, bits)
  BY Zenon DEF AHD_uint16
<1>3. r.w = in.size[1] /\ r.h = in.size[2]
  BY DEF Raw
<1> HIDE DEF r, t, old, D16
<1>4. /\ method = "NEAREST" => FitsAll(NearestNeighbor_uint16(r, t, bits), B)
      /\ method = "SIMPLE" => FitsAll(Simple_uint16(r, t, bits), B)
      /\ method = "BILINEAR" => FitsAll(Bilinear_uint16(r, t, bits), B)
      /\ method = "HQLINEAR" => FitsAll(HQLinear_uint16(r, t, bits), B)
      /\ method = "DOWNSAMPLE" => FitsAll(Downsample_uint16(r, t, bits), B)
      /\ method = "VNG" => FitsAll(VNG_uint16(r, t, bits, old), B)
      /\ method = "AHD" => FitsAll(AHDRows(r, t, win, bits), B)
  <2>1. /\ r.w \in Nat /\ r.h \in Nat /\ r.w >= 4 /\ r.h >= 4 /\ AllFit(r, B) /\ t \in Tiles
        /\ method = "DOWNSAMPLE" => r.w % 2 = 0 /\ r.h % 2 = 0
    BY <1>3 DEF r, t
  <2>2. method = "VNG" => Whole(r.w, r.h) \subseteq DOMAIN old /\ FitsAll(old, C)
    BY <1>3 DEF old
  <2> QED BY <2>1, <2>2, DecodersFit
<1> QED BY SMTT(60), <1>1, <1>2, <1>4 DEF Methods, D16

-----------------------------------------------------------------------------
(* What is stored to a frame are bytes.                                    *)

\* The first n offsets of src hold bytes.
FirstBytes(src, n) == \A k \in 0 .. n - 1 : src[k] \in 0 .. 255
AreBytes(d) == \A k \in DOMAIN d : d[k] \in 0 .. 255

LEMMA LimitByte == ASSUME NEW v \in Int PROVE Limit(v) \in 0 .. 255
BY DEF Limit

LEMMA ColoursOfBytes ==
    ASSUME NEW r \in 0 .. 255, NEW g \in 0 .. 255, NEW b \in 0 .. 255, NEW k \in 1 .. 3
    PROVE  RGB2YUV(r, g, b)[k] \in 0 .. 255 /\ YUV2RGB(r, g, b)[k] \in 0 .. 255
<1> DEFINE y1 == (306 * r + 601 * g + 117 * b) \div 1024
           y2 == ((-172 * r) - 340 * g + 512 * b) \div 1024 + 128
           y3 == (512 * r - 429 * g - 83 * b) \div 1024 + 128
           r1 == r + ((b - 128) * 1436) \div 1024
           r2 == r - ((g - 128) * 352 + (b - 128) * 731) \div 1024
           r3 == r + ((g - 128) * 1814) \div 1024
<1>1. y1 \in Int /\ y2 \in Int /\ y3 \in Int /\ r1 \in Int /\ r2 \in Int /\ r3 \in Int
  OBVIOUS
<1>2. RGB2YUV(r, g, b) = <<Limit(y1), Limit(y2), Limit(y3)>>
  BY Zenon DEF RGB2YUV
<1>3. YUV2RGB(r, g, b) = <<Limit(r1), Limit(r2), Limit(r3)>>
  BY Zenon DEF YUV2RGB
<1> HIDE DEF y1, y2, y3, r1, r2, r3
<1>4. /\ Limit(y1) \in 0 .. 255 /\ Limit(y2) \in 0 .. 255 /\ Limit(y3) \in 0 .. 255
      /\ Limit(r1) \in 0 .. 255 /\ Limit(r2) \in 0 .. 255 /\ Limit(r3) \in 0 .. 255
  BY <1>1, LimitByte
<1> QED BY <1>2, <1>3, <1>4

LEMMA PairByte ==
    ASSUME NEW order, NEW a \in 0 .. 255, NEW b \in 0 .. 255, NEW c \in 0 .. 255, NEW d \in 0 .. 255,
           NEW k \in 1 .. 4
    PROVE  Pair(order, a, b, c, d)[k] \in 0 .. 255
BY SMTT(60) DEF Pair

LEMMA SharedByte ==
    ASSUME NEW order, NEW one, NEW two, \A k \in 1 .. 3 : one[k] \in 0 .. 255 /\ two[k] \in 0 .. 255,
           NEW k \in 1 .. 4
    PROVE  Shared(order, one, two)[k] \in 0 .. 255
<1> DEFINE u == (one[2] + two[2]) \div 2  v == (one[3] + two[3]) \div 2
<1>1. one[1] \in 0 .. 255 /\ two[1] \in 0 .. 255
  OBVIOUS
<1>2. u \in 0 .. 255 /\ v \in 0 .. 255
  <2>1. one[2] \in 0 .. 255 /\ two[2] \in 0 .. 255 /\ one[3] \in 0 .. 255 /\ two[3] \in 0 .. 255
    OBVIOUS
  <2> DEFINE s == one[2]  t == two[2]  a == one[3]  b == two[3]
  <2>2. /\ s \in 0 .. 255 /\ t \in 0 .. 255 /\ a \in 0 .. 255 /\ b \in 0 .. 255
        /\ u = (s + t) \div 2 /\ v = (a + b) \div 2
    BY <2>1
  <2> HIDE DEF u, v, s, t, a, b
  <2> QED BY <2>2
<1>3. Shared(order, one, two) = Pair(order, one[1], u, two[1], v)
  BY Zenon DEF Shared
<1> DEFINE y == one[1]  z == two[1]
<1>4. Shared(order, one, two) = Pair(order, y, u, z, v) /\ y \in 0 .. 255 /\ z \in 0 .. 255
  BY SMTT(60), <1>1, <1>3
<1> HIDE DEF u, v, y, z
<1>5. Pair(order, y, u, z, v)[k] \in 0 .. 255
  BY ZenonT(60), <1>2, <1>4, PairByte
<1> QED BY <1>4, <1>5

LEMMA YUV422Bytes ==
    ASSUME NEW src, NEW n \in Nat, FirstBytes(src, 2 * n), NEW order
    PROVE  AreBytes(YUV422_to_YUV422(src, n, order))
<1> SUFFICES ASSUME NEW j \in 0 .. 2 * n - 1 PROVE YUV422_to_YUV422(src, n, order)[j] \in 0 .. 255
  BY DEF AreBytes, YUV422_to_YUV422
<1>1. YUV422_to_YUV422(src, n, order)[j]
        = IF order = "UYVY" THEN src[j] ELSE src[IF j % 2 = 0 THEN j + 1 ELSE j - 1]
  BY Zenon DEF YUV422_to_YUV422
<1>2. j \in 0 .. 2 * n - 1 /\ (IF j % 2 = 0 THEN j + 1 ELSE j - 1) \in 0 .. 2 * n - 1
  OBVIOUS
<1> QED BY <1>1, <1>2 DEF FirstBytes

LEMMA ToYUV422Bytes ==
    ASSUME NEW src, NEW m \in Nat, NEW n, n = 2 * m, FirstBytes(src, 3 * n), NEW order
    PROVE  AreBytes(YUV444_to_YUV422(src, n, order)) /\ AreBytes(RGB8_to_YUV422(src, n, order))
<1>0. 2 * n = 4 * m /\ 3 * n = 6 * m
  OBVIOUS
<1>1. AreBytes(YUV444_to_YUV422(src, n, order))
  <2> SUFFICES ASSUME NEW j \in 0 .. 2 * n - 1 PROVE YUV444_to_YUV422(src, n, order)[j] \in 0 .. 255
    BY DEF AreBytes, YUV444_to_YUV422
  <2> DEFINE k == 6 * (j \div 4)  u == (src[k] + src[k + 3]) \div 2  v == (src[k + 2] + src[k + 5]) \div 2
  <2>1. YUV444_to_YUV422(src, n, order)[j] = Pair(order, src[k + 1], u, src[k + 4], v)[(j % 4) + 1]
    BY Zenon DEF YUV444_to_YUV422
  <2>2. \A i \in 0 .. 5 : k + i \in 0 .. 3 * n - 1
    BY <1>0
  <2>3. k + 0 = k /\ (j % 4) + 1 \in 1 .. 4
    OBVIOUS
  <2> HIDE DEF k
  <2>4. \A i \in 0 .. 5 : src[k + i] \in 0 .. 255
    BY <2>2 DEF FirstBytes
  <2>5. src[k + 0] \in 0 .. 255 /\ src[k + 1] \in 0 .. 255 /\ src[k + 2] \in 0 .. 255
        /\ src[k + 3] \in 0 .. 255 /\ src[k + 4] \in 0 .. 255 /\ src[k + 5] \in 0 .. 255
    BY <2>4
  <2> DEFINE s0 == src[k]  s1 == src[k + 1]  s2 == src[k + 2]  s3 == src[k + 3]  s4 == src[k + 4]  s5 == src[k + 5]
  <2>6. /\ s0 \in 0 .. 255 /\ s1 \in 0 .. 255 /\ s2 \in 0 .. 255
        /\ s3 \in 0 .. 255 /\ s4 \in 0 .. 255 /\ s5 \in 0 .. 255
    BY <2>3, <2>5
  <2>7. u = (s0 + s3) \div 2 /\ v = (s2 + s5) \div 2
    OBVIOUS
  <2> HIDE DEF u, v, s0, s1, s2, s3, s4, s5
  <2>8. u \in 0 .. 255 /\ v \in 0 .. 255
    BY SMTT(60), <2>6, <2>7
  <2>9. Pair(order, s1, u, s4, v)[(j % 4) + 1] \in 0 .. 255
    BY ZenonT(60), <2>3, <2>6, <2>8, PairByte
  <2> QED BY SMTT(60), <2>1, <2>9 DEF s1, s4
<1>2. AreBytes(RGB8_to_YUV422(src, n, order))
  <2> SUFFICES ASSUME NEW j \in 0 .. 2 * n - 1 PROVE RGB8_to_YUV422(src, n, order)[j] \in 0 .. 255
    BY DEF AreBytes, RGB8_to_YUV422
  <2> DEFINE k == 6 * (j \div 4)
             one == RGB2YUV(src[k], src[k + 1], src[k + 2])
             two == RGB2YUV(src[k + 3], src[k + 4], src[k + 5])
  <2>1. RGB8_to_YUV422(src, n, order)[j] = Shared(order, one, two)[(j % 4) + 1]
    BY Zenon DEF RGB8_to_YUV422
  <2>2. \A i \in 0 .. 5 : k + i \in 0 .. 3 * n - 1
    BY <1>0
  <2>3. k + 0 = k /\ (j % 4) + 1 \in 1 .. 4
    OBVIOUS
  <2> HIDE DEF k
  <2>4. \A i \in 0 .. 5 : src[k + i] \in 0 .. 255
    BY SMTT(60), <2>2 DEF FirstBytes
  <2>5. src[k + 0] \in 0 .. 255 /\ src[k + 1] \in 0 .. 255 /\ src[k + 2] \in 0 .. 255
        /\ src[k + 3] \in 0 .. 255 /\ src[k + 4] \in 0 .. 255 /\ src[k + 5] \in 0 .. 255
    BY SMTT(60), <2>4
  <2>6. \A i \in 1 .. 3 : one[i] \in 0 .. 255 /\ two[i] \in 0 .. 255
    BY ZenonT(60), <2>3, <2>5, ColoursOfBytes
  <2> HIDE DEF one, two
  <2> QED BY <2>1, <2>3, <2>6, SharedByte
<1> QED BY <1>1, <1>2

\* Four pixels in six bytes.
LEMMA Luma411Byte ==
    ASSUME NEW src, NEW q \in Nat, FirstBytes(src, 6 * q), NEW k \in 0 .. 4 * q - 1
    PROVE  /\ Luma411(src, k) \in 0 .. 255
           /\ src[6 * (k \div 4)] \in 0 .. 255 /\ src[6 * (k \div 4) + 3] \in 0 .. 255
<1> DEFINE g == k \div 4  r == k % 4  t == <<1, 2, 4, 5>>
<1>1. g \in 0 .. q - 1 /\ r \in 0 .. 3
  OBVIOUS
<1>2. Luma411(src, k) = src[6 * g + t[r + 1]]
  BY Zenon DEF Luma411
<1>3. t[r + 1] \in 0 .. 5
  BY <1>1
<1> HIDE DEF g, r, t
<1>4. \A i \in 0 .. 5 : 6 * g + i \in 0 .. 6 * q - 1
  BY <1>1
<1>5. \A i \in 0 .. 5 : src[6 * g + i] \in 0 .. 255
  BY <1>4 DEF FirstBytes
<1>6. 6 * g + 0 = 6 * g
  BY <1>1
<1>7. src[6 * g + 0] \in 0 .. 255 /\ src[6 * g + 3] \in 0 .. 255
  BY <1>5
<1>8. src[6 * g + t[r + 1]] \in 0 .. 255
  BY <1>3, <1>5
<1>9. src[6 * g] \in 0 .. 255 /\ src[6 * g + 3] \in 0 .. 255
  BY <1>6, <1>7
<1> QED BY <1>2, <1>8, <1>9 DEF g

LEMMA From411Bytes ==
    ASSUME NEW src, NEW q \in Nat, NEW n, n = 4 * q, FirstBytes(src, 6 * q), NEW order
    PROVE  AreBytes(YUV411_to_YUV422(src, n, order)) /\ AreBytes(YUV411_to_RGB8(src, n))
<1>1. AreBytes(YUV411_to_YUV422(src, n, order))
  <2> SUFFICES ASSUME NEW j \in 0 .. 2 * n - 1 PROVE YUV411_to_YUV422(src, n, order)[j] \in 0 .. 255
    BY DEF AreBytes, YUV411_to_YUV422
  <2> DEFINE p == j \div 4  k == 2 * p  i == 2 * p + 1
  <2>1. YUV411_to_YUV422(src, n, order)[j]
           = Pair(order, Luma411(src, k), src[6 * (p \div 2)], Luma411(src, i), src[6 * (p \div 2) + 3])[(j % 4) + 1]
    BY Zenon DEF YUV411_to_YUV422
  <2>2. k \in 0 .. 4 * q - 1 /\ i \in 0 .. 4 * q - 1 /\ k \div 4 = p \div 2 /\ (j % 4) + 1 \in 1 .. 4
    OBVIOUS
  <2> HIDE DEF p, k, i
  <2>3. Luma411(src, k) \in 0 .. 255 /\ Luma411(src, i) \in 0 .. 255
        /\ src[6 * (p \div 2)] \in 0 .. 255 /\ src[6 * (p \div 2) + 3] \in 0 .. 255
    BY ZenonT(60), <2>2, Luma411Byte
  <2> DEFINE a == Luma411(src, k)  b == Luma411(src, i)  u == src[6 * (p \div 2)]  v == src[6 * (p \div 2) + 3]
             r == (j % 4) + 1
  <2>4. a \in 0 .. 255 /\ b \in 0 .. 255 /\ u \in 0 .. 255 /\ v \in 0 .. 255 /\ r \in 1 .. 4
    BY <2>2, <2>3
  <2>5. YUV411_to_YUV422(src, n, order)[j] = Pair(order, a, u, b, v)[r]
    BY <2>1
  <2> HIDE DEF a, b, u, v, r
  <2>6. Pair(order, a, u, b, v)[r] \in 0 .. 255
    BY ZenonT(60), <2>4, PairByte
  <2> QED BY SMTT(60), <2>5, <2>6
<1>2. AreBytes(YUV411_to_RGB8(src, n))
  <2> SUFFICES ASSUME NEW j \in 0 .. 3 * n - 1 PROVE YUV411_to_RGB8(src, n)[j] \in 0 .. 255
    BY DEF AreBytes, YUV411_to_RGB8
  <2> DEFINE k == j \div 3  g == j \div 12
  <2>1. YUV411_to_RGB8(src, n)[j] = YUV2RGB(Luma411(src, k), src[6 * g], src[6 * g + 3])[(j % 3) + 1]
    BY Zenon DEF YUV411_to_RGB8
  <2>2. k \in 0 .. 4 * q - 1 /\ k \div 4 = g /\ (j % 3) + 1 \in 1 .. 3
    OBVIOUS
  <2> HIDE DEF k, g
  <2>3. Luma411(src, k) \in 0 .. 255 /\ src[6 * g] \in 0 .. 255 /\ src[6 * g + 3] \in 0 .. 255
    BY ZenonT(60), <2>2, Luma411Byte
  <2> DEFINE a == Luma411(src, k)  u == src[6 * g]  v == src[6 * g + 3]  r == (j % 3) + 1
  <2>4. a \in 0 .. 255 /\ u \in 0 .. 255 /\ v \in 0 .. 255 /\ r \in 1 .. 3
    BY <2>2, <2>3
  <2>5. YUV411_to_RGB8(src, n)[j] = YUV2RGB(a, u, v)[r]
    BY SMTT(60), <2>1
  <2> HIDE DEF a, u, v, r
  <2>6. YUV2RGB(a, u, v)[r] \in 0 .. 255
    BY ZenonT(60), <2>4, ColoursOfBytes
  <2> QED BY <2>5, <2>6
<1> QED BY <1>1, <1>2

LEMMA HighBytes ==
    ASSUME NEW src, NEW n \in Nat, FirstBytes(src, 2 * n), NEW k \in 0 .. n - 1,
           NEW bits \in Nat, bits >= 8
    PROVE  High(src, k, bits) \in 0 .. 255
<1>1. 2 * k \in 0 .. 2 * n - 1 /\ 2 * k + 1 \in 0 .. 2 * n - 1
  OBVIOUS
<1>2. src[2 * k] \in 0 .. 255 /\ src[2 * k + 1] \in 0 .. 255
  BY <1>1 DEF FirstBytes
<1> QED BY <1>2, HighByte

LEMMA FromMono16Bytes ==
    ASSUME NEW src, NEW n \in Nat, FirstBytes(src, 2 * n), NEW order, NEW bits \in Nat, bits >= 8
    PROVE  /\ n % 2 = 0 => AreBytes(MONO16_to_YUV422(src, n, order, bits))
           /\ AreBytes(MONO16_to_RGB8(src, n, bits)) /\ AreBytes(MONO16_to_MONO8(src, n, bits))
<1>0. n \in Nat
  OBVIOUS
<1>1. ASSUME n % 2 = 0 PROVE AreBytes(MONO16_to_YUV422(src, n, order, bits))
  <2> SUFFICES ASSUME NEW j \in 0 .. 2 * n - 1 PROVE MONO16_to_YUV422(src, n, order, bits)[j] \in 0 .. 255
    BY DEF AreBytes, MONO16_to_YUV422
  <2> DEFINE k == 2 * (j \div 4)  i == 2 * (j \div 4) + 1  r == (j % 4) + 1
             a == High(src, k, bits)  b == High(src, i, bits)
  <2>1. MONO16_to_YUV422(src, n, order, bits)[j] = Pair(order, a, 128, b, 128)[r]
    BY Zenon DEF MONO16_to_YUV422
  <2>2. k \in 0 .. n - 1 /\ i \in 0 .. n - 1 /\ r \in 1 .. 4 /\ 128 \in 0 .. 255
    BY <1>1
  <2> HIDE DEF k, i, r
  <2>3. a \in 0 .. 255 /\ b \in 0 .. 255
    BY <1>0, <2>2, HighBytes
  <2>4. PICK grey \in 0 .. 255 : grey = 128
    OBVIOUS
  <2> HIDE DEF a, b
  <2>5. Pair(order, a, grey, b, grey)[r] \in 0 .. 255
    BY ZenonT(60), <2>2, <2>3, PairByte
  <2> QED BY <2>1, <2>4, <2>5
<1>2. AreBytes(MONO16_to_RGB8(src, n, bits))
  <2> SUFFICES ASSUME NEW j \in 0 .. 3 * n - 1 PROVE MONO16_to_RGB8(src, n, bits)[j] \in 0 .. 255
    BY DEF AreBytes, MONO16_to_RGB8
  <2> DEFINE k == j \div 3
  <2>1. MONO16_to_RGB8(src, n, bits)[j] = High(src, k, bits)
    BY Zenon DEF MONO16_to_RGB8
  <2>2. k \in 0 .. n - 1
    OBVIOUS
  <2> HIDE DEF k
  <2> QED BY <1>0, <2>1, <2>2, HighBytes
<1>3. AreBytes(MONO16_to_MONO8(src, n, bits))
  <2> SUFFICES ASSUME NEW j \in 0 .. n - 1 PROVE MONO16_to_MONO8(src, n, bits)[j] \in 0 .. 255
    BY DEF AreBytes, MONO16_to_MONO8
  <2>1. MONO16_to_MONO8(src, n, bits)[j] = High(src, j, bits)
    BY Zenon DEF MONO16_to_MONO8
  <2> QED BY <1>0, <2>1, HighBytes
<1> QED BY <1>1, <1>2, <1>3

LEMMA FromRGB16Bytes ==
    ASSUME NEW src, NEW n \in Nat, FirstBytes(src, 6 * n), NEW order, NEW bits \in Nat, bits >= 8
    PROVE  /\ n % 2 = 0 => AreBytes(RGB16_to_YUV422(src, n, order, bits))
           /\ AreBytes(RGB16_to_RGB8(src, n, bits))
<1>0. 3 * n \in Nat /\ FirstBytes(src, 2 * (3 * n))
  <2>1. 2 * (3 * n) = 6 * n /\ 3 * n \in Nat
    OBVIOUS
  <2> QED BY <2>1
<1>1. ASSUME n % 2 = 0 PROVE AreBytes(RGB16_to_YUV422(src, n, order, bits))
  <2> SUFFICES ASSUME NEW j \in 0 .. 2 * n - 1 PROVE RGB16_to_YUV422(src, n, order, bits)[j] \in 0 .. 255
    BY DEF AreBytes, RGB16_to_YUV422
  <2> DEFINE c(i) == High(src, 6 * (j \div 4) + i, bits)
             one == RGB2YUV(c(0), c(1), c(2))
             two == RGB2YUV(c(3), c(4), c(5))
             r == (j % 4) + 1
  <2>1. RGB16_to_YUV422(src, n, order, bits)[j] = Shared(order, one, two)[r]
    BY Zenon DEF RGB16_to_YUV422
  <2>2. \A i \in 0 .. 5 : 6 * (j \div 4) + i \in 0 .. 3 * n - 1
    BY <1>1
  <2>3. r \in 1 .. 4
    OBVIOUS
  <2>4. \A i \in 0 .. 5 : c(i) \in 0 .. 255
    BY <1>0, <2>2, HighBytes
  <2> HIDE DEF c
  <2>5. /\ c(0) \in 0 .. 255 /\ c(1) \in 0 .. 255 /\ c(2) \in 0 .. 255
        /\ c(3) \in 0 .. 255 /\ c(4) \in 0 .. 255 /\ c(5) \in 0 .. 255
    BY <2>4
  <2>6. \A i \in 1 .. 3 : one[i] \in 0 .. 255 /\ two[i] \in 0 .. 255
    BY ZenonT(60), <2>5, ColoursOfBytes
  <2> HIDE DEF one, two, r
  <2> QED BY SMTT(60), <2>1, <2>3, <2>6, SharedByte
<1>2. AreBytes(RGB16_to_RGB8(src, n, bits))
  <2> SUFFICES ASSUME NEW j \in 0 .. 3 * n - 1 PROVE RGB16_to_RGB8(src, n, bits)[j] \in 0 .. 255
    BY DEF AreBytes, RGB16_to_RGB8
  <2>1. RGB16_to_RGB8(src, n, bits)[j] = High(src, j, bits)
    BY Zenon DEF RGB16_to_RGB8
  <2> QED BY ZenonT(60), <1>0, <2>1, HighBytes
<1> QED BY <1>1, <1>2

LEMMA FromMono8Bytes ==
    ASSUME NEW src, NEW width, NEW height, NEW n, Rectangle(width, height, n), FirstBytes(src, n),
           NEW order
    PROVE  AreBytes(MONO8_to_YUV422(src, width, height, order)) /\ AreBytes(MONO8_to_RGB8(src, n))
<1>0. width \in Nat /\ height \in Nat /\ n \in Nat /\ n = width * height
  BY DEF Rectangle
<1>1. AreBytes(MONO8_to_YUV422(src, width, height, order))
  <2> DEFINE padded == width + (width % 2)
             Y(k) == LET x == k % padded
                     IN  src[(k \div padded) * width + (IF x = width THEN x - 1 ELSE x)]
             f == [j \in 0 .. 2 * padded * height - 1 |->
                     Pair(order, Y(2 * (j \div 4)), 128, Y(2 * (j \div 4) + 1), 128)[(j % 4) + 1]]
  <2>1. MONO8_to_YUV422(src, width, height, order) = f
    BY Zenon DEF MONO8_to_YUV422
  <2>2. padded \in Nat /\ padded % 2 = 0 /\ (padded = width \/ padded = width + 1)
    BY <1>0
  <2> DEFINE q == padded \div 2  m == q * height
  <2>3. padded = 2 * q /\ q \in Nat
    BY <2>2
  <2>4. m \in Nat /\ 2 * padded * height = 4 * m /\ padded * height = 2 * m
    <3> HIDE DEF q, padded
    <3> QED BY <1>0, <2>3
  <2>5. ASSUME NEW k \in 0 .. 2 * m - 1 PROVE Y(k) \in 0 .. 255
    <3> DEFINE x == k % padded  y == k \div padded  z == IF x = width THEN x - 1 ELSE x
    <3>1. padded > 0
      <4> HIDE DEF m, padded, q
      <4> QED BY <1>0, <2>2, <2>4, <2>5
    <3>2. x \in 0 .. padded - 1 /\ y \in Nat /\ k = y * padded + x /\ k < padded * height
      <4>1. k \in Nat /\ k < 2 * m
        BY <2>4, <2>5
      <4> HIDE DEF padded, m
      <4> QED BY <2>2, <2>4, <3>1, <4>1, Divided
    <3>3. width > 0 /\ z \in 0 .. width - 1
      <4> HIDE DEF padded
      <4> QED BY <1>0, <2>2, <3>1, <3>2
    <3>4. y < height
      <4> HIDE DEF x, y, padded, m, q
      <4> SUFFICES ASSUME height <= y PROVE FALSE
        BY <1>0, <3>2
      <4>1. height * padded <= y * padded
        BY <1>0, <2>2, <3>2, Monotone
      <4> DEFINE p == height * padded  r == y * padded
      <4>2. p = padded * height /\ p \in Nat /\ r \in Nat /\ p <= r /\ k = r + x
        BY <1>0, <2>2, <3>2, <4>1
      <4> HIDE DEF p, r
      <4> QED BY <3>2, <4>2
    <3> HIDE DEF x, y, z
    <3>5. y * width + z \in 0 .. n - 1
      <4>1. (y + 1) * width <= height * width
        BY <1>0, <3>2, <3>4, Monotone
      <4>2. (y + 1) * width = y * width + width /\ height * width = n
        BY <1>0, <3>2
      <4> DEFINE r == y * width
      <4>3. r \in Nat /\ r + width <= n
        BY <1>0, <3>2, <4>1, <4>2
      <4> HIDE DEF r
      <4> QED BY <1>0, <3>3, <4>3 DEF r
    <3>6. Y(k) = src[y * width + z]
      BY SMTT(60) DEF x, y, z
    <3> HIDE DEF Y
    <3> QED BY <3>5, <3>6 DEF FirstBytes
  <2> HIDE DEF padded, Y
  <2> SUFFICES ASSUME NEW j \in 0 .. 4 * m - 1 PROVE f[j] \in 0 .. 255
    BY <2>1, <2>4 DEF AreBytes
  <2> DEFINE k == 2 * (j \div 4)  i == 2 * (j \div 4) + 1  r == (j % 4) + 1
             a == Y(k)  b == Y(i)
  <2>6. f[j] = Pair(order, a, 128, b, 128)[r]
    BY <2>4
  <2> HIDE DEF f
  <2>7. k \in 0 .. 2 * m - 1 /\ i \in 0 .. 2 * m - 1 /\ r \in 1 .. 4
    <3> HIDE DEF m
    <3> QED BY <2>4
  <2> HIDE DEF k, i, r, m
  <2>8. a \in 0 .. 255 /\ b \in 0 .. 255
    BY <2>5, <2>7
  <2>9. PICK grey \in 0 .. 255 : grey = 128
    BY SMTT(60)
  <2> HIDE DEF a, b
  <2>10. Pair(order, a, grey, b, grey)[r] \in 0 .. 255
    BY ZenonT(60), <2>7, <2>8, PairByte
  <2> QED BY <2>6, <2>9, <2>10
<1>2. AreBytes(MONO8_to_RGB8(src, n))
  <2> SUFFICES ASSUME NEW j \in 0 .. 3 * n - 1 PROVE MONO8_to_RGB8(src, n)[j] \in 0 .. 255
    BY DEF AreBytes, MONO8_to_RGB8
  <2>1. MONO8_to_RGB8(src, n)[j] = src[j \div 3] /\ j \div 3 \in 0 .. n - 1
    BY <1>0 DEF MONO8_to_RGB8
  <2> QED BY <2>1 DEF FirstBytes
<1> QED BY <1>1, <1>2

LEMMA ToRGB8Bytes ==
    ASSUME NEW src, NEW n \in Nat, NEW order
    PROVE  /\ FirstBytes(src, 3 * n) => AreBytes(YUV444_to_RGB8(src, n))
           /\ FirstBytes(src, 2 * n) /\ n % 2 = 0 => AreBytes(YUV422_to_RGB8(src, n, order))
<1>1. ASSUME FirstBytes(src, 3 * n) PROVE AreBytes(YUV444_to_RGB8(src, n))
  <2> SUFFICES ASSUME NEW j \in 0 .. 3 * n - 1 PROVE YUV444_to_RGB8(src, n)[j] \in 0 .. 255
    BY DEF AreBytes, YUV444_to_RGB8
  <2> DEFINE k == 3 * (j \div 3)  a == src[k + 1]  b == src[k]  c == src[k + 2]  r == (j % 3) + 1
  <2>1. YUV444_to_RGB8(src, n)[j] = YUV2RGB(a, b, c)[r]
    BY Zenon DEF YUV444_to_RGB8
  <2>2. k \in 0 .. 3 * n - 1 /\ k + 1 \in 0 .. 3 * n - 1 /\ k + 2 \in 0 .. 3 * n - 1 /\ r \in 1 .. 3
    OBVIOUS
  <2> HIDE DEF k, r
  <2>3. a \in 0 .. 255 /\ b \in 0 .. 255 /\ c \in 0 .. 255
    BY SMTT(60), <1>1, <2>2 DEF FirstBytes
  <2> HIDE DEF a, b, c
  <2>4. YUV2RGB(a, b, c)[r] \in 0 .. 255
    BY ZenonT(60), <2>2, <2>3, ColoursOfBytes
  <2> QED BY <2>1, <2>4
<1>2. ASSUME FirstBytes(src, 2 * n), n % 2 = 0 PROVE AreBytes(YUV422_to_RGB8(src, n, order))
  <2> SUFFICES ASSUME NEW j \in 0 .. 3 * n - 1 PROVE YUV422_to_RGB8(src, n, order)[j] \in 0 .. 255
    BY DEF AreBytes, YUV422_to_RGB8
  <2> DEFINE p == j \div 6  s == (j \div 3) % 2  r == (j % 3) + 1
             k == Luma(order, p, s)  u == ChromaU(order, p)  v == ChromaV(order, p)
             a == src[k]  b == src[u]  c == src[v]
  <2>1. YUV422_to_RGB8(src, n, order)[j] = YUV2RGB(a, b, c)[r]
    BY Zenon DEF YUV422_to_RGB8
  <2>2. p \in 0 .. (n \div 2) - 1 /\ s \in {0, 1} /\ r \in 1 .. 3
    BY <1>2
  <2> HIDE DEF p, s, r
  <2>3. k \in 0 .. 2 * n - 1 /\ u \in 0 .. 2 * n - 1 /\ v \in 0 .. 2 * n - 1
    BY <1>2, <2>2 DEF Luma, ChromaU, ChromaV
  <2> HIDE DEF k, u, v
  <2>4. a \in 0 .. 255 /\ b \in 0 .. 255 /\ c \in 0 .. 255
    BY SMTT(60), <1>2, <2>3 DEF FirstBytes
  <2> HIDE DEF a, b, c
  <2>5. YUV2RGB(a, b, c)[r] \in 0 .. 255
    BY ZenonT(60), <2>2, <2>4, ColoursOfBytes
  <2> QED BY <2>1, <2>5
<1> QED BY <1>1, <1>2

\* What a conversion takes for granted of the frame it reads.
Source(f) ==
    /\ f.coding \in Convertible
    /\ f.image_bytes = (f.size[1] * f.size[2] * BitSize(f.coding)) \div 8
    /\ f.coding = "YUV411" => (f.size[1] * f.size[2]) % 4 = 0
    /\ f.coding \in {"MONO16", "RAW16", "RGB16"} => f.depth \in 8 .. 16

LEMMA CopiedBytes ==
    ASSUME NEW src, NEW n, FirstBytes(src, n)
    PROVE  AreBytes(Copied(src, n))
BY DEF FirstBytes, AreBytes, Copied

\* Every conversion makes bytes of bytes.
LEMMA ConversionBytes ==
    ASSUME NEW in, in.size \in Nat \X Nat, Source(in), FirstBytes(in.image, in.image_bytes),
           NEW out, out.coding \in {"YUV422", "MONO8", "RGB8"}, ~HalfPair(in, out),
           NEW b \in Bytes(in, out.coding, out.order)
    PROVE  AreBytes(b)
<1> DEFINE w == in.size[1]  h == in.size[2]  n == w * h  src == in.image  coding == in.coding
           bits == in.depth  read == in.order  to == out.coding  order == out.order
           Y == convert_to_YUV422(src, w, h, order, coding, bits)
           M == convert_to_MONO8(src, w, h, coding, bits)
           R == convert_to_RGB8(src, w, h, read, coding, bits)
<1>1. Rectangle(w, h, n)
  BY ImageBytes DEF Rectangle
<1>2. n \in Nat
  BY <1>1 DEF Rectangle
<1>9. /\ to = "YUV422" /\ order \in Orders /\ coding \in {"YUV444", "RGB8", "MONO16", "RAW16", "RGB16"}
            => n % 2 = 0
      /\ to = "RGB8" /\ coding = "YUV422" /\ read \in Orders => n % 2 = 0
  <2>1. n % 2 # 1 => n % 2 = 0
    <3> HIDE DEF n
    <3> QED BY <1>2
  <2>2. n % 2 = 1 => ~ByPairs(in, out)
    BY DEF HalfPair
  <2> HIDE DEF n
  <2> QED BY <2>1, <2>2 DEF ByPairs
<1>3. /\ coding \in {"MONO8", "RAW8"} => FirstBytes(src, n)
      /\ coding \in {"MONO16", "RAW16", "YUV422"} => FirstBytes(src, 2 * n)
      /\ coding \in {"YUV444", "RGB8"} => FirstBytes(src, 3 * n)
      /\ coding = "RGB16" => FirstBytes(src, 6 * n)
      /\ coding = "YUV411" => \E q \in Nat : n = 4 * q /\ FirstBytes(src, 6 * q)
  <2>1. in.image_bytes = (n * BitSize(coding)) \div 8 /\ (coding = "YUV411" => n % 4 = 0)
    BY DEF Source
  <2>2. /\ (n * 8) \div 8 = n /\ (n * 16) \div 8 = 2 * n /\ (n * 24) \div 8 = 3 * n /\ (n * 48) \div 8 = 6 * n
    BY ImageBytes
  <2>3. /\ coding \in {"MONO8", "RAW8"} => BitSize(coding) = 8
        /\ coding \in {"MONO16", "RAW16", "YUV422"} => BitSize(coding) = 16
        /\ coding \in {"YUV444", "RGB8"} => BitSize(coding) = 24
        /\ coding = "RGB16" => BitSize(coding) = 48
        /\ coding = "YUV411" => BitSize(coding) = 12
    BY DEF BitSize
  <2>4. FirstBytes(src, in.image_bytes)
    OBVIOUS
  <2> HIDE DEF n, src, coding
  <2>5. ASSUME coding = "YUV411" PROVE \E q \in Nat : n = 4 * q /\ FirstBytes(src, 6 * q)
    <3> DEFINE q == n \div 4
    <3>1. q \in Nat /\ n = 4 * q /\ (n * 12) \div 8 = 6 * q
      BY <1>2, <2>1, <2>5
    <3> HIDE DEF q
    <3> QED BY <2>1, <2>3, <2>4, <2>5, <3>1
  <2> QED BY <2>1, <2>2, <2>3, <2>4, <2>5
<1>4. coding \in Convertible /\ (coding \in {"MONO16", "RAW16", "RGB16"} => bits \in Nat /\ bits >= 8)
  <2>1. coding \in Convertible /\ (coding \in {"MONO16", "RAW16", "RGB16"} => bits \in 8 .. 16)
    BY DEF Source
  <2> HIDE DEF coding, bits
  <2> QED BY <2>1
<1>5. \/ to = "YUV422" /\ b \in Y
      \/ to = "MONO8" /\ b \in M
      \/ to = "RGB8" /\ b \in R
  BY DEF Bytes
<1>0. n = w * h
  OBVIOUS
<1> HIDE DEF w, h, n, src, coding, bits, read, to, order
<1>6. ASSUME to = "YUV422", b \in Y PROVE AreBytes(b)
  <2>0. order \in Orders
    BY <1>6 DEF convert_to_YUV422
  <2>1. /\ coding = "YUV422" => b = YUV422_to_YUV422(src, n, order)
        /\ coding = "YUV411" => b = YUV411_to_YUV422(src, n, order)
        /\ coding = "YUV444" => b = YUV444_to_YUV422(src, n, order)
        /\ coding = "RGB8" => b = RGB8_to_YUV422(src, n, order)
        /\ coding \in {"MONO8", "RAW8"} => b = MONO8_to_YUV422(src, w, h, order)
        /\ coding \in {"MONO16", "RAW16"} => b = MONO16_to_YUV422(src, n, order, bits)
        /\ coding = "RGB16" => b = RGB16_to_YUV422(src, n, order, bits)
    BY <1>0, <1>6 DEF convert_to_YUV422
  <2> HIDE DEF Y
  <2>2. CASE coding = "YUV422"
    BY <1>2, <1>3, <2>1, <2>2, YUV422Bytes
  <2>7. CASE coding \in {"YUV444", "RGB8"}
    <3> DEFINE m == n \div 2
    <3>1. m \in Nat /\ n = 2 * m
      BY <1>2, <1>6, <1>9, <2>0, <2>7
    <3> HIDE DEF m
    <3> QED BY <1>3, <2>1, <2>7, <3>1, ToYUV422Bytes
  <2>3. CASE coding = "YUV411"
    BY <1>3, <2>1, <2>3, From411Bytes
  <2>4. CASE coding \in {"MONO8", "RAW8"}
    BY <1>1, <1>3, <2>1, <2>4, FromMono8Bytes
  <2>5. CASE coding \in {"MONO16", "RAW16"}
    BY <1>2, <1>3, <1>4, <1>6, <1>9, <2>0, <2>1, <2>5, FromMono16Bytes
  <2>6. CASE coding = "RGB16"
    BY <1>2, <1>3, <1>4, <1>6, <1>9, <2>0, <2>1, <2>6, FromRGB16Bytes
  <2> QED BY <1>4, <2>2, <2>3, <2>4, <2>5, <2>6, <2>7 DEF Convertible
<1>7. ASSUME b \in M PROVE AreBytes(b)
  <2>1. \/ coding = "MONO16" /\ b = MONO16_to_MONO8(src, n, bits)
        \/ coding = "MONO8" /\ b = Copied(src, n)
    BY <1>0, <1>7 DEF convert_to_MONO8
  <2> QED BY <1>2, <1>3, <1>4, <2>1, FromMono16Bytes, CopiedBytes
<1>8. ASSUME to = "RGB8", b \in R PROVE AreBytes(b)
  <2>1. /\ coding = "YUV422" => b = YUV422_to_RGB8(src, n, read)
        /\ coding = "YUV411" => b = YUV411_to_RGB8(src, n)
        /\ coding = "YUV444" => b = YUV444_to_RGB8(src, n)
        /\ coding = "RGB8" => b = Copied(src, 3 * n)
        /\ coding \in {"MONO8", "RAW8"} => b = MONO8_to_RGB8(src, n)
        /\ coding \in {"MONO16", "RAW16"} => b = MONO16_to_RGB8(src, n, bits)
        /\ coding = "RGB16" => b = RGB16_to_RGB8(src, n, bits)
    BY <1>0, <1>8 DEF convert_to_RGB8
  <2>8. coding = "YUV422" => read \in Orders
    BY <1>8 DEF convert_to_RGB8
  <2> HIDE DEF R
  <2>2. CASE coding \in {"YUV422", "YUV444"}
    BY <1>2, <1>3, <1>8, <1>9, <2>1, <2>2, <2>8, ToRGB8Bytes
  <2>3. CASE coding = "YUV411"
    BY <1>3, <2>1, <2>3, From411Bytes
  <2>4. CASE coding \in {"MONO8", "RAW8"}
    BY <1>1, <1>3, <2>1, <2>4, FromMono8Bytes
  <2>5. CASE coding \in {"MONO16", "RAW16"}
    BY <1>2, <1>3, <1>4, <2>1, <2>5, FromMono16Bytes
  <2>6. CASE coding = "RGB16"
    BY <1>2, <1>3, <1>4, <2>1, <2>6, FromRGB16Bytes
  <2>7. CASE coding = "RGB8"
    BY <1>3, <2>1, <2>7, CopiedBytes
  <2> QED BY <1>4, <2>2, <2>3, <2>4, <2>5, <2>6, <2>7 DEF Convertible
<1> QED BY <1>5, <1>6, <1>7, <1>8

\* The other calls copy bytes.
LEMMA StereoBytes ==
    ASSUME NEW src, NEW n \in Nat, FirstBytes(src, n), n % 2 = 0
    PROVE  AreBytes(deinterlace_stereo(src, n))
<1> SUFFICES ASSUME NEW j \in 0 .. n - 1 PROVE deinterlace_stereo(src, n)[j] \in 0 .. 255
  BY DEF AreBytes, deinterlace_stereo
<1>1. deinterlace_stereo(src, n)[j] = IF j < n \div 2 THEN src[2 * j] ELSE src[2 * (j - n \div 2) + 1]
  BY Zenon DEF deinterlace_stereo
<1>2. IF j < n \div 2 THEN 2 * j \in 0 .. n - 1 ELSE 2 * (j - n \div 2) + 1 \in 0 .. n - 1
  BY SMTT(60)
<1> QED BY <1>1, <1>2 DEF FirstBytes

\* New memory, what there was, and the padding behind the image.
LEMMA AdaptedBytes ==
    ASSUME NEW in, MemoryOK(in), in.image # NULL, AreBytes(in.image),
           NEW out, MemoryOK(out), AreBytes(out.image),
           NEW size \in Nat \X Nat, NEW position, NEW coding, BitSize(coding) \in Nat, NEW depth,
           NEW fill \in 0 .. 255 \cup {NoMemory},
           NEW a, a = Adapt(in, out, size, position, coding, depth, fill)
    PROVE  AreBytes(a.image)
<1> DEFINE bytes == (size[1] * size[2] * BitSize(coding)) \div 8
           total == bytes + in.padding
           image == Memory(out, total, fill)
           tail  == IF image = NULL THEN {} ELSE bytes .. total - 1
<1>1. a.image = [i \in DOMAIN image |-> IF i \in tail THEN in.image[in.image_bytes + i - bytes] ELSE image[i]]
  BY Zenon DEF Adapt
<1>2. /\ in.padding \in Nat /\ in.image_bytes \in Nat /\ in.allocated \in Nat
      /\ DOMAIN in.image = 0 .. in.allocated - 1 /\ in.image_bytes + in.padding <= in.allocated
  BY DEF MemoryOK
<1>3. bytes \in Nat
  <2>1. size[1] \in Nat /\ size[2] \in Nat
    OBVIOUS
  <2>2. size[1] * size[2] * BitSize(coding) \in Nat
    BY SMTT(60), <2>1
  <2> QED BY <2>2
<1>4. \A i \in tail : in.image[in.image_bytes + i - bytes] \in 0 .. 255
  <2> SUFFICES ASSUME NEW i \in tail PROVE in.image[in.image_bytes + i - bytes] \in 0 .. 255
    OBVIOUS
  <2> HIDE DEF image
  <2> DEFINE k == in.image_bytes + i - bytes  n == in.image_bytes  p == in.padding  m == in.allocated
             last == total - 1
  <2>1. i \in bytes .. last
    <3> HIDE DEF last, bytes
    <3> QED BY DEF tail, last
  <2>2. k \in 0 .. m - 1
    <3>1. n \in Nat /\ p \in Nat /\ m \in Nat /\ n + p <= m /\ last = bytes + p - 1 /\ k = n + i - bytes
      BY SMTT(60), <1>2
    <3> HIDE DEF n, p, m, k, last, bytes, tail
    <3> QED BY <1>3, <2>1, <3>1
  <2>3. k \in DOMAIN in.image
    BY <1>2, <2>2
  <2>4. in.image[k] \in 0 .. 255
    <3> HIDE DEF k
    <3> QED BY <2>3 DEF AreBytes
  <2> QED BY ZenonT(60), <2>4
<1>5. AreBytes(image)
  <2>1. image = out.image \/ image = NULL \/ (fill # NoMemory /\ image = [i \in 0 .. total - 1 |-> fill])
    <3> HIDE DEF total
    <3> QED BY DEF Memory
  <2>2. AreBytes(NULL)
    BY DEF AreBytes, NULL
  <2>3. fill # NoMemory => AreBytes([i \in 0 .. total - 1 |-> fill])
    <3> HIDE DEF total
    <3> QED BY SMTT(60) DEF AreBytes
  <2> HIDE DEF image, total
  <2> QED BY <2>1, <2>2, <2>3
<1> HIDE DEF image, tail, bytes
<1>6. \A i \in DOMAIN image :
        (IF i \in tail THEN in.image[in.image_bytes + i - bytes] ELSE image[i]) \in 0 .. 255
  BY <1>4, <1>5 DEF AreBytes
<1> QED BY ZenonT(60), <1>1, <1>6 DEF AreBytes

LEMMA StoredBytes ==
    ASSUME NEW a, DOMAIN a = Fields, AreBytes(a.image), NEW b, AreBytes(b)
    PROVE  AreBytes(Stored8(a, b).out.image)
<1> DEFINE im == [i \in DOMAIN a.image |-> IF i \in DOMAIN b THEN b[i] ELSE a.image[i]]
           o == Stored8(a, b)
<1>1. o.out.image = im \/ o.out = a
  <2>1. CASE DOMAIN b \subseteq DOMAIN a.image
    BY <2>1, Stored8Fields
  <2>2. CASE ~(DOMAIN b \subseteq DOMAIN a.image)
    BY <2>2, Stored8Cases
  <2> QED BY <2>1, <2>2
<1>2. AreBytes(im)
  BY DEF AreBytes
<1> HIDE DEF im, o
<1>3. AreBytes(o.out.image)
  BY <1>1, <1>2
<1> QED BY <1>3 DEF o

-----------------------------------------------------------------------------
(* What a successful decoding leaves.                                      *)

\* Component i of what was decoded, as the frame holds it.
Holds(o, wide, d, i) == (IF wide THEN Host(o.out.image, i) ELSE o.out.image[i]) = d[i]

LEMMA AdaptDepth ==
    ASSUME NEW in, NEW out, NEW size, NEW position, NEW coding, NEW depth, NEW fill
    PROVE  Adapt(in, out, size, position, coding, depth, fill).depth = depth
BY Zenon DEF Adapt

LEMMA StoredDepth ==
    ASSUME NEW a, DOMAIN a = Fields, NEW b
    PROVE  Stored8(a, b).out.depth = a.depth
<1> DEFINE im == [i \in DOMAIN a.image |-> IF i \in DOMAIN b THEN b[i] ELSE a.image[i]]
<1>1. CASE DOMAIN b \subseteq DOMAIN a.image
  <2>1. Stored8(a, b).out = [a EXCEPT !.image = im, !.fresh = a.fresh \ DOMAIN b]
    BY <1>1, Zenon DEF Stored8, Outcome
  <2>2. "depth" \in DOMAIN a
    BY DEF Fields, Calloced
  <2> HIDE DEF im
  <2> QED BY <2>1, <2>2, Zenon
<1>2. CASE ~(DOMAIN b \subseteq DOMAIN a.image)
  BY <1>2, Stored8Cases
<1> QED BY <1>1, <1>2

\* What a decoding that succeeds comes to.
DebayerResult(o, in, out, method, fill, win) ==
    LET a == Adapt_buffer_bayer(in, out, method, fill)
        wide == in.coding \in {"RAW16", "MONO16"}
        D == IF wide THEN bayer_decoding_16bit(in, a, method, in.depth, win)
                     ELSE bayer_decoding_8bit(in, a, method, win)
    IN
    /\ method \in Methods /\ in.filter \in Tiles /\ a.image # NULL
    /\ in.coding \in {"RAW16", "MONO16", "RAW8", "MONO8"}
    /\ method = "DOWNSAMPLE" => ~OddSize(in)
    /\ o.out.size = DecodedSize(in.size, method)
    /\ o.out.coding = (IF wide THEN "RGB16" ELSE "RGB8")
    /\ o.out.depth = (IF wide THEN in.depth ELSE 8)
    /\ o.out.image_bytes = a.image_bytes
    /\ \E d \in D : /\ o = Stored8(a, IF wide THEN HostBytes(d) ELSE d)
                    /\ \A i \in DOMAIN d : i \in Nat /\ d[i] \in Nat => Holds(o, wide, d, i)

LEMMA DebayerStores ==
    ASSUME hostBig \in BOOLEAN, NEW in, MemoryOK(in), in.size[1] > 4, in.size[2] > 3,
           NEW out, DOMAIN out = Fields, MemoryOK(out), NEW method, NEW fill, NEW work, NEW win,
           NEW o \in Debayered(in, out, method, fill, work, win), o.err = "SUCCESS"
    PROVE  DebayerResult(o, in, out, method, fill, win)
<1> DEFINE a == Adapt_buffer_bayer(in, out, method, fill)
           wide == in.coding \in {"RAW16", "MONO16"}
           D8 == bayer_decoding_8bit(in, a, method, win)
           D16 == bayer_decoding_16bit(in, a, method, in.depth, win)
           D == IF wide THEN D16 ELSE D8
           size == DecodedSize(in.size, method)
           depth == IF wide THEN in.depth ELSE 8
<1>2. DOMAIN a = Fields /\ a.size = size /\ a.coding = (IF wide THEN "RGB16" ELSE "RGB8") /\ a.depth = depth
  <2>1. DOMAIN a = Fields /\ a.size = size
    BY BayerAdapted
  <2>2. a.coding = (IF wide THEN "RGB16" ELSE "RGB8")
    BY BayerAdapted
  <2>3. a.depth = depth
    <3> DEFINE position == IF method = "DOWNSAMPLE"
                           THEN <<in.position[1] \div 2, in.position[2] \div 2>> ELSE in.position
               coding == IF wide THEN "RGB16" ELSE "RGB8"
    <3>1. a = Adapt(in, out, size, position, coding, depth, fill)
      BY Zenon DEF Adapt_buffer_bayer, DecodedSize
    <3> HIDE DEF a, size, position, coding, depth
    <3> QED BY <3>1, AdaptDepth
  <2> HIDE DEF a, wide, depth
  <2> QED BY <2>1, <2>2, <2>3
<1>3. /\ method \in Methods /\ in.filter \in Tiles /\ a.image # NULL /\ (wide \/ in.coding \in {"RAW8", "MONO8"})
      /\ method = "DOWNSAMPLE" => ~OddSize(in)
      /\ \E b \in IF wide THEN {HostBytes(s) : s \in D16} ELSE D8 :
            o = Stored8(a, b) /\ DOMAIN b \subseteq DOMAIN a.image
  BY DebayerStored
<1> HIDE DEF a
<1>5. PICK d \in D : LET b == IF wide THEN HostBytes(d) ELSE d
                   IN  o = Stored8(a, b) /\ DOMAIN b \subseteq DOMAIN a.image
  <2> HIDE DEF D8, D16, wide
  <2> QED BY <1>3
<1> DEFINE b == IF wide THEN HostBytes(d) ELSE d
<1>6. /\ o.out.size = size /\ o.out.coding = a.coding /\ o.out.depth = depth
      /\ o.out.image_bytes = a.image_bytes
      /\ \A j \in DOMAIN b : o.out.image[j] = b[j]
  <2> HIDE DEF D8, D16, D, size, b, depth
  <2>0. o = Stored8(a, b) /\ DOMAIN b \subseteq DOMAIN a.image
    BY <1>5 DEF b
  <2>1. /\ o.out.size = a.size /\ o.out.coding = a.coding /\ o.out.image_bytes = a.image_bytes
        /\ o.out.image = [j \in DOMAIN a.image |-> IF j \in DOMAIN b THEN b[j] ELSE a.image[j]]
    BY <1>2, <2>0, Stored8Fields
  <2>2. o.out.depth = a.depth
    BY <1>2, <2>0, StoredDepth
  <2> QED BY <1>2, <2>0, <2>1, <2>2
<1>7. ASSUME NEW i \in DOMAIN d, i \in Nat, d[i] \in Nat PROVE Holds(o, wide, d, i)
  <2>1. CASE wide
    <3>1. 2 * i \in DOMAIN b /\ 2 * i + 1 \in DOMAIN b /\ Host(b, i) = d[i]
      BY <1>7, <2>1, HostBytesBack
    <3> HIDE DEF b
    <3>2. Host(o.out.image, i) = Host(b, i)
      BY <1>6, <3>1 DEF Host
    <3> QED BY <2>1, <3>1, <3>2 DEF Holds
  <2>2. CASE ~wide
    BY <1>6, <2>2 DEF Holds
  <2> QED BY <2>1, <2>2
<1>8. in.coding \in {"RAW16", "MONO16", "RAW8", "MONO8"}
  BY <1>3
<1> HIDE DEF D8, D16, size, depth, wide
<1>9. o.out.coding = (IF wide THEN "RGB16" ELSE "RGB8") /\ o.out.size = size /\ o.out.depth = depth
  BY <1>2, <1>6
<1> QED BY <1>3, <1>5, <1>6, <1>7, <1>8, <1>9 DEF DebayerResult, D8, D16, size, depth, wide, a

LEMMA Powers == 2 ^ 8 = 256 /\ 2 ^ 16 = 65536
OBVIOUS

LEMMA FittingBytes ==
    ASSUME NEW d
    PROVE  FitsAll(d, 8) <=> AreBytes(d)
<1>1. \A v : Fits(v, 8) <=> v \in 0 .. 255
  BY Powers DEF Fits
<1> QED BY <1>1, Zenon DEF FitsAll, AreBytes

LEMMA SplitBytes ==
    ASSUME hostBig \in BOOLEAN, NEW s, DOMAIN s \subseteq Nat, FitsAll(s, 16)
    PROVE  AreBytes(HostBytes(s))
<1> DEFINE D == {2 * k : k \in DOMAIN s} \cup {2 * k + 1 : k \in DOMAIN s}
<1>1. HostBytes(s) = [i \in D |-> IF (i % 2 = 0) = hostBig THEN s[i \div 2] \div 256 ELSE s[i \div 2] % 256]
  BY Zenon DEF HostBytes
<1>2. ASSUME NEW i \in D PROVE s[i \div 2] \div 256 \in 0 .. 255 /\ s[i \div 2] % 256 \in 0 .. 255
  <2>1. i \div 2 \in DOMAIN s
    <3>1. PICK k \in DOMAIN s : i = 2 * k \/ i = 2 * k + 1
      OBVIOUS
    <3>2. k \in Nat
      OBVIOUS
    <3>3. i \div 2 = k
      <4> HIDE DEF D
      <4>1. (2 * k) \div 2 = k /\ (2 * k + 1) \div 2 = k
        BY <3>2
      <4> QED BY <3>1, <4>1
    <3> QED BY <3>3
  <2> DEFINE v == s[i \div 2]
  <2>2. v \in Nat /\ v < 65536
    BY <2>1, Powers DEF FitsAll, Fits
  <2> HIDE DEF v
  <2>3. v \div 256 \in 0 .. 255 /\ v % 256 \in 0 .. 255
    BY <2>2
  <2> QED BY <2>3 DEF v
<1> HIDE DEF D
<1> QED BY <1>1, <1>2 DEF AreBytes

LEMMA HostFits ==
    ASSUME hostBig \in BOOLEAN, NEW image, AreBytes(image), NEW k, 2 * k \in DOMAIN image, 2 * k + 1 \in DOMAIN image
    PROVE  Fits(Host(image, k), 16)
<1> DEFINE a == image[2 * k]  b == image[2 * k + 1]
<1>1. a \in 0 .. 255 /\ b \in 0 .. 255
  BY DEF AreBytes
<1>2. Host(image, k) = 256 * a + b \/ Host(image, k) = 256 * b + a
  BY DEF Host
<1> HIDE DEF a, b
<1> QED BY <1>1, <1>2, Powers DEF Fits

\* Whatever the camera sent.
LEMMA RawFits ==
    ASSUME hostBig \in BOOLEAN, NEW in, Described(in), in.coding \in {"RAW16", "MONO16", "RAW8", "MONO8"}
    PROVE  /\ in.coding \in {"RAW16", "MONO16"} => AllFit(Raw(in, Samples16(in)), 16)
           /\ in.coding \in {"RAW8", "MONO8"} => AllFit(Raw(in, in.image), 8)
<1> DEFINE n == in.size[1] * in.size[2]  w == in.size[1]  h == in.size[2]
<1>1. /\ in.size \in Nat \X Nat /\ w \in Nat /\ h \in Nat /\ n \in Nat
      /\ in.image_bytes = (in.size[1] * in.size[2] * BitSize(in.coding)) \div 8
      /\ in.image_bytes + in.padding <= in.allocated /\ in.padding \in Nat /\ in.allocated \in Nat
      /\ DOMAIN in.image = 0 .. in.allocated - 1
  BY DEF Described
<1>2. AreBytes(in.image)
  BY DEF Described, AreBytes
<1>3. ASSUME NEW y \in 0 .. h - 1, NEW x \in 0 .. w - 1 PROVE y * w + x \in 0 .. n - 1
  <2>0. w \in Nat /\ h \in Nat /\ n = w * h
    BY <1>1
  <2> HIDE DEF w, h, n
  <2>1. (y + 1) * w <= h * w
    <3>1. y + 1 \in Nat /\ y + 1 <= h
      BY <2>0
    <3> QED BY <2>0, <3>1, Monotone
  <2> QED BY <2>0, <2>1
<1>4. ASSUME in.coding \in {"RAW16", "MONO16"} PROVE AllFit(Raw(in, Samples16(in)), 16)
  <2> DEFINE r == Raw(in, Samples16(in))
  <2>1. in.image_bytes = 2 * n
    <3>1. BitSize(in.coding) = 16
      BY <1>4 DEF BitSize
    <3> QED BY <1>1, <3>1, ImageBytes
  <2>2. r.w = w /\ r.h = h /\ r.s = Samples16(in)
    BY DEF Raw
  <2>3. ASSUME NEW k \in 0 .. n - 1 PROVE Fits(Samples16(in)[k], 16)
    <3>1. Samples16(in)[k] = Host(in.image, k)
      BY DEF Samples16
    <3>2. 2 * k \in DOMAIN in.image /\ 2 * k + 1 \in DOMAIN in.image
      <4> HIDE DEF n
      <4> QED BY SMTT(60), <1>1, <2>1
    <3> QED BY <1>2, <3>1, <3>2, HostFits
  <2> HIDE DEF r, n, w, h
  <2>4. ASSUME NEW y \in 0 .. h - 1, NEW x \in 0 .. w - 1 PROVE Fits(At(r, y, x), 16)
    <3> DEFINE k == y * w + x
    <3>1. k \in 0 .. n - 1
      BY <1>3
    <3>2. At(r, y, x) = Samples16(in)[k]
      BY <2>2 DEF At
    <3> HIDE DEF k
    <3> QED BY <2>3, <3>1, <3>2
  <2>5. AllFit(r, 16)
    BY <2>2, <2>4 DEF AllFit
  <2> QED BY <2>5 DEF r
<1>5. ASSUME in.coding \in {"RAW8", "MONO8"} PROVE AllFit(Raw(in, in.image), 8)
  <2> DEFINE r == Raw(in, in.image)
  <2>1. in.image_bytes = n
    <3>1. BitSize(in.coding) = 8
      BY <1>5 DEF BitSize
    <3> QED BY <1>1, <3>1, ImageBytes
  <2>2. r.w = w /\ r.h = h /\ r.s = in.image
    BY DEF Raw
  <2>3. ASSUME NEW k \in 0 .. n - 1 PROVE Fits(in.image[k], 8)
    <3>1. k \in DOMAIN in.image
      <4> HIDE DEF n
      <4> QED BY <1>1, <2>1
    <3>2. FitsAll(in.image, 8)
      BY <1>2, FittingBytes
    <3> QED BY <3>1, <3>2 DEF FitsAll
  <2> HIDE DEF r, n, w, h
  <2>4. ASSUME NEW y \in 0 .. h - 1, NEW x \in 0 .. w - 1 PROVE Fits(At(r, y, x), 8)
    <3> DEFINE k == y * w + x
    <3>1. k \in 0 .. n - 1
      BY <1>3
    <3>2. At(r, y, x) = in.image[k]
      BY <2>2 DEF At
    <3> HIDE DEF k
    <3> QED BY <2>3, <3>1, <3>2
  <2>5. AllFit(r, 8)
    BY <2>2, <2>4 DEF AllFit
  <2> QED BY <2>5 DEF r
<1> QED BY <1>4, <1>5

\* What VNG reads before it stores.
LEMMA OldFits ==
    ASSUME hostBig \in BOOLEAN, NEW a, MemoryOK(a), AreBytes(a.image), NEW n \in Nat
    PROVE  /\ 3 * n <= a.allocated => 0 .. 3 * n - 1 \subseteq DOMAIN a.image /\ FitsAll(a.image, 8)
           /\ 6 * n <= a.allocated => 0 .. 3 * n - 1 \subseteq DOMAIN Old16(a) /\ FitsAll(Old16(a), 16)
<1>1. a.allocated \in Nat /\ DOMAIN a.image = 0 .. a.allocated - 1
  BY DEF MemoryOK
<1>2. PICK m \in Nat : m = a.allocated
  BY <1>1
<1>3. FitsAll(a.image, 8)
  BY FittingBytes
<1>4. DOMAIN Old16(a) = 0 .. (m \div 2) - 1
  BY <1>2 DEF Old16
<1>5. ASSUME NEW k \in 0 .. (m \div 2) - 1 PROVE Fits(Old16(a)[k], 16)
  <2>1. Old16(a)[k] = Host(a.image, k)
    BY <1>2 DEF Old16
  <2>2. 2 * k \in 0 .. m - 1 /\ 2 * k + 1 \in 0 .. m - 1
    BY <1>2
  <2>3. 2 * k \in DOMAIN a.image /\ 2 * k + 1 \in DOMAIN a.image
    BY <1>1, <1>2, <2>2
  <2> QED BY <2>1, <2>3, HostFits
<1>6. FitsAll(Old16(a), 16)
  BY <1>4, <1>5 DEF FitsAll
<1>7. 6 * n <= m => 3 * n <= m \div 2
  BY <1>2
<1> QED BY SMTT(60), <1>1, <1>2, <1>3, <1>4, <1>6, <1>7

LEMMA HasMemory ==
    ASSUME NEW in, Described(in)
    PROVE  in.image # NULL
<1>1. /\ in.size \in Nat \X Nat /\ in.size[1] > 0 /\ in.size[2] > 0 /\ in.coding \in Convertible
      /\ in.coding = "YUV411" => (in.size[1] * in.size[2]) % 4 = 0
      /\ in.image_bytes = (in.size[1] * in.size[2] * BitSize(in.coding)) \div 8
      /\ in.image_bytes + in.padding <= in.allocated /\ in.padding \in Nat /\ in.allocated \in Nat
      /\ DOMAIN in.image = 0 .. in.allocated - 1
  BY DEF Described
<1> DEFINE n == in.size[1] * in.size[2]
<1>2. n \in Nat /\ n > 0
  <2>1. 1 * in.size[2] <= in.size[1] * in.size[2]
    BY SMTT(60), <1>1, Monotone
  <2> QED BY <1>1, <2>1
<1>3. BitSize(in.coding) \in {8, 12, 16, 24, 48}
  BY <1>1 DEF BitSize, Convertible
<1>4. in.image_bytes = (n * BitSize(in.coding)) \div 8
  BY <1>1
<1> HIDE DEF n
<1>5. in.image_bytes > 0 /\ in.image_bytes \in Nat
  <2>1. /\ (n * 8) \div 8 = n /\ (n * 16) \div 8 = 2 * n /\ (n * 24) \div 8 = 3 * n /\ (n * 48) \div 8 = 6 * n
        /\ (n * 12) \div 8 \in Nat /\ (n * 12) \div 8 > 0
    BY <1>2
  <2> QED BY <1>2, <1>3, <1>4, <2>1
<1>6. 0 \in DOMAIN in.image
  BY <1>1, <1>5
<1> QED BY <1>6 DEF NULL

\* The values a decoder of 16 bits makes fit the depth that holds the samples it
\* is given, and those it leaves alone.
LEMMA DebayeredFits ==
    ASSUME hostBig \in BOOLEAN, NEW in, Described(in), in.filter \in Tiles,
           in.coding \in {"RAW16", "MONO16", "RAW8", "MONO8"}, in.size[1] > 4, in.size[2] > 3,
           NEW method \in Methods, method = "DOWNSAMPLE" => in.size[1] % 2 = 0 /\ in.size[2] % 2 = 0,
           NEW a, MemoryOK(a), AreBytes(a.image), a.image # NULL, a.size = DecodedSize(in.size, method),
           a.image_bytes = (IF in.coding \in {"RAW16", "MONO16"} THEN 6 ELSE 3) * (a.size[1] * a.size[2]),
           NEW win \in 0 .. 2
    PROVE  /\ in.coding \in {"RAW16", "MONO16"} =>
                 \A d \in bayer_decoding_16bit(in, a, method, in.depth, win) : FitsAll(d, 16)
           /\ in.coding \in {"RAW8", "MONO8"} =>
                 \A d \in bayer_decoding_8bit(in, a, method, win) : FitsAll(d, 8)
<1> DEFINE n == in.size[1] * in.size[2]
<1>1. /\ in.size[1] \in Nat /\ in.size[2] \in Nat /\ n \in Nat
      /\ in.size[1] >= 4 /\ in.size[2] >= 4
  BY SMTT(60) DEF Described
<1>2. method = "VNG" => /\ a.image_bytes = (IF in.coding \in {"RAW16", "MONO16"} THEN 6 ELSE 3) * n
                        /\ Whole(in.size[1], in.size[2]) = 0 .. 3 * n - 1
  BY DEF DecodedSize, Whole
<1>3. a.image_bytes <= a.allocated
  <2>1. a.image_bytes + a.padding <= a.allocated /\ a.padding \in Nat /\ a.image_bytes \in Nat /\ a.allocated \in Nat
    BY DEF MemoryOK
  <2> QED BY <2>1
<1>4. ASSUME in.coding \in {"RAW16", "MONO16"}, NEW d \in bayer_decoding_16bit(in, a, method, in.depth, win)
      PROVE  FitsAll(d, 16)
  <2>1. in.depth \in 8 .. 16
    BY <1>4 DEF Described
  <2>2. PICK bits \in Nat, B \in Nat : bits = in.depth /\ B = 16 /\ bits <= B
    BY <2>1
  <2>3. AllFit(Raw(in, Samples16(in)), B)
    BY <1>4, <2>2, RawFits
  <2>4. method = "VNG" => Whole(in.size[1], in.size[2]) \subseteq DOMAIN Old16(a) /\ FitsAll(Old16(a), B)
    <3>1. method = "VNG" => 6 * n <= a.allocated
      BY <1>2, <1>3, <1>4
    <3> HIDE DEF n
    <3> QED BY <1>1, <1>2, <2>2, <3>1, OldFits
  <2>5. d \in bayer_decoding_16bit(in, a, method, bits, win)
    BY <1>4, <2>2
  <2>6. FitsAll(d, B)
    BY SMTT(60), <1>1, <2>2, <2>3, <2>4, <2>5, Decoding16Fits
  <2> QED BY <2>2, <2>6
<1>5. ASSUME in.coding \in {"RAW8", "MONO8"}, NEW d \in bayer_decoding_8bit(in, a, method, win)
      PROVE  FitsAll(d, 8)
  <2>1. AllFit(Raw(in, in.image), 8)
    BY <1>5, RawFits
  <2>2. method = "VNG" => Whole(in.size[1], in.size[2]) \subseteq DOMAIN a.image /\ FitsAll(a.image, 8)
    <3>1. method = "VNG" => 3 * n <= a.allocated
      BY <1>2, <1>3, <1>5
    <3> HIDE DEF n
    <3> QED BY <1>1, <1>2, <3>1, OldFits
  <2> QED BY <1>1, <1>5, <2>1, <2>2, Decoding8Fits
<1> QED BY <1>4, <1>5

LEMMA EvenSize ==
    ASSUME NEW in, in.size \in Nat \X Nat, ~OddSize(in)
    PROVE  in.size[1] % 2 = 0 /\ in.size[2] % 2 = 0
BY DEF OddSize

LEMMA DebayerBytes ==
    ASSUME hostBig \in BOOLEAN, NEW in, MemoryOK(in), Described(in), in.size[1] > 4, in.size[2] > 3,
           NEW out, DOMAIN out = Fields, MemoryOK(out), AreBytes(out.image),
           NEW method, NEW fill \in 0 .. 255 \cup {NoMemory}, NEW work, NEW win \in 0 .. 2,
           NEW o \in Debayered(in, out, method, fill, work, win)
    PROVE  /\ AreBytes(o.out.image)
           /\ AreBytes(Adapt_buffer_bayer(in, out, method, fill).image)
<1> DEFINE a == Adapt_buffer_bayer(in, out, method, fill)
           wide == in.coding \in {"RAW16", "MONO16"}
           size == DecodedSize(in.size, method)
           D8 == bayer_decoding_8bit(in, a, method, win)
           D16 == bayer_decoding_16bit(in, a, method, in.depth, win)
<1>1. AreBytes(in.image) /\ in.image # NULL /\ in.size \in Nat \X Nat
  BY HasMemory DEF Described, AreBytes
<1>2. /\ size \in Nat \X Nat
      /\ DOMAIN a = Fields /\ MemoryOK(a) /\ a.size = size
      /\ a.image_bytes = (IF wide THEN 6 ELSE 3) * (size[1] * size[2])
  BY BayerAdapted
<1>3. AreBytes(a.image)
  <2> DEFINE position == IF method = "DOWNSAMPLE"
                         THEN <<in.position[1] \div 2, in.position[2] \div 2>> ELSE in.position
             coding == IF wide THEN "RGB16" ELSE "RGB8"
             depth == IF wide THEN in.depth ELSE 8
  <2>1. a = Adapt(in, out, size, position, coding, depth, fill)
    BY Zenon DEF Adapt_buffer_bayer, DecodedSize
  <2>2. BitSize(coding) \in Nat
    BY DEF BitSize
  <2> HIDE DEF a, size, position, coding, depth
  <2> QED BY ZenonT(60), <1>1, <1>2, <2>1, <2>2, AdaptedBytes
<1>4. \/ \E e : o = Outcome(out, e)
      \/ \E e : o = Outcome(a, e)
      \/ /\ method \in Methods /\ a.image # NULL /\ in.filter \in Tiles
         /\ wide \/ in.coding \in {"RAW8", "MONO8"}
         /\ method = "DOWNSAMPLE" => ~OddSize(in)
         /\ \E b \in IF wide THEN {HostBytes(s) : s \in D16} ELSE D8 : o = Stored8(a, b)
  BY BayerCases
<1>5. \A f, e : Outcome(f, e).out = f
  BY DEF Outcome
<1> HIDE DEF a
<1>6. ASSUME method \in Methods, a.image # NULL, in.filter \in Tiles, wide \/ in.coding \in {"RAW8", "MONO8"},
             method = "DOWNSAMPLE" => ~OddSize(in),
             NEW b \in IF wide THEN {HostBytes(s) : s \in D16} ELSE D8, o = Stored8(a, b)
      PROVE  AreBytes(o.out.image)
  <2>0. method = "DOWNSAMPLE" => in.size[1] % 2 = 0 /\ in.size[2] % 2 = 0
    BY <1>1, <1>6, EvenSize
  <2>1. (wide => \A d \in D16 : FitsAll(d, 16)) /\ (~wide => \A d \in D8 : FitsAll(d, 8))
    <3>1. /\ in.filter \in Tiles /\ method \in Methods /\ a.image # NULL
          /\ in.coding \in {"RAW16", "MONO16", "RAW8", "MONO8"}
          /\ a.image_bytes = (IF in.coding \in {"RAW16", "MONO16"} THEN 6 ELSE 3) * (a.size[1] * a.size[2])
          /\ a.size = DecodedSize(in.size, method)
      BY <1>2, <1>6
    <3> QED BY <1>2, <1>3, <1>6, <2>0, <3>1, DebayeredFits
  <2>2. AreBytes(b)
    <3>1. CASE wide
      <4>1. PICK s \in D16 : b = HostBytes(s)
        BY <1>6, <3>1
      <4>2. DOMAIN s \subseteq Nat
        <5>1. in.size[1] >= 4 /\ in.size[2] >= 4
          BY <1>1
        <5>2. DOMAIN s \subseteq Whole(size[1], size[2])
          <6> HIDE DEF wide
          <6> QED BY <1>1, <1>6, <2>0, <4>1, <5>1, Decodes DEF size, D16
        <5> QED BY <5>2 DEF Whole
      <4> HIDE DEF D16
      <4> QED BY <2>1, <3>1, <4>1, <4>2, SplitBytes
    <3>2. CASE ~wide
      <4>1. b \in D8
        BY <1>6, <3>2
      <4> HIDE DEF D8
      <4> QED BY <2>1, <3>2, <4>1, FittingBytes
    <3> QED BY <3>1, <3>2
  <2>3. AreBytes(Stored8(a, b).out.image)
    BY <1>2, <1>3, <2>2, StoredBytes
  <2> QED BY <1>6, <2>3
<1> HIDE DEF D8, D16, wide
<1>7. AreBytes(o.out.image)
  BY <1>3, <1>4, <1>5, <1>6
<1> QED BY SMTT(60), <1>3, <1>7 DEF a

LEMMA KeepsDescription ==
    ASSUME NEW a, DOMAIN a = Fields, NEW b
    PROVE  LET f == Stored8(a, b).out
           IN  f.size = a.size /\ f.coding = a.coding /\ f.image_bytes = a.image_bytes
<1>1. PICK o : o = Stored8(a, b)
  OBVIOUS
<1>2. CASE DOMAIN b \subseteq DOMAIN a.image
  <2>1. /\ o.out.size = a.size /\ o.out.coding = a.coding /\ o.out.image_bytes = a.image_bytes
        /\ o.out.image = [j \in DOMAIN a.image |-> IF j \in DOMAIN b THEN b[j] ELSE a.image[j]]
    BY <1>1, <1>2, Stored8Fields
  <2> QED BY <1>1, <2>1
<1>3. CASE ~(DOMAIN b \subseteq DOMAIN a.image)
  BY <1>1, <1>3, Stored8Cases
<1> QED BY <1>2, <1>3

LEMMA DebayerSource ==
    ASSUME hostBig \in BOOLEAN, NEW in, MemoryOK(in), Described(in), in.size[1] > 4, in.size[2] > 3,
           NEW out, DOMAIN out = Fields, MemoryOK(out), NEW method, NEW fill, NEW work, NEW win,
           NEW o \in Debayered(in, out, method, fill, work, win), o.err = "SUCCESS"
    PROVE  Source(o.out)
<1> DEFINE a == Adapt_buffer_bayer(in, out, method, fill)
           wide == in.coding \in {"RAW16", "MONO16"}
           size == DecodedSize(in.size, method)
           D == IF wide THEN bayer_decoding_16bit(in, a, method, in.depth, win)
                        ELSE bayer_decoding_8bit(in, a, method, win)
<1>1. /\ o.out.size = size /\ o.out.coding = (IF wide THEN "RGB16" ELSE "RGB8")
      /\ o.out.depth = (IF wide THEN in.depth ELSE 8) /\ o.out.image_bytes = a.image_bytes
  <2>1. DebayerResult(o, in, out, method, fill, win)
    BY DebayerStores
  <2> QED BY <2>1 DEF DebayerResult
<1>2. /\ size \in Nat \X Nat /\ DOMAIN a = Fields
      /\ a.image_bytes = (IF wide THEN 6 ELSE 3) * (size[1] * size[2])
  BY BayerAdapted
<1>3. ASSUME wide PROVE in.depth \in 8 .. 16
  <2>1. in.coding \in {"RAW16", "MONO16"}
    BY <1>3
  <2> HIDE DEF a, size, D, wide
  <2> QED BY <2>1 DEF Described
<1> HIDE DEF a, size, D, wide
<1> DEFINE n == size[1] * size[2]
<1>5. (n * 24) \div 8 = 3 * n /\ (n * 48) \div 8 = 6 * n
  BY <1>2, ImageBytes
<1>6. o.out.image_bytes = (n * BitSize(o.out.coding)) \div 8
  <2>1. BitSize("RGB16") = 48 /\ BitSize("RGB8") = 24
    BY DEF BitSize
  <2> HIDE DEF n
  <2> QED BY <1>1, <1>2, <1>5, <2>1 DEF n
<1> QED BY <1>1, <1>3, <1>6 DEF Source, Convertible

LEMMA ConvertBytes ==
    ASSUME NEW in, MemoryOK(in), in.image # NULL, AreBytes(in.image), Source(in),
           NEW out, DOMAIN out = Fields, MemoryOK(out), AreBytes(out.image),
           NEW fill \in 0 .. 255 \cup {NoMemory}, NEW o \in Converted(in, out, fill)
    PROVE  AreBytes(o.out.image) /\ (o.err = "SUCCESS" => Source(o.out))
<1> DEFINE a == Adapt_buffer_convert(in, out, fill)
<1>1. /\ in.size \in Nat \X Nat /\ in.padding \in Nat /\ in.image_bytes \in Nat /\ in.allocated \in Nat
      /\ DOMAIN in.image = 0 .. in.allocated - 1 /\ in.image_bytes + in.padding <= in.allocated
  BY DEF MemoryOK
<1>2. FirstBytes(in.image, in.image_bytes)
  <2>1. \A k \in 0 .. in.image_bytes - 1 : k \in DOMAIN in.image
    BY <1>1
  <2> QED BY <2>1 DEF FirstBytes, AreBytes
<1>3. ASSUME Supported(in.coding, out.coding)
      PROVE  /\ DOMAIN a = Fields /\ AreBytes(a.image)
             /\ a.size = in.size /\ a.coding = out.coding
             /\ a.image_bytes = (in.size[1] * in.size[2] * BitSize(out.coding)) \div 8
  <2>1. a = Adapt(in, out, in.size, in.position, out.coding, 8, fill)
    BY Zenon DEF Adapt_buffer_convert
  <2>2. BitSize(out.coding) \in Nat
    <3>1. out.coding \in {"YUV422", "MONO8", "RGB8"}
      BY <1>3 DEF Supported
    <3> QED BY <3>1 DEF BitSize
  <2> HIDE DEF a
  <2>3. /\ DOMAIN a = Fields /\ a.size = in.size /\ a.coding = out.coding
        /\ a.image_bytes = (in.size[1] * in.size[2] * BitSize(out.coding)) \div 8
    BY SMTT(30), <1>1, <2>1, <2>2, Adapted
  <2>4. AreBytes(a.image)
    BY <1>1, <2>1, <2>2, AdaptedBytes
  <2> QED BY <2>3, <2>4
<1>4. \/ o = Outcome(out, "FUNCTION_NOT_SUPPORTED")
      \/ /\ Supported(in.coding, out.coding)
         /\ \E e \in {"MEMORY_ALLOCATION_FAILURE", "UNDEFINED", "INVALID_BYTE_ORDER"} : o = Outcome(a, e)
      \/ /\ Supported(in.coding, out.coding) /\ ~HalfPair(in, out)
         /\ \E b \in Bytes(in, out.coding, out.order) : o = Stored8(a, b)
  <2> DEFINE Y == convert_to_YUV422(in.image, in.size[1], in.size[2], out.order, in.coding, in.depth)
             M == convert_to_MONO8(in.image, in.size[1], in.size[2], in.coding, in.depth)
             R == convert_to_RGB8(in.image, in.size[1], in.size[2], in.order, in.coding, in.depth)
             bytes == CASE out.coding = "YUV422" -> Y [] out.coding = "MONO8" -> M [] out.coding = "RGB8" -> R
  <2>1. o \in IF ~Supported(in.coding, out.coding) THEN {Outcome(out, "FUNCTION_NOT_SUPPORTED")}
              ELSE IF a.image = NULL THEN {Outcome(a, "MEMORY_ALLOCATION_FAILURE")}
              ELSE IF HalfPair(in, out) THEN {Outcome(a, "UNDEFINED")}
              ELSE IF bytes = {} THEN {Outcome(a, "INVALID_BYTE_ORDER")}
              ELSE {Stored8(a, b) : b \in bytes}
    BY Zenon DEF Converted, Lost
  <2>2. bytes = Bytes(in, out.coding, out.order)
    BY Zenon DEF Bytes
  <2> HIDE DEF a, bytes
  <2> QED BY <2>1, <2>2
<1>5. \A f, e : Outcome(f, e).out = f /\ Outcome(f, e).err = e
  BY DEF Outcome
<1> HIDE DEF a
<1>6. ASSUME Supported(in.coding, out.coding), ~HalfPair(in, out),
             NEW b \in Bytes(in, out.coding, out.order), o = Stored8(a, b)
      PROVE  AreBytes(o.out.image) /\ Source(o.out)
  <2>1. out.coding \in {"YUV422", "MONO8", "RGB8"}
    BY <1>6 DEF Supported
  <2>2. AreBytes(b)
    BY <1>1, <1>2, <1>6, <2>1, ConversionBytes
  <2>3. AreBytes(Stored8(a, b).out.image)
    BY <1>3, <1>6, <2>2, StoredBytes
  <2>4. o.out.size = in.size /\ o.out.coding = out.coding /\ o.out.image_bytes = a.image_bytes
    BY <1>3, <1>6, KeepsDescription
  <2>5. Source(o.out)
    BY <1>3, <1>6, <2>1, <2>4 DEF Source, Convertible
  <2> QED BY <1>6, <2>3, <2>5
<1>7. CASE o = Outcome(out, "FUNCTION_NOT_SUPPORTED")
  BY <1>5, <1>7
<1>8. CASE /\ Supported(in.coding, out.coding)
           /\ \E e \in {"MEMORY_ALLOCATION_FAILURE", "UNDEFINED", "INVALID_BYTE_ORDER"} : o = Outcome(a, e)
  BY <1>3, <1>5, <1>8
<1> QED BY <1>4, <1>6, <1>7, <1>8

LEMMA DeinterlaceBytes ==
    ASSUME NEW in, MemoryOK(in), in.image # NULL, AreBytes(in.image), Source(in),
           NEW out, DOMAIN out = Fields, MemoryOK(out), AreBytes(out.image), NEW method,
           NEW fill \in 0 .. 255 \cup {NoMemory}, NEW o, o = Deinterlaced(in, out, method, fill)
    PROVE  AreBytes(o.out.image) /\ (o.err = "SUCCESS" => Source(o.out))
<1> DEFINE a == Adapt_buffer_stereo(in, out, fill)
           size == <<in.size[1], 2 * in.size[2]>>
           coding == IF in.coding = "RAW16" THEN "RAW8" ELSE "MONO8"
           n == in.size[1] * in.size[2]
           b == IF method = "INTERLACED" THEN deinterlace_stereo(in.image, a.size[1] * a.size[2])
                ELSE Copied(in.image, a.image_bytes)
<1>1. /\ in.size \in Nat \X Nat /\ in.padding \in Nat /\ in.image_bytes \in Nat /\ in.allocated \in Nat
      /\ DOMAIN in.image = 0 .. in.allocated - 1 /\ in.image_bytes + in.padding <= in.allocated
      /\ size \in Nat \X Nat
  <2>1. /\ in.size \in Nat \X Nat /\ in.padding \in Nat /\ in.image_bytes \in Nat /\ in.allocated \in Nat
        /\ DOMAIN in.image = 0 .. in.allocated - 1 /\ in.image_bytes + in.padding <= in.allocated
    BY DEF MemoryOK
  <2> QED BY <2>1
<1>2. BitSize(coding) = 8
  BY DEF BitSize
<1>3. /\ DOMAIN a = Fields /\ a.size = size /\ a.coding = coding /\ AreBytes(a.image)
      /\ a.image_bytes = (size[1] * size[2] * BitSize(coding)) \div 8
  <2>1. a = Adapt(in, out, size, in.position, coding, 8, fill)
    BY Zenon DEF Adapt_buffer_stereo
  <2>2. BitSize(coding) \in Nat
    BY <1>2
  <2> HIDE DEF a, size, coding
  <2>3. /\ DOMAIN a = Fields /\ a.size = size /\ a.coding = coding
        /\ a.image_bytes = (size[1] * size[2] * BitSize(coding)) \div 8
    BY SMTT(30), <1>1, <2>1, <2>2, Adapted
  <2>4. AreBytes(a.image)
    BY ZenonT(60), <1>1, <2>1, <2>2, AdaptedBytes
  <2> QED BY <2>3, <2>4
<1>4. \/ o = Outcome(out, "FUNCTION_NOT_SUPPORTED") \/ o = Outcome(out, "INVALID_STEREO_METHOD")
      \/ o = Outcome(a, "MEMORY_ALLOCATION_FAILURE")
      \/ in.coding \in {"RAW16", "MONO16", "YUV422"} /\ o = Stored8(a, b)
  <2>1. o = IF in.coding \notin {"RAW16", "MONO16", "YUV422"} THEN Outcome(out, "FUNCTION_NOT_SUPPORTED")
            ELSE IF method \notin {"INTERLACED", "FIELD"} THEN Outcome(out, "INVALID_STEREO_METHOD")
            ELSE IF a.image = NULL THEN Outcome(a, "MEMORY_ALLOCATION_FAILURE")
            ELSE Stored8(a, b)
    BY Zenon DEF Deinterlaced
  <2> HIDE DEF a, b
  <2> QED BY <2>1
<1>5. n \in Nat /\ a.image_bytes = 2 * n /\ a.size[1] * a.size[2] = 2 * n
  <2>1. n \in Nat
    BY <1>1, ImageBytes
  <2>2. size[1] * size[2] = 2 * n
    BY <1>1
  <2>3. (size[1] * size[2] * 8) \div 8 = size[1] * size[2]
    BY <1>1, ImageBytes
  <2> HIDE DEF n, size, coding, a
  <2> QED BY <1>2, <1>3, <2>1, <2>2, <2>3
<1>6. \A f, e : Outcome(f, e).out = f /\ Outcome(f, e).err = e
  BY DEF Outcome
<1>7. ASSUME in.coding \in {"RAW16", "MONO16", "YUV422"} PROVE AreBytes(b)
  <2>1. in.image_bytes = 2 * n
    <3>1. BitSize(in.coding) = 16
      BY <1>7 DEF BitSize
    <3> QED BY <1>1, <3>1, ImageBytes DEF Source
  <2> HIDE DEF n, a
  <2>2. FirstBytes(in.image, 2 * n)
    <3>1. \A k \in 0 .. 2 * n - 1 : k \in DOMAIN in.image
      BY <1>1, <1>5, <2>1
    <3> QED BY <3>1 DEF FirstBytes, AreBytes
  <2>3. AreBytes(Copied(in.image, 2 * n))
    BY <2>2, CopiedBytes
  <2>4. AreBytes(deinterlace_stereo(in.image, 2 * n))
    <3>1. 2 * n \in Nat /\ (2 * n) % 2 = 0
      BY <1>5
    <3> QED BY <2>2, <3>1, StereoBytes
  <2> QED BY <1>5, <2>3, <2>4
<1> HIDE DEF a, b, size, coding, n
<1>8. CASE o = Outcome(out, "FUNCTION_NOT_SUPPORTED") \/ o = Outcome(out, "INVALID_STEREO_METHOD")
           \/ o = Outcome(a, "MEMORY_ALLOCATION_FAILURE")
  BY <1>3, <1>6, <1>8
<1>9. CASE in.coding \in {"RAW16", "MONO16", "YUV422"} /\ o = Stored8(a, b)
  <2>1. AreBytes(o.out.image)
    BY <1>3, <1>7, <1>9, StoredBytes
  <2>2. o.out.coding = coding /\ o.out.size = size /\ o.out.image_bytes = a.image_bytes
    BY <1>3, <1>9, KeepsDescription
  <2>3. Source(o.out)
    <3>1. o.out.coding \in {"RAW8", "MONO8"}
      BY <2>2 DEF coding
    <3> QED BY <1>3, <2>2, <3>1 DEF Source, Convertible
  <2> QED BY <2>1, <2>3
<1> QED BY <1>4, <1>8, <1>9

\* Every frame holds bytes, and the second can be converted if its call succeeded.
BytesInv ==
    /\ \A i \in 1 .. 3 : AreBytes(frame[i].image)
    /\ made[2].err = "SUCCESS" => Source(frame[2])

LEMMA DescribedSource ==
    ASSUME NEW f, Described(f)
    PROVE  Source(f) /\ AreBytes(f.image) /\ f.image # NULL
<1>1. f.image # NULL
  BY HasMemory
<1>2. AreBytes(f.image)
  BY DEF Described, AreBytes
<1>3. Source(f)
  BY Zenon DEF Described, Source
<1> QED BY <1>1, <1>2, <1>3

LEMMA FilledBytes == \A fill \in Fills \cup {NoMemory} : fill \in 0 .. 255 \cup {NoMemory}
BY FramesAssumption

LEMMA CalledBytes ==
    ASSUME Inv, BytesInv, NEW i \in 1 .. 2, NEW op, NEW arg, NEW o, Call(i, op, arg, o),
           AreBytes(o.out.image), o.err = "SUCCESS" => Source(o.out)
    PROVE  BytesInv'
<1>1. /\ frame' = [frame EXCEPT ![i + 1] = o.out]
      /\ made' = [j \in 2 .. 3 |-> IF j = i + 1 THEN [op |-> op, arg |-> arg, err |-> o.err]
                                  ELSE IF j > i THEN NotMade ELSE made[j]]
  BY DEF Call
<1>2. DOMAIN frame = 1 .. 3
  BY DEF Inv
<1>3. \A j \in 1 .. 3 : AreBytes(frame'[j].image)
  <2>1. \A j \in 1 .. 3 : frame'[j] = IF j = i + 1 THEN o.out ELSE frame[j]
    BY <1>1, <1>2
  <2> QED BY <2>1 DEF BytesInv
<1>4. made'[2].err = "SUCCESS" => Source(frame'[2])
  <2>1. CASE i = 1
    <3>1. made'[2].err = o.err /\ frame'[2] = o.out
      BY <1>1, <1>2, <2>1
    <3> QED BY <3>1
  <2>2. CASE i = 2
    <3>1. made'[2] = made[2] /\ frame'[2] = frame[2]
      BY SMTT(60), <1>1, <1>2, <2>2
    <3> QED BY <3>1 DEF BytesInv
  <2> QED BY <2>1, <2>2
<1>5. (\A j \in 1 .. 3 : AreBytes(frame[j].image))'
  BY <1>3 DEF AreBytes
<1>6. (made[2].err = "SUCCESS" => Source(frame[2]))'
  BY <1>4 DEF Source
<1> QED BY <1>5, <1>6 DEF BytesInv

LEMMA DebayerKeepsBytes == Inv /\ hostBig \in BOOLEAN /\ BytesInv /\ Debayer => BytesInv'
<1> SUFFICES ASSUME Inv, hostBig \in BOOLEAN, BytesInv, Debayer PROVE BytesInv'
  OBVIOUS
<1>1. frame[1].size[1] > 4 /\ frame[1].size[2] > 3
  BY DEF Debayer
<1>2. PICK method \in Methods \cup {"none"}, fill \in Fills \cup {NoMemory}, work \in BOOLEAN :
        \E win \in IF frame[1].filter \in Tiles THEN 0 .. 2 ELSE {0} :
           \E outcome \in Debayered(frame[1], frame[2], method, fill, work, win) :
              Call(1, "debayer", method, outcome)
  BY ZenonT(60) DEF Debayer
<1>3. PICK win \in 0 .. 2 :
         \E outcome \in Debayered(frame[1], frame[2], method, fill, work, win) :
            Call(1, "debayer", method, outcome)
  <2>1. \A n \in IF frame[1].filter \in Tiles THEN 0 .. 2 ELSE {0} : n \in 0 .. 2
    OBVIOUS
  <2> QED BY <1>2, <2>1
<1>4. PICK o \in Debayered(frame[1], frame[2], method, fill, work, win) : Call(1, "debayer", method, o)
  BY <1>3
<1>5. /\ MemoryOK(frame[1]) /\ MemoryOK(frame[2]) /\ DOMAIN frame[2] = Fields
      /\ Described(frame[1]) /\ AreBytes(frame[2].image)
  BY FramesAssumption DEF Inv, BytesInv
<1>6. fill \in 0 .. 255 \cup {NoMemory}
  BY FilledBytes
<1>7. AreBytes(o.out.image)
  BY ZenonT(60), <1>1, <1>3, <1>4, <1>5, <1>6, DebayerBytes
<1>8. o.err = "SUCCESS" => Source(o.out)
  BY <1>1, <1>3, <1>4, <1>5, DebayerSource
<1>9. 1 \in 1 .. 2
  OBVIOUS
<1> QED BY <1>4, <1>7, <1>8, <1>9, CalledBytes

LEMMA ConvertKeepsBytes == \A i \in 1 .. 2 : Inv /\ BytesInv /\ Convert(i) => BytesInv'
<1> SUFFICES ASSUME NEW i \in 1 .. 2, Inv, BytesInv, Convert(i) PROVE BytesInv'
  OBVIOUS
<1>1. PICK to \in {"YUV422", "MONO8", "RGB8", "YUV444"}, order \in Orders \cup {"none"},
           fill \in Fills \cup {NoMemory} :
        LET out == [frame[i + 1] EXCEPT !.coding = to, !.order = order]
        IN  \E outcome \in Converted(frame[i], out, fill) : Call(i, "convert", to, outcome)
  BY Zenon DEF Convert
<1> DEFINE out == [frame[i + 1] EXCEPT !.coding = to, !.order = order]
<1>3. PICK o \in Converted(frame[i], out, fill) : Call(i, "convert", to, o)
  BY <1>1, Zenon
<1>4. MemoryOK(frame[i]) /\ MemoryOK(frame[i + 1]) /\ DOMAIN frame[i + 1] = Fields
  BY DEF Inv
<1>5. DOMAIN out = Fields /\ MemoryOK(out)
  BY <1>4, Redescribed, Zenon
<1>6. AreBytes(out.image)
  <2>1. "image" \in DOMAIN frame[i + 1]
    BY <1>4 DEF Fields, Calloced
  <2>2. out.image = frame[i + 1].image
    BY <2>1, Zenon
  <2> QED BY <2>2 DEF BytesInv
<1> HIDE DEF out
<1>7. frame[i].image # NULL /\ AreBytes(frame[i].image) /\ Source(frame[i])
  <2>1. CASE i = 1
    <3>1. Described(frame[1])
      BY FramesAssumption DEF Inv
    <3> QED BY <2>1, <3>1, DescribedSource
  <2>2. CASE i = 2
    <3>1. frame[i].image # NULL /\ (i = 2 => made[2].err = "SUCCESS")
      BY Zenon DEF Convert
    <3>2. AreBytes(frame[i].image) /\ (made[2].err = "SUCCESS" => Source(frame[2]))
      BY DEF BytesInv
    <3> QED BY <2>2, <3>1, <3>2
  <2> QED BY <2>1, <2>2
<1>8. fill \in 0 .. 255 \cup {NoMemory}
  BY SMTT(60), FilledBytes
<1>9. AreBytes(o.out.image) /\ (o.err = "SUCCESS" => Source(o.out))
  BY <1>3, <1>4, <1>5, <1>6, <1>7, <1>8, ConvertBytes
<1> QED BY <1>3, <1>9, CalledBytes

LEMMA DeinterlaceKeepsBytes == Inv /\ BytesInv /\ Deinterlace => BytesInv'
<1> SUFFICES ASSUME Inv, BytesInv, Deinterlace PROVE BytesInv'
  OBVIOUS
<1>1. PICK method \in {"INTERLACED", "FIELD", "none"}, fill \in Fills \cup {NoMemory} :
        Call(1, "stereo", method, Deinterlaced(frame[1], frame[2], method, fill))
  BY DEF Deinterlace
<1>2. PICK o : o = Deinterlaced(frame[1], frame[2], method, fill)
  OBVIOUS
<1>3. /\ MemoryOK(frame[1]) /\ MemoryOK(frame[2]) /\ DOMAIN frame[2] = Fields
      /\ Described(frame[1]) /\ AreBytes(frame[2].image)
  BY FramesAssumption DEF Inv, BytesInv
<1>4. fill \in 0 .. 255 \cup {NoMemory}
  BY FilledBytes
<1>5. frame[1].image # NULL /\ AreBytes(frame[1].image) /\ Source(frame[1])
  BY SMTT(60), <1>3, DescribedSource
<1>6. AreBytes(o.out.image) /\ (o.err = "SUCCESS" => Source(o.out))
  BY ZenonT(60), <1>2, <1>3, <1>4, <1>5, DeinterlaceBytes
<1>7. 1 \in 1 .. 2 /\ Call(1, "stereo", method, o)
  BY <1>1, <1>2
<1> QED BY <1>6, <1>7, CalledBytes

LEMMA BytesKeep == Inv /\ hostBig \in BOOLEAN /\ BytesInv /\ [Next]_vars => BytesInv'
<1> SUFFICES ASSUME Inv, hostBig \in BOOLEAN, BytesInv, [Next]_vars PROVE BytesInv'
  OBVIOUS
<1>1. CASE Capture
  <2>1. PICK f \in Later(frame[1]) : frame' = [frame EXCEPT ![1] = f]
    BY <1>1 DEF Capture
  <2>2. made' = [i \in 2 .. 3 |-> NotMade]
    BY <1>1 DEF Capture
  <2>3. DOMAIN frame = 1 .. 3 /\ frame[1] \in Captured
    BY DEF Inv
  <2>4. f \in Captured
    BY <2>1, <2>3, FramesAssumption
  <2>5. AreBytes(f.image)
    BY <2>4, FramesAssumption, DescribedSource
  <2>6. \A j \in 1 .. 3 : frame'[j] = IF j = 1 THEN f ELSE frame[j]
    BY <2>1, <2>3
  <2>7. \A j \in 1 .. 3 : AreBytes(frame'[j].image)
    BY <2>5, <2>6 DEF BytesInv
  <2>8. made'[2].err # "SUCCESS"
    BY SMTT(60), <2>2 DEF NotMade
  <2>9. (\A j \in 1 .. 3 : AreBytes(frame[j].image))'
    BY SMTT(60), <2>7 DEF AreBytes
  <2> QED BY <2>8, <2>9 DEF BytesInv
<1>2. CASE UNCHANGED vars
  <2>1. frame' = frame /\ made' = made
    BY <1>2 DEF vars
  <2> QED BY Zenon, <2>1 DEF BytesInv, AreBytes
<1> QED BY <1>1, <1>2, DebayerKeepsBytes, ConvertKeepsBytes, DeinterlaceKeepsBytes DEF Next

LEMMA BytesStart == Init => BytesInv
<1> SUFFICES ASSUME Init PROVE BytesInv
  OBVIOUS
<1>1. PICK f \in Captured : frame = <<f, Calloced, Calloced>>
  BY DEF Init
<1>2. made[2].err # "SUCCESS"
  BY DEF Init, NotMade
<1>3. frame[1] = f /\ frame[2] = Calloced /\ frame[3] = Calloced
  BY <1>1
<1>4. AreBytes(Calloced.image)
  <2>1. Calloced.image = << >>
    BY DEF Calloced, NULL
  <2> QED BY <2>1 DEF AreBytes
<1>5. AreBytes(f.image)
  BY FramesAssumption, DescribedSource
<1>6. \A i \in 1 .. 3 : i = 1 \/ i = 2 \/ i = 3
  OBVIOUS
<1> HIDE DEF Calloced
<1> QED BY <1>2, <1>3, <1>4, <1>5, <1>6 DEF BytesInv

\* The samples of a frame that the machine reads as they are meant, for a decoder.
LEMMA ReadableRaw ==
    ASSUME NEW in, MemoryOK(in), Described(in), Readable(in),
           in.coding \in {"RAW16", "MONO16", "RAW8", "MONO8"}
    PROVE  /\ Wide(in) => /\ AllFit(Raw(in, Samples16(in)), in.depth)
                          /\ \A y \in Rows(in), x \in Columns(in) :
                                At(Raw(in, Samples16(in)), y, x) = RawSample(in, y, x)
           /\ ~Wide(in) => /\ AllFit(Raw(in, in.image), 8)
                           /\ \A y \in Rows(in), x \in Columns(in) :
                                At(Raw(in, in.image), y, x) = RawSample(in, y, x)
<1>1. ASSUME NEW s PROVE Raw(in, s).w = in.size[1] /\ Raw(in, s).h = in.size[2]
  BY DEF Raw
<1>2. ASSUME Wide(in) PROVE /\ AllFit(Raw(in, Samples16(in)), in.depth)
                            /\ \A y \in Rows(in), x \in Columns(in) :
                                  At(Raw(in, Samples16(in)), y, x) = RawSample(in, y, x)
  <2> DEFINE r == Raw(in, Samples16(in))
  <2>1. r.w = in.size[1] /\ r.h = in.size[2]
    BY <1>1
  <2>2. \A y \in Rows(in), x \in Columns(in) : At(r, y, x) = RawSample(in, y, x) /\ Fits(At(r, y, x), in.depth)
    BY <1>2, SamplesFit
  <2> HIDE DEF r
  <2>3. AllFit(r, in.depth)
    BY <2>1, <2>2 DEF AllFit, Rows, Columns
  <2> QED BY <2>2, <2>3 DEF r
<1>3. ASSUME ~Wide(in) PROVE /\ AllFit(Raw(in, in.image), 8)
                             /\ \A y \in Rows(in), x \in Columns(in) :
                                  At(Raw(in, in.image), y, x) = RawSample(in, y, x)
  <2> DEFINE r == Raw(in, in.image)
  <2>1. r.w = in.size[1] /\ r.h = in.size[2]
    BY <1>1
  <2>2. \A y \in Rows(in), x \in Columns(in) : At(r, y, x) = RawSample(in, y, x) /\ Fits(At(r, y, x), 8)
    BY <1>3, SamplesFit
  <2> HIDE DEF r
  <2>3. AllFit(r, 8)
    BY <2>1, <2>2 DEF AllFit, Rows, Columns
  <2> QED BY <2>2, <2>3 DEF r
<1> QED BY <1>2, <1>3

\* No component that a decoder has stored exceeds the depth of its frame.
LEMMA DebayerDepth ==
    ASSUME hostBig \in BOOLEAN, NEW in, MemoryOK(in), Described(in), Readable(in),
           in.size[1] > 4, in.size[2] > 3,
           NEW out, DOMAIN out = Fields, MemoryOK(out), AreBytes(out.image), NEW method,
           NEW fill \in 0 .. 255 \cup {NoMemory}, NEW work, NEW win \in 0 .. 2,
           NEW o \in Debayered(in, out, method, fill, work, win), o.err = "SUCCESS",
           NEW p \in Covered(o.out, method), NEW c \in 0 .. 2
    PROVE  Component(o.out, p[1], p[2], c) < 2 ^ o.out.depth
<1> DEFINE a == Adapt_buffer_bayer(in, out, method, fill)
           wide == in.coding \in {"RAW16", "MONO16"}
           size == DecodedSize(in.size, method)
           D8 == bayer_decoding_8bit(in, a, method, win)
           D16 == bayer_decoding_16bit(in, a, method, in.depth, win)
           y == p[1]
           x == p[2]
           i == 3 * (y * size[1] + x) + c
           M == Places(size[1], 1 .. size[2] - 2, 1 .. size[1] - 2)
<1>1. /\ method \in Methods /\ in.filter \in Tiles /\ a.image # NULL
      /\ (method = "DOWNSAMPLE" => ~OddSize(in))
      /\ in.coding \in {"RAW16", "MONO16", "RAW8", "MONO8"}
      /\ o.out.size = size /\ o.out.coding = (IF wide THEN "RGB16" ELSE "RGB8")
      /\ o.out.depth = (IF wide THEN in.depth ELSE 8)
      /\ \E d \in IF wide THEN D16 ELSE D8 :
            /\ o = Stored8(a, IF wide THEN HostBytes(d) ELSE d)
            /\ \A j \in DOMAIN d : j \in Nat /\ d[j] \in Nat => Holds(o, wide, d, j)
  <2>1. DebayerResult(o, in, out, method, fill, win)
    BY DebayerStores
  <2> QED BY <2>1 DEF DebayerResult
<1>2. PICK d \in IF wide THEN D16 ELSE D8 :
            /\ o = Stored8(a, IF wide THEN HostBytes(d) ELSE d)
            /\ \A j \in DOMAIN d : j \in Nat /\ d[j] \in Nat => Holds(o, wide, d, j)
  BY <1>1
<1>3. /\ in.size \in Nat \X Nat /\ in.size[1] \in Nat /\ in.size[2] \in Nat
      /\ in.size[1] >= 4 /\ in.size[2] >= 4 /\ in.depth \in Nat
  BY SMTT(60) DEF Described
<1>4. /\ DOMAIN a = Fields /\ size \in Nat \X Nat /\ MemoryOK(a) /\ a.size = size
      /\ a.image_bytes = (IF wide THEN 6 ELSE 3) * (size[1] * size[2])
  BY BayerAdapted
<1>10. AreBytes(a.image)
  BY DebayerBytes
<1>9. method = "DOWNSAMPLE" => in.size[1] % 2 = 0 /\ in.size[2] % 2 = 0
  BY <1>1, <1>3, EvenSize
<1> HIDE DEF a
<1>5. /\ \A b \in D8 : DOMAIN b = Whole(size[1], size[2])
      /\ \A s \in D16 : IF method \in {"BILINEAR", "VNG"} THEN M \subseteq DOMAIN s
                                                         ELSE DOMAIN s = Whole(size[1], size[2])
  <2>1. PICK m \in Nat : m = in.depth
    BY <1>3
  <2>2. size = DecodedSize(in.size, method)
    OBVIOUS
  <2> HIDE DEF wide, size, i, y, x
  <2>3. /\ \A b \in bayer_decoding_8bit(in, a, method, win) : DOMAIN b = Whole(size[1], size[2])
        /\ \A s \in bayer_decoding_16bit(in, a, method, m, win) :
              IF method \in {"BILINEAR", "VNG"} THEN M \subseteq DOMAIN s ELSE DOMAIN s = Whole(size[1], size[2])
    BY SMTT(30), <1>1, <1>3, <1>9, <2>2, Decodes
  <2> QED BY <2>1, <2>3
<1>11. /\ y \in Rows(o.out) /\ x \in Columns(o.out)
       /\ Framed(o.out, method) => y \in 1 .. size[2] - 2 /\ x \in 1 .. size[1] - 2
  <2>1. size[1] \in Nat /\ size[2] \in Nat /\ o.out.size = size
    BY <1>1, <1>4
  <2> HIDE DEF size
  <2> QED BY <2>1 DEF Covered, Rows, Columns
<1> HIDE DEF size, D8, y, x
<1>6. i \in Whole(size[1], size[2]) /\ i \in Nat
  <2>1. size[1] \in Nat /\ size[2] \in Nat /\ y \in 0 .. size[2] - 1 /\ x \in 0 .. size[1] - 1
    BY <1>1, <1>4, <1>11 DEF Rows, Columns
  <2>2. 3 * (y * size[1] + x) + c \in Whole(size[1], size[2])
    BY <2>1, PlaceInside
  <2> HIDE DEF i
  <2> QED BY <2>2 DEF Whole, i
<1>7. CASE wide
  <2>1. Wide(o.out) /\ Wide(in)
    BY <1>1, <1>7 DEF Wide
  <2>2. Component(o.out, p[1], p[2], c) = Host(o.out.image, i)
    BY <1>1, <2>1 DEF Component, y, x
  <2>3. d \in D16 /\ i \in DOMAIN d
    <3>1. d \in D16
      BY <1>2, <1>7
    <3>2. CASE method \in {"BILINEAR", "VNG"}
      <4>1. Framed(o.out, method)
        BY <2>1, <3>2 DEF Framed
      <4>2. i \in M
        BY <1>11, <4>1, PlaceIs
      <4> HIDE DEF i, M
      <4> QED BY <1>5, <3>1, <3>2, <4>2
    <3>3. CASE method \notin {"BILINEAR", "VNG"}
      <4> HIDE DEF i
      <4> QED BY <1>5, <1>6, <3>1, <3>3
    <3> QED BY <3>1, <3>2, <3>3
  <2>4. PICK bits \in Nat : bits = in.depth
    BY <1>3
  <2>5. FitsAll(d, bits)
    <3>1. AllFit(Raw(in, Samples16(in)), bits) /\ bits <= bits
      BY <1>1, <2>1, <2>4, ReadableRaw
    <3>2. d \in bayer_decoding_16bit(in, a, method, bits, win)
      BY <2>3, <2>4
    <3>3. PICK C \in Nat : C = 16 /\ bits <= C
      <4>1. in.depth \in 8 .. 16
        BY <1>7 DEF Described
      <4> QED BY <2>4, <4>1
    <3>4. method = "VNG" => /\ Whole(in.size[1], in.size[2]) \subseteq DOMAIN Old16(a)
                            /\ FitsAll(Old16(a), C)
      <4> DEFINE n == in.size[1] * in.size[2]
      <4>1. n \in Nat /\ Whole(in.size[1], in.size[2]) = 0 .. 3 * n - 1
        BY <1>3 DEF Whole
      <4>2. method = "VNG" => a.image_bytes = 6 * n
        BY <1>4, <1>7 DEF size, DecodedSize
      <4>3. a.image_bytes <= a.allocated
        <5>1. a.image_bytes + a.padding <= a.allocated /\ a.padding \in Nat /\ a.image_bytes \in Nat /\ a.allocated \in Nat
          BY <1>1, <1>4 DEF MemoryOK
        <5> QED BY <5>1
      <4> HIDE DEF n
      <4> QED BY <1>4, <1>10, <3>3, <4>1, <4>2, <4>3, OldFits
    <3> QED BY <1>1, <1>3, <1>9, <3>1, <3>2, <3>3, <3>4, Decoding16Fits
  <2> HIDE DEF i, wide, D16
  <2>6. Fits(d[i], bits) /\ i \in DOMAIN d
    BY <2>3, <2>5 DEF FitsAll
  <2>7. d[i] \in Nat /\ d[i] < 2 ^ bits
    BY <2>6 DEF Fits
  <2>8. Holds(o, wide, d, i)
    BY <1>2, <1>6, <2>6, <2>7
  <2>9. Host(o.out.image, i) = d[i]
    BY <1>7, <2>8 DEF Holds
  <2> QED BY <1>1, <1>7, <2>2, <2>4, <2>7, <2>9
<1>8. CASE ~wide
  <2>1. ~Wide(o.out) /\ o.out.depth = 8
    BY <1>1, <1>8 DEF Wide
  <2>2. Component(o.out, p[1], p[2], c) = o.out.image[i]
    BY <1>1, <2>1 DEF Component, y, x
  <2>3. i \in DOMAIN d
    BY <1>2, <1>5, <1>6, <1>8
  <2> HIDE DEF i, wide, D16
  <2>4. o = Stored8(a, d) /\ DOMAIN d \subseteq DOMAIN a.image
    <3>1. o = Stored8(a, d)
      BY <1>2, <1>8
    <3> QED BY <3>1, Stored8Cases
  <2>6. o.out.image = [j \in DOMAIN a.image |-> IF j \in DOMAIN d THEN d[j] ELSE a.image[j]]
    BY <1>4, <2>4, Stored8Fields
  <2>7. i \in DOMAIN o.out.image
    BY SMTT(60), <2>3, <2>4, <2>6
  <2>8. AreBytes(o.out.image)
    BY DebayerBytes
  <2>9. o.out.image[i] \in 0 .. 255
    BY <2>7, <2>8 DEF AreBytes
  <2> QED BY SMTT(60), <2>1, <2>2, <2>9, Powers
<1> QED BY <1>7, <1>8

LEMMA DebayerKeepsDepth == Inv /\ hostBig \in BOOLEAN /\ BytesInv /\ Debayer => DepthKept'
<1> SUFFICES ASSUME Inv, hostBig \in BOOLEAN, BytesInv, Debayer PROVE DepthKept'
  OBVIOUS
<1>1. frame[1].size[1] > 4 /\ frame[1].size[2] > 3
  BY DEF Debayer
<1>2. PICK method \in Methods \cup {"none"}, fill \in Fills \cup {NoMemory}, work \in BOOLEAN :
        \E win \in IF frame[1].filter \in Tiles THEN 0 .. 2 ELSE {0} :
           \E outcome \in Debayered(frame[1], frame[2], method, fill, work, win) :
              Call(1, "debayer", method, outcome)
  BY Zenon DEF Debayer
<1>3. PICK win \in 0 .. 2 :
         \E outcome \in Debayered(frame[1], frame[2], method, fill, work, win) :
            Call(1, "debayer", method, outcome)
  <2>1. \A n \in IF frame[1].filter \in Tiles THEN 0 .. 2 ELSE {0} : n \in 0 .. 2
    OBVIOUS
  <2> QED BY <1>2, <2>1
<1>4. PICK o \in Debayered(frame[1], frame[2], method, fill, work, win) : Call(1, "debayer", method, o)
  BY <1>3
<1>5. /\ DOMAIN frame = 1 .. 3
      /\ MemoryOK(frame[1]) /\ MemoryOK(frame[2]) /\ DOMAIN frame[2] = Fields
      /\ Described(frame[1]) /\ AreBytes(frame[2].image)
  BY FramesAssumption DEF Inv, BytesInv
<1>6. /\ frame'[1] = frame[1] /\ frame'[2] = o.out /\ hostBig' = hostBig
      /\ made'[2].op = "debayer" /\ made'[2].arg = method /\ made'[2].err = o.err
  <2>1. /\ frame' = [frame EXCEPT ![1 + 1] = o.out] /\ hostBig' = hostBig
        /\ made' = [j \in 2 .. 3 |-> IF j = 1 + 1 THEN [op |-> "debayer", arg |-> method, err |-> o.err]
                                    ELSE IF j > 1 THEN NotMade ELSE made[j]]
    BY <1>4 DEF Call
  <2> QED BY <1>5, <2>1
<1>7. fill \in 0 .. 255 \cup {NoMemory}
  BY SMTT(60), FilledBytes
<1>8. (\A j \in 2 .. 3 : \A k \in DOMAIN frame[j].image : frame[j].image[k] \in 0 .. 255)'
  <2>1. BytesInv'
    BY SMTT(60), DebayerKeepsBytes
  <2> QED BY <2>1 DEF BytesInv, AreBytes
<1> SUFFICES ASSUME o.err = "SUCCESS", Readable(frame[1])',
                    NEW p \in Covered(frame[2], made[2].arg)', NEW c \in 0 .. 2
             PROVE  (Component(frame[2], p[1], p[2], c) < 2 ^ frame[2].depth)'
  BY <1>6, <1>8 DEF DepthKept, Decoded, Made
<1>10. Readable(frame[1])
  BY <1>6 DEF Readable, RawSample, Host, Wide, Rows, Columns
<1>11. p \in Covered(o.out, method)
  BY SMTT(60), <1>6 DEF Covered, Framed, Wide, Rows, Columns
<1>12. Component(o.out, p[1], p[2], c) < 2 ^ o.out.depth
  <2>1. PICK in, out : in = frame[1] /\ out = frame[2]
    OBVIOUS
  <2>2. /\ MemoryOK(in) /\ Described(in) /\ Readable(in) /\ in.size[1] > 4 /\ in.size[2] > 3
        /\ DOMAIN out = Fields /\ MemoryOK(out) /\ AreBytes(out.image)
    BY <1>1, <1>5, <1>10, <2>1
  <2>3. o \in Debayered(in, out, method, fill, work, win)
    BY <1>4, <2>1
  <2>4. hostBig \in BOOLEAN /\ o.err = "SUCCESS" /\ c \in 0 .. 2 /\ win \in 0 .. 2
    OBVIOUS
  <2> QED BY ONLY ZenonT(60), <1>7, <1>11, <2>2, <2>3, <2>4, DebayerDepth
<1>13. Component(frame[2], p[1], p[2], c)' = Component(o.out, p[1], p[2], c)
  BY <1>6 DEF Component, Host, Wide
<1> QED BY <1>6, <1>12, <1>13

LEMMA OthersKeepDepth ==
    ASSUME Inv, DepthKept, BytesInv', Convert(1) \/ Convert(2) \/ Deinterlace \/ Capture \/ UNCHANGED vars
    PROVE  DepthKept'
<1>0. (\A j \in 2 .. 3 : \A k \in DOMAIN frame[j].image : frame[j].image[k] \in 0 .. 255)'
  BY SMTT(60) DEF BytesInv, AreBytes
<1>1. CASE made'[2].op # "debayer"
  BY <1>0, <1>1 DEF DepthKept, Decoded, Made
<1>2. CASE /\ frame'[1] = frame[1] /\ frame'[2] = frame[2]
           /\ made'[2] = made[2] /\ hostBig' = hostBig
  <2>1. Readable(frame[1])' = Readable(frame[1])
    BY SMTT(60), <1>2 DEF Readable, RawSample, Host, Wide, Rows, Columns
  <2> SUFFICES ASSUME Decoded(Methods)',
                      NEW p \in Covered(frame[2], made[2].arg)', NEW c \in 0 .. 2
               PROVE  (Component(frame[2], p[1], p[2], c) < 2 ^ frame[2].depth)'
    BY <1>0 DEF DepthKept
  <2>2. Decoded(Methods)
    BY <1>2, <2>1 DEF Decoded, Made
  <2>3. p \in Covered(frame[2], made[2].arg)
    BY <1>2 DEF Covered, Framed, Wide, Rows, Columns
  <2>4. Component(frame[2], p[1], p[2], c) < 2 ^ frame[2].depth
    BY <2>2, <2>3 DEF DepthKept
  <2>5. Component(frame[2], p[1], p[2], c)' = Component(frame[2], p[1], p[2], c)
    BY <1>2 DEF Component, Host, Wide
  <2> QED BY <1>2, <2>4, <2>5
<1> QED BY <1>1, <1>2, OthersLeave

\* A byte is a byte, and no sample that a decoder has stored exceeds the depth of its
\* frame: the inner pixels of BILINEAR and VNG in 16 bits included, whatever the memory
\* held before, and with every kernel that overshoots.
THEOREM DepthStays == Spec => []DepthKept
<1> DEFINE J == Inv /\ hostBig \in BOOLEAN /\ BytesInv /\ DepthKept
<1>1. Init => J
  <2> SUFFICES ASSUME Init PROVE J
    OBVIOUS
  <2>1. hostBig \in BOOLEAN
    BY DEF Init
  <2>2. made[2].op # "debayer"
    BY DEF Init, NotMade
  <2>3. BytesInv
    BY BytesStart
  <2>4. \A j \in 2 .. 3 : \A k \in DOMAIN frame[j].image : frame[j].image[k] \in 0 .. 255
    BY SMTT(60), <2>3 DEF BytesInv, AreBytes
  <2>5. DepthKept
    BY <2>2, <2>4 DEF DepthKept, Decoded, Made
  <2> QED BY <2>1, <2>3, <2>5, Starts
<1>2. J /\ [Next]_vars => J'
  <2> SUFFICES ASSUME J, [Next]_vars PROVE J'
    OBVIOUS
  <2>1. Inv'
    BY Keeps
  <2>2. hostBig' \in BOOLEAN
    <3>1. hostBig' = hostBig
      BY Zenon DEF Next, Debayer, Convert, Deinterlace, Capture, Call, vars
    <3> QED BY <3>1
  <2>3. BytesInv'
    BY BytesKeep
  <2>4. DepthKept'
    BY <2>3, DebayerKeepsDepth, OthersKeepDepth DEF Next
  <2> QED BY <2>1, <2>2, <2>3, <2>4
<1>3. J => DepthKept
  OBVIOUS
<1> QED BY <1>1, <1>2, <1>3, PTL DEF Spec

-----------------------------------------------------------------------------
(* A scene without detail: one value of each colour.                       *)
Flat(raw, tile, v, bits) ==
    /\ \A y \in 0 .. raw.h - 1, x \in 0 .. raw.w - 1 : At(raw, y, x) = v[Colour(tile, y, x)]
    /\ \A c \in 0 .. 2 : Fits(v[c], bits)

\* A decoder's picture has the three values at a pixel.
FlatAt(dec, w, y, x, v) ==
    \A c \in 0 .. 2 : Offset(w, y, x, c) \in DOMAIN dec /\ dec[Offset(w, y, x, c)] = v[c]

LEMMA FlatFits ==
    ASSUME NEW raw, NEW tile \in Tiles, NEW v, NEW bits, Flat(raw, tile, v, bits)
    PROVE  AllFit(raw, bits)
<1> SUFFICES ASSUME NEW y \in 0 .. raw.h - 1, NEW x \in 0 .. raw.w - 1
             PROVE  Fits(At(raw, y, x), bits)
  BY DEF AllFit
<1>1. y \in Nat /\ x \in Nat
  OBVIOUS
<1>2. Colour(tile, y, x) \in 0 .. 2
  BY <1>1, ColourCode
<1>3. At(raw, y, x) = v[Colour(tile, y, x)]
  BY DEF Flat
<1> QED BY <1>2, <1>3 DEF Flat

\* Between samples of a colour there is only its value.
LEMMA MixedFlat ==
    ASSUME NEW raw, NEW tile, NEW v, NEW bits, Flat(raw, tile, v, bits),
           NEW dec, NEW i, NEW y, NEW x, NEW c \in 0 .. 2, Mixed(raw, tile, dec, i, y, x, c)
    PROVE  i \in DOMAIN dec /\ dec[i] = v[c]
<1>1. \A a \in Near(raw, tile, y, x, c) : a = v[c]
  BY Zenon DEF Near, Flat
<1>2. v[c] \in Nat
  BY DEF Flat, Fits
<1> QED BY <1>1, <1>2 DEF Mixed, Within

\* A sample next to a pixel, by the colour that OpenCV's decoders know.
FlatNext(raw, tile, v, y, x, dy, dx) ==
    /\ At(raw, y + dy, x + dx) = v[Colour(tile, y + dy, x + dx)]
    /\ Colour(tile, y + dy, x + dx) =
          IF GreenStep(tile, y, x)
          THEN IF (dy = 0) = (dx = 0) THEN 1 ELSE IF dy = 0 THEN 1 - BlueAt(tile, y) ELSE 1 + BlueAt(tile, y)
          ELSE IF (dy = 0) # (dx = 0) THEN 1 ELSE IF dy = 0 THEN 1 - BlueAt(tile, y) ELSE 1 + BlueAt(tile, y)

LEMMA FlatNine ==
    ASSUME NEW raw, raw.w \in Nat, raw.h \in Nat, NEW tile \in Tiles, NEW v, NEW bits,
           Flat(raw, tile, v, bits), NEW y \in 1 .. raw.h - 2, NEW x \in 1 .. raw.w - 2,
           NEW dy \in {-1, 0, 1}, NEW dx \in {-1, 0, 1}
    PROVE  FlatNext(raw, tile, v, y, x, dy, dx)
<1>1. PICK b \in 0 .. raw.h - 1 : b = y + dy
  OBVIOUS
<1>2. PICK e \in 0 .. raw.w - 1 : e = x + dx
  OBVIOUS
<1>3. At(raw, b, e) = v[Colour(tile, b, e)]
  BY Zenon DEF Flat
<1>4. y \in Nat /\ x \in Nat /\ b \in Nat /\ e \in Nat
  OBVIOUS
<1>5. Colour(tile, b, e) =
                 IF GreenStep(tile, y, x)
                 THEN IF (dy = 0) = (dx = 0) THEN 1
                      ELSE IF dy = 0 THEN 1 - BlueAt(tile, y) ELSE 1 + BlueAt(tile, y)
                 ELSE IF (dy = 0) # (dx = 0) THEN 1
                      ELSE IF dy = 0 THEN 1 - BlueAt(tile, y) ELSE 1 + BlueAt(tile, y)
  BY SMTT(60), <1>1, <1>2, <1>4, ColoursAround
<1> QED BY <1>1, <1>2, <1>3, <1>5, Zenon DEF FlatNext

LEMMA SameColour ==
    ASSUME NEW tile, NEW y \in Nat, NEW x \in Nat, NEW b \in Nat, NEW a \in Nat,
           b % 2 = y % 2, a % 2 = x % 2
    PROVE  Colour(tile, b, a) = Colour(tile, y, x)
BY DEF Colour

\* The kernels of HQLINEAR add up to eight eighths.
LEMMA HQPixelFlat ==
    ASSUME NEW raw, raw.w \in Nat, raw.h \in Nat, NEW tile \in Tiles, NEW v, NEW bits \in Nat,
           Flat(raw, tile, v, bits),
           NEW y \in 2 .. raw.h - 3, NEW x \in 2 .. raw.w - 3, NEW c \in 0 .. 2
    PROVE  HQPixel(raw, tile, y, x, c, bits) = v[c]
<1> DEFINE G == GreenStep(tile, y, x)  B == BlueAt(tile, y)
           a(i, j) == At(raw, y + i, x + j)
           own == v[1]  plus == v[1 + B]  minus == v[1 - B]
           r(t) == Clip((t + 4) \div 8, bits)
<1>1. y \in Nat /\ x \in Nat /\ B \in {-1, 1}
  BY DEF BlueAt
<1>2. GreenStep(tile, y - 2, x - 2) <=> G
  <2>1. (y - 2) % 2 = y % 2 /\ (x - 2) % 2 = x % 2
    BY <1>1, Parities
  <2> QED BY <2>1 DEF GreenStep
<1>3. BlueAt(tile, y - 2) = B
  <2>1. (y - 2) % 2 = y % 2
    BY <1>1, Parities
  <2> QED BY <2>1 DEF BlueAt
<1>4. ASSUME NEW dy \in -2 .. 2, NEW dx \in -2 .. 2
      PROVE  a(dy, dx) = v[Colour(tile, y + dy, x + dx)]
  <2>1. y + dy \in 0 .. raw.h - 1 /\ x + dx \in 0 .. raw.w - 1
    OBVIOUS
  <2> QED BY <2>1, Zenon DEF Flat
<1>5. ASSUME NEW dy \in {-1, 0, 1}, NEW dx \in {-1, 0, 1}
      PROVE  a(dy, dx) = IF G
                         THEN IF (dy = 0) = (dx = 0) THEN own ELSE IF dy = 0 THEN minus ELSE plus
                         ELSE IF (dy = 0) # (dx = 0) THEN own ELSE IF dy = 0 THEN minus ELSE plus
  <2>1. y \in 1 .. raw.h - 2 /\ x \in 1 .. raw.w - 2
    OBVIOUS
  <2>2. FlatNext(raw, tile, v, y, x, dy, dx)
    BY <2>1, FlatNine
  <2> QED BY <2>2, Zenon DEF FlatNext
<1>6. ASSUME NEW dy \in {-2, 0, 2}, NEW dx \in {-2, 0, 2}
      PROVE  a(dy, dx) = IF G THEN own ELSE minus
  <2>1. PICK b \in Nat : b = y + dy
    OBVIOUS
  <2>2. PICK e \in Nat : e = x + dx
    OBVIOUS
  <2>3. a(dy, dx) = v[Colour(tile, b, e)]
    <3>1. dy \in -2 .. 2 /\ dx \in -2 .. 2
      OBVIOUS
    <3> QED BY <1>4, <2>1, <2>2, <3>1
  <2>4. b % 2 = y % 2 /\ e % 2 = x % 2
    BY <2>1, <2>2
  <2>5. Colour(tile, b, e) = Colour(tile, y, x)
    BY <1>1, <2>4, SameColour
  <2>6. Colour(tile, y, x) = IF G THEN 1 ELSE 1 - B
    BY <1>1, ColourStep
  <2> HIDE DEF a
  <2> QED BY <2>3, <2>5, <2>6
<1>7. /\ a(0, 0) = IF G THEN own ELSE minus
      /\ a(-1, 0) = (IF G THEN plus ELSE own) /\ a(1, 0) = (IF G THEN plus ELSE own)
      /\ a(0, -1) = (IF G THEN minus ELSE own) /\ a(0, 1) = (IF G THEN minus ELSE own)
      /\ a(-1, -1) = (IF G THEN own ELSE plus) /\ a(-1, 1) = (IF G THEN own ELSE plus)
      /\ a(1, -1) = (IF G THEN own ELSE plus) /\ a(1, 1) = (IF G THEN own ELSE plus)
      /\ a(-2, 0) = (IF G THEN own ELSE minus) /\ a(2, 0) = (IF G THEN own ELSE minus)
      /\ a(0, -2) = (IF G THEN own ELSE minus) /\ a(0, 2) = (IF G THEN own ELSE minus)
  <2> HIDE DEF a, own, plus, minus, G, B
  <2> QED BY <1>5, <1>6
<1>8. /\ Fits(own, bits) /\ Fits(plus, bits) /\ Fits(minus, bits)
  BY <1>1 DEF Flat
<1>9. own \in Nat /\ plus \in Nat /\ minus \in Nat
  BY <1>8 DEF Fits
<1> HIDE DEF own, plus, minus, G, B
<1>10. ASSUME NEW u, Fits(u, bits) PROVE r(8 * u) = u
  <2>1. u \in Nat
    BY <1>10 DEF Fits
  <2>2. (8 * u + 4) \div 8 = u
    BY <2>1
  <2> QED BY <1>10, <2>2, ClipKeeps
<1>11. 2 * 1 = 2 /\ 2 * 0 = 0 /\ -2 * 1 = -2 /\ -2 * 0 = 0 /\ -0 = 0
  <2>1. -0 <= 0 /\ -0 >= 0 /\ -2 * 0 <= 0 /\ -2 * 0 >= 0
    OBVIOUS
  <2>2. \A z \in Int : z <= 0 /\ z >= 0 => z = 0
    OBVIOUS
  <2>3. -0 \in Int /\ -2 * 0 \in Int
    OBVIOUS
  <2>4. -0 = 0 /\ -2 * 0 = 0
    BY <2>1, <2>2, <2>3, Zenon
  <2> QED BY <2>4
<1>12. CASE G
  <2>1. HQAtGreen(raw, y, x, 1, 0) = 8 * plus
    <3>1. HQAtGreen(raw, y, x, 1, 0) =
             5 * a(0, 0) + 4 * (a(1, 0) + a(-1, -0)) - a(2 * 1, 2 * 0) - a(-2 * 1, -2 * 0)
               - a(-1, -1) - a(-1, 1) - a(1, -1) - a(1, 1)
               + ((a(2 * 0, 2 * 1) + a(-2 * 0, -2 * 1) + 1) \div 2)
      BY Zenon DEF HQAtGreen
    <3>2. 2 * 1 = 2 /\ 2 * 0 = 0 /\ -2 * 1 = -2 /\ -2 * 0 = 0 /\ -0 = 0
      BY <1>11
    <3> HIDE DEF a
    <3>3. HQAtGreen(raw, y, x, 1, 0) =
             5 * a(0, 0) + 4 * (a(1, 0) + a(-1, 0)) - a(2, 0) - a(-2, 0)
               - a(-1, -1) - a(-1, 1) - a(1, -1) - a(1, 1) + ((a(0, 2) + a(0, -2) + 1) \div 2)
      BY <3>1, <3>2
    <3>4. HQAtGreen(raw, y, x, 1, 0) =
             5 * own + 4 * (plus + plus) - own - own - own - own - own - own + ((own + own + 1) \div 2)
      BY <1>7, <1>12, <3>3
    <3>5. (own + own + 1) \div 2 = own
      BY <1>9
    <3> QED BY <1>9, <3>4, <3>5
  <2>2. HQAtGreen(raw, y, x, 0, 1) = 8 * minus
    <3>1. HQAtGreen(raw, y, x, 0, 1) =
             5 * a(0, 0) + 4 * (a(0, 1) + a(-0, -1)) - a(2 * 0, 2 * 1) - a(-2 * 0, -2 * 1)
               - a(-1, -1) - a(-1, 1) - a(1, -1) - a(1, 1)
               + ((a(2 * 1, 2 * 0) + a(-2 * 1, -2 * 0) + 1) \div 2)
      BY Zenon DEF HQAtGreen
    <3>2. 2 * 1 = 2 /\ 2 * 0 = 0 /\ -2 * 1 = -2 /\ -2 * 0 = 0 /\ -0 = 0
      BY <1>11
    <3> HIDE DEF a
    <3>3. HQAtGreen(raw, y, x, 0, 1) =
             5 * a(0, 0) + 4 * (a(0, 1) + a(0, -1)) - a(0, 2) - a(0, -2)
               - a(-1, -1) - a(-1, 1) - a(1, -1) - a(1, 1) + ((a(2, 0) + a(-2, 0) + 1) \div 2)
      BY <3>1, <3>2
    <3>4. HQAtGreen(raw, y, x, 0, 1) =
             5 * own + 4 * (minus + minus) - own - own - own - own - own - own + ((own + own + 1) \div 2)
      BY <1>7, <1>12, <3>3
    <3>5. (own + own + 1) \div 2 = own
      BY <1>9
    <3> QED BY <1>9, <3>4, <3>5
  <2>3. r(HQAtGreen(raw, y, x, 1, 0)) = plus /\ r(HQAtGreen(raw, y, x, 0, 1)) = minus
    BY <1>8, <1>10, <2>1, <2>2
  <2>4. HQPixel(raw, tile, y, x, c, bits)
          = Stored(c, -B, r(HQAtGreen(raw, y, x, 1, 0)), At(raw, y, x), r(HQAtGreen(raw, y, x, 0, 1)))
    BY <1>2, <1>3, <1>12 DEF HQPixel
  <2>5. At(raw, y, x) = own
    <3>1. y + 0 = y /\ x + 0 = x
      OBVIOUS
    <3> QED BY <1>7, <1>12, <3>1
  <2>6. HQPixel(raw, tile, y, x, c, bits) = Stored(c, -B, plus, own, minus)
    BY <2>3, <2>4, <2>5
  <2> QED BY <1>1, <2>6 DEF Stored, own, plus, minus
<1>13. CASE ~G
  <2>1. HQOpposite(raw, y, x) = 8 * plus
    <3>1. HQOpposite(raw, y, x) = 2 * (a(-1, -1) + a(-1, 1) + a(1, -1) + a(1, 1))
            - ((3 * (a(-2, 0) + a(0, -2) + a(0, 2) + a(2, 0)) + 1) \div 2) + 6 * a(0, 0)
      BY Zenon DEF HQOpposite
    <3> HIDE DEF a
    <3>2. HQOpposite(raw, y, x) = 2 * (plus + plus + plus + plus)
            - ((3 * (minus + minus + minus + minus) + 1) \div 2) + 6 * minus
      BY <1>7, <1>13, <3>1
    <3>3. (3 * (minus + minus + minus + minus) + 1) \div 2 = 6 * minus
      BY <1>9
    <3> QED BY <1>9, <3>2, <3>3
  <2>2. HQGreen(raw, y, x) = 8 * own
    <3>1. HQGreen(raw, y, x) = 2 * (a(-1, 0) + a(0, -1) + a(0, 1) + a(1, 0))
            - (a(-2, 0) + a(0, -2) + a(0, 2) + a(2, 0)) + 4 * a(0, 0)
      BY Zenon DEF HQGreen
    <3> HIDE DEF a
    <3>2. HQGreen(raw, y, x) = 2 * (own + own + own + own) - (minus + minus + minus + minus) + 4 * minus
      BY <1>7, <1>13, <3>1
    <3> QED BY <1>9, <3>2
  <2>3. r(HQOpposite(raw, y, x)) = plus /\ r(HQGreen(raw, y, x)) = own
    BY <1>8, <1>10, <2>1, <2>2
  <2>4. HQPixel(raw, tile, y, x, c, bits)
          = Stored(c, -B, r(HQOpposite(raw, y, x)), r(HQGreen(raw, y, x)), At(raw, y, x))
    BY <1>2, <1>3, <1>13 DEF HQPixel
  <2>5. At(raw, y, x) = minus
    <3>1. y + 0 = y /\ x + 0 = x
      OBVIOUS
    <3> QED BY <1>7, <1>13, <3>1
  <2>6. HQPixel(raw, tile, y, x, c, bits) = Stored(c, -B, plus, own, minus)
    BY <2>3, <2>4, <2>5
  <2> QED BY <1>1, <2>6 DEF Stored, own, plus, minus
<1> QED BY <1>12, <1>13

LEMMA HQLinearFlat ==
    ASSUME NEW raw, raw.w \in Nat, raw.h \in Nat, NEW tile \in Tiles, NEW v, NEW bits \in Nat,
           Flat(raw, tile, v, bits), NEW y \in 2 .. raw.h - 3, NEW x \in 2 .. raw.w - 3
    PROVE  /\ bits = 8 => FlatAt(HQLinear(raw, tile), raw.w, y, x, v)
           /\ FlatAt(HQLinear_uint16(raw, tile, bits), raw.w, y, x, v)
<1> DEFINE P == Places(raw.w, 2 .. raw.h - 3, 2 .. raw.w - 3)
           Z == Zero(ClearBorders(raw.w, raw.h, 2))
           f == [j \in P |-> HQPixel(raw, tile, Row(raw.w, j), Column(raw.w, j), j % 3, bits)]
<1>1. ASSUME NEW c \in 0 .. 2, NEW i, i = Offset(raw.w, y, x, c)
      PROVE  i \in DOMAIN Over(f, Z) /\ Over(f, Z)[i] = v[c]
  <2>1. y \in Nat /\ x \in 0 .. raw.w - 1
    OBVIOUS
  <2>2. i \in P
    BY <1>1, PlaceIn
  <2>3. Row(raw.w, i) = y /\ Column(raw.w, i) = x /\ i % 3 = c
    <3> HIDE DEF P, f
    <3> QED BY <1>1, <2>1, PlaceParts
  <2> HIDE DEF P, Z
  <2>4. i \in DOMAIN f /\ f[i] = HQPixel(raw, tile, y, x, c, bits)
    BY <2>2, <2>3
  <2> HIDE DEF f
  <2>5. f[i] = v[c]
    BY <2>4, HQPixelFlat
  <2> QED BY <2>4, <2>5, OverFirst DEF Over
<1>2. bits = 8 => HQLinear(raw, tile) = Over(f, Z)
  BY Zenon DEF HQLinear
<1>3. HQLinear_uint16(raw, tile, bits) = Over(f, Z)
  BY Zenon DEF HQLinear_uint16
<1> HIDE DEF f, Z
<1>4. FlatAt(Over(f, Z), raw.w, y, x, v)
  BY <1>1 DEF FlatAt
<1> QED BY <1>2, <1>3, <1>4

\* VNG starts from a bilinear picture: within two pixels of a place three away from
\* the edge, each component is the colour's value.
LEMMA BilinearFlat ==
    ASSUME NEW raw, raw.w \in Nat, raw.h \in Nat, NEW tile \in Tiles, NEW v, NEW bits \in Nat,
           Flat(raw, tile, v, bits), NEW y \in 1 .. raw.h - 2, NEW x \in 1 .. raw.w - 2
    PROVE  /\ FlatAt(Bilinear(raw, tile), raw.w, y, x, v)
           /\ FlatAt(Bilinear_uint16(raw, tile, bits), raw.w, y, x, v)
<1>1. AllFit(raw, bits)
  BY FlatFits
<1> SUFFICES ASSUME NEW c \in 0 .. 2
             PROVE  /\ Offset(raw.w, y, x, c) \in DOMAIN Bilinear(raw, tile)
                    /\ Bilinear(raw, tile)[Offset(raw.w, y, x, c)] = v[c]
                    /\ Offset(raw.w, y, x, c) \in DOMAIN Bilinear_uint16(raw, tile, bits)
                    /\ Bilinear_uint16(raw, tile, bits)[Offset(raw.w, y, x, c)] = v[c]
  BY DEF FlatAt
<1> DEFINE i == Offset(raw.w, y, x, c)
<1>2. /\ Mixed(raw, tile, Bilinear(raw, tile), i, y, x, c)
      /\ Mixed(raw, tile, Bilinear_uint16(raw, tile, bits), i, y, x, c)
  BY <1>1, BilinearMixes
<1> HIDE DEF i
<1>3. /\ i \in DOMAIN Bilinear(raw, tile) /\ Bilinear(raw, tile)[i] = v[c]
      /\ i \in DOMAIN Bilinear_uint16(raw, tile, bits) /\ Bilinear_uint16(raw, tile, bits)[i] = v[c]
  BY <1>2, MixedFlat
<1> QED BY <1>3 DEF i

LEMMA TotalZero ==
    ASSUME NEW n \in Nat, NEW f, \A k \in 1 .. n : f[k] = 0
    PROVE  Total(f, n) = 0
<1>1. PICK none \in Int : none = 0
  OBVIOUS
<1>2. \A k \in 1 .. n : f[k] \in Int /\ none * f[k] <= f[k] /\ f[k] <= none * f[k]
  BY <1>1
<1>3. Total(f, n) \in Int /\ none * Total(f, n) <= Total(f, n) /\ Total(f, n) <= none * Total(f, n)
  BY <1>2, TotalBetween
<1> QED BY <1>1, <1>3

\* Within two rows and columns of a pixel nothing changes.
FlatAround(first, w, y, x, v) ==
    \A dy \in -2 .. 2, dx \in -2 .. 2, k \in 0 .. 2 : first[3 * ((y + dy) * w + x + dx) + k] = v[k]

\* There the gradients are zero.
LEMMA GradientsFlat ==
    ASSUME NEW w \in Nat, NEW first, NEW v, \A k \in 0 .. 2 : v[k] \in Nat, NEW tile \in Tiles,
           NEW y \in Nat, NEW x \in Nat, y >= 2, x >= 2,
           FlatAround(first, w, y, x, v), NEW g \in 1 .. 8
    PROVE  Gradients(tile, first, w, y, x)[g] = 0
<1> DEFINE pix(dy, dx, k) == first[3 * ((y + dy) * w + x + dx) + k]
           diff(t) == LET c == FC(tile, y + t[1], x + t[2])
                          d == pix(t[1], t[2], c) - pix(t[3], t[4], c)
                      IN  (IF d < 0 THEN -d ELSE d) * 2 ^ t[5]
           code == VNGCode[tile, y % 2, x % 2]
           f(m) == [n \in 1 .. 64 |-> IF n \in code[m] THEN diff(bayervng_terms[n]) ELSE 0]
<1>1. ASSUME NEW n \in 1 .. 64 PROVE diff(bayervng_terms[n]) = 0
  <2> DEFINE t == bayervng_terms[n]  c == FC(tile, y + t[1], x + t[2])
             a == pix(t[1], t[2], c)  b == pix(t[3], t[4], c)
  <2>1. /\ t[1] \in -2 .. 2 /\ t[2] \in -2 .. 2 /\ t[3] \in -2 .. 2 /\ t[4] \in -2 .. 2
        /\ t[5] \in {0, 1}
    BY TermsNear
  <2> HIDE DEF t
  <2>2. y + t[1] \in Nat /\ x + t[2] \in Nat
    BY <2>1
  <2>3. c \in 0 .. 2
    BY <2>2, ColourCode
  <2> HIDE DEF c
  <2>4. a = v[c] /\ b = v[c]
    <3>1. \A dy \in -2 .. 2, dx \in -2 .. 2, k \in 0 .. 2 : pix(dy, dx, k) = v[k]
      BY DEF FlatAround
    <3> HIDE DEF pix
    <3> QED BY <2>1, <2>3, <3>1
  <2> HIDE DEF a, b, pix
  <2>5. v[c] \in Nat
    BY <2>3
  <2>6. a - b = 0
    BY <2>4, <2>5
  <2>7. 2 ^ t[5] \in {1, 2}
    <3>1. 2 ^ 0 = 1 /\ 2 ^ 1 = 2
      OBVIOUS
    <3> QED BY <2>1, <3>1
  <2>8. (IF a - b < 0 THEN -(a - b) ELSE a - b) * 2 ^ t[5] = 0
    <3> DEFINE e == IF a - b < 0 THEN -(a - b) ELSE a - b  p == 2 ^ t[5]
    <3>1. e = 0 /\ p \in {1, 2}
      BY <2>6, <2>7
    <3> HIDE DEF e, p
    <3>2. e * p = 0
      BY <3>1
    <3> QED BY <3>2 DEF e, p
  <2> QED BY <2>8 DEF a, b, c, t
<1> HIDE DEF diff, code
<1>2. ASSUME NEW m PROVE Total(f(m), 64) = 0
  <2>1. \A n \in 1 .. 64 : f(m)[n] = 0
    BY <1>1
  <2> HIDE DEF f
  <2> QED BY <2>1, TotalZero
<1>3. Gradients(tile, first, w, y, x) =
        <<Total(f(1), 64), Total(f(2), 64), Total(f(3), 64), Total(f(4), 64),
          Total(f(5), 64), Total(f(6), 64), Total(f(7), 64), Total(f(8), 64)>>
  BY Zenon DEF Gradients, diff, code
<1> HIDE DEF f
<1>4. g \in {1, 2, 3, 4, 5, 6, 7, 8}
  OBVIOUS
<1> QED BY <1>2, <1>3, <1>4

\* So VNG keeps what it starts from.
LEMMA VNGRowsFlat ==
    ASSUME NEW raw, raw.w \in Nat, raw.h \in Nat, NEW tile \in Tiles, NEW bits \in Nat, NEW g,
           NEW v, \A k \in 0 .. 2 : v[k] \in Nat,
           NEW y \in 3 .. raw.h - 4, NEW x \in 3 .. raw.w - 4,
           \A b \in 1 .. raw.h - 2, a \in 1 .. raw.w - 2 : FlatAt(g, raw.w, b, a, v)
    PROVE  FlatAt(VNGRows(raw, tile, bits, g), raw.w, y, x, v)
<1> DEFINE P == Places(raw.w, 2 .. raw.h - 3, 2 .. raw.w - 3)
           Z == Zero(Places(raw.w, {n \in {raw.h - 4, raw.h - 3} : raw.h >= 4 /\ n < 2},
                            2 .. raw.w - 3))
           f == [j \in P |->
                   VNGPixel(tile, g, raw.w, bits, Row(raw.w, j), Column(raw.w, j), j % 3)]
<1>1. y \in Nat /\ x \in Nat /\ x \in 0 .. raw.w - 1 /\ y >= 2 /\ x >= 2
  OBVIOUS
<1>2. ASSUME NEW dy \in -2 .. 2, NEW dx \in -2 .. 2, NEW k \in 0 .. 2
      PROVE  g[3 * ((y + dy) * raw.w + x + dx) + k] = v[k]
  <2>1. PICK b \in 1 .. raw.h - 2 : b = y + dy
    OBVIOUS
  <2>2. PICK a \in 1 .. raw.w - 2 : a = x + dx
    OBVIOUS
  <2>3. g[Offset(raw.w, b, a, k)] = v[k]
    BY DEF FlatAt
  <2>4. Offset(raw.w, b, a, k) = 3 * ((y + dy) * raw.w + x + dx) + k
    <3> DEFINE p == b * raw.w
    <3>1. p \in Int
      OBVIOUS
    <3>2. Offset(raw.w, b, a, k) = 3 * (p + a) + k
      BY DEF Offset
    <3>3. 3 * ((y + dy) * raw.w + x + dx) + k = 3 * (p + x + dx) + k
      BY <2>1
    <3> HIDE DEF p
    <3> QED BY <2>2, <3>1, <3>2, <3>3
  <2> QED BY <2>3, <2>4
<1>3. ASSUME NEW c \in 0 .. 2 PROVE VNGPixel(tile, g, raw.w, bits, y, x, c) = v[c]
  <2> DEFINE G == Gradients(tile, g, raw.w, y, x)
             T == Threshold(G)
  <2>1. VNGPixel(tile, g, raw.w, bits, y, x, c) = VNGMean(tile, g, raw.w, bits, y, x, c, G, T)
    BY DEF VNGPixel
  <2>2. \A n \in 1 .. 8 : G[n] = 0
    <3>1. FlatAround(g, raw.w, y, x, v)
      BY <1>2 DEF FlatAround
    <3>2. ASSUME NEW n \in 1 .. 8 PROVE Gradients(tile, g, raw.w, y, x)[n] = 0
      <4> HIDE DEF G, P, Z, f
      <4> QED BY <1>1, <3>1, GradientsFlat
    <3> QED BY <3>2
  <2> HIDE DEF G, T
  <2>3. VNGMean(tile, g, raw.w, bits, y, x, c, G, T) = g[3 * ((y + 0) * raw.w + x + 0) + c]
    BY <2>2, Zenon DEF VNGMean
  <2>4. g[3 * ((y + 0) * raw.w + x + 0) + c] = v[c]
    <3>1. PICK z \in -2 .. 2 : z = 0
      OBVIOUS
    <3>2. g[3 * ((y + z) * raw.w + x + z) + c] = v[c]
      BY <1>2
    <3> QED BY <3>1, <3>2, Zenon
  <2> QED BY <2>1, <2>3, <2>4, Zenon
<1>4. ASSUME NEW c \in 0 .. 2, NEW i, i = Offset(raw.w, y, x, c)
      PROVE  i \in DOMAIN Over(f, Z) /\ Over(f, Z)[i] = v[c]
  <2>1. i \in P
    <3>1. y \in 2 .. raw.h - 3 /\ x \in 2 .. raw.w - 3
      OBVIOUS
    <3> QED BY <1>4, <3>1, PlaceIn
  <2>2. Row(raw.w, i) = y /\ Column(raw.w, i) = x /\ i % 3 = c
    <3> HIDE DEF P, f
    <3> QED BY <1>1, <1>4, PlaceParts
  <2> HIDE DEF P, Z
  <2>3. i \in DOMAIN f
           /\ f[i] = VNGPixel(tile, g, raw.w, bits, Row(raw.w, i), Column(raw.w, i), i % 3)
    BY <2>1, Zenon
  <2> HIDE DEF f
  <2>4. f[i] = v[c]
    BY <1>3, <2>2, <2>3
  <2> QED BY <2>3, <2>4, OverFirst DEF Over
<1>5. VNGRows(raw, tile, bits, g) = Over(f, Z)
  BY Zenon DEF VNGRows
<1> HIDE DEF f, Z
<1>6. FlatAt(Over(f, Z), raw.w, y, x, v)
  BY <1>4 DEF FlatAt
<1> QED BY <1>5, <1>6

LEMMA VNGFlat ==
    ASSUME NEW raw, raw.w \in Nat, raw.h \in Nat, NEW tile \in Tiles, NEW v, NEW bits \in Nat,
           Flat(raw, tile, v, bits), NEW old, NEW y \in 3 .. raw.h - 4, NEW x \in 3 .. raw.w - 4
    PROVE  /\ bits = 8 => FlatAt(VNG(raw, tile, old), raw.w, y, x, v)
           /\ FlatAt(VNG_uint16(raw, tile, bits, old), raw.w, y, x, v)
<1> DEFINE A == Bilinear(raw, tile)  B == Bilinear_uint16(raw, tile, bits)
<1>1. \A k \in 0 .. 2 : v[k] \in Nat
  BY DEF Flat, Fits
<1>2. ASSUME NEW b \in 1 .. raw.h - 2, NEW a \in 1 .. raw.w - 2
      PROVE  FlatAt(A, raw.w, b, a, v) /\ FlatAt(B, raw.w, b, a, v)
  BY BilinearFlat
<1>3. VNG(raw, tile, old) = Over(VNGRows(raw, tile, 8, Over(A, old)), A)
  BY DEF VNG
<1>4. VNG_uint16(raw, tile, bits, old) = Over(VNGRows(raw, tile, bits, Over(B, old)), B)
  BY DEF VNG_uint16
<1> HIDE DEF A, B
<1>5. ASSUME NEW g, \A b \in 1 .. raw.h - 2, a \in 1 .. raw.w - 2 : FlatAt(g, raw.w, b, a, v)
      PROVE  FlatAt(Over(VNGRows(raw, tile, bits, Over(g, old)), g), raw.w, y, x, v)
  <2> DEFINE h == Over(g, old)  r == VNGRows(raw, tile, bits, h)
  <2>1. \A b \in 1 .. raw.h - 2, a \in 1 .. raw.w - 2 : FlatAt(h, raw.w, b, a, v)
    BY <1>5 DEF FlatAt, Over
  <2> HIDE DEF h
  <2>2. FlatAt(r, raw.w, y, x, v)
    BY <1>1, <2>1, VNGRowsFlat
  <2> HIDE DEF r
  <2>3. FlatAt(Over(r, g), raw.w, y, x, v)
    BY <2>2 DEF FlatAt, Over
  <2> QED BY <2>3 DEF r, h
<1>6. FlatAt(Over(VNGRows(raw, tile, bits, Over(A, old)), A), raw.w, y, x, v)
  BY <1>2, <1>5
<1>7. FlatAt(Over(VNGRows(raw, tile, bits, Over(B, old)), B), raw.w, y, x, v)
  BY <1>2, <1>5
<1> QED BY <1>3, <1>4, <1>6, <1>7

\* At a red or blue sample green is limited by its two neighbours, in either
\* direction.
LEMMA AHDGreenFlat ==
    ASSUME NEW raw, raw.w \in Nat, raw.h \in Nat, NEW tile \in Tiles, NEW v, NEW bits,
           Flat(raw, tile, v, bits), NEW top \in Nat, NEW left \in Nat, NEW d \in 0 .. 1,
           NEW y \in 2 .. raw.h - 3, NEW x \in 2 .. raw.w - 3,
           y \in top .. top + TS - 1, x \in left .. left + TS - 1, Colour(tile, y, x) # 1
    PROVE  AHDGreen(raw, top, left, d, y, x) = v[1]
<1> DEFINE a(n) == IF d = 0 THEN At(raw, y, x + n) ELSE At(raw, y + n, x)
           val  == (2 * (a(-1) + a(0) + a(1)) - a(-2) - a(2)) \div 4
           low  == IF a(-1) < a(1) THEN a(-1) ELSE a(1)
           high == IF a(-1) < a(1) THEN a(1) ELSE a(-1)
           inside == /\ y \in top .. top + TS - 1 /\ y \in 2 .. raw.h - 3
                     /\ x \in left .. left + TS - 1 /\ x \in 2 .. raw.w - 3
<1>1. AHDGreen(raw, top, left, d, y, x)
        = IF inside THEN IF val < low THEN low ELSE IF val > high THEN high ELSE val ELSE 0
  BY Zenon DEF AHDGreen
<1>2. inside
  OBVIOUS
<1>3. a(-2) \in Nat /\ a(-1) \in Nat /\ a(0) \in Nat /\ a(1) \in Nat /\ a(2) \in Nat
  <2>1. ASSUME NEW n \in -2 .. 2 PROVE a(n) \in Nat
    <3>1. /\ y \in 0 .. raw.h - 1 /\ x + n \in 0 .. raw.w - 1
          /\ y + n \in 0 .. raw.h - 1 /\ x \in 0 .. raw.w - 1
      OBVIOUS
    <3>2. AllFit(raw, bits)
      BY FlatFits
    <3>3. At(raw, y, x + n) \in Nat /\ At(raw, y + n, x) \in Nat
      BY <3>1, <3>2, Zenon DEF AllFit, Fits
    <3> QED BY <3>3
  <2> HIDE DEF a
  <2> QED BY <2>1
<1>4. a(-1) = v[1] /\ a(1) = v[1]
  <2>1. y \in Nat /\ x \in Nat /\ y \in 1 .. raw.h - 2 /\ x \in 1 .. raw.w - 2
    OBVIOUS
  <2>2. ~GreenStep(tile, y, x)
    BY <2>1, ColourStep
  <2>3. ASSUME NEW dy \in {-1, 0, 1}, NEW dx \in {-1, 0, 1}, (dy = 0) # (dx = 0)
        PROVE  At(raw, y + dy, x + dx) = v[1]
    <3>1. FlatNext(raw, tile, v, y, x, dy, dx)
      BY <2>1, FlatNine
    <3> QED BY <2>2, <2>3, <3>1, Zenon DEF FlatNext
  <2>4. /\ At(raw, y + 0, x + -1) = v[1] /\ At(raw, y + 0, x + 1) = v[1]
        /\ At(raw, y + -1, x + 0) = v[1] /\ At(raw, y + 1, x + 0) = v[1]
    BY <2>3
  <2>5. y + 0 = y /\ x + 0 = x
    OBVIOUS
  <2> QED BY <2>4, <2>5
<1> HIDE DEF a, inside
<1>5. val \in Int /\ low = v[1] /\ high = v[1] /\ v[1] \in Nat
  BY <1>3, <1>4
<1> HIDE DEF val, low, high
<1> QED BY <1>1, <1>2, <1>5

\* The other colours follow the difference to green, which is the same all around.
LEMMA AHDColourFlat ==
    ASSUME NEW raw, raw.w \in Nat, raw.h \in Nat, NEW tile \in Tiles, NEW v, NEW bits \in Nat,
           Flat(raw, tile, v, bits), NEW top \in Nat, NEW left \in Nat, NEW d \in 0 .. 1,
           NEW y \in 3 .. raw.h - 4, NEW x \in 3 .. raw.w - 4, InTile(top, y), InTile(left, x),
           NEW c \in 0 .. 2
    PROVE  AHDColour(raw, tile, top, left, d, y, x, c, bits) = v[c]
<1> DEFINE a(dy, dx) == At(raw, y + dy, x + dx)
           g(dy, dx) == AHDGreen(raw, top, left, d, y + dy, x + dx)
           f == FC(tile, y, x)
           e == FC(tile, y + 1, x)
           over(dy, dx) == a(dy, dx) - g(dy, dx)
           beside == a(0, 0) + (IF c = e THEN over(-1, 0) + over(1, 0)
                                ELSE over(0, -1) + over(0, 1)) \div 2
           across == g(0, 0) + (over(-1, -1) + over(-1, 1) + over(1, -1) + over(1, 1) + 1) \div 4
           G == GreenStep(tile, y, x)
           B == BlueAt(tile, y)
           near(dy, dx) == Colour(tile, y + dy, x + dx)
<1>1. AHDColour(raw, tile, top, left, d, y, x, c, bits)
         = IF c = f THEN a(0, 0) ELSE IF c = 1 THEN g(0, 0)
           ELSE IF f = 1 THEN Clip(beside, bits) ELSE Clip(across, bits)
  BY Zenon DEF AHDColour
<1>2. y \in Nat /\ x \in Nat /\ y + 1 \in Nat /\ y \in 1 .. raw.h - 2 /\ x \in 1 .. raw.w - 2 /\ B \in {-1, 1}
  BY DEF BlueAt
<1>3. ASSUME NEW dy \in {-1, 0, 1}, NEW dx \in {-1, 0, 1}
      PROVE  /\ a(dy, dx) = v[near(dy, dx)]
             /\ near(dy, dx) = IF G THEN IF (dy = 0) = (dx = 0) THEN 1 ELSE IF dy = 0 THEN 1 - B ELSE 1 + B
                               ELSE IF (dy = 0) # (dx = 0) THEN 1 ELSE IF dy = 0 THEN 1 - B ELSE 1 + B
             /\ near(dy, dx) # 1 => g(dy, dx) = v[1]
  <2>1. FlatNext(raw, tile, v, y, x, dy, dx)
    BY <1>2, FlatNine
  <2>2. ASSUME near(dy, dx) # 1 PROVE g(dy, dx) = v[1]
    <3>1. PICK b \in 2 .. raw.h - 3 : b = y + dy
      OBVIOUS
    <3>2. PICK k \in 2 .. raw.w - 3 : k = x + dx
      OBVIOUS
    <3>3. b \in top .. top + TS - 1 /\ k \in left .. left + TS - 1
      BY <3>1, <3>2, TSAssumption DEF InTile
    <3>4. Colour(tile, b, k) # 1
      BY <2>2, <3>1, <3>2
    <3>5. AHDGreen(raw, top, left, d, b, k) = v[1]
      BY SMTT(60), <3>3, <3>4, AHDGreenFlat
    <3> QED BY <3>1, <3>2, <3>5, Zenon
  <2> QED BY <2>1, <2>2, Zenon DEF FlatNext
<1>4. f = near(0, 0) /\ e = near(1, 0)
  <2>1. f = Colour(tile, y, x) /\ e = Colour(tile, y + 1, x)
    BY <1>2, ColourCode
  <2>2. y + 0 = y /\ x + 0 = x
    OBVIOUS
  <2> QED BY <2>1, <2>2, Zenon
<1>5. \A k \in 0 .. 2 : v[k] \in Nat /\ Clip(v[k], bits) = v[k]
  BY ClipKeeps DEF Flat, Fits
<1> HIDE DEF a, g, f, e, G, B, near
<1>6. CASE G
  <2>1. f = 1 /\ e = 1 + B /\ a(0, 0) = v[1]
    BY <1>3, <1>4, <1>6
  <2>2. /\ near(-1, 0) = 1 + B /\ near(1, 0) = 1 + B
        /\ near(0, -1) = 1 - B /\ near(0, 1) = 1 - B
    BY <1>3, <1>6
  <2>3. /\ a(-1, 0) = v[1 + B] /\ a(1, 0) = v[1 + B]
        /\ a(0, -1) = v[1 - B] /\ a(0, 1) = v[1 - B]
    BY <1>3, <2>2
  <2>4. g(-1, 0) = v[1] /\ g(1, 0) = v[1] /\ g(0, -1) = v[1] /\ g(0, 1) = v[1]
    BY <1>2, <1>3, <2>2
  <2>5. c # 1 /\ c = e => beside = v[c]
    <3> SUFFICES ASSUME c # 1, c = e PROVE beside = v[c]
      OBVIOUS
    <3>1. PICK p \in Nat, q \in Nat : p = v[c] /\ q = v[1]
      BY <1>5
    <3>2. over(-1, 0) = p - q /\ over(1, 0) = p - q
      BY <2>1, <2>3, <2>4, <3>1
    <3>3. beside = q + (over(-1, 0) + over(1, 0)) \div 2
      BY <2>1, <3>1
    <3> HIDE DEF over, beside
    <3> QED BY <3>1, <3>2, <3>3
  <2>6. c # 1 /\ c # e => beside = v[c]
    <3> SUFFICES ASSUME c # 1, c # e PROVE beside = v[c]
      OBVIOUS
    <3>1. PICK p \in Nat, q \in Nat : p = v[c] /\ q = v[1]
      BY <1>5
    <3>2. c = 1 - B
      BY <1>2, <2>1
    <3>3. over(0, -1) = p - q /\ over(0, 1) = p - q
      BY <2>3, <2>4, <3>1, <3>2
    <3>4. beside = q + (over(0, -1) + over(0, 1)) \div 2
      BY <2>1, <3>1
    <3> HIDE DEF over, beside
    <3> QED BY <3>1, <3>3, <3>4
  <2> HIDE DEF beside, across, over
  <2> QED BY <1>1, <1>5, <2>1, <2>5, <2>6
<1>7. CASE ~G
  <2>1. f = 1 - B /\ a(0, 0) = v[1 - B] /\ near(0, 0) = 1 - B
    BY <1>3, <1>4, <1>7
  <2>2. f # 1 /\ g(0, 0) = v[1]
    BY <1>2, <1>3, <2>1
  <2>3. /\ near(-1, -1) = 1 + B /\ near(-1, 1) = 1 + B
        /\ near(1, -1) = 1 + B /\ near(1, 1) = 1 + B
    BY <1>3, <1>7
  <2>4. /\ a(-1, -1) = v[1 + B] /\ a(-1, 1) = v[1 + B]
        /\ a(1, -1) = v[1 + B] /\ a(1, 1) = v[1 + B]
    BY <1>3, <2>3
  <2>5. g(-1, -1) = v[1] /\ g(-1, 1) = v[1] /\ g(1, -1) = v[1] /\ g(1, 1) = v[1]
    BY <1>2, <1>3, <2>3
  <2>6. c # 1 /\ c # f => across = v[c]
    <3> SUFFICES ASSUME c # 1, c # f PROVE across = v[c]
      OBVIOUS
    <3>1. PICK p \in Nat, q \in Nat : p = v[c] /\ q = v[1]
      BY <1>5
    <3>2. c = 1 + B
      BY <1>2, <2>1
    <3>3. /\ over(-1, -1) = p - q /\ over(-1, 1) = p - q
          /\ over(1, -1) = p - q /\ over(1, 1) = p - q
      BY <2>4, <2>5, <3>1, <3>2
    <3>4. across = q + (over(-1, -1) + over(-1, 1) + over(1, -1) + over(1, 1) + 1) \div 4
      BY <2>2, <3>1
    <3>5. PICK r \in Int : r = p - q
      OBVIOUS
    <3>6. (r + r + r + r + 1) \div 4 = r
      BY SMTT(30)
    <3> HIDE DEF over, across
    <3> QED BY <3>1, <3>3, <3>4, <3>5, <3>6
  <2> HIDE DEF beside, across, over
  <2> QED BY <1>1, <1>5, <2>1, <2>2, <2>6
<1> QED BY <1>6, <1>7

LEMMA AHDCombineFlat ==
    ASSUME NEW raw, raw.w \in Nat, raw.h \in Nat, NEW tile \in Tiles, NEW v, NEW bits \in Nat,
           Flat(raw, tile, v, bits), NEW win \in 0 .. 2,
           NEW y \in 3 .. raw.h - 4, NEW x \in 3 .. raw.w - 4, NEW c \in 0 .. 2
    PROVE  AHDCombine(raw, tile, win, y, x, c, bits) = v[c]
<1> DEFINE top == TopOf(y, raw.h)  left == TopOf(x, raw.w)
           u == [d \in 0 .. 1 |-> AHDColour(raw, tile, top, left, d, y, x, c, bits)]
           value == IF win = 2 THEN (u[0] + u[1]) \div 2 ELSE u[win]
<1>1. AHDCombine(raw, tile, win, y, x, c, bits) = Clip(value, bits)
  BY Zenon DEF AHDCombine
<1>2. ASSUME NEW size \in Nat, NEW n \in 3 .. size - 4
      PROVE  TopOf(n, size) \in Nat /\ InTile(TopOf(n, size), n)
  <2>1. \E t \in Tops(size) : InTile(t, n)
    BY TilesMeet
  <2>2. TopOf(n, size) \in Tops(size) /\ InTile(TopOf(n, size), n)
    BY <2>1, Zenon DEF TopOf
  <2>3. Tops(size) \subseteq Nat
    BY DEF Tops
  <2> QED BY <2>2, <2>3
<1>3. top \in Nat /\ left \in Nat /\ InTile(top, y) /\ InTile(left, x)
  BY <1>2
<1> HIDE DEF top, left
<1>4. \A d \in 0 .. 1 : AHDColour(raw, tile, top, left, d, y, x, c, bits) = v[c]
  BY <1>3, AHDColourFlat
<1>5. \A d \in 0 .. 1 : u[d] = v[c]
  BY <1>4
<1> HIDE DEF u
<1>6. Fits(v[c], bits)
  BY DEF Flat
<1>7. u[0] = v[c] /\ u[1] = v[c] /\ (win = 0 \/ win = 1 \/ win = 2) /\ v[c] \in Nat
  BY <1>5, <1>6 DEF Fits
<1>8. value = v[c]
  <2>1. (v[c] + v[c]) \div 2 = v[c]
    BY <1>7
  <2> QED BY <1>7, <2>1
<1>9. Clip(v[c], bits) = v[c]
  BY <1>6, ClipKeeps
<1> QED BY <1>1, <1>8, <1>9

LEMMA AHDBorderFlat ==
    ASSUME NEW raw, raw.w \in Nat, raw.h \in Nat, raw.w >= 2, raw.h >= 2, NEW tile \in Tiles, NEW v, NEW bits,
           Flat(raw, tile, v, bits), NEW y \in 0 .. raw.h - 1, NEW x \in 0 .. raw.w - 1, NEW c \in 0 .. 2
    PROVE  AHDBorder(raw, tile, y, x, c) = v[c]
<1>1. PICK u \in Nat : u = v[c]
  BY DEF Flat, Fits
<1>2. \A b \in 0 .. raw.h - 1, a \in 0 .. raw.w - 1 :
         Colour(tile, b, a) = c => At(raw, b, a) \in Nat /\ u <= At(raw, b, a) /\ At(raw, b, a) <= u
  <2>1. \A b \in 0 .. raw.h - 1, a \in 0 .. raw.w - 1 : Colour(tile, b, a) = c => At(raw, b, a) = u
    BY <1>1, Zenon DEF Flat
  <2> QED BY <2>1
<1>3. /\ AHDBorder(raw, tile, y, x, c) \in Nat /\ u <= AHDBorder(raw, tile, y, x, c)
      /\ AHDBorder(raw, tile, y, x, c) <= u
  BY <1>2, BorderBetween
<1> QED BY <1>1, <1>3

LEMMA AHDFlat ==
    ASSUME NEW raw, raw.w \in Nat, raw.h \in Nat, raw.w >= 2, raw.h >= 2, NEW tile \in Tiles, NEW v,
           NEW bits \in Nat, Flat(raw, tile, v, bits), NEW win \in 0 .. 2,
           NEW y \in 0 .. raw.h - 1, NEW x \in 0 .. raw.w - 1
    PROVE  FlatAt(AHDRows(raw, tile, win, bits), raw.w, y, x, v)
<1> DEFINE inner(size) == {n \in 3 .. size - 4 : \E top \in Tops(size) : InTile(top, n)}
           all(size)   == 0 .. size - 1
           outer(size) == all(size) \ (3 .. size - 4)
           samples == {j \in Places(raw.w, all(raw.h), all(raw.w)) :
                          j % 3 = FC(tile, Row(raw.w, j), Column(raw.w, j))}
           I == Places(raw.w, inner(raw.h), inner(raw.w))
           O == Places(raw.w, outer(raw.h), all(raw.w)) \cup Places(raw.w, all(raw.h), outer(raw.w))
           f == [j \in I |-> AHDCombine(raw, tile, win, Row(raw.w, j), Column(raw.w, j), j % 3, bits)]
           g == [j \in O |-> AHDBorder(raw, tile, Row(raw.w, j), Column(raw.w, j), j % 3)]
           k == [j \in samples |-> raw.s[j \div 3]]
<1>1. AHDRows(raw, tile, win, bits) = Over(f, Over(g, k))
  BY Zenon DEF AHDRows
<1> SUFFICES ASSUME NEW c \in 0 .. 2, NEW i, i = Offset(raw.w, y, x, c)
             PROVE  i \in DOMAIN Over(f, Over(g, k)) /\ Over(f, Over(g, k))[i] = v[c]
  <2> HIDE DEF f, g, k
  <2> QED BY <1>1 DEF FlatAt
<1>2. Row(raw.w, i) = y /\ Column(raw.w, i) = x /\ i % 3 = c
  <2> HIDE DEF f, g, k, I, O, samples
  <2>1. y \in Nat
    OBVIOUS
  <2> QED BY <2>1, PlaceParts
<1>3. i \in I => y \in 3 .. raw.h - 4 /\ x \in 3 .. raw.w - 4
  <2> SUFFICES ASSUME i \in I PROVE y \in 3 .. raw.h - 4 /\ x \in 3 .. raw.w - 4
    OBVIOUS
  <2>1. inner(raw.h) \in SUBSET Nat /\ inner(raw.w) \subseteq 0 .. raw.w - 1
    OBVIOUS
  <2>2. inner(raw.h) \subseteq 3 .. raw.h - 4 /\ inner(raw.w) \subseteq 3 .. raw.w - 4
    OBVIOUS
  <2> HIDE DEF inner, f, g, k, O, samples
  <2>3. Row(raw.w, i) \in inner(raw.h) /\ Column(raw.w, i) \in inner(raw.w)
    BY <2>1, PlaceOf
  <2> QED BY <1>2, <2>2, <2>3
<1>4. i \in I \/ i \in O
  <2>1. y \in inner(raw.h) \/ y \in outer(raw.h)
    BY TilesMeet
  <2>2. x \in inner(raw.w) \/ x \in outer(raw.w)
    BY TilesMeet
  <2>3. y \in all(raw.h) /\ x \in all(raw.w)
    OBVIOUS
  <2> HIDE DEF inner, outer, all, f, g, k, samples
  <2>4. CASE y \in inner(raw.h) /\ x \in inner(raw.w)
    BY <2>4, PlaceIn
  <2>5. CASE y \in outer(raw.h)
    <3>1. i \in Places(raw.w, outer(raw.h), all(raw.w))
      BY <2>3, <2>5, PlaceIn
    <3> QED BY <3>1
  <2>6. CASE x \in outer(raw.w)
    <3>1. i \in Places(raw.w, all(raw.h), outer(raw.w))
      BY <2>3, <2>6, PlaceIn
    <3> QED BY <3>1
  <2> QED BY <2>1, <2>2, <2>4, <2>5, <2>6
<1> HIDE DEF samples, I, O
<1>5. DOMAIN f = I /\ DOMAIN g = O
  BY Zenon
<1>6. i \in I => f[i] = v[c]
  <2> SUFFICES ASSUME i \in I PROVE f[i] = v[c]
    OBVIOUS
  <2>1. f[i] = AHDCombine(raw, tile, win, Row(raw.w, i), Column(raw.w, i), i % 3, bits)
    BY Zenon
  <2>2. y \in 3 .. raw.h - 4 /\ x \in 3 .. raw.w - 4
    BY <1>3
  <2> HIDE DEF f, g, k
  <2>3. AHDCombine(raw, tile, win, y, x, c, bits) = v[c]
    BY <2>2, AHDCombineFlat
  <2> QED BY <1>2, <2>1, <2>3, Zenon
<1>7. i \in O => g[i] = v[c]
  <2> SUFFICES ASSUME i \in O PROVE g[i] = v[c]
    OBVIOUS
  <2>1. g[i] = AHDBorder(raw, tile, Row(raw.w, i), Column(raw.w, i), i % 3)
    BY Zenon
  <2> HIDE DEF f, g, k
  <2>2. AHDBorder(raw, tile, y, x, c) = v[c]
    BY AHDBorderFlat
  <2> QED BY <1>2, <2>1, <2>2, Zenon
<1> HIDE DEF f, g, k
<1> QED BY <1>4, <1>5, <1>6, <1>7, Zenon DEF Over

\* Where a method's picture is made of samples on all sides (see Edge, Inside).
Interior(method, w, h, y, x) ==
    LET last == IF method \in {"NEAREST", "SIMPLE"} THEN 1 ELSE Edge(method)
    IN  y \in Edge(method) .. h - 1 - last /\ x \in Edge(method) .. w - 1 - last

LEMMA NearestFlat ==
    ASSUME NEW raw, raw.w \in Nat, raw.h \in Nat, NEW tile \in Tiles, NEW v, NEW bits \in Nat,
           Flat(raw, tile, v, bits), NEW y \in 0 .. raw.h - 2, NEW x \in 0 .. raw.w - 2
    PROVE  /\ FlatAt(NearestNeighbor(raw, tile), raw.w, y, x, v)
           /\ FlatAt(NearestNeighbor_uint16(raw, tile, bits), raw.w, y, x, v)
           /\ FlatAt(Simple(raw, tile), raw.w, y, x, v)
           /\ FlatAt(Simple_uint16(raw, tile, bits), raw.w, y, x, v)
<1>1. AllFit(raw, bits)
  BY FlatFits
<1>2. ASSUME NEW dec, \A c \in 0 .. 2 : Mixed(raw, tile, dec, Offset(raw.w, y, x, c), y, x, c)
      PROVE  FlatAt(dec, raw.w, y, x, v)
  <2> SUFFICES ASSUME NEW c \in 0 .. 2
               PROVE  Offset(raw.w, y, x, c) \in DOMAIN dec /\ dec[Offset(raw.w, y, x, c)] = v[c]
    BY Zenon DEF FlatAt
  <2>1. Mixed(raw, tile, dec, Offset(raw.w, y, x, c), y, x, c)
    BY <1>2
  <2> QED BY <2>1, MixedFlat
<1>3. ASSUME NEW c \in 0 .. 2
      PROVE  LET i == Offset(raw.w, y, x, c)
             IN  /\ Mixed(raw, tile, NearestNeighbor(raw, tile), i, y, x, c)
                 /\ Mixed(raw, tile, NearestNeighbor_uint16(raw, tile, bits), i, y, x, c)
                 /\ Mixed(raw, tile, Simple(raw, tile), i, y, x, c)
                 /\ Mixed(raw, tile, Simple_uint16(raw, tile, bits), i, y, x, c)
  BY <1>1, NearestMixes
<1> QED BY <1>2, <1>3

\* Every method but DOWNSAMPLE, and that in 8 and in 16 bits.
LEMMA DecodersFlat ==
    ASSUME NEW raw, raw.w \in Nat, raw.h \in Nat, raw.w >= 4, raw.h >= 4,
           NEW tile \in Tiles, NEW v, NEW bits \in Nat, Flat(raw, tile, v, bits),
           NEW win \in 0 .. 2, NEW method, NEW old,
           NEW y, NEW x, Interior(method, raw.w, raw.h, y, x)
    PROVE  /\ method = "NEAREST" => /\ FlatAt(NearestNeighbor(raw, tile), raw.w, y, x, v)
                                    /\ FlatAt(NearestNeighbor_uint16(raw, tile, bits), raw.w, y, x, v)
           /\ method = "SIMPLE" => /\ FlatAt(Simple(raw, tile), raw.w, y, x, v)
                                   /\ FlatAt(Simple_uint16(raw, tile, bits), raw.w, y, x, v)
           /\ method = "BILINEAR" => /\ FlatAt(Bilinear(raw, tile), raw.w, y, x, v)
                                     /\ FlatAt(Bilinear_uint16(raw, tile, bits), raw.w, y, x, v)
           /\ method = "HQLINEAR" => /\ bits = 8 => FlatAt(HQLinear(raw, tile), raw.w, y, x, v)
                                     /\ FlatAt(HQLinear_uint16(raw, tile, bits), raw.w, y, x, v)
           /\ method = "VNG" => /\ bits = 8 => FlatAt(VNG(raw, tile, old), raw.w, y, x, v)
                                /\ FlatAt(VNG_uint16(raw, tile, bits, old), raw.w, y, x, v)
           /\ method = "AHD" => FlatAt(AHDRows(raw, tile, win, bits), raw.w, y, x, v)
<1>1. CASE method \in {"NEAREST", "SIMPLE"}
  <2>1. y \in 0 .. raw.h - 2 /\ x \in 0 .. raw.w - 2
    BY <1>1 DEF Interior, Edge
  <2> QED BY <1>1, <2>1, NearestFlat
<1>2. CASE method = "BILINEAR"
  <2>1. y \in 1 .. raw.h - 2 /\ x \in 1 .. raw.w - 2
    BY <1>2 DEF Interior, Edge
  <2> QED BY <1>2, <2>1, BilinearFlat
<1>3. CASE method = "HQLINEAR"
  <2>1. y \in 2 .. raw.h - 3 /\ x \in 2 .. raw.w - 3
    BY <1>3 DEF Interior, Edge
  <2> QED BY <1>3, <2>1, HQLinearFlat
<1>4. CASE method = "VNG"
  <2>1. y \in 3 .. raw.h - 4 /\ x \in 3 .. raw.w - 4
    BY <1>4 DEF Interior, Edge
  <2> QED BY <1>4, <2>1, VNGFlat
<1>5. CASE method = "AHD"
  <2>1. y \in 0 .. raw.h - 1 /\ x \in 0 .. raw.w - 1 /\ raw.w >= 2 /\ raw.h >= 2
    BY <1>5 DEF Interior, Edge
  <2> QED BY <1>5, <2>1, AHDFlat
<1> QED BY <1>1, <1>2, <1>3, <1>4, <1>5

LEMMA Decoding8Flat ==
    ASSUME NEW in, in.size[1] \in Nat, in.size[2] \in Nat, in.size[1] >= 4, in.size[2] >= 4,
           in.filter \in Tiles, NEW out, NEW win \in 0 .. 2, NEW method \in Methods \ {"DOWNSAMPLE"},
           NEW v, Flat(Raw(in, in.image), in.filter, v, 8),
           NEW y, NEW x, Interior(method, in.size[1], in.size[2], y, x),
           NEW d \in bayer_decoding_8bit(in, out, method, win)
    PROVE  FlatAt(d, in.size[1], y, x, v)
<1> DEFINE r == Raw(in, in.image)  t == in.filter
           D8 == bayer_decoding_8bit(in, out, method, win)
<1>1. /\ method = "NEAREST"    => D8 = {NearestNeighbor(r, t)}
      /\ method = "SIMPLE"     => D8 = {Simple(r, t)}
      /\ method = "BILINEAR"   => D8 = {Bilinear(r, t)}
      /\ method = "HQLINEAR"   => D8 = {HQLinear(r, t)}
      /\ method = "VNG"        => D8 = {VNG(r, t, out.image)}
      /\ method = "AHD"        => D8 = {AHD(r, t, win)}
      /\ method = "EDGESENSE"  => D8 = {}
  BY DEF bayer_decoding_8bit, Raw
<1>2. AHD(r, t, win) = AHDRows(r, t, win, 8)
  BY Zenon DEF AHD
<1>3. r.w = in.size[1] /\ r.h = in.size[2]
  BY DEF Raw
<1>4. PICK B \in Nat : B = 8
  OBVIOUS
<1> HIDE DEF r, t, D8
<1>5. /\ method = "NEAREST" => FlatAt(NearestNeighbor(r, t), r.w, y, x, v)
      /\ method = "SIMPLE" => FlatAt(Simple(r, t), r.w, y, x, v)
      /\ method = "BILINEAR" => FlatAt(Bilinear(r, t), r.w, y, x, v)
      /\ method = "HQLINEAR" => FlatAt(HQLinear(r, t), r.w, y, x, v)
      /\ method = "VNG" => FlatAt(VNG(r, t, out.image), r.w, y, x, v)
      /\ method = "AHD" => FlatAt(AHDRows(r, t, win, B), r.w, y, x, v)
  <2>1. /\ r.w \in Nat /\ r.h \in Nat /\ r.w >= 4 /\ r.h >= 4 /\ t \in Tiles
        /\ Flat(r, t, v, B) /\ Interior(method, r.w, r.h, y, x)
    BY <1>3, <1>4 DEF r, t
  <2> QED BY <1>4, <2>1, DecodersFlat
<1>6. FlatAt(d, r.w, y, x, v)
  BY <1>1, <1>2, <1>4, <1>5 DEF Methods, D8
<1> QED BY <1>3, <1>6

LEMMA Decoding16Flat ==
    ASSUME NEW in, in.size[1] \in Nat, in.size[2] \in Nat, in.size[1] >= 4, in.size[2] >= 4,
           in.filter \in Tiles, NEW out, NEW win \in 0 .. 2, NEW method \in Methods \ {"DOWNSAMPLE"},
           NEW bits \in Nat, NEW v, Flat(Raw(in, Samples16(in)), in.filter, v, bits),
           NEW y, NEW x, Interior(method, in.size[1], in.size[2], y, x),
           NEW d \in bayer_decoding_16bit(in, out, method, bits, win)
    PROVE  FlatAt(d, in.size[1], y, x, v)
<1> DEFINE r == Raw(in, Samples16(in))  t == in.filter  old == Old16(out)
           D16 == bayer_decoding_16bit(in, out, method, bits, win)
<1>1. /\ method = "NEAREST"    => D16 = {NearestNeighbor_uint16(r, t, bits)}
      /\ method = "SIMPLE"     => D16 = {Simple_uint16(r, t, bits)}
      /\ method = "BILINEAR"   => D16 = {Bilinear_uint16(r, t, bits)}
      /\ method = "HQLINEAR"   => D16 = {HQLinear_uint16(r, t, bits)}
      /\ method = "VNG"        => D16 = {VNG_uint16(r, t, bits, old)}
      /\ method = "AHD"        => D16 = {AHD_uint16(r, t, bits, win)}
      /\ method = "EDGESENSE"  => D16 = {}
  BY DEF bayer_decoding_16bit, Raw, Samples16, Old16
<1>2. AHD_uint16(r, t, bits, win) = AHDRows(r, t, win, bits)
  BY Zenon DEF AHD_uint16
<1>3. r.w = in.size[1] /\ r.h = in.size[2]
  BY DEF Raw
<1> HIDE DEF r, t, old, D16
<1>4. /\ method = "NEAREST" => FlatAt(NearestNeighbor_uint16(r, t, bits), r.w, y, x, v)
      /\ method = "SIMPLE" => FlatAt(Simple_uint16(r, t, bits), r.w, y, x, v)
      /\ method = "BILINEAR" => FlatAt(Bilinear_uint16(r, t, bits), r.w, y, x, v)
      /\ method = "HQLINEAR" => FlatAt(HQLinear_uint16(r, t, bits), r.w, y, x, v)
      /\ method = "VNG" => FlatAt(VNG_uint16(r, t, bits, old), r.w, y, x, v)
      /\ method = "AHD" => FlatAt(AHDRows(r, t, win, bits), r.w, y, x, v)
  <2>1. /\ r.w \in Nat /\ r.h \in Nat /\ r.w >= 4 /\ r.h >= 4 /\ t \in Tiles
        /\ Flat(r, t, v, bits) /\ Interior(method, r.w, r.h, y, x)
    BY <1>3 DEF r, t
  <2> QED BY <2>1, DecodersFlat
<1>5. FlatAt(d, r.w, y, x, v)
  BY <1>1, <1>2, <1>4 DEF Methods, D16
<1> QED BY <1>3, <1>5

\* A colour that has one value in the frame has it at each of its samples.
LEMMA FlatColour ==
    ASSUME NEW in, in.size \in Nat \X Nat, NEW c, FlatValue(in, c) # {}
    PROVE  \E u : /\ FlatValue(in, c) = {u}
                  /\ \A y \in Rows(in), x \in Columns(in) :
                        ColourAt(in, y, x) = c => RawSample(in, y, x) = u
                  /\ \E y \in Rows(in), x \in Columns(in) : RawSample(in, y, x) = u
<1> DEFINE S == {p \in Rows(in) \X Columns(in) : ColourAt(in, p[1], p[2]) = c}
           f == [p \in S |-> RawSample(in, p[1], p[2])]
           T == {RawSample(in, p[1], p[2]) : p \in S}
<1>1. IsFiniteSet(S)
  <2>1. in.size[1] \in Nat /\ in.size[2] \in Nat
    OBVIOUS
  <2>2. IsFiniteSet(Rows(in)) /\ IsFiniteSet(Columns(in))
    <3>1. in.size[1] - 1 \in Int /\ in.size[2] - 1 \in Int /\ 0 \in Int
      BY <2>1
    <3>2. IsFiniteSet(0 .. in.size[1] - 1) /\ IsFiniteSet(0 .. in.size[2] - 1)
      BY <3>1, FS_Interval, Zenon
    <3> QED BY <3>2, Zenon DEF Rows, Columns
  <2>3. IsFiniteSet(Rows(in) \X Columns(in))
    BY <2>2, FS_Product
  <2>4. S \in SUBSET (Rows(in) \X Columns(in))
    BY Zenon
  <2> HIDE DEF S
  <2> QED BY <2>3, <2>4, FS_Subset
<1>2. f \in Surjection(S, T)
  <2> HIDE DEF S
  <2>1. f \in [S -> T]
    OBVIOUS
  <2>2. \A t \in T : \E s \in S : f[s] = t
    OBVIOUS
  <2> HIDE DEF f, T
  <2> QED BY <2>1, <2>2, Zenon DEF Surjection
<1>3. IsFiniteSet(T)
  <2> HIDE DEF S, T, f
  <2> QED BY <1>1, <1>2, FS_Surjection
<1>4. FlatValue(in, c) = IF Cardinality(T) = 1 THEN T ELSE {}
  BY Zenon DEF FlatValue
<1>5. PICK u : T = {u}
  <2> HIDE DEF T, S
  <2>1. Cardinality(T) = 1
    BY <1>4
  <2> QED BY <1>3, <2>1, FS_Singleton
<1>6. FlatValue(in, c) = {u}
  <2> HIDE DEF T, S
  <2> QED BY <1>4, <1>5
<1>7. ASSUME NEW y \in Rows(in), NEW x \in Columns(in), ColourAt(in, y, x) = c
      PROVE  RawSample(in, y, x) = u
  <2>1. <<y, x>> \in S
    BY <1>7
  <2>2. RawSample(in, <<y, x>>[1], <<y, x>>[2]) \in T
    BY <2>1, Zenon
  <2> HIDE DEF T, S
  <2>3. RawSample(in, y, x) \in T
    BY <2>2
  <2> QED BY <1>5, <2>3
<1>8. \E y \in Rows(in), x \in Columns(in) : RawSample(in, y, x) = u
  <2>1. u \in T
    BY <1>5, Zenon
  <2>2. PICK p \in S : u = RawSample(in, p[1], p[2])
    BY <2>1, Zenon
  <2>3. p[1] \in Rows(in) /\ p[2] \in Columns(in)
    BY <2>2
  <2> QED BY <2>2, <2>3
<1> QED BY <1>6, <1>7, <1>8

\* A frame whose three colours have one value each is a flat scene for the decoders.
LEMMA FlatFrame ==
    ASSUME NEW in, MemoryOK(in), Described(in), Readable(in), in.filter \in Tiles,
           in.coding \in {"RAW16", "MONO16", "RAW8", "MONO8"},
           \A c \in 0 .. 2 : FlatValue(in, c) # {}
    PROVE  \E v : /\ \A c \in 0 .. 2 : FlatValue(in, c) = {v[c]}
                  /\ Wide(in) => Flat(Raw(in, Samples16(in)), in.filter, v, in.depth)
                  /\ ~Wide(in) => Flat(Raw(in, in.image), in.filter, v, 8)
<1> DEFINE Value(c, u) == /\ FlatValue(in, c) = {u}
                          /\ \A y \in Rows(in), x \in Columns(in) :
                                ColourAt(in, y, x) = c => RawSample(in, y, x) = u
                          /\ \E y \in Rows(in), x \in Columns(in) : RawSample(in, y, x) = u
           v == [c \in 0 .. 2 |-> CHOOSE u : Value(c, u)]
<1>1. in.size \in Nat \X Nat
  BY DEF Described
<1>2. ASSUME NEW c \in 0 .. 2 PROVE Value(c, v[c])
  <2>1. \E u : Value(c, u)
    BY <1>1, FlatColour
  <2> HIDE DEF Value
  <2>2. Value(c, CHOOSE u : Value(c, u))
    BY <2>1, Zenon
  <2> QED BY <2>2
<1> HIDE DEF v
<1>3. ASSUME NEW s, NEW bits, AllFit(Raw(in, s), bits),
             \A y \in Rows(in), x \in Columns(in) : At(Raw(in, s), y, x) = RawSample(in, y, x)
      PROVE  Flat(Raw(in, s), in.filter, v, bits)
  <2> DEFINE r == Raw(in, s)
  <2>1. r.w = in.size[1] /\ r.h = in.size[2]
    BY DEF Raw
  <2>2. 0 .. r.h - 1 = Rows(in) /\ 0 .. r.w - 1 = Columns(in)
    BY <2>1, Zenon DEF Rows, Columns
  <2> HIDE DEF r
  <2>3. \A y \in Rows(in), x \in Columns(in) : At(r, y, x) = RawSample(in, y, x) /\ Fits(At(r, y, x), bits)
    BY <1>3, <2>2, Zenon DEF AllFit, r
  <2>4. ASSUME NEW y \in Rows(in), NEW x \in Columns(in)
        PROVE  At(r, y, x) = v[Colour(in.filter, y, x)]
    <3>1. y \in Nat /\ x \in Nat
      BY DEF Rows, Columns
    <3>2. Colour(in.filter, y, x) \in 0 .. 2
      BY <3>1, ColourCode
    <3>3. ColourAt(in, y, x) = Colour(in.filter, y, x)
      BY Zenon DEF ColourAt, Colour
    <3>4. RawSample(in, y, x) = v[Colour(in.filter, y, x)]
      BY <1>2, <3>2, <3>3, Zenon
    <3> QED BY <2>3, <3>4
  <2>5. ASSUME NEW c \in 0 .. 2 PROVE Fits(v[c], bits)
    <3>1. PICK y \in Rows(in), x \in Columns(in) : RawSample(in, y, x) = v[c]
      BY <1>2, Zenon
    <3> QED BY <2>3, <3>1
  <2>6. Flat(r, in.filter, v, bits)
    BY <2>2, <2>4, <2>5, Zenon DEF Flat
  <2> QED BY <2>6 DEF r
<1>4. Wide(in) => Flat(Raw(in, Samples16(in)), in.filter, v, in.depth)
  <2> SUFFICES ASSUME Wide(in) PROVE Flat(Raw(in, Samples16(in)), in.filter, v, in.depth)
    OBVIOUS
  <2> QED BY <1>3, ReadableRaw, Zenon
<1>5. ~Wide(in) => Flat(Raw(in, in.image), in.filter, v, 8)
  <2> SUFFICES ASSUME ~Wide(in) PROVE Flat(Raw(in, in.image), in.filter, v, 8)
    OBVIOUS
  <2> QED BY <1>3, ReadableRaw, Zenon
<1>6. \A c \in 0 .. 2 : FlatValue(in, c) = {v[c]}
  BY <1>2
<1> QED BY <1>4, <1>5, <1>6

\* A decoded flat scene is that scene.
LEMMA DebayerFlat ==
    ASSUME hostBig \in BOOLEAN, NEW in, MemoryOK(in), Described(in), Readable(in),
           in.size[1] > 4, in.size[2] > 3, \A c \in 0 .. 2 : FlatValue(in, c) # {},
           NEW out, DOMAIN out = Fields, MemoryOK(out), NEW method, method # "DOWNSAMPLE",
           NEW fill, NEW work, NEW win \in 0 .. 2,
           NEW o \in Debayered(in, out, method, fill, work, win), o.err = "SUCCESS",
           NEW y, NEW x, Interior(method, in.size[1], in.size[2], y, x), NEW c \in 0 .. 2
    PROVE  Component(o.out, y, x, c) \in FlatValue(in, c)
<1> DEFINE a == Adapt_buffer_bayer(in, out, method, fill)
           wide == in.coding \in {"RAW16", "MONO16"}
           D8 == bayer_decoding_8bit(in, a, method, win)
           D16 == bayer_decoding_16bit(in, a, method, in.depth, win)
           i == Offset(in.size[1], y, x, c)
<1>1. /\ method \in Methods /\ in.filter \in Tiles /\ in.coding \in {"RAW16", "MONO16", "RAW8", "MONO8"}
      /\ o.out.size = DecodedSize(in.size, method) /\ o.out.coding = (IF wide THEN "RGB16" ELSE "RGB8")
      /\ \E d \in IF wide THEN D16 ELSE D8 :
            \A j \in DOMAIN d : j \in Nat /\ d[j] \in Nat => Holds(o, wide, d, j)
  <2>1. DebayerResult(o, in, out, method, fill, win)
    BY DebayerStores
  <2> QED BY <2>1 DEF DebayerResult
<1>2. PICK d \in IF wide THEN D16 ELSE D8 :
            \A j \in DOMAIN d : j \in Nat /\ d[j] \in Nat => Holds(o, wide, d, j)
  BY <1>1
<1>3. /\ in.size[1] \in Nat /\ in.size[2] \in Nat
      /\ in.size[1] >= 4 /\ in.size[2] >= 4 /\ in.depth \in Nat
  BY DEF Described
<1>4. o.out.size = in.size
  BY <1>1 DEF DecodedSize
<1>5. PICK v : /\ \A k \in 0 .. 2 : FlatValue(in, k) = {v[k]}
               /\ Wide(in) => Flat(Raw(in, Samples16(in)), in.filter, v, in.depth)
               /\ ~Wide(in) => Flat(Raw(in, in.image), in.filter, v, 8)
  BY <1>1, FlatFrame
<1>6. Wide(in) <=> wide
  BY <1>1 DEF Wide
<1> HIDE DEF a
<1>7. FlatAt(d, in.size[1], y, x, v) /\ \A k \in 0 .. 2 : v[k] \in Nat
  <2>1. CASE wide
    <3>1. d \in D16 /\ Flat(Raw(in, Samples16(in)), in.filter, v, in.depth)
      BY <1>2, <1>5, <1>6, <2>1
    <3>2. PICK bits \in Nat : bits = in.depth
      BY <1>3
    <3>3. d \in bayer_decoding_16bit(in, a, method, bits, win) /\ Flat(Raw(in, Samples16(in)), in.filter, v, bits)
      BY <3>1, <3>2
    <3> HIDE DEF wide, D16, D8, i
    <3>4. FlatAt(d, in.size[1], y, x, v)
      BY <1>1, <1>3, <3>3, Decoding16Flat
    <3>5. \A k \in 0 .. 2 : v[k] \in Nat
      BY <3>3 DEF Flat, Fits
    <3> QED BY <3>4, <3>5
  <2>2. CASE ~wide
    <3>1. d \in D8 /\ Flat(Raw(in, in.image), in.filter, v, 8)
      BY <1>2, <1>5, <1>6, <2>2
    <3>2. d \in bayer_decoding_8bit(in, a, method, win)
      BY <3>1
    <3> HIDE DEF wide, D16, D8, i
    <3>3. FlatAt(d, in.size[1], y, x, v)
      BY <1>1, <1>3, <3>1, <3>2, Decoding8Flat
    <3>4. \A k \in 0 .. 2 : v[k] \in Nat
      BY <3>1 DEF Flat, Fits
    <3> QED BY <3>3, <3>4
  <2> QED BY <2>1, <2>2
<1>8. y \in Nat /\ x \in Nat /\ i \in Nat /\ i = 3 * (y * in.size[1] + x) + c
  <2>1. y \in Nat /\ x \in Nat
    <3>1. Edge(method) \in Nat
      BY DEF Edge
    <3> QED BY <3>1 DEF Interior
  <2>2. y * in.size[1] + x \in Nat
    BY <1>3, <2>1
  <2>3. i = 3 * (y * in.size[1] + x) + c
    BY DEF Offset
  <2> HIDE DEF i
  <2> QED BY <2>1, <2>2, <2>3
<1> HIDE DEF i, D8, D16
<1>9. i \in DOMAIN d /\ d[i] = v[c]
  BY <1>7, Zenon DEF FlatAt, i
<1>10. Holds(o, wide, d, i)
  BY <1>2, <1>7, <1>8, <1>9
<1>11. Wide(o.out) <=> wide
  BY <1>1 DEF Wide
<1> HIDE DEF wide
<1>12. Component(o.out, y, x, c) = IF wide THEN Host(o.out.image, i) ELSE o.out.image[i]
  BY <1>4, <1>8, <1>11 DEF Component
<1>13. Component(o.out, y, x, c) = v[c]
  BY <1>9, <1>10, <1>12 DEF Holds
<1> QED BY <1>5, <1>13

LEMMA DebayerKeepsFlat == Inv /\ hostBig \in BOOLEAN /\ Debayer => FlatSceneKept'
<1> SUFFICES ASSUME Inv, hostBig \in BOOLEAN, Debayer PROVE FlatSceneKept'
  OBVIOUS
<1>1. frame[1].size[1] > 4 /\ frame[1].size[2] > 3
  BY DEF Debayer
<1>2. PICK method \in Methods \cup {"none"}, fill \in Fills \cup {NoMemory}, work \in BOOLEAN :
        \E win \in IF frame[1].filter \in Tiles THEN 0 .. 2 ELSE {0} :
           \E outcome \in Debayered(frame[1], frame[2], method, fill, work, win) :
                  Call(1, "debayer", method, outcome)
  BY Zenon DEF Debayer
<1>3. PICK win \in 0 .. 2 :
         \E outcome \in Debayered(frame[1], frame[2], method, fill, work, win) :
            Call(1, "debayer", method, outcome)
  <2>1. \A n \in IF frame[1].filter \in Tiles THEN 0 .. 2 ELSE {0} : n \in 0 .. 2
    OBVIOUS
  <2> QED BY <1>2, <2>1
<1>4. PICK o \in Debayered(frame[1], frame[2], method, fill, work, win) : Call(1, "debayer", method, o)
  BY <1>3
<1>5. /\ DOMAIN frame = 1 .. 3 /\ Described(frame[1])
      /\ MemoryOK(frame[1]) /\ MemoryOK(frame[2]) /\ DOMAIN frame[2] = Fields
  BY FramesAssumption DEF Inv
<1>6. /\ frame'[1] = frame[1] /\ frame'[2] = o.out /\ hostBig' = hostBig
      /\ made'[2].op = "debayer" /\ made'[2].arg = method /\ made'[2].err = o.err
  <2>1. /\ frame' = [frame EXCEPT ![1 + 1] = o.out] /\ hostBig' = hostBig
        /\ made' = [j \in 2 .. 3 |-> IF j = 1 + 1 THEN [op |-> "debayer", arg |-> method, err |-> o.err]
                                    ELSE IF j > 1 THEN NotMade ELSE made[j]]
    BY <1>4 DEF Call
  <2> QED BY <1>5, <2>1
<1>7. ASSUME NEW c PROVE FlatValue(frame[1], c)' = FlatValue(frame[1], c)
  BY <1>6 DEF FlatValue, ColourAt, RawSample, Host, Wide, Rows, Columns
<1> SUFFICES ASSUME o.err = "SUCCESS", method # "DOWNSAMPLE", Readable(frame[1])',
                    \A c \in 0 .. 2 : FlatValue(frame[1], c) # {},
                    NEW p \in Inside(frame[1], made[2].arg)', NEW c \in 0 .. 2
             PROVE  (Component(frame[2], p[1], p[2], c) \in FlatValue(frame[1], c))'
  BY <1>6, <1>7 DEF FlatSceneKept, Decoded, Made
<1>8. Readable(frame[1])
  BY <1>6 DEF Readable, RawSample, Host, Wide, Rows, Columns
<1>9. Interior(method, frame[1].size[1], frame[1].size[2], p[1], p[2])
  BY <1>6 DEF Inside, Interior, Rows, Columns
<1>10. Component(o.out, p[1], p[2], c) \in FlatValue(frame[1], c)
  BY <1>1, <1>4, <1>5, <1>8, <1>9, DebayerFlat
<1>11. Component(frame[2], p[1], p[2], c)' = Component(o.out, p[1], p[2], c)
  BY <1>6 DEF Component, Host, Wide
<1> QED BY <1>7, <1>10, <1>11

LEMMA OthersKeepFlat ==
    ASSUME Inv, FlatSceneKept, Convert(1) \/ Convert(2) \/ Deinterlace \/ Capture \/ UNCHANGED vars
    PROVE  FlatSceneKept'
<1>1. CASE made'[2].op # "debayer"
  BY <1>1 DEF FlatSceneKept, Decoded, Made
<1>2. CASE /\ frame'[1] = frame[1] /\ frame'[2] = frame[2]
           /\ made'[2] = made[2] /\ hostBig' = hostBig
  <2>1. Readable(frame[1])' = Readable(frame[1])
    BY <1>2 DEF Readable, RawSample, Host, Wide, Rows, Columns
  <2>2. ASSUME NEW c PROVE FlatValue(frame[1], c)' = FlatValue(frame[1], c)
    BY <1>2 DEF FlatValue, ColourAt, RawSample, Host, Wide, Rows, Columns
  <2> SUFFICES ASSUME Decoded(Methods \ {"DOWNSAMPLE"})', \A c \in 0 .. 2 : FlatValue(frame[1], c) # {},
                      NEW p \in Inside(frame[1], made[2].arg)', NEW c \in 0 .. 2
               PROVE  (Component(frame[2], p[1], p[2], c) \in FlatValue(frame[1], c))'
    BY <2>2 DEF FlatSceneKept
  <2>3. Decoded(Methods \ {"DOWNSAMPLE"})
    BY <1>2, <2>1 DEF Decoded, Made
  <2>4. p \in Inside(frame[1], made[2].arg)
    BY <1>2 DEF Inside, Rows, Columns
  <2>5. Component(frame[2], p[1], p[2], c) \in FlatValue(frame[1], c)
    BY <2>3, <2>4 DEF FlatSceneKept
  <2>6. Component(frame[2], p[1], p[2], c)' = Component(frame[2], p[1], p[2], c)
    BY <1>2 DEF Component, Host, Wide
  <2> QED BY <2>2, <2>5, <2>6
<1> QED BY <1>1, <1>2, OthersLeave

\* Every method but DOWNSAMPLE shows a scene without detail as it is: each of the
\* three colours, inside the method's border, is the one value the scene has of it.
THEOREM FlatStays == Spec => []FlatSceneKept
<1> DEFINE J == Inv /\ hostBig \in BOOLEAN /\ FlatSceneKept
<1>1. Init => J
  <2> SUFFICES ASSUME Init PROVE J
    OBVIOUS
  <2>1. hostBig \in BOOLEAN
    BY DEF Init
  <2>2. made[2].op # "debayer"
    BY DEF Init, NotMade
  <2>3. FlatSceneKept
    BY <2>2 DEF FlatSceneKept, Decoded, Made
  <2> QED BY <2>1, <2>3, Starts
<1>2. J /\ [Next]_vars => J'
  <2> SUFFICES ASSUME J, [Next]_vars PROVE J'
    OBVIOUS
  <2>1. Inv'
    BY Keeps
  <2>2. hostBig' \in BOOLEAN
    <3>1. hostBig' = hostBig
      BY Zenon DEF Next, Debayer, Convert, Deinterlace, Capture, Call, vars
    <3> QED BY <3>1
  <2>3. FlatSceneKept'
    BY DebayerKeepsFlat, OthersKeepFlat DEF Next
  <2> QED BY <2>1, <2>2, <2>3
<1>3. J => FlatSceneKept
  OBVIOUS
<1> QED BY <1>1, <1>2, <1>3, PTL DEF Spec
=============================================================================

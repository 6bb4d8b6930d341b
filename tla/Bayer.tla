------------------------------- MODULE Bayer -------------------------------
(***************************************************************************)
(* The decoders of bayer.c.  A raw picture is a record [w, h, s]: width,   *)
(* height and the samples in raster order, from offset 0.  A decoder gives *)
(* the components it stores: a function from offsets 3 * (w * y + x) + c   *)
(* of the output (c = 0, 1, 2 for R, G, B) to values; what is not in its   *)
(* domain it leaves as it was.  The 8-bit and the 16-bit version of a      *)
(* decoder are two functions of the code, and two definitions here; they   *)
(* share an operator as far as their code is the same.                     *)
(*                                                                         *)
(* The code walks its pointers over pairs of pixels, a step that starts on *)
(* green first; here a pixel's value is given by its place.                *)
(***************************************************************************)
EXTENDS Integers, Sequences, FiniteSets

CONSTANT TS        \* side of the tiles AHD works in (256 in the code)

ASSUME TSAssumption == TS \in Nat /\ TS > 6

Tiles == {"RGGB", "GBRG", "GRBG", "BGGR"}       \* MIN..MAX of the filters

At(raw, y, x) == raw.s[y * raw.w + x]

\* The offsets of the components of some pixels, and the pixel of an offset.
Places(w, rows, cols) == {3 * (y * w + x) + c : y \in rows, x \in cols, c \in 0 .. 2}
Row(w, i)    == (i \div 3) \div w
Column(w, i) == (i \div 3) % w

Zero(offsets) == [i \in offsets |-> 0]

\* What f stores, and where it stores nothing, what g does.
Over(f, g) == [i \in DOMAIN f \cup DOMAIN g |-> IF i \in DOMAIN f THEN f[i] ELSE g[i]]

Clip(v, bits) == IF v < 0 THEN 0 ELSE IF v >= 2 ^ bits THEN 2 ^ bits - 1 ELSE v

\* C divides towards zero.
Quotient(a, b) == IF a >= 0 THEN a \div b ELSE -((-a) \div b)

\* f[1] + ... + f[n].
Total(f, n) ==
    LET upto[k \in 0 .. n] == IF k = 0 THEN 0 ELSE upto[k - 1] + f[k] IN upto[n]

-----------------------------------------------------------------------------
(* Black edges: the last row and column, or a border of width k.           *)
LastRowAndColumn(w, h) ==
    (3 * w * (h - 1) .. 3 * w * h - 1)
        \cup {3 * (w - 1) + 3 * w * k + c : k \in 0 .. h - 1, c \in 0 .. 2}

ClearBorders(w, h, k) ==
    LET low == 3 * w * (k - 1) + 3 * k - 1
    IN  (0 .. 3 * w * k - 1) \cup (3 * w * (h - k) .. 3 * w * h - 1)
            \cup {low + 3 * w * n - j : n \in 1 .. h - 2 * k + 1, j \in 0 .. 6 * k - 1}

(* The decoders taken from OpenCV: in each row `blue' tells at which side  *)
(* of G a colour is stored and `start_with_green' what the row starts with;*)
(* both change from row to row.                                            *)
BlueAt(tile, y) ==
    IF (tile \in {"BGGR", "GBRG"}) = (y % 2 = 0) THEN -1 ELSE 1
GreenStep(tile, y, x) ==
    ((tile \in {"GBRG", "GRBG"}) = (y % 2 = 0)) = (x % 2 = 0)
\* Component c of rgb[-blue] = minus, rgb[0] = green, rgb[blue] = plus.
Stored(c, blue, minus, green, plus) ==
    IF c = 1 THEN green ELSE IF c = 1 - blue THEN minus ELSE plus

NearestPixel(raw, tile, y, x, c) ==
    IF GreenStep(tile, y, x)
    THEN Stored(c, BlueAt(tile, y), At(raw, y, x + 1), At(raw, y + 1, x + 1), At(raw, y + 1, x))
    ELSE Stored(c, BlueAt(tile, y), At(raw, y, x), At(raw, y, x + 1), At(raw, y + 1, x + 1))

NearestNeighbor(raw, tile) ==
    Over([i \in Places(raw.w, 0 .. raw.h - 2, 0 .. raw.w - 2) |->
             NearestPixel(raw, tile, Row(raw.w, i), Column(raw.w, i), i % 3)],
         Zero(LastRowAndColumn(raw.w, raw.h)))

NearestNeighbor_uint16(raw, tile, bits) ==
    Over([i \in Places(raw.w, 0 .. raw.h - 2, 0 .. raw.w - 2) |->
             NearestPixel(raw, tile, Row(raw.w, i), Column(raw.w, i), i % 3)],
         Zero(LastRowAndColumn(raw.w, raw.h)))

\* Faulty: the step on green takes the right and the lower sample the wrong way round.
SimplePixelCrossed(raw, tile, y, x, c) ==
    Stored(c, BlueAt(tile, y),
           IF GreenStep(tile, y, x) THEN At(raw, y + 1, x) ELSE At(raw, y, x),
           At(raw, y, x),
           IF GreenStep(tile, y, x) THEN At(raw, y, x + 1) ELSE At(raw, y + 1, x + 1))
SimplePixel(raw, tile, y, x, c) ==
    IF GreenStep(tile, y, x)
    THEN Stored(c, BlueAt(tile, y), At(raw, y, x + 1),
                (At(raw, y, x) + At(raw, y + 1, x + 1) + 1) \div 2, At(raw, y + 1, x))
    ELSE Stored(c, BlueAt(tile, y), At(raw, y, x),
                (At(raw, y, x + 1) + At(raw, y + 1, x) + 1) \div 2, At(raw, y + 1, x + 1))

Simple(raw, tile) ==
    Over([i \in Places(raw.w, 0 .. raw.h - 2, 0 .. raw.w - 2) |->
             SimplePixel(raw, tile, Row(raw.w, i), Column(raw.w, i), i % 3)],
         Zero(LastRowAndColumn(raw.w, raw.h)))

\* Faulty: the side of blue does not change after a row.
BilinearPixelOneSided(raw, tile, y, x, c) ==
    LET a(dy, dx) == At(raw, y + dy, x + dx)
    IN  IF GreenStep(tile, y - 1, x - 1)
        THEN Stored(c, BlueAt(tile, 0), (a(-1, 0) + a(1, 0) + 1) \div 2,
                    a(0, 0), (a(0, -1) + a(0, 1) + 1) \div 2)
        ELSE Stored(c, BlueAt(tile, 0),
                    (a(-1, -1) + a(-1, 1) + a(1, -1) + a(1, 1) + 2) \div 4,
                    (a(-1, 0) + a(0, -1) + a(0, 1) + a(1, 0) + 2) \div 4, a(0, 0))
BilinearPixel(raw, tile, y, x, c) ==
    LET a(dy, dx) == At(raw, y + dy, x + dx)
    IN  IF GreenStep(tile, y - 1, x - 1)
        THEN Stored(c, BlueAt(tile, y - 1), (a(-1, 0) + a(1, 0) + 1) \div 2,
                    a(0, 0), (a(0, -1) + a(0, 1) + 1) \div 2)
        ELSE Stored(c, BlueAt(tile, y - 1),
                    (a(-1, -1) + a(-1, 1) + a(1, -1) + a(1, 1) + 2) \div 4,
                    (a(-1, 0) + a(0, -1) + a(0, 1) + a(1, 0) + 2) \div 4, a(0, 0))

Bilinear(raw, tile) ==
    Over([i \in Places(raw.w, 1 .. raw.h - 2, 1 .. raw.w - 2) |->
             BilinearPixel(raw, tile, Row(raw.w, i), Column(raw.w, i), i % 3)],
         Zero(ClearBorders(raw.w, raw.h, 1)))

\* The 16-bit version clears no border.
Bilinear_uint16(raw, tile, bits) ==
    [i \in Places(raw.w, 1 .. raw.h - 2, 1 .. raw.w - 2) |->
        BilinearPixel(raw, tile, Row(raw.w, i), Column(raw.w, i), i % 3)]

-----------------------------------------------------------------------------
(* HQLinear: kernels of 5 by 5, in eighths, rounded and clipped.           *)
\* At a green sample: the colour above and below it (n, s), or beside it.
HQAtGreen(raw, y, x, dy, dx) ==
    LET a(i, j) == At(raw, y + i, x + j)
    IN  5 * a(0, 0) + 4 * (a(dy, dx) + a(-dy, -dx))
            - a(2 * dy, 2 * dx) - a(-2 * dy, -2 * dx)
            - a(-1, -1) - a(-1, 1) - a(1, -1) - a(1, 1)
            + ((a(2 * dx, 2 * dy) + a(-2 * dx, -2 * dy) + 1) \div 2)
\* At a red or blue sample: the opposite colour, and green.
\* (Faulty: the centre weighs five eighths instead of six.)
HQOppositeFive(raw, y, x) ==
    LET a(i, j) == At(raw, y + i, x + j)
    IN  2 * (a(-1, -1) + a(-1, 1) + a(1, -1) + a(1, 1))
            - ((3 * (a(-2, 0) + a(0, -2) + a(0, 2) + a(2, 0)) + 1) \div 2) + 5 * a(0, 0)
HQOpposite(raw, y, x) ==
    LET a(i, j) == At(raw, y + i, x + j)
    IN  2 * (a(-1, -1) + a(-1, 1) + a(1, -1) + a(1, 1))
            - ((3 * (a(-2, 0) + a(0, -2) + a(0, 2) + a(2, 0)) + 1) \div 2) + 6 * a(0, 0)
HQGreen(raw, y, x) ==
    LET a(i, j) == At(raw, y + i, x + j)
    IN  2 * (a(-1, 0) + a(0, -1) + a(0, 1) + a(1, 0))
            - (a(-2, 0) + a(0, -2) + a(0, 2) + a(2, 0)) + 4 * a(0, 0)

HQPixel(raw, tile, y, x, c, bits) ==
    LET r(t) == Clip((t + 4) \div 8, bits)
    IN  IF GreenStep(tile, y - 2, x - 2)
        THEN Stored(c, -BlueAt(tile, y - 2), r(HQAtGreen(raw, y, x, 1, 0)), At(raw, y, x),
                    r(HQAtGreen(raw, y, x, 0, 1)))
        ELSE Stored(c, -BlueAt(tile, y - 2), r(HQOpposite(raw, y, x)), r(HQGreen(raw, y, x)),
                    At(raw, y, x))

HQLinear(raw, tile) ==
    Over([i \in Places(raw.w, 2 .. raw.h - 3, 2 .. raw.w - 3) |->
             HQPixel(raw, tile, Row(raw.w, i), Column(raw.w, i), i % 3, 8)],
         Zero(ClearBorders(raw.w, raw.h, 2)))

HQLinear_uint16(raw, tile, bits) ==
    Over([i \in Places(raw.w, 2 .. raw.h - 3, 2 .. raw.w - 3) |->
             HQPixel(raw, tile, Row(raw.w, i), Column(raw.w, i), i % 3, bits)],
         Zero(ClearBorders(raw.w, raw.h, 2)))

-----------------------------------------------------------------------------
(* Coriander's decoders: outR is component 0 or 2, by the tile.  Of the    *)
(* two by two samples from (y, x), the one of given parities.              *)
OutR(tile) == IF tile \in {"GRBG", "BGGR"} THEN 0 ELSE 2
GreenFirst(tile) == tile \in {"GRBG", "GBRG"}
Sample(raw, y, x, py, px) == At(raw, y + ((y + py) % 2), x + ((x + px) % 2))

Downsample(raw, tile) ==
    [i \in {3 * ((y * raw.w) \div 4 + x \div 2) + c :
                y \in {n \in 0 .. raw.h - 1 : n % 2 = 0},
                x \in {n \in 0 .. raw.w - 1 : n % 2 = 0}, c \in 0 .. 2} |->
        LET y == 2 * ((i \div 3) \div (raw.w \div 2))
            x == 2 * ((i \div 3) % (raw.w \div 2))
            green == IF GreenFirst(tile) THEN At(raw, y, x) + At(raw, y + 1, x + 1)
                                        ELSE At(raw, y + 1, x) + At(raw, y, x + 1)
        IN  IF i % 3 = 1 THEN green \div 2
            ELSE IF i % 3 = OutR(tile)
                 THEN IF GreenFirst(tile) THEN At(raw, y, x + 1) ELSE At(raw, y + 1, x + 1)
            ELSE IF GreenFirst(tile) THEN At(raw, y + 1, x) ELSE At(raw, y, x)]

\* The 16-bit version takes red (for GBRG: blue) from the lower right sample
\* of every tile.
Downsample_uint16(raw, tile, bits) ==
    [i \in {3 * ((y * raw.w) \div 4 + x \div 2) + c :
                y \in {n \in 0 .. raw.h - 1 : n % 2 = 0},
                x \in {n \in 0 .. raw.w - 1 : n % 2 = 0}, c \in 0 .. 2} |->
        LET y == 2 * ((i \div 3) \div (raw.w \div 2))
            x == 2 * ((i \div 3) % (raw.w \div 2))
            green == IF GreenFirst(tile) THEN At(raw, y, x) + At(raw, y + 1, x + 1)
                                        ELSE At(raw, y + 1, x) + At(raw, y, x + 1)
        IN  Clip(IF i % 3 = 1 THEN green \div 2
                 ELSE IF i % 3 = OutR(tile) THEN At(raw, y + 1, x + 1)
                 ELSE IF GreenFirst(tile) THEN At(raw, y + 1, x) ELSE At(raw, y, x), bits)]

Simple16Pixel(raw, tile, y, x, c, bits) ==
    LET s(py, px) == Sample(raw, y, x, py, px)
    IN  Clip(IF GreenFirst(tile)
             THEN IF c = 1 THEN (s(0, 0) + s(1, 1)) \div 2
                  ELSE IF c = OutR(tile) THEN s(0, 1) ELSE s(1, 0)
             ELSE IF c = 1 THEN (s(0, 1) + s(1, 0)) \div 2
                  ELSE IF c = OutR(tile) THEN s(1, 1) ELSE s(0, 0), bits)
Simple_uint16(raw, tile, bits) ==
    Over(Zero(LastRowAndColumn(raw.w, raw.h)),
         [i \in Places(raw.w, 0 .. raw.h - 2, 0 .. raw.w - 2) |->
             Simple16Pixel(raw, tile, Row(raw.w, i), Column(raw.w, i), i % 3, bits)])

-----------------------------------------------------------------------------
(* VNG and AHD name the colour of a sample with dcraw's bit pattern.       *)
Filters(tile) ==           \* one byte of it: all four are the same
    CASE tile = "BGGR" -> 22 [] tile = "GRBG" -> 97 [] tile = "RGGB" -> 148 [] tile = "GBRG" -> 73
FC(tile, row, col) == (Filters(tile) \div 4 ^ (2 * (row % 2) + (col % 2))) % 4

\* y1, x1, y2, x2, weight and the mask of the gradients a pair counts for.
bayervng_terms == <<
    <<-2,-2,0,-1,0,1>>, <<-2,-2,0,0,1,1>>, <<-2,-1,-1,0,0,1>>, <<-2,-1,0,-1,0,2>>,
    <<-2,-1,0,0,0,3>>, <<-2,-1,0,1,1,1>>, <<-2,0,0,-1,0,6>>, <<-2,0,0,0,1,2>>,
    <<-2,0,0,1,0,3>>, <<-2,1,-1,0,0,4>>, <<-2,1,0,-1,1,4>>, <<-2,1,0,0,0,6>>,
    <<-2,1,0,1,0,2>>, <<-2,2,0,0,1,4>>, <<-2,2,0,1,0,4>>, <<-1,-2,-1,0,0,128>>,
    <<-1,-2,0,-1,0,1>>, <<-1,-2,1,-1,0,1>>, <<-1,-2,1,0,1,1>>, <<-1,-1,-1,1,0,136>>,
    <<-1,-1,1,-2,0,64>>, <<-1,-1,1,-1,0,34>>, <<-1,-1,1,0,0,51>>, <<-1,-1,1,1,1,17>>,
    <<-1,0,-1,2,0,8>>, <<-1,0,0,-1,0,68>>, <<-1,0,0,1,0,17>>, <<-1,0,1,-2,1,64>>,
    <<-1,0,1,-1,0,102>>, <<-1,0,1,0,1,34>>, <<-1,0,1,1,0,51>>, <<-1,0,1,2,1,16>>,
    <<-1,1,1,-1,1,68>>, <<-1,1,1,0,0,102>>, <<-1,1,1,1,0,34>>, <<-1,1,1,2,0,16>>,
    <<-1,2,0,1,0,4>>, <<-1,2,1,0,1,4>>, <<-1,2,1,1,0,4>>, <<0,-2,0,0,1,128>>,
    <<0,-1,0,1,1,136>>, <<0,-1,1,-2,0,64>>, <<0,-1,1,0,0,17>>, <<0,-1,2,-2,0,64>>,
    <<0,-1,2,-1,0,32>>, <<0,-1,2,0,0,48>>, <<0,-1,2,1,1,16>>, <<0,0,0,2,1,8>>,
    <<0,0,2,-2,1,64>>, <<0,0,2,-1,0,96>>, <<0,0,2,0,1,32>>, <<0,0,2,1,0,48>>,
    <<0,0,2,2,1,16>>, <<0,1,1,0,0,68>>, <<0,1,1,2,0,16>>, <<0,1,2,-1,1,64>>,
    <<0,1,2,0,0,96>>, <<0,1,2,1,0,32>>, <<0,1,2,2,0,16>>, <<1,-2,1,0,0,128>>,
    <<1,-1,1,1,0,136>>, <<1,0,1,2,0,8>>, <<1,0,2,-1,0,64>>, <<1,0,2,1,0,16>>
>>
bayervng_chood == <<<<-1, -1>>, <<-1, 0>>, <<-1, 1>>, <<0, 1>>, <<1, 1>>, <<1, 0>>, <<1, -1>>, <<0, -1>>>>

\* The pairs that count at a row and a column, both ends of one colour, for the
\* gradient g.
VNGTerms(tile, row, col, g) ==
    {n \in 1 .. 64 :
        LET t == bayervng_terms[n]
            color == FC(tile, row + t[1], col + t[2])
            diag  == IF FC(tile, row, col + 1) = color /\ FC(tile, row + 1, col) = color
                     THEN 2 ELSE 1
            far(d) == IF d < 0 THEN -d ELSE d
        IN  /\ (t[6] \div 2 ^ g) % 2 = 1
            /\ FC(tile, row + t[3], col + t[4]) = color
            /\ ~(far(t[1] - t[3]) = diag /\ far(t[2] - t[4]) = diag)}
VNGCode ==
    [tile \in Tiles, row \in 0 .. 1, col \in 0 .. 1 |->
        [g \in 1 .. 8 |-> VNGTerms(tile, row, col, g - 1)]]

\* `first' is the picture after the bilinear decoding, pix(dy, dx, c) a component
\* of it near the pixel.
Gradients(tile, first, w, y, x) ==
    LET pix(dy, dx, k) == first[3 * ((y + dy) * w + x + dx) + k]
        diff(t) == LET c == FC(tile, y + t[1], x + t[2])
                       d == pix(t[1], t[2], c) - pix(t[3], t[4], c)
                   IN  (IF d < 0 THEN -d ELSE d) * 2 ^ t[5]
        code    == VNGCode[tile, y % 2, x % 2]
        gval(g) == Total([n \in 1 .. 64 |-> IF n \in code[g] THEN diff(bayervng_terms[n]) ELSE 0], 64)
    IN  <<gval(1), gval(2), gval(3), gval(4), gval(5), gval(6), gval(7), gval(8)>>

Threshold(gval) ==
    LET gmin == CHOOSE m \in {gval[g] : g \in 1 .. 8} : \A g \in 1 .. 8 : gval[g] >= m
        gmax == CHOOSE m \in {gval[g] : g \in 1 .. 8} : \A g \in 1 .. 8 : gval[g] <= m
    IN  gmin + gmax \div 2

VNGMean(tile, first, w, bits, y, x, c, gval, limit) ==
    LET pix(dy, dx, k) == first[3 * ((y + dy) * w + x + dx) + k]
        near  == {g \in 1 .. 8 : gval[g] <= limit}
        color == FC(tile, y, x)
        term(g, k) ==
            LET d == bayervng_chood[g]
            IN  IF /\ k = color /\ FC(tile, y + d[1], x + d[2]) # color
                   /\ FC(tile, y + 2 * d[1], x + 2 * d[2]) = color
                THEN (pix(0, 0, k) + pix(2 * d[1], 2 * d[2], k)) \div 2
                ELSE pix(d[1], d[2], k)
        sum == Total([g \in 1 .. 8 |-> IF g \in near THEN term(g, c) - term(g, color) ELSE 0], 8)
    IN  IF \A g \in 1 .. 8 : gval[g] = 0 THEN pix(0, 0, c)
        ELSE IF c = color THEN Clip(pix(0, 0, c), bits)
        ELSE Clip(pix(0, 0, color) + Quotient(sum, Cardinality(near)), bits)

\* Faulty: 16-bit values are limited to what their type holds, not to their depth.
VNGPixelFull(tile, first, w, bits, y, x, c) ==
    LET Of(gval) == VNGMean(tile, first, w, IF bits > 8 THEN 16 ELSE 8, y, x, c, gval, Threshold(gval))
    IN  Of(Gradients(tile, first, w, y, x))
VNGPixel(tile, first, w, bits, y, x, c) ==
    LET Of(gval) == VNGMean(tile, first, w, bits, y, x, c, gval, Threshold(gval))
    IN  Of(Gradients(tile, first, w, y, x))

\* The methods that calloc() or malloc() memory to work in; neither looks whether
\* there was any.
NeedMemory == {"VNG", "AHD"}

\* The rows pass through a buffer of three, zero at first: below six rows some of
\* it is written back.
VNGRows(raw, tile, bits, first) ==
    Over([i \in Places(raw.w, 2 .. raw.h - 3, 2 .. raw.w - 3) |->
             VNGPixel(tile, first, raw.w, bits, Row(raw.w, i), Column(raw.w, i), i % 3)],
         Zero(Places(raw.w, {y \in {raw.h - 4, raw.h - 3} : raw.h >= 4 /\ y < 2},
                     2 .. raw.w - 3)))

VNG(raw, tile, old) ==
    LET first == Bilinear(raw, tile) IN Over(VNGRows(raw, tile, 8, Over(first, old)), first)

VNG_uint16(raw, tile, bits, old) ==
    LET first == Bilinear_uint16(raw, tile, bits)
    IN  Over(VNGRows(raw, tile, bits, Over(first, old)), first)

-----------------------------------------------------------------------------
(* AHD.  Every sample is stored in its place; a border of three gets the   *)
(* mean of the samples around it; the rest is interpolated twice, along    *)
(* the row (d = 0) and along the column (d = 1), in tiles of TS by TS that *)
(* overlap by six.  Per pixel the code takes the direction that is more    *)
(* homogeneous in CIELab, or the mean of both (win = 2).  Here `win' is    *)
(* free, and the same for all pixels: a pixel is made from samples alone.  *)
AHDBorder(raw, tile, y, x, c) ==
    LET row(n) == y - 1 + (n \div 3)
        col(n) == x - 1 + (n % 3)
        counts(n) == /\ row(n) \in 0 .. raw.h - 1 /\ col(n) \in 0 .. raw.w - 1
                     /\ FC(tile, row(n), col(n)) = c
    IN  IF FC(tile, y, x) = c THEN At(raw, y, x)
        ELSE Total([n \in 1 .. 9 |-> IF counts(n - 1) THEN At(raw, row(n - 1), col(n - 1)) ELSE 0], 9)
                 \div Total([n \in 1 .. 9 |-> IF counts(n - 1) THEN 1 ELSE 0], 9)

\* Faulty: the tiles overlap by five.
TopsApart(size) == {n \in 0 .. size - 1 : n % (TS - 5) = 0}
Tops(size) == {n \in 0 .. size - 1 : n % (TS - 6) = 0}
InTile(top, n) == top + 3 <= n /\ n < top + TS - 3
TopOf(n, size) == CHOOSE top \in Tops(size) : InTile(top, n)

\* Green at a red or blue sample, limited by its two neighbours; nothing but 0
\* outside the tile, and in the two outer rows and columns of the picture.
AHDGreen(raw, top, left, d, y, x) ==
    LET a(n) == IF d = 0 THEN At(raw, y, x + n) ELSE At(raw, y + n, x)
        val  == (2 * (a(-1) + a(0) + a(1)) - a(-2) - a(2)) \div 4
        low  == IF a(-1) < a(1) THEN a(-1) ELSE a(1)
        high == IF a(-1) < a(1) THEN a(1) ELSE a(-1)
    IN  IF /\ y \in top .. top + TS - 1 /\ y \in 2 .. raw.h - 3
           /\ x \in left .. left + TS - 1 /\ x \in 2 .. raw.w - 3
        THEN IF val < low THEN low ELSE IF val > high THEN high ELSE val
        ELSE 0

\* Component c for direction d: the colours follow the difference to green.
AHDColour(raw, tile, top, left, d, y, x, c, bits) ==
    LET a(dy, dx) == At(raw, y + dy, x + dx)
        g(dy, dx) == AHDGreen(raw, top, left, d, y + dy, x + dx)
        f == FC(tile, y, x)
        over(dy, dx) == a(dy, dx) - g(dy, dx)
    IN  IF c = f THEN a(0, 0)
        ELSE IF c = 1 THEN g(0, 0)
        ELSE IF f = 1
        THEN Clip(a(0, 0) + (IF c = FC(tile, y + 1, x) THEN over(-1, 0) + over(1, 0)
                             ELSE over(0, -1) + over(0, 1)) \div 2, bits)
        ELSE Clip(g(0, 0) + (over(-1, -1) + over(-1, 1) + over(1, -1) + over(1, 1) + 1) \div 4,
                  bits)

\* The most homogeneous direction, or the mean of the two.
AHDCombine(raw, tile, win, y, x, c, bits) ==
    LET v == [d \in 0 .. 1 |->
                 AHDColour(raw, tile, TopOf(y, raw.h), TopOf(x, raw.w), d, y, x, c, bits)]
    IN  Clip(IF win = 2 THEN (v[0] + v[1]) \div 2 ELSE v[win], bits)

AHDRows(raw, tile, win, bits) ==
    LET inner(size) == {n \in 3 .. size - 4 : \E top \in Tops(size) : InTile(top, n)}
        all(size)   == 0 .. size - 1
        outer(size) == all(size) \ (3 .. size - 4)
        y(i) == Row(raw.w, i)
        x(i) == Column(raw.w, i)
        samples == {i \in Places(raw.w, all(raw.h), all(raw.w)) : i % 3 = FC(tile, y(i), x(i))}
    IN  Over([i \in Places(raw.w, inner(raw.h), inner(raw.w)) |->
                 AHDCombine(raw, tile, win, y(i), x(i), i % 3, bits)],
             Over([i \in Places(raw.w, outer(raw.h), all(raw.w))
                              \cup Places(raw.w, all(raw.h), outer(raw.w)) |->
                      AHDBorder(raw, tile, y(i), x(i), i % 3)],
                  [i \in samples |-> raw.s[i \div 3]]))

AHD(raw, tile, win) == AHDRows(raw, tile, win, 8)
AHD_uint16(raw, tile, bits, win) == AHDRows(raw, tile, win, bits)
=============================================================================

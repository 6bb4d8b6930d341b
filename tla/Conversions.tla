---------------------------- MODULE Conversions ----------------------------
(***************************************************************************)
(* The conversions of conversions.c.  Pictures are bytes: functions from   *)
(* offsets, 0 on.  `n' is width * height; a conversion gives the bytes it  *)
(* stores, as a function from their offsets.  Samples of 16 bits are read  *)
(* high byte first, and `bits' of them are used.  The code runs from the   *)
(* last byte to the first, group of pixels by group; a picture holds whole *)
(* groups (of 2 pixels, of 4 for YUV411).                                  *)
(***************************************************************************)
EXTENDS Integers, Sequences

Orders == {"UYVY", "YUYV"}

Byte(v) == v % 256
Limit(v) == IF v < 0 THEN 0 ELSE IF v > 255 THEN 255 ELSE v
High(src, k, bits) == Byte((256 * src[2 * k] + src[2 * k + 1]) \div 2 ^ (bits - 8))

\* The four bytes of two pixels, in one of the two orders.
Pair(order, y0, u, y1, v) == IF order = "YUYV" THEN <<y0, u, y1, v>> ELSE <<u, y0, v, y1>>
Luma(order, p, i)   == 4 * p + 2 * i + (IF order = "YUYV" THEN 0 ELSE 1)
ChromaU(order, p)   == 4 * p + (IF order = "YUYV" THEN 1 ELSE 0)
ChromaV(order, p)   == 4 * p + (IF order = "YUYV" THEN 3 ELSE 2)

RGB2YUV(r, g, b) ==
    <<Limit((306 * r + 601 * g + 117 * b) \div 1024),
      Limit(((-172 * r) - 340 * g + 512 * b) \div 1024 + 128),
      Limit((512 * r - 429 * g - 83 * b) \div 1024 + 128)>>
YUV2RGB(y, u, v) ==
    <<Limit(y + ((v - 128) * 1436) \div 1024),
      Limit(y - ((u - 128) * 352 + (v - 128) * 731) \div 1024),
      Limit(y + ((u - 128) * 1814) \div 1024)>>

-----------------------------------------------------------------------------
(* To YUV422.                                                              *)
\* The source is taken to be UYVY.
YUV422_to_YUV422(src, n, order) ==
    [j \in 0 .. 2 * n - 1 |->
        IF order = "UYVY" THEN src[j] ELSE src[IF j % 2 = 0 THEN j + 1 ELSE j - 1]]

\* Y of the k-th pixel, in groups of four.
Luma411(src, k) == src[6 * (k \div 4) + <<1, 2, 4, 5>>[(k % 4) + 1]]
\* Faulty: the two chromas of a group of four pixels the wrong way round.
YUV411_to_YUV422_Crossed(src, n, order) ==
    [j \in 0 .. 2 * n - 1 |->
        LET p == j \div 4
        IN  Pair(order, Luma411(src, 2 * p), src[6 * (p \div 2) + 3],
                        Luma411(src, 2 * p + 1), src[6 * (p \div 2)])[(j % 4) + 1]]
YUV411_to_YUV422(src, n, order) ==
    [j \in 0 .. 2 * n - 1 |->
        LET p == j \div 4
        IN  Pair(order, Luma411(src, 2 * p), src[6 * (p \div 2)],
                        Luma411(src, 2 * p + 1), src[6 * (p \div 2) + 3])[(j % 4) + 1]]

YUV444_to_YUV422(src, n, order) ==
    [j \in 0 .. 2 * n - 1 |->
        LET k == 6 * (j \div 4)
        IN  Pair(order, src[k + 1], (src[k] + src[k + 3]) \div 2,
                        src[k + 4], (src[k + 2] + src[k + 5]) \div 2)[(j % 4) + 1]]

\* Rows of odd width get one pixel more, the last one again.
MONO8_to_YUV422(src, width, height, order) ==
    LET padded == width + (width % 2)
        Y(k) == LET x == k % padded
                IN  src[(k \div padded) * width + (IF x = width THEN x - 1 ELSE x)]
    IN  [j \in 0 .. 2 * padded * height - 1 |->
            Pair(order, Y(2 * (j \div 4)), 128, Y(2 * (j \div 4) + 1), 128)[(j % 4) + 1]]

MONO16_to_YUV422(src, n, order, bits) ==
    [j \in 0 .. 2 * n - 1 |->
        LET p == j \div 4
        IN  Pair(order, High(src, 2 * p, bits), 128, High(src, 2 * p + 1, bits), 128)[(j % 4) + 1]]

MONO16_to_MONO8(src, n, bits) == [j \in 0 .. n - 1 |-> High(src, j, bits)]

\* Two pixels in YUV, next to each other, share the means of their chromas.
Shared(order, one, two) ==
    Pair(order, one[1], (one[2] + two[2]) \div 2, two[1], (one[3] + two[3]) \div 2)

RGB8_to_YUV422(src, n, order) ==
    [j \in 0 .. 2 * n - 1 |->
        LET k == 6 * (j \div 4)
        IN  Shared(order, RGB2YUV(src[k], src[k + 1], src[k + 2]),
                          RGB2YUV(src[k + 3], src[k + 4], src[k + 5]))[(j % 4) + 1]]

RGB16_to_YUV422(src, n, order, bits) ==
    [j \in 0 .. 2 * n - 1 |->
        LET c(i) == High(src, 6 * (j \div 4) + i, bits)
        IN  Shared(order, RGB2YUV(c(0), c(1), c(2)), RGB2YUV(c(3), c(4), c(5)))[(j % 4) + 1]]

-----------------------------------------------------------------------------
(* To RGB8.                                                                *)
RGB16_to_RGB8(src, n, bits) == [j \in 0 .. 3 * n - 1 |-> High(src, j, bits)]

YUV444_to_RGB8(src, n) ==
    [j \in 0 .. 3 * n - 1 |->
        LET k == 3 * (j \div 3) IN YUV2RGB(src[k + 1], src[k], src[k + 2])[(j % 3) + 1]]

YUV422_to_RGB8(src, n, order) ==
    [j \in 0 .. 3 * n - 1 |->
        LET p == j \div 6
        IN  YUV2RGB(src[Luma(order, p, (j \div 3) % 2)],
                    src[ChromaU(order, p)], src[ChromaV(order, p)])[(j % 3) + 1]]

YUV411_to_RGB8(src, n) ==
    [j \in 0 .. 3 * n - 1 |->
        YUV2RGB(Luma411(src, j \div 3), src[6 * (j \div 12)], src[6 * (j \div 12) + 3])[(j % 3) + 1]]

MONO8_to_RGB8(src, n) == [j \in 0 .. 3 * n - 1 |-> src[j \div 3]]

MONO16_to_RGB8(src, n, bits) == [j \in 0 .. 3 * n - 1 |-> High(src, j \div 3, bits)]

Copied(src, bytes) == [j \in 0 .. bytes - 1 |-> src[j]]

\* Two views of n / 2 bytes each, byte by byte in turn: one on top of the other.
deinterlace_stereo(src, n) ==
    [j \in 0 .. n - 1 |-> IF j < n \div 2 THEN src[2 * j] ELSE src[2 * (j - n \div 2) + 1]]

-----------------------------------------------------------------------------
(* The calls on buffers, by coding of the source: {} stands for            *)
(* FUNCTION_NOT_SUPPORTED, and for INVALID_BYTE_ORDER of those that ask.   *)
convert_to_YUV422(src, width, height, order, coding, bits) ==
    LET n == width * height
    IN  IF order \notin Orders THEN {}
        ELSE CASE coding = "YUV422" -> {YUV422_to_YUV422(src, n, order)}
               [] coding = "YUV411" -> {YUV411_to_YUV422(src, n, order)}
               [] coding = "YUV444" -> {YUV444_to_YUV422(src, n, order)}
               [] coding = "RGB8"   -> {RGB8_to_YUV422(src, n, order)}
               [] coding \in {"MONO8", "RAW8"}   -> {MONO8_to_YUV422(src, width, height, order)}
               [] coding \in {"MONO16", "RAW16"} -> {MONO16_to_YUV422(src, n, order, bits)}
               [] coding = "RGB16"  -> {RGB16_to_YUV422(src, n, order, bits)}
               [] OTHER -> {}

convert_to_MONO8(src, width, height, coding, bits) ==
    LET n == width * height
    IN  CASE coding = "MONO16" -> {MONO16_to_MONO8(src, n, bits)}
          [] coding = "MONO8"  -> {Copied(src, n)}
          [] OTHER -> {}

convert_to_RGB8(src, width, height, order, coding, bits) ==
    LET n == width * height
    IN  CASE coding = "RGB16"  -> {RGB16_to_RGB8(src, n, bits)}
          [] coding = "YUV444" -> {YUV444_to_RGB8(src, n)}
          [] coding = "YUV422" -> IF order \in Orders THEN {YUV422_to_RGB8(src, n, order)} ELSE {}
          [] coding = "YUV411" -> {YUV411_to_RGB8(src, n)}
          [] coding \in {"MONO8", "RAW8"}   -> {MONO8_to_RGB8(src, n)}
          [] coding \in {"MONO16", "RAW16"} -> {MONO16_to_RGB8(src, n, bits)}
          [] coding = "RGB8"   -> {Copied(src, 3 * n)}
          [] OTHER -> {}
=============================================================================

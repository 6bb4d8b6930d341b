---------------------------- MODULE AvtRegisters ----------------------------
(***************************************************************************)
(* The calls of vendor/avt.c on the advanced registers of AVT cameras, as  *)
(* in ControlRegisters: registers are offsets from advanced_features_csr,  *)
(* switches are booleans, quantities numbers, and what takes a whole       *)
(* quadlet is a quadlet.                                                   *)
(***************************************************************************)
EXTENDS Quadlets

\* Several registers read, or written, one after the other.
GetEach(h, regs, out) == IF Len(h) < Len(regs) THEN Read(regs[Len(h) + 1]) ELSE Return(out)
SetEach(h, regs, data) ==
    IF Len(h) < Len(regs) THEN Write(regs[Len(h) + 1], data[Len(h) + 1]) ELSE Return(<<>>)

\* The answers that follow the first n.
After(h, n) == SubSeq(h, n + 1, Len(h))

-----------------------------------------------------------------------------
(* What the camera is and has.                                             *)

\* The first result is the error code of the read, which nobody looks at: a
\* failure leaves 1 there and something in the second.
AvtGetVersion(h) ==
    CASE h = <<>>   -> TryRead(\h010, {{}})
      [] Len(h) = 1 -> Read(\h018)
      [] OTHER      -> Return(<<Field(h[1], 0, 16), Field(h[2], 16, 16), Field(h[2], 0, 16)>>)

\* Bits are feature numbers; those the structure has no member for are skipped.
AvtGetAdvancedFeatureInquiry(h) ==
    GetEach(h, <<\h040, \h044, \h048, \h04C>>,
            <<h[1] \cap ({0} \cup (8 .. 23) \cup (25 .. 31)),
              h[2] \cap ({14, 15, 30, 31} \cup (20 .. 23)),
              h[3] \cap ({31} \cup (25 .. 27)), h[4] \cap {31}>>)

AvtGetMaxResolution(h) == Get(h, \h200, <<Field(h[1], 16, 16), Field(h[1], 0, 16)>>)
AvtGetShadingInfo(h)   == Get(h, \h258, <<Field(h[1], 0, 24)>>)
AvtGetLutInfo(h)       == Get(h, \h248, <<Field(h[1], 16, 8), Field(h[1], 0, 16)>>)
AvtGetFrameInfo(h)     == Get(h, \h274, h)
AvtResetFrameInfo(h)   == Set(h, \h270, {30})
AvtReset(h)            == Set(h, \h510, {25} \cup Bits(200))

-----------------------------------------------------------------------------
(* Shading and its image, which goes through the general purpose buffer.   *)

AvtGetShading(h) ==
    Get(h, \h250, <<25 \in h[1], 26 \in h[1], 27 \in h[1], Field(h[1], 0, 8)>>)
AvtSetShading(h, on, compute, show, frames) ==
    Modify(h, \h250, TRUE,
           Insert(Assign(Assign(Assign(h[1], 25, on), 26, compute), 27, show),
                  0, 8, Bits(frames)))

AvtGetShadingMemCtrl(h) ==
    Get(h, \h254, <<26 \in h[1], 25 \in h[1], Field(h[1], 0, 24)>>)
AvtSetShadingMemCtrl(h, enWrite, enRead, addr) ==
    Modify(h, \h254, TRUE,
           Insert(Assign(Assign(h[1], 25, enRead), 26, enWrite), 0, 24, Bits(addr)))

AvtGetGpdataInfo(h) == Get(h, \hFFC, <<Field(h[1], 0, 16)>>)

CeilDiv(a, b) == (a + b - 1) \div b

\* Faulty variant: the last block is rounded down.
GpdataBlockFloor(quads, index, size) ==
    LET next == index + quads * 4 IN
    [quads |-> IF size < next THEN (quads * 4 - (next - size)) \div 4 ELSE quads,
     last  |-> size <= next]

\* gpdata_io_common(): how many quadlets the block at index has, for a buffer
\* of quads quadlets and size bytes in all, and whether it is the last.
GpdataBlock(quads, index, size) ==
    LET next == index + quads * 4 IN
    [quads |-> IF size < next THEN CeilDiv(quads * 4 - (next - size), 4) ELSE quads,
     last  |-> size <= next]

GpdataBlocks(quads, size) ==
    CHOOSE k \in 1 .. size + 1 :
        /\ GpdataBlock(quads, (k - 1) * quads * 4, size).last
        /\ \A j \in 1 .. k - 1 : ~GpdataBlock(quads, (j - 1) * quads * 4, size).last
GpdataQuads(info) == CeilDiv(Field(info, 0, 16), 4)

\* Blocks are one request each, whose answer is the number of its quadlets;
\* the first answer is the size of the buffer, which must not be zero.
AvtTransferGpdata(h, size) ==
    IF h = <<>> THEN Read(\hFFC)
    ELSE IF Len(h) > GpdataBlocks(GpdataQuads(h[1]), size) THEN Return(<<>>)
    ELSE LET quads == GpdataQuads(h[1]) IN
         Transfer(\h1000, GpdataBlock(quads, (Len(h) - 1) * quads * 4, size).quads)

\* read_shading_img() and write_shading_img(): open the memory at address 0,
\* transfer, close it again.
AvtShadingImg(h, size, writing) ==
    LET n == IF Len(h) < 4 THEN 4 ELSE 4 + GpdataBlocks(GpdataQuads(h[4]), size) IN
    CASE h = <<>>          -> Read(\h254)
      [] Len(h) \in 1 .. 2 -> AvtSetShadingMemCtrl(Tail(h), writing \/ 26 \in h[1],
                                                   ~writing \/ 25 \in h[1], 0)
      [] Len(h) \in 3 .. n - 1 -> AvtTransferGpdata(After(h, 3), size)
      [] Len(h) = n        -> Read(\h254)
      [] OTHER ->
            LET now == h[n + 1] IN
            AvtSetShadingMemCtrl(After(h, n + 1), ~writing /\ 26 \in now,
                                 writing /\ 25 \in now, Field(now, 0, 24))

-----------------------------------------------------------------------------
(* Exposure.                                                               *)

AvtGetMultipleSlope(h) ==
    GetEach(h, <<\h280, \h284, \h288, \h28C>>,
            <<25 \in h[1], Field(h[1], 0, 4), h[2], h[3], h[4]>>)
AvtSetMultipleSlope(h, on, points, knees) ==
    CASE h = <<>>   -> Read(\h280)
      [] Len(h) = 1 -> Write(\h280, Insert(Assign(h[1], 25, on), 0, 4, Bits(points)))
      [] OTHER      -> SetEach(After(h, 2), <<\h284, \h288, \h28C>>, knees)

AvtGetTimebase(h)          == Get(h, \h208, <<Field(h[1], 0, 4)>>)
AvtSetTimebase(h, id)      == Modify(h, \h208, TRUE, Insert(h[1], 0, 4, Bits(id)))
AvtGetExtentedShutter(h)   == Get(h, \h20C, <<Field(h[1], 0, 28)>>)
AvtSetExtentedShutter(h, t) == Modify(h, \h20C, TRUE, Insert(h[1], 0, 28, Bits(t)))

AvtGetAutoShutter(h) == GetEach(h, <<\h364, \h368>>, h)
AvtSetAutoShutter(h, min, max) ==
    SetEach(h, <<\h364, \h368>>, <<min, max>>)

\* The arguments are not masked.
AvtGetAutoGain(h) == Get(h, \h370, <<Field(h[1], 0, 12), Field(h[1], 16, 12)>>)
AvtSetAutoGain(h, min, max) ==
    Set(h, \h370, InsertAll({}, 16, 16, Bits(max)) \cup Bits(min))

\* Neither is the delay, of which 21 bits are announced and 20 read.
AvtGetTriggerDelay(h) == Get(h, \h400, <<25 \in h[1], Field(h[1], 0, 20)>>)
AvtSetTriggerDelay(h, on, delay) ==
    Modify(h, \h400, TRUE, InsertAll(Assign(h[1], 25, on), 0, 20, Bits(delay)))

\* The count of images is not masked either.
AvtGetHsnr(h) == Get(h, \h520, <<25 \in h[1], Field(h[1], 0, 9)>>)
AvtSetHsnr(h, on, count) ==
    Modify(h, \h520, TRUE, InsertAll(Assign(h[1], 25, on), 0, 9, Bits(count)))

AvtGetAoi(h) ==
    GetEach(h, <<\h390, \h398, \h394>>,
            <<25 \in h[1], Field(h[3], 16, 16), Field(h[3], 0, 16),
              Field(h[2], 16, 16), Field(h[2], 0, 16)>>)
AvtSetAoi(h, on, left, top, width, height) ==
    SetEach(h, <<\h390, \h398, \h394>>,
            <<IF on THEN {25} ELSE {},
              InsertAll({}, 16, 16, Bits(width)) \cup Bits(height),
              InsertAll({}, 16, 16, Bits(left)) \cup Bits(top)>>)

-----------------------------------------------------------------------------
(* Corrections.  The camera shows in bit 24 that it is computing; the code *)
(* polls it, with no limit.                                                *)

Computing(h, r, q) ==
    CASE h = <<>>   -> Read(r)
      [] Len(h) = 1 -> Write(r, q)
      [] Len(h) = 2 \/ (Len(h) = 3 /\ 24 \in h[3]) -> Poll(r, 3)
      [] OTHER      -> Return(<<>>)

\* In the register of DSNU, on is a zero.
AvtGetDsnu(h) == Get(h, \h290, <<25 \notin h[1], Field(h[1], 0, 8)>>)
AvtSetDsnu(h, on, compute, frames) ==
    Computing(h, \h290,
        Insert(Assign(Assign(h[1], 26, compute), 25, ~on), 0, 8, Bits(frames)))

AvtGetBlemish(h) == Get(h, \h294, <<25 \in h[1], Field(h[1], 0, 8)>>)
AvtSetBlemish(h, on, compute, frames) ==
    Computing(h, \h294,
        Insert(Assign(Assign(h[1], 26, compute), 25, on), 0, 8, Bits(frames)))

\* The number of the table: the mask clears bits 0 to 3 and 6, not 0 to 5.
AvtGetLut(h) == Get(h, \h240, <<25 \in h[1], Field(h[1], 0, 6)>>)
AvtSetLut(h, on, n) ==
    Modify(h, \h240, TRUE,
           (Assign(h[1], 25, on) \ ({6} \cup (0 .. 3))) \cup (Bits(n) \cap (0 .. 5)))

AvtGetLutMemCtrl(h) == Get(h, \h244, <<26 \in h[1], Field(h[1], 16, 8), Field(h[1], 0, 16)>>)
AvtSetLutMemCtrl(h, enWrite, n, addr) ==
    Modify(h, \h244, TRUE,
           Insert(Insert(Assign(h[1], 26, enWrite), 16, 8, Bits(n)), 0, 16, Bits(addr)))

\* Nine coefficients after the register that switches them.
ColorRegisters == <<\h3A4, \h3A8, \h3AC, \h3B0, \h3B4, \h3B8, \h3BC, \h3C0, \h3C4>>
AvtGetColorCorr(h) ==
    GetEach(h, <<\h3A0>> \o ColorRegisters,
            <<25 \in h[1]>> \o After(h, 1))
AvtSetColorCorr(h, on, reset, coeff) ==
    CASE h = <<>>   -> Read(\h3A0)
      [] Len(h) = 1 -> Write(\h3A0, Assign(Assign(h[1], 25, on), 24, reset))
      [] OTHER      -> IF reset THEN Return(<<>>)
                       ELSE SetEach(After(h, 2), ColorRegisters, coeff)

\* A signed 16-bit number, extended to the quadlet and cut off again.
AvtGetChannelAdjust(h) ==
    LET n == Field(h[1], 0, 16) IN Get(h, \h424, <<IF n >= 32768 THEN n - 65536 ELSE n>>)
AvtSetChannelAdjust(h, v) ==
    Set(h, \h424, IF v >= 0 THEN Bits(v) ELSE Bits(v + 65536) \cup (16 .. 31))

-----------------------------------------------------------------------------
(* Image, pins and transport.                                              *)

AvtGetMirror(h)     == Get(h, \h410, <<25 \in h[1]>>)
AvtSetMirror(h, on) == Set(h, \h410, IF on THEN {25} ELSE {})

AvtGetTestImages(h)    == Get(h, \h210, <<Field(h[1], 0, 4)>>)
AvtSetTestImages(h, n) == Modify(h, \h210, TRUE, Insert(h[1], 0, 4, Bits(n)))

\* The state of the pin is taken in mode 1 only.
AvtGetIo(h, io) == Get(h, io, <<24 \in h[1], Field(h[1], 16, 5), 0 \in h[1]>>)
AvtSetIo(h, io, polarity, mode, pin) ==
    LET q == Insert(Assign(h[1], 24, polarity), 16, 5, Bits(mode)) IN
    Modify(h, io, TRUE, IF mode = 1 THEN Assign(q, 0, pin) ELSE q)

AvtGetDeferredTrans(h) ==
    Get(h, \h260, <<25 \in h[1], 24 \in h[1], Field(h[1], 8, 8), Field(h[1], 0, 8)>>)
AvtSetDeferredTrans(h, hold, fast, fifo, images, send) ==
    Modify(h, \h260, TRUE,
           Insert(Insert(Assign(Assign(Assign(h[1], 26, send), 25, hold), 24, fast),
                         8, 8, Bits(fifo)), 0, 8, Bits(images)))
=============================================================================

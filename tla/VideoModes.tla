----------------------------- MODULE VideoModes -----------------------------
(***************************************************************************)
(* The tables of internal.c and utils.c: what an image of each video mode  *)
(* is, how it is cut into packets, and the frame that                      *)
(* capture_basic_setup() describes for a mode of fixed size.  (The part    *)
(* for modes of Format 7 is in module Format7.)                            *)
(*                                                                         *)
(* Modes and framerates are the numbers of types.h and video.h: 64..70 are *)
(* the modes of format 0, 71..78 of format 1, 79..86 of format 2; 32..39   *)
(* stand for 1.875 to 240 frames per second.                               *)
(***************************************************************************)
EXTENDS Integers, Sequences

FixedModes == 64 .. 86
Framerates == 32 .. 39

Shapes == <<
    <<160, 120, "YUV444">>, <<320, 240, "YUV422">>, <<640, 480, "YUV411">>,
    <<640, 480, "YUV422">>, <<640, 480, "RGB8">>, <<640, 480, "MONO8">>, <<640, 480, "MONO16">>,
    <<800, 600, "YUV422">>, <<800, 600, "RGB8">>, <<800, 600, "MONO8">>,
    <<1024, 768, "YUV422">>, <<1024, 768, "RGB8">>, <<1024, 768, "MONO8">>,
    <<800, 600, "MONO16">>, <<1024, 768, "MONO16">>,
    <<1280, 960, "YUV422">>, <<1280, 960, "RGB8">>, <<1280, 960, "MONO8">>,
    <<1600, 1200, "YUV422">>, <<1600, 1200, "RGB8">>, <<1600, 1200, "MONO8">>,
    <<1280, 960, "MONO16">>, <<1600, 1200, "MONO16">> >>

ImageSize(mode)   == SubSeq(Shapes[mode - 63], 1, 2)
ColorCoding(mode) == Shapes[mode - 63][3]

\* Bits of a pixel in the image, and of a sample of it.
BitSize(coding) ==
    CASE coding \in {"MONO8", "RAW8"} -> 8
      [] coding = "YUV411" -> 12
      [] coding \in {"MONO16", "RAW16", "MONO16S", "YUV422"} -> 16
      [] coding \in {"YUV444", "RGB8"} -> 24
      [] coding \in {"RGB16", "RGB16S"} -> 48
DataDepth(coding) ==
    IF coding \in {"MONO8", "YUV411", "YUV422", "YUV444", "RGB8", "RAW8"} THEN 8 ELSE 16

\* Rows of the three tables, one entry per framerate.
No == -1
Packets == <<
    << No,  No,  15,  30,  60,  120,  240,  480>>,
    << 10,  20,  40,  80, 160,  320,  640, 1280>>,
    << 30,  60, 120, 240, 480,  960, 1920, 3840>>,
    << 40,  80, 160, 320, 640, 1280, 2560, 5120>>,
    << 60, 120, 240, 480, 960, 1920, 3840, 7680>>,
    << 20,  40,  80, 160, 320,  640, 1280, 2560>>,
    << 40,  80, 160, 320, 640, 1280, 2560, 5120>>,

    << No, 125, 250, 500, 1000, 2000, 4000, 8000>>,
    << No,  No, 375, 750, 1500, 3000, 6000,   No>>,
    << No,  No, 125, 250,  500, 1000, 2000, 4000>>,
    << 96, 192, 384, 768, 1536, 3072, 6144,   No>>,
    <<144, 288, 576, 1152, 2304, 4608,  No,   No>>,
    << 48,  96, 192, 384,  768, 1536, 3073, 6144>>,
    << No, 125, 250, 500, 1000, 2000, 4000, 8000>>,
    << 96, 192, 384, 768, 1536, 3072, 6144,   No>>,

    <<160, 320,  640, 1280, 2560, 5120,   No, No>>,
    <<240, 480,  960, 1920, 3840, 7680,   No, No>>,
    << 80, 160,  320,  640, 1280, 2560, 5120, No>>,
    <<250, 500, 1000, 2000, 4000, 8000,   No, No>>,
    <<375, 750, 1500, 3000, 6000,   No,   No, No>>,
    <<125, 250,  500, 1000, 2000, 4000, 8000, No>>,
    <<160, 320,  640, 1280, 2560, 5120,   No, No>>,
    <<250, 500, 1000, 2000, 4000, 8000,   No, No>> >>

QuadletsPerPacket(mode, rate) == Packets[mode - 63][rate - 31]

QuadletsOfImage(mode) ==
    LET size == ImageSize(mode) IN (size[1] * size[2] * BitSize(ColorCoding(mode))) \div 32

\* What capture_basic_setup() fills in.  A missing entry of the tables becomes
\* a huge number without sign, of which no packet goes into a frame.
BasicSetup(mode, rate) ==
    LET qpp     == QuadletsPerPacket(mode, rate)
        packets == IF qpp = No THEN 0 ELSE QuadletsOfImage(mode) \div qpp
        size    == ImageSize(mode)
        stride  == (BitSize(ColorCoding(mode)) * size[1]) \div 8
    IN IF packets <= 0 THEN [err |-> "FAILURE"]
       ELSE [err |-> "SUCCESS", packet_size |-> qpp * 4, packets_per_frame |-> packets,
             total_bytes |-> packets * qpp * 4, stride |-> stride,
             image_bytes |-> size[2] * stride]
=============================================================================

------------------------------- MODULE Frames -------------------------------
(***************************************************************************)
(* A program turns captured frames into others with dc1394_debayer_frames, *)
(* dc1394_convert_frames and dc1394_deinterlace_stereo_frames.  Frame 1 is *)
(* what it has captured; 2 and 3 are frames of its own, calloc'ed at first,*)
(* which the calls describe anew and give memory to.                       *)
(*                                                                         *)
(* A frame's image is the bytes of the memory it has, a function from      *)
(* offsets (empty: the pointer is NULL); `fresh' are the offsets never     *)
(* stored to since malloc().  Video mode, packets, timestamp and the rest  *)
(* of what is copied from frame to frame are left out.                     *)
(***************************************************************************)
EXTENDS Bayer, Conversions

CONSTANTS
    Captured,       \* the frames a capture may deliver
    Later(_),       \* those it may deliver after a given one
    Fills,          \* what a byte of new memory may hold
    MaxCalls(_)     \* bound on the calls of a behaviour, for the frame captured

VARIABLES
    hostBig,        \* is the machine's own order of bytes big-endian?
    frame,          \* the three frames
    made,           \* how frames 2 and 3 were made of the one before them
    stray,          \* offsets the last call stored to outside the memory of its frame
    calls

vars == <<hostBig, frame, made, stray, calls>>

Methods == {"NEAREST", "SIMPLE", "BILINEAR", "HQLINEAR", "DOWNSAMPLE", "EDGESENSE", "VNG", "AHD"}
NoMemory == -1
NULL == << >>
NotMade == [op |-> "none", arg |-> "none", err |-> "none"]

BitSize(coding) ==
    CASE coding \in {"MONO8", "RAW8"} -> 8
      [] coding = "YUV411" -> 12
      [] coding \in {"MONO16", "RAW16", "YUV422"} -> 16
      [] coding \in {"YUV444", "RGB8"} -> 24
      [] coding = "RGB16" -> 48

Convertible == {"YUV422", "YUV411", "YUV444", "RGB8", "MONO8", "RAW8", "MONO16", "RAW16", "RGB16"}

Calloced ==
    [image |-> NULL, fresh |-> {}, allocated |-> 0, size |-> <<0, 0>>, position |-> <<0, 0>>,
     coding |-> "none", filter |-> "none", order |-> "none", depth |-> 0,
     image_bytes |-> 0, padding |-> 0]

\* A capture describes its frames as capture_basic_setup() does; pictures in YUV411
\* hold whole groups of pixels, and the camera uses 8 bits of 16 at least (the
\* conversions shift by what is above 8) and no more than there are.
Described(f) ==
    /\ f.coding \in Convertible
    /\ f.size \in Nat \X Nat /\ f.size[1] > 0 /\ f.size[2] > 0
    /\ f.coding = "YUV411" => (f.size[1] * f.size[2]) % 4 = 0
    /\ f.padding \in Nat /\ f.allocated \in Nat /\ f.depth \in Nat
    /\ f.coding \in {"MONO16", "RAW16", "RGB16"} => f.depth \in 8 .. 16
    /\ f.image_bytes = (f.size[1] * f.size[2] * BitSize(f.coding)) \div 8
    /\ f.image_bytes + f.padding <= f.allocated
    /\ DOMAIN f.image = 0 .. f.allocated - 1 /\ f.fresh = {}
    /\ \A k \in DOMAIN f.image : f.image[k] \in 0 .. 255

ASSUME FramesAssumption ==
    /\ \A f \in Captured : Described(f) /\ Later(f) \subseteq Captured
    /\ Fills \subseteq 0 .. 255

-----------------------------------------------------------------------------
(* The three Adapt_buffer functions: the description of `out', its memory, *)
(* and the padding behind the image.  `fill' is what new memory holds, or  *)
(* NoMemory if malloc() finds none.                                        *)
Memory(out, total, fill) ==
    IF total <= out.allocated THEN out.image
    ELSE IF fill = NoMemory THEN NULL ELSE [i \in 0 .. total - 1 |-> fill]

Adapt(in, out, size, position, coding, depth, fill) ==
    LET bytes == (size[1] * size[2] * BitSize(coding)) \div 8
        total == bytes + in.padding
        grows == total > out.allocated
        image == Memory(out, total, fill)
        tail  == IF image = NULL THEN {} ELSE bytes .. total - 1
    IN  [size |-> size, position |-> position, coding |-> coding, filter |-> in.filter,
         order |-> out.order, depth |-> depth, image_bytes |-> bytes, padding |-> in.padding,
         allocated |-> IF grows THEN Cardinality(DOMAIN image) ELSE out.allocated,
         fresh |-> (IF grows THEN DOMAIN image ELSE out.fresh) \ tail,
         image |-> [i \in DOMAIN image |->
                      IF i \in tail THEN in.image[in.image_bytes + i - bytes] ELSE image[i]]]

Adapt_buffer_bayer(in, out, method, fill) ==
    LET half(p) == IF method = "DOWNSAMPLE" THEN <<p[1] \div 2, p[2] \div 2>> ELSE p
        wide == in.coding \in {"RAW16", "MONO16"}
    IN  Adapt(in, out, half(in.size), half(in.position), IF wide THEN "RGB16" ELSE "RGB8",
              IF wide THEN in.depth ELSE 8, fill)

\* Faulty: the size of the image is that of the input.
Adapt_buffer_convert_AsInput(in, out, fill) ==
    [Adapt(in, out, in.size, in.position, in.coding, 8, fill) EXCEPT !.coding = out.coding]
Adapt_buffer_convert(in, out, fill) ==
    Adapt(in, out, in.size, in.position, out.coding, 8, fill)

Adapt_buffer_stereo(in, out, fill) ==
    Adapt(in, out, <<in.size[1], 2 * in.size[2]>>, in.position,
          IF in.coding = "RAW16" THEN "RAW8" ELSE "MONO8", 8, fill)

-----------------------------------------------------------------------------
(* What a call comes to: the frame it leaves, its error and the offsets it *)
(* stored to outside the frame's memory.  What such a call does, or one    *)
(* that works on memory it did not get, is undefined: its error stands for *)
(* that, and nothing is said of what follows.                              *)
Outcome(out, err) == [out |-> out, err |-> err, stray |-> {}]
Lost(out) == Outcome(out, "UNDEFINED")
Stored8(out, bytes) ==
    IF DOMAIN bytes \subseteq DOMAIN out.image
    THEN Outcome([out EXCEPT !.image = [i \in DOMAIN @ |->
                                          IF i \in DOMAIN bytes THEN bytes[i] ELSE @[i]],
                             !.fresh = @ \ DOMAIN bytes], "SUCCESS")
    ELSE [Lost(out) EXCEPT !.stray = DOMAIN bytes \ DOMAIN out.image]

\* The machine's own 16-bit samples.
Host(bytes, k) == IF hostBig THEN 256 * bytes[2 * k] + bytes[2 * k + 1]
                             ELSE 256 * bytes[2 * k + 1] + bytes[2 * k]
HostBytes(samples) ==
    [i \in {2 * k : k \in DOMAIN samples} \cup {2 * k + 1 : k \in DOMAIN samples} |->
        IF (i % 2 = 0) = hostBig THEN samples[i \div 2] \div 256 ELSE samples[i \div 2] % 256]

\* {}: the decoder returns an error and stores nothing.
bayer_decoding_8bit(in, out, method, win) ==
    LET raw == [w |-> in.size[1], h |-> in.size[2], s |-> in.image]
        t   == in.filter
    IN  CASE method = "NEAREST"    -> {NearestNeighbor(raw, t)}
          [] method = "SIMPLE"     -> {Simple(raw, t)}
          [] method = "BILINEAR"   -> {Bilinear(raw, t)}
          [] method = "HQLINEAR"   -> {HQLinear(raw, t)}
          [] method = "DOWNSAMPLE" -> {Downsample(raw, t)}
          [] method = "VNG"        -> {VNG(raw, t, out.image)}
          [] method = "AHD"        -> {AHD(raw, t, win)}
          [] method = "EDGESENSE"  -> {}

bayer_decoding_16bit(in, out, method, bits, win) ==
    LET raw == [w |-> in.size[1], h |-> in.size[2],
                s |-> [k \in 0 .. in.size[1] * in.size[2] - 1 |-> Host(in.image, k)]]
        old == [k \in 0 .. (out.allocated \div 2) - 1 |-> Host(out.image, k)]
        t   == in.filter
    IN  CASE method = "NEAREST"    -> {NearestNeighbor_uint16(raw, t, bits)}
          [] method = "SIMPLE"     -> {Simple_uint16(raw, t, bits)}
          [] method = "BILINEAR"   -> {Bilinear_uint16(raw, t, bits)}
          [] method = "HQLINEAR"   -> {HQLinear_uint16(raw, t, bits)}
          [] method = "DOWNSAMPLE" -> {Downsample_uint16(raw, t, bits)}
          [] method = "VNG"        -> {VNG_uint16(raw, t, bits, old)}
          [] method = "AHD"        -> {AHD_uint16(raw, t, bits, win)}
          [] method = "EDGESENSE"  -> {}

\* dc1394_debayer_frames().  `work': a decoder that needs memory of its own gets it;
\* none looks.  DOWNSAMPLE of an odd size reads past the picture, for tiles it has
\* only a part of.
OddSize(f) == f.size[1] % 2 = 1 \/ f.size[2] % 2 = 1
Debayered(in, out, method, fill, work, win) ==
    LET adapted == Adapt_buffer_bayer(in, out, method, fill)
        wide    == in.coding \in {"RAW16", "MONO16"}
    IN  IF method \notin Methods THEN {Outcome(out, "INVALID_BAYER_METHOD")}
        ELSE IF in.coding \notin {"RAW8", "MONO8", "RAW16", "MONO16"}
        THEN {Outcome(out, "FUNCTION_NOT_SUPPORTED")}
        ELSE IF adapted.image = NULL THEN {Outcome(adapted, "MEMORY_ALLOCATION_FAILURE")}
        ELSE IF method = "EDGESENSE" THEN {Outcome(adapted, "FUNCTION_NOT_SUPPORTED")}
        ELSE IF in.filter \notin Tiles THEN {Outcome(adapted, "INVALID_COLOR_FILTER")}
        ELSE IF method \in NeedMemory /\ ~work THEN {Lost(adapted)}
        ELSE IF method = "DOWNSAMPLE" /\ OddSize(in) THEN {Lost(adapted)}
        ELSE {Stored8(adapted, b) :
                b \in IF wide
                      THEN {HostBytes(s) : s \in bayer_decoding_16bit(in, adapted, method, in.depth, win)}
                      ELSE bayer_decoding_8bit(in, adapted, method, win)}

\* dc1394_convert_frames(): the coding and the order asked for are in `out'.
Supported(from, to) ==
    \/ to \in {"YUV422", "RGB8"} /\ from \in Convertible
    \/ to = "MONO8" /\ from \in {"MONO8", "MONO16"}
\* The conversions that take pixels by pairs do so from the last one on, and with
\* an odd number of them end in front of the picture.
ByPairs(in, out) ==
    \/ out.coding = "YUV422" /\ out.order \in Orders
       /\ in.coding \in {"YUV444", "RGB8", "MONO16", "RAW16", "RGB16"}
    \/ out.coding = "RGB8" /\ in.coding = "YUV422" /\ in.order \in Orders
HalfPair(in, out) == ByPairs(in, out) /\ (in.size[1] * in.size[2]) % 2 = 1
Converted(in, out, fill) ==
    LET adapted == Adapt_buffer_convert(in, out, fill)
        bytes == CASE out.coding = "YUV422" ->
                        convert_to_YUV422(in.image, in.size[1], in.size[2], out.order, in.coding, in.depth)
                   [] out.coding = "MONO8" ->
                        convert_to_MONO8(in.image, in.size[1], in.size[2], in.coding, in.depth)
                   [] out.coding = "RGB8" ->
                        convert_to_RGB8(in.image, in.size[1], in.size[2], in.order, in.coding, in.depth)
    IN  IF ~Supported(in.coding, out.coding) THEN {Outcome(out, "FUNCTION_NOT_SUPPORTED")}
        ELSE IF adapted.image = NULL THEN {Outcome(adapted, "MEMORY_ALLOCATION_FAILURE")}
        ELSE IF HalfPair(in, out) THEN {Lost(adapted)}
        ELSE IF bytes = {} THEN {Outcome(adapted, "INVALID_BYTE_ORDER")}
        ELSE {Stored8(adapted, b) : b \in bytes}

\* dc1394_deinterlace_stereo_frames().
Deinterlaced(in, out, method, fill) ==
    LET adapted == Adapt_buffer_stereo(in, out, fill)
    IN  IF in.coding \notin {"RAW16", "MONO16", "YUV422"}
        THEN Outcome(out, "FUNCTION_NOT_SUPPORTED")
        ELSE IF method \notin {"INTERLACED", "FIELD"} THEN Outcome(out, "INVALID_STEREO_METHOD")
        ELSE IF adapted.image = NULL THEN Outcome(adapted, "MEMORY_ALLOCATION_FAILURE")
        ELSE Stored8(adapted,
                     IF method = "INTERLACED"
                     THEN deinterlace_stereo(in.image, adapted.size[1] * adapted.size[2])
                     ELSE Copied(in.image, adapted.image_bytes))

-----------------------------------------------------------------------------
Init ==
    /\ \E f \in Captured : frame = <<f, Calloced, Calloced>>
    /\ hostBig \in IF frame[1].coding = "RAW16" THEN BOOLEAN ELSE {FALSE}
    /\ made = [i \in 2 .. 3 |-> NotMade]
    /\ stray = {} /\ calls = 0

\* A call from frame i to frame i + 1; what was made of the old one is forgotten.
Call(i, op, arg, outcome) ==
    /\ calls' = calls + 1
    /\ frame' = [frame EXCEPT ![i + 1] = outcome.out]
    /\ made' = [j \in 2 .. 3 |-> IF j = i + 1 THEN [op |-> op, arg |-> arg, err |-> outcome.err]
                                ELSE IF j > i THEN NotMade ELSE made[j]]
    /\ stray' = outcome.stray
    /\ UNCHANGED hostBig

\* Nothing undefined has been done.
Defined == \A i \in 2 .. 3 : made[i].err # "UNDEFINED"

\* Pictures are no smaller than the kernels; that the code does not look at.
Debayer ==
    /\ Defined /\ calls < MaxCalls(frame[1])
    /\ frame[1].size[1] > 4 /\ frame[1].size[2] > 3
    /\ \E method \in Methods \cup {"none"}, fill \in Fills \cup {NoMemory}, work \in BOOLEAN,
          win \in IF frame[1].filter \in Tiles THEN 0 .. 2 ELSE {0} :
           /\ win = 0 \/ (method = "AHD" /\ work)
           /\ work \/ method \in NeedMemory
           /\ method = "AHD" => frame[1].size[1] >= 6
           /\ \E outcome \in Debayered(frame[1], frame[2], method, fill, work, win) :
                  Call(1, "debayer", method, outcome)

Convert(i) ==
    /\ Defined /\ calls < MaxCalls(frame[1])
    /\ frame[i].image # NULL
    /\ i = 2 => made[2].err = "SUCCESS"
    /\ \E to \in {"YUV422", "MONO8", "RGB8", "YUV444"}, order \in Orders \cup {"none"},
          fill \in Fills \cup {NoMemory} :
        /\ to # "YUV422" => order = "UYVY"
        /\ LET out == [frame[i + 1] EXCEPT !.coding = to, !.order = order]
           IN  \E outcome \in Converted(frame[i], out, fill) : Call(i, "convert", to, outcome)

Deinterlace ==
    /\ Defined /\ calls < MaxCalls(frame[1])
    /\ \E method \in {"INTERLACED", "FIELD", "none"}, fill \in Fills \cup {NoMemory} :
           Call(1, "stereo", method, Deinterlaced(frame[1], frame[2], method, fill))

Capture ==
    /\ Defined /\ calls > 0 /\ calls < MaxCalls(frame[1])
    /\ \E f \in Later(frame[1]) : frame' = [frame EXCEPT ![1] = f]
    /\ made' = [i \in 2 .. 3 |-> NotMade]
    /\ stray' = {}
    /\ UNCHANGED <<hostBig, calls>>

Next == Debayer \/ Convert(1) \/ Convert(2) \/ Deinterlace \/ Capture

Spec == Init /\ [][Next]_vars

-----------------------------------------------------------------------------
Made(i, op) == made[i].op = op /\ made[i].err = "SUCCESS"
Wide(f) == f.coding \in {"RAW16", "MONO16", "RGB16"}
Rows(f) == 0 .. f.size[2] - 1
Columns(f) == 0 .. f.size[1] - 1
\* The samples of a raw frame, those of an RGB frame, as the machine reads them.
RawSample(f, y, x) ==
    IF Wide(f) THEN Host(f.image, y * f.size[1] + x) ELSE f.image[y * f.size[1] + x]
Component(f, y, x, c) ==
    LET k == 3 * (y * f.size[1] + x) + c IN IF Wide(f) THEN Host(f.image, k) ELSE f.image[k]
\* The machine reads the samples as they are meant.  The decoders read 16 bits in
\* the machine's own order; cameras send the high byte first, so that on a
\* little-endian machine the program has to swap them before.
Readable(f) == \A y \in Rows(f), x \in Columns(f) : RawSample(f, y, x) < 2 ^ f.depth
Decoded(methods) == Made(2, "debayer") /\ made[2].arg \in methods /\ Readable(frame[1])
\* The colour of a sample, from the letters of the tile (types.h).
Mosaic == [RGGB |-> <<0, 1, 1, 2>>, GBRG |-> <<1, 2, 0, 1>>,
           GRBG |-> <<1, 0, 2, 1>>, BGGR |-> <<2, 1, 1, 0>>]
ColourAt(f, y, x) == Mosaic[f.filter][2 * (y % 2) + (x % 2) + 1]
\* The width of what a method leaves black or fills from fewer samples, and the
\* pixels inside it: nothing for AHD; NEAREST and SIMPLE, the last row and column.
Edge(method) == CASE method \in {"BILINEAR"} -> 1 [] method = "HQLINEAR" -> 2
                  [] method = "VNG" -> 3 [] OTHER -> 0
Inside(f, method) ==
    {p \in Rows(f) \X Columns(f) :
        LET last == IF method \in {"NEAREST", "SIMPLE"} THEN 1 ELSE Edge(method)
        IN  /\ p[1] \in Edge(method) .. f.size[2] - 1 - last
            /\ p[2] \in Edge(method) .. f.size[1] - 1 - last}

\* YUV422 of a grey picture: rows of odd width are stored with one pixel more.
RowsPadded(in, out) ==
    out.coding = "YUV422" /\ in.coding \in {"MONO8", "RAW8"} /\ in.size[1] % 2 = 1
\* What makes a call undefined, in this code.
KnownUndefined(op, arg, in, out) ==
    \/ op = "convert" /\ (RowsPadded(in, out) \/ HalfPair(in, out))
    \/ op = "debayer" /\ arg \in NeedMemory
    \/ op = "debayer" /\ arg = "DOWNSAMPLE" /\ OddSize(in)
\* However often a frame is reused and whichever malloc() of its image fails: a
\* frame that has memory has room for what its description says, and no call steps
\* outside it (bayer.c:2099, conversions.c, Adapt_buffer_*).  But for four kinds of
\* calls: YUV422 of a grey picture of odd width, a conversion by pairs of an odd
\* number of pixels, DOWNSAMPLE of an odd width or height, and VNG and AHD without
\* memory of their own.  Only the first may store outside the image and nothing else.
InsideMemory ==
    /\ \A i \in 2 .. 3 : made[i].err = "UNDEFINED" =>
          KnownUndefined(made[i].op, made[i].arg, frame[i - 1], frame[i])
    /\ stray # {} =>
          \E i \in 2 .. 3 : made[i].op = "convert" /\ RowsPadded(frame[i - 1], frame[i])
    /\ \A i \in 1 .. 3 :
          /\ DOMAIN frame[i].image = 0 .. frame[i].allocated - 1
          /\ frame[i].fresh \subseteq DOMAIN frame[i].image
          /\ frame[i].image # NULL => frame[i].image_bytes + frame[i].padding <= frame[i].allocated

\* A conversion stores the picture its frame is then said to have: nothing outside
\* the memory that Adapt_buffer_convert() gave it for one of that size
\* (conversions.c:656: "conversions don't change the size of buffers").
ConversionsInside == \A i \in 2 .. 3 : made[i].op = "convert" => stray = {}

\* The decoders that begin with Bilinear_uint16 leave its border as it was: pixels
\* of a frame that a method stores to, and bytes it may not have stored to.
Framed(f, method) == method \in {"BILINEAR", "VNG"} /\ Wide(f)
Covered(f, method) ==
    IF Framed(f, method) THEN (1 .. f.size[2] - 2) \X (1 .. f.size[1] - 2) ELSE Rows(f) \X Columns(f)
Border(f, method) ==
    {k \in 0 .. f.image_bytes - 1 :
        /\ Framed(f, method)
        /\ k \div 2 \notin Places(f.size[1], 1 .. f.size[2] - 2, 1 .. f.size[1] - 2)}

\* A successful call stores to every byte of the image but such borders: no byte of
\* new memory shows through.  The padding of the captured frame follows the image,
\* however much longer or shorter than the captured one it is (unless rows with a
\* pixel more than the image has reach into it).
ImageComplete ==
    \A i \in 2 .. 3 : made[i].err = "SUCCESS" =>
        /\ frame[i].fresh \cap (0 .. frame[i].image_bytes + frame[i].padding - 1)
               \subseteq Border(frame[i], made[i].arg)
        /\ frame[i].padding = frame[i - 1].padding
        /\ \/ made[i].op = "convert" /\ RowsPadded(frame[i - 1], frame[i])
           \/ \A k \in 0 .. frame[i].padding - 1 :
                 frame[i].image[frame[i].image_bytes + k]
                     = frame[i - 1].image[frame[i - 1].image_bytes + k]

\* BILINEAR, HQLINEAR, VNG and AHD keep each sample where it was, as the
\* component the tile's letters name: for each of the tiles, in both depths.
SamplesKept ==
    Decoded({"BILINEAR", "HQLINEAR", "VNG", "AHD"}) =>
        \A p \in Inside(frame[1], made[2].arg) :
            Component(frame[2], p[1], p[2], ColourAt(frame[1], p[1], p[2]))
                = RawSample(frame[1], p[1], p[2])

\* Samples of one colour around a pixel of the result.
Around(f, y, x, c) ==
    {RawSample(f, q[1], q[2]) :
        q \in {q \in (y - 1 .. y + 1) \X (x - 1 .. x + 1) :
                  q[1] \in Rows(f) /\ q[2] \in Columns(f) /\ ColourAt(f, q[1], q[2]) = c}}
Blended(method, i, j) ==
    \A p \in IF method = "DOWNSAMPLE" THEN Rows(j) \X Columns(j) ELSE Inside(i, method), c \in 0 .. 2 :
        LET n == IF method = "DOWNSAMPLE" THEN Around(i, 2 * p[1] + 1, 2 * p[2] + 1, c)
                                          ELSE Around(i, p[1], p[2], c)
            v == Component(j, p[1], p[2], c)
        IN  (\E a \in n : a <= v) /\ (\E a \in n : a >= v)
\* The simple methods make a colour of a pixel from samples of that colour next
\* to it: it lies between two of them.  (All but Downsample_uint16, of the tiles
\* that start with green: see the next property.)
ColoursFromSamples ==
    /\ Decoded({"NEAREST", "SIMPLE", "BILINEAR", "DOWNSAMPLE"})
    /\ ~(made[2].arg = "DOWNSAMPLE" /\ Wide(frame[1]) /\ GreenFirst(frame[1].filter))
    => Blended(made[2].arg, frame[1], frame[2])

\* The same of DOWNSAMPLE in 16 bits, for every tile as types.h explains it.
DownsampleColours ==
    Decoded({"DOWNSAMPLE"}) /\ Wide(frame[1])
        => Blended("DOWNSAMPLE", frame[1], frame[2])

\* The one value of each colour in a frame of a scene without detail, or none.
FlatValue(f, c) ==
    LET of == {RawSample(f, p[1], p[2]) :
                 p \in {p \in Rows(f) \X Columns(f) : ColourAt(f, p[1], p[2]) = c}}
    IN  IF Cardinality(of) = 1 THEN of ELSE {}
\* Every method shows a scene without detail as it is: the weights of each kernel
\* add up, and what it takes for the colours of its neighbours are theirs.
FlatSceneKept ==
    /\ Decoded(Methods \ {"DOWNSAMPLE"})
    /\ \A c \in 0 .. 2 : FlatValue(frame[1], c) # {}
    => \A p \in Inside(frame[1], made[2].arg), c \in 0 .. 2 :
            Component(frame[2], p[1], p[2], c) \in FlatValue(frame[1], c)

\* A byte is a byte, and no sample that a decoder has stored exceeds the depth the
\* description states, even where the kernels of HQLINEAR, VNG and AHD overshoot.
DepthKept ==
    /\ \A i \in 2 .. 3 : \A k \in DOMAIN frame[i].image : frame[i].image[k] \in 0 .. 255
    /\ Decoded(Methods)
       => \A p \in Covered(frame[2], made[2].arg), c \in 0 .. 2 :
              Component(frame[2], p[1], p[2], c) < 2 ^ frame[2].depth

\* Conversions that lose nothing on the way: grey and deep pictures through any
\* coding, YUV411 through YUV422; and a frame in the order cameras use.
Lossless(from, via, to) ==
    \/ from \in {"MONO8", "RAW8", "MONO16", "RAW16"}
    \/ from = "RGB16" /\ via = "RGB8"
    \/ from = "YUV411" /\ via = "YUV422"
\* The way of a picture of even width through another coding ends in the picture
\* of the direct way, in either order of bytes.  (Of odd widths, grey rows become a
\* pixel longer in YUV422 the direct way only.  YUV422 is always read as UYVY when
\* it is converted to YUV422 again.)
RoutesAgree ==
    /\ Made(2, "convert") /\ Made(3, "convert")
    /\ frame[1].size[1] % 2 = 0
    /\ Lossless(frame[1].coding, frame[2].coding, frame[3].coding)
    /\ Supported(frame[1].coding, frame[3].coding)
    /\ ~(frame[2].coding = "YUV422" /\ frame[3].coding = "YUV422" /\ frame[2].order = "YUYV")
    => \A direct \in Converted(frame[1], [Calloced EXCEPT !.coding = frame[3].coding,
                                                         !.order = frame[3].order], 0) :
            \A k \in 0 .. frame[3].image_bytes - 1 : direct.out.image[k] = frame[3].image[k]
=============================================================================

------------------------------- MODULE Format7 -------------------------------
(***************************************************************************)
(* Scalable images: dc1394/format7.c, with the part of                     *)
(* capture_basic_setup() that asks for the size of a Format7 frame.        *)
(*                                                                         *)
(* A region of interest is five registers that depend on each other, each  *)
(* written by a request of its own, any of which may fail, its effect then *)
(* unknown.  Cameras with the handshake of IIDC 1.30 take the registers    *)
(* over when the program sets Setting_1, clear it when they are ready and  *)
(* say in ErrorFlag_1 whether they refused; other cameras take over every  *)
(* write at once and ignore an impossible one.                             *)
(*                                                                         *)
(* The camera is not part of the library: CameraSettles, Accept and the    *)
(* sizes of packets are what the comments of format7.c expect of it.       *)
(***************************************************************************)
EXTENDS Integers, Sequences

CONSTANTS
    Kinds,    \* cameras: "v120" and "v130_plain" have no handshake, "v130" has
    MaxSize,  \* MAX_IMAGE_SIZE_INQ, <<width, height>>
    Codings,  \* colour codings, a set of numbers: the bytes of a pixel
    Asks      \* the arguments that programs give to dc1394_format7_set_roi()

ASSUME KindsAssumption == Kinds \subseteq {"v120", "v130_plain", "v130"}
ASSUME SizeAssumption == MaxSize \in (Nat \ {0}) \X (Nat \ {0})
ASSUME CodingsAssumption == Codings \subseteq Nat \ {0}
Arguments == [coding : Int, packet : Int, left : Int, top : Int, width : Int, height : Int]
ASSUME AsksAssumption == Asks \subseteq Arguments

\* Arguments with a meaning of their own.
QUERY_FROM_CAMERA == -1
USE_MAX_AVAIL == -2
USE_RECOMMENDED == -3

VARIABLES
    kind,       \* the camera, one of Kinds
    written,    \* coding, pos, size and packet as they read back
    effective,  \* the same, as the camera uses them
    setting,    \* Setting_1
    errFlag1,   \* ErrorFlag_1
    pc,         \* the next request of the call, or "idle"
    after,      \* where the handshake goes on, or the outcome of the call
    ask,        \* the arguments of the call, resolved as it goes
    result,     \* of the last call
    frame       \* what capture_basic_setup() has read so far

vars == <<kind, written, effective, setting, errFlag1, pc, after, ask, result, frame>>
registers == <<written, effective, setting, errFlag1>>

(***************************************************************************)
(* The camera.                                                             *)
(***************************************************************************)
HasHandshake == kind = "v130"
Dims == {1, 2}
Unset == <<0, 0>>

FitsSensor(r) ==
    \A d \in Dims : r.pos[d] >= 0 /\ r.size[d] >= 0 /\ r.pos[d] + r.size[d] <= MaxSize[d]

\* PACKET_PARA_INQ and TOTAL_BYTES_INQ follow size and coding.
TotalBytes(r) == r.coding * r.size[1] * r.size[2]
UnitBytes(r) == r.coding
MaxBytes(r) == 2 * r.coding * r.size[1]
PacketAccepted(r) == r.packet % UnitBytes(r) = 0 /\ r.packet \in 1 .. MaxBytes(r)

\* "Sometimes a camera will not set the bpp register until a valid image size
\* has been set after boot" (get_mode_info).
SetsPacket(r) == IF r.packet = 0 /\ r.size # Unset
                 THEN [r EXCEPT !.packet = UnitBytes(r)] ELSE r

\* What the camera uses when it finds registers r; a packet size that it does
\* not like raises only ErrorFlag_2.
Accept(r) ==
    IF ~FitsSensor(r) THEN effective
    ELSE SetsPacket(IF PacketAccepted(r) THEN r
                    ELSE [r EXCEPT !.packet = effective.packet])

CameraSettles ==
    /\ setting
    /\ setting' = FALSE
    /\ errFlag1' = ~FitsSensor(written)
    /\ effective' = Accept(written)
    /\ written' = IF written.packet = 0 THEN SetsPacket(written) ELSE written
    /\ UNCHANGED <<kind, pc, after, ask, result, frame>>

NoAsk == [coding |-> QUERY_FROM_CAMERA, packet |-> 0, left |-> 0, top |-> 0,
          width |-> 0, height |-> 0]
NoFrame == [synced |-> FALSE, size |-> Unset, packet |-> 0, packets |-> 0, coding |-> 0]

(***************************************************************************)
(* Requests.                                                               *)
(***************************************************************************)
Effect(r) ==
    IF HasHandshake
    THEN written' = r /\ UNCHANGED effective
    ELSE written' = Accept(r) /\ effective' = Accept(r)

\* The variables of a call end with it; ask is kept to be compared with the camera.
Return(res) ==
    /\ pc' = "idle"
    /\ result' = res
    /\ after' = "set"
    /\ ask' = IF res = "roi_set" THEN ask ELSE NoAsk
    /\ frame' = NoFrame
    /\ UNCHANGED kind

\* On with the call, which ends if the label is an outcome.
Goto(label) ==
    IF label \in {"set", "roi_set"} THEN Return(label)
    ELSE pc' = label /\ UNCHANGED <<kind, after, ask, result, frame>>

\* Goto, with the arguments as they are known by now.
Resolved(label, new) ==
    pc' = label /\ ask' = new /\ UNCHANGED <<kind, after, result, frame>>

GotoHandshake(label) ==
    /\ pc' = "shake_query"
    /\ after' = label
    /\ UNCHANGED <<kind, ask, result, frame>>

Started(label, args, fr) ==
    /\ pc' = label
    /\ ask' = args
    /\ frame' = fr
    /\ after' = "set"
    /\ result' = "none"
    /\ UNCHANGED kind

\* A read or a write that fails ends the call; a write may have arrived.
ReadFails == Return("failure") /\ UNCHANGED registers

WriteFails(r) ==
    /\ Return("failure")
    /\ Effect(r) \/ UNCHANGED <<written, effective>>
    /\ UNCHANGED <<setting, errFlag1>>

\* (The first access to a mode asks for the address of its registers; that a write
\* goes on when this fails is left out.)
WriteOK(r) == Effect(r) /\ UNCHANGED <<setting, errFlag1>>

(***************************************************************************)
(* _dc1394_v130_handshake()                                                *)
(***************************************************************************)
ShakeQuery ==
    /\ pc = "shake_query"
    /\ \/ /\ IF HasHandshake THEN Goto("shake_set") ELSE Goto(after)
          /\ UNCHANGED registers
       \/ kind # "v120" /\ ReadFails

ShakeSet ==
    /\ pc = "shake_set"
    /\ \/ setting' = TRUE /\ Goto("shake_poll")
       \/ setting' \in {setting, TRUE} /\ Return("failure")
    /\ UNCHANGED <<written, effective, errFlag1>>

\* Faulty variants.
ShakePollIgnoringFlag ==
    /\ pc = "shake_poll"
    /\ \/ ~setting /\ Goto(after) /\ UNCHANGED registers
       \/ ReadFails
ShakePollUntilGood ==
    /\ pc = "shake_poll"
    /\ \/ ~setting /\ ~errFlag1 /\ Goto(after) /\ UNCHANGED registers
       \/ (setting \/ errFlag1) /\ UNCHANGED vars

\* One turn of the loop that waits for Setting_1 to clear.
ShakePoll ==
    /\ pc = "shake_poll"
    /\ \/ /\ ~setting
          /\ IF errFlag1 THEN Return("flag1") ELSE Goto(after)
          /\ UNCHANGED registers
       \/ setting /\ UNCHANGED vars
       \/ ReadFails

(***************************************************************************)
(* The setters of one register: a write and a handshake.                   *)
(***************************************************************************)
SetOne(r) ==
    /\ pc = "idle"
    /\ \/ WriteOK(r) /\ Started("shake_query", NoAsk, NoFrame)
       \/ WriteFails(r)

SetImagePosition(p) == SetOne([written EXCEPT !.pos = p])
SetImageSize(s) == SetOne([written EXCEPT !.size = s])
SetPacketSize(n) == SetOne([written EXCEPT !.packet = n])
SetColorCoding(c) == SetOne([written EXCEPT !.coding = c])

(***************************************************************************)
(* dc1394_format7_set_roi()                                                *)
(***************************************************************************)
RoiBegin(a) ==
    /\ pc = "idle"
    /\ UNCHANGED registers
    /\ \/ /\ a.coding = QUERY_FROM_CAMERA
          /\ Started("coding_read", a, NoFrame)
       \/ /\ a.coding \in Codings
          /\ Started("coding_write", a, NoFrame)
       \/ /\ a.coding \notin Codings \cup {QUERY_FROM_CAMERA}
          /\ Return("invalid")

CodingRead ==
    /\ pc = "coding_read"
    /\ \/ Resolved("size_read", [ask EXCEPT !.coding = written.coding]) /\ UNCHANGED registers
       \/ ReadFails

CodingWrite ==
    LET r == [written EXCEPT !.coding = ask.coding] IN
    /\ pc = "coding_write"
    /\ \/ WriteOK(r) /\ GotoHandshake("size_read")
       \/ WriteFails(r)

\* A size that is to stay as it is; the largest one if the camera has none yet.
SizeRead ==
    LET Keep(v, d) == CASE v # QUERY_FROM_CAMERA -> v
                        [] written.size[d] > 0 -> written.size[d]
                        [] OTHER -> USE_MAX_AVAIL
        Asked == QUERY_FROM_CAMERA \in {ask.width, ask.height}
    IN /\ pc = "size_read"
       /\ \/ /\ Resolved("pos_read", [ask EXCEPT !.width = Keep(@, 1), !.height = Keep(@, 2)])
             /\ UNCHANGED registers
          \/ Asked /\ ReadFails

PositionRead ==
    LET Keep(v, d) == IF v = QUERY_FROM_CAMERA THEN written.pos[d] ELSE v
        Asked == QUERY_FROM_CAMERA \in {ask.left, ask.top}
    IN /\ pc = "pos_read"
       /\ \/ /\ Resolved("max_read", [ask EXCEPT !.left = Keep(@, 1), !.top = Keep(@, 2)])
             /\ UNCHANGED registers
          \/ Asked /\ ReadFails

\* Only now is a position refused that is no position: the coding is set.
MaxRead ==
    LET Largest(v, pos, d) == IF v = USE_MAX_AVAIL THEN MaxSize[d] - pos ELSE v
        Asked == USE_MAX_AVAIL \in {ask.width, ask.height}
    IN /\ pc = "max_read"
       /\ \/ /\ IF ask.left < 0 \/ ask.top < 0 THEN Return("invalid")
                ELSE Resolved("zero_write", [ask EXCEPT !.width = Largest(@, ask.left, 1),
                                                        !.height = Largest(@, ask.top, 2)])
             /\ UNCHANGED registers
          \/ Asked /\ ReadFails

\* Faulty variant: the final position first.
ZeroWriteSkipped ==
    LET r == [written EXCEPT !.pos = <<ask.left, ask.top>>] IN
    /\ pc = "zero_write"
    /\ \/ WriteOK(r) /\ Goto("size_write")
       \/ WriteFails(r)

ZeroWrite ==
    LET r == [written EXCEPT !.pos = Unset] IN
    /\ pc = "zero_write"
    /\ \/ WriteOK(r) /\ Goto("size_write")
       \/ WriteFails(r)

SizeWrite ==
    LET r == [written EXCEPT !.size = <<ask.width, ask.height>>] IN
    /\ pc = "size_write"
    /\ \/ WriteOK(r) /\ Goto("pos_write")
       \/ WriteFails(r)

\* Faulty variant: the packet size is chosen before the camera knows the size.
PositionWriteUnshaken ==
    LET r == [written EXCEPT !.pos = <<ask.left, ask.top>>] IN
    /\ pc = "pos_write"
    /\ \/ WriteOK(r) /\ Goto("packet_read")
       \/ WriteFails(r)

PositionWrite ==
    LET r == [written EXCEPT !.pos = <<ask.left, ask.top>>] IN
    /\ pc = "pos_write"
    /\ \/ WriteOK(r) /\ GotoHandshake("packet_read")
       \/ WriteFails(r)

\* A packet size of zero is an error of dc1394_format7_get_packet_size().
PacketRead ==
    /\ pc = "packet_read"
    /\ \/ /\ IF ask.packet # QUERY_FROM_CAMERA THEN Goto("packet_choose")
             ELSE IF written.packet = 0 THEN Return("failure")
             ELSE Resolved("packet_choose", [ask EXCEPT !.packet = written.packet])
          /\ UNCHANGED registers
       \/ ask.packet = QUERY_FROM_CAMERA /\ ReadFails

\* The default branch: packet_size and max_bytes are compared as unsigned, so
\* that a negative size counts as a large one.
RoundedPacket(n, unit, max) ==
    LET unit_bytes == IF unit = 0 THEN max ELSE unit
        limited == IF n < 0 \/ n > max THEN max
                   ELSE IF n < unit_bytes THEN unit_bytes ELSE n
    IN limited - (limited % unit_bytes)

PacketChoose ==
    LET max == MaxBytes(effective)
        Choices(recommended) ==
            CASE ask.packet = USE_RECOMMENDED -> IF recommended > 0 THEN recommended ELSE max
              [] ask.packet = USE_MAX_AVAIL -> max
              [] OTHER -> RoundedPacket(ask.packet, UnitBytes(effective), max)
    IN /\ pc = "packet_choose"
       /\ \/ /\ \E recommended \in {0, UnitBytes(effective)} :
                   Resolved("packet_write", [ask EXCEPT !.packet = Choices(recommended)])
             /\ UNCHANGED registers
          \/ ReadFails

PacketWrite ==
    LET r == [written EXCEPT !.packet = ask.packet] IN
    /\ pc = "packet_write"
    /\ \/ WriteOK(r) /\ GotoHandshake("roi_set")
       \/ WriteFails(r)

(***************************************************************************)
(* capture_basic_setup() of a Format7 frame: four registers of the camera, *)
(* one after the other.  PACKET_PER_FRAME_INQ exists from 1.30 and may be  *)
(* zero; then the number is computed.                                      *)
(***************************************************************************)
InSync == ~setting /\ written = effective

\* Faulty variant: a last packet that is not full is forgotten.
PacketsPerFrameTruncated(told, total, packet) == IF told > 0 THEN told ELSE total \div packet

PacketsPerFrame(told, total, packet) ==
    IF told > 0 THEN told
    ELSE IF total % packet # 0 THEN total \div packet + 1
    ELSE total \div packet

FrameStep(label, new) ==
    /\ pc' = label
    /\ frame' = new
    /\ UNCHANGED <<kind, after, ask, result>>

FrameBegin ==
    /\ pc = "idle"
    /\ Started("frame_packet", NoAsk, [NoFrame EXCEPT !.synced = InSync, !.size = written.size])
    /\ UNCHANGED registers

FramePacket ==
    /\ pc = "frame_packet"
    /\ \/ /\ written.packet > 0
          /\ FrameStep("frame_packets", [frame EXCEPT !.packet = written.packet])
       \/ Return("failure")
    /\ UNCHANGED registers

FramePackets ==
    LET total == TotalBytes(effective)
        right == PacketsPerFrame(0, total, frame.packet)
    IN /\ pc = "frame_packets"
       /\ \/ \E told \in IF kind = "v120" THEN {0} ELSE {0, right} :
                LET n == PacketsPerFrame(told, total, frame.packet)
                IN IF n = 0 THEN Return("failure")
                   ELSE FrameStep("frame_coding", [frame EXCEPT !.packets = n])
          \/ Return("failure")
       /\ UNCHANGED registers

FrameCoding ==
    /\ pc = "frame_coding"
    /\ \/ /\ pc' = "idle"
          /\ result' = "frame"
          /\ frame' = [frame EXCEPT !.coding = written.coding]
          /\ UNCHANGED <<kind, after, ask>>
       \/ Return("failure")
    /\ UNCHANGED registers

(***************************************************************************)
(* Programs and cameras.                                                   *)
(***************************************************************************)
\* After boot the camera may have no image size, and then no packet size.
Booted == {[coding |-> c, pos |-> Unset, size |-> s, packet |-> 0] :
             c \in Codings, s \in {Unset, MaxSize}}

Init ==
    /\ kind \in Kinds
    /\ written \in {SetsPacket(r) : r \in Booted}
    /\ effective = written
    /\ setting = FALSE
    /\ errFlag1 = FALSE
    /\ pc = "idle"
    /\ after = "set"
    /\ ask = NoAsk
    /\ result = "none"
    /\ frame = NoFrame

\* The setters are used with the values that set_roi is asked for.
AskedPositions == {p \in {<<a.left, a.top>> : a \in Asks} : p[1] >= 0 /\ p[2] >= 0}
AskedSizes == {s \in {<<a.width, a.height>> : a \in Asks} : s[1] >= 0 /\ s[2] >= 0}
AskedPackets == {n \in {a.packet : a \in Asks} : n >= 0}

Begin ==
    \/ \E a \in Asks : RoiBegin(a)
    \/ \E p \in AskedPositions : SetImagePosition(p)
    \/ \E s \in AskedSizes : SetImageSize(s)
    \/ \E n \in AskedPackets : SetPacketSize(n)
    \/ \E c \in Codings : SetColorCoding(c)
    \/ FrameBegin

Continue ==
    \/ ShakeQuery \/ ShakeSet \/ ShakePoll
    \/ CodingRead \/ CodingWrite
    \/ SizeRead \/ PositionRead \/ MaxRead
    \/ ZeroWrite \/ SizeWrite \/ PositionWrite
    \/ PacketRead \/ PacketChoose \/ PacketWrite
    \/ FramePacket \/ FramePackets \/ FrameCoding

Next == Begin \/ Continue \/ CameraSettles

Spec == Init /\ [][Next]_vars

\* A call that has begun goes on, and a camera finishes what it was told to do.  No
\* request has to fail: a program that waits for the camera may read for ever.
Waiting == pc = "shake_poll" /\ setting
FairSpec == Spec /\ WF_vars(Continue /\ ~Waiting) /\ WF_vars(CameraSettles)

(***************************************************************************)
(* Properties.                                                             *)
(***************************************************************************)
Labels == {"idle", "shake_query", "shake_set", "shake_poll", "coding_read", "coding_write",
           "size_read", "pos_read", "max_read", "zero_write", "size_write", "pos_write",
           "packet_read", "packet_choose", "packet_write",
           "frame_packet", "frame_packets", "frame_coding"}
Outcomes == {"none", "set", "roi_set", "frame", "failure", "flag1", "invalid"}

Registers == [coding : Codings, pos : Int \X Int, size : Int \X Int, packet : Nat]
Frames == [synced : BOOLEAN, size : Int \X Int, packet : Nat, packets : Nat, coding : Nat]

\* The types of the variables.
F7TypeOK ==
    /\ kind \in Kinds
    /\ written \in Registers /\ effective \in Registers
    /\ setting \in BOOLEAN /\ errFlag1 \in BOOLEAN
    /\ pc \in Labels
    /\ after \in {"size_read", "packet_read", "set", "roi_set"}
    /\ result \in Outcomes
    /\ ask \in Arguments
    /\ frame \in Frames

RoiPosition == <<ask.left, ask.top>>
RoiSize == <<ask.width, ask.height>>
RoiFits == \A d \in Dims : RoiSize[d] >= 0 /\ RoiPosition[d] + RoiSize[d] <= MaxSize[d]

\* The comment in set_roi promises that position and size change "without passing
\* through an impossible state": if the region that the program has asked for fits on
\* the sensor and the registers are possible before, no request of the call makes them
\* impossible, whatever fails on the way.
NoImpossibleState ==
    [][(pc \in {"zero_write", "size_write", "pos_write"} /\ RoiFits /\ FitsSensor(written))
         => FitsSensor(written')]_vars

\* If set_roi returns success, the camera uses what was asked for: with the handshake
\* even if nobody had checked that the region fits, without it if it does.
SuccessMeansSet ==
    (result = "roi_set" /\ pc = "idle" /\ (HasHandshake \/ RoiFits)) =>
        /\ effective.pos = RoiPosition
        /\ effective.size = RoiSize
        /\ effective.coding = ask.coding

\* ... and the packet size is one that the camera takes for this size and coding, even
\* though set_roi does not look at ErrorFlag_2.
PacketSizeTaken ==
    (result = "roi_set" /\ pc = "idle" /\ RoiFits /\ TotalBytes(effective) > 0) =>
        effective.packet = ask.packet /\ PacketAccepted(effective)

\* Every call returns, though the handshake has no time-out (format7.c:113), as long as
\* the camera ends what it was told to do.
CallReturns == pc # "idle" ~> pc = "idle"

\* A frame that is set up while registers and camera agree holds the image: the packets
\* of a frame are enough for its bytes, and the last one is not superfluous.
FrameHoldsImage ==
    (result = "frame" /\ pc = "idle" /\ frame.synced) =>
        LET image == frame.coding * frame.size[1] * frame.size[2] IN
        /\ frame.packets * frame.packet >= image
        /\ (frame.packets - 1) * frame.packet < image
=============================================================================

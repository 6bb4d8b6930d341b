-------------------------- MODULE ControlRegisters --------------------------
(***************************************************************************)
(* The calls of control.c on the command registers of an IIDC camera, each *)
(* with the quadlets it reads and writes in their order.  Registers are    *)
(* offsets from command_registers_base, enumerations the numbers of the    *)
(* headers.  Setters and getters are translated apart, so that the one can *)
(* be checked against the other.                                           *)
(*                                                                         *)
(* cam holds what the library remembers of the camera from when it was     *)
(* opened: [bmode |-> bmode_capable, v131 |-> IIDC 1.31 or later].         *)
(***************************************************************************)
EXTENDS Quadlets, SequencesExt, VideoModes

WhiteBalance == 419
Temperature  == 427
Trigger      == 428
TriggerDelay == 429
WhiteShading == 430
Zoom         == 432
CaptureSize  == 436
Features     == 416 .. 437
MultiValue   == {WhiteBalance, WhiteShading, Temperature}

Manual  == 736
Auto    == 737
OnePush == 738

-----------------------------------------------------------------------------
(* Addresses.                                                              *)

ValueOffset(f) ==
    IF f < Zoom THEN \h800 + (f - 416) * 4
    ELSE \h880 + ((IF f >= CaptureSize THEN f + 12 ELSE f) - Zoom) * 4

InquiryOffset(f) ==
    IF f < Zoom THEN \h500 + (f - 416) * 4
    ELSE \h580 + ((IF f >= CaptureSize THEN f + 12 ELSE f) - Zoom) * 4

\* The macro subtracts the base before it compares, so that the gap before
\* CAPTURE_SIZE, which the two above take into account, is never added.
AbsOffset(f) ==
    IF f < Zoom THEN \h700 + (f - 416) * 4 ELSE \h780 + (f - Zoom) * 4

PresenceBit(f) ==
    31 - (IF f < Zoom THEN f - 416
          ELSE (IF f >= CaptureSize THEN f + 12 ELSE f) - Zoom)

ForFeature(f, body) == IF f \in Features THEN body ELSE Refuse("INVALID_FEATURE")

-----------------------------------------------------------------------------
(* Video modes: format 0 has the modes 64..70, 1 71..78, 2 79..86, 6 87    *)
(* and 7 88..95.                                                           *)

FirstMode == [fmt \in {0, 1, 2, 6, 7} |->
                 CASE fmt = 0 -> 64 [] fmt = 1 -> 71 [] fmt = 2 -> 79
                   [] fmt = 6 -> 87 [] fmt = 7 -> 88]
LastMode  == [fmt \in {0, 1, 2, 6, 7} |->
                 CASE fmt = 0 -> 70 [] fmt = 1 -> 78 [] fmt = 2 -> 86
                   [] fmt = 6 -> 87 [] fmt = 7 -> 95]
ModesOf(fmt) == FirstMode[fmt] .. LastMode[fmt]
FormatOf(mode) == CHOOSE fmt \in DOMAIN FirstMode : mode \in ModesOf(fmt)

VideoSetMode(h, mode) ==
    IF mode \notin 64 .. 95 THEN Refuse("INVALID_VIDEO_MODE")
    ELSE IF h = <<>> THEN Write(\h608, Insert({}, 29, 3, Bits(FormatOf(mode))))
    ELSE IF Len(h) = 1
         THEN Write(\h604, Insert({}, 29, 3, Bits(mode - FirstMode[FormatOf(mode)])))
    ELSE Return(<<>>)

\* The 3 bits of the mode may name a mode past the last one of the format.
VideoGetMode(h) ==
    IF Len(h) < 2 THEN Read(IF h = <<>> THEN \h608 ELSE \h604)
    ELSE LET fmt == Field(h[1], 29, 3) IN
         IF fmt \in DOMAIN FirstMode
         THEN Return(<<FirstMode[fmt] + Field(h[2], 29, 3)>>)
         ELSE Refuse("INVALID_VIDEO_FORMAT")

\* V_FORMAT_INQ, then V_MODE_INQ of each format the camera has.
VideoGetSupportedModes(h) ==
    IF h = <<>> THEN Read(\h100)
    ELSE LET fmts == SelectSeq(<<0, 1, 2, 6, 7>>, LAMBDA fmt : 31 - fmt \in h[1])
         IN IF Len(h) <= Len(fmts) THEN Read(\h180 + 4 * fmts[Len(h)])
            ELSE Return(<<UNION {{m \in ModesOf(fmts[k]) : 31 - (m - FirstMode[fmts[k]]) \in h[k + 1]}
                                 : k \in 1 .. Len(fmts)}>>)

VideoGetSupportedFramerates(h, mode) ==
    IF mode \notin 64 .. 95 THEN Refuse("INVALID_VIDEO_MODE")
    ELSE LET fmt == FormatOf(mode) IN
         IF fmt \in {6, 7} THEN Refuse("INVALID_VIDEO_FORMAT")
         ELSE Get(h, \h200 + 32 * fmt + 4 * (mode - FirstMode[fmt]),
                  <<{r \in Framerates : 31 - (r - 32) \in h[1]}>>)

VideoGetFramerate(h) == Get(h, \h600, <<Field(h[1], 29, 3) + 32>>)

VideoSetFramerate(h, rate) ==
    IF rate \notin 32 .. 39 THEN Refuse("INVALID_FRAMERATE")
    ELSE Set(h, \h600, Insert({}, 29, 3, Bits(rate - 32)))

\* A depth of zero, read or because the read failed, is derived from the mode:
\* the reads of video_get_mode() follow.  (Modes of format 7, whose depth has a
\* register of its own, are left out.)
VideoGetDataDepth(cam, h) ==
    IF cam.v131 /\ h = <<>> THEN TryRead(\h630, {{}})
    ELSE LET own  == IF cam.v131 THEN Field(h[1], 24, 8) ELSE 0
             mode == VideoGetMode(IF cam.v131 THEN Tail(h) ELSE h)
         IN IF own # 0 THEN Return(<<own>>)
            ELSE IF mode.do = "return" /\ mode.status = "SUCCESS"
                 THEN Return(<<DataDepth(ColorCoding(mode.out[1]))>>)
            ELSE mode

-----------------------------------------------------------------------------
(* ISO_DATA: channel and speed stand at one place in legacy mode and at    *)
(* another in 1394b mode, which bit 15 tells.  Whoever sets one of them    *)
(* builds the quadlet anew from the other, which it has read a second time.*)

IsoLegacy(channel, speed) ==
    Insert(Insert({}, 28, 4, channel), 24, 2, speed)
IsoB(channel, speed) == Insert(Insert({15}, 8, 6, channel), 0, 3, speed)

VideoGetIsoSpeed(cam, h) ==
    IF h = <<>> THEN Read(\h60C)
    ELSE LET inB   == cam.bmode /\ 15 \in h[1]
             speed == IF inB THEN Field(h[1], 0, 3) ELSE Field(h[1], 24, 2)
         IN IF speed > (IF inB THEN 5 ELSE 2) THEN Refuse("INVALID_ISO_SPEED")
            ELSE Return(<<speed>>)

VideoSetIsoSpeed(cam, h, speed) ==
    LET inB == cam.bmode /\ 15 \in h[1] IN
    CASE speed \notin 0 .. 5 -> Refuse("INVALID_ISO_SPEED")
      [] speed \in 0 .. 5 /\ h = <<>> -> Read(\h60C)
      [] speed \in 0 .. 5 /\ Len(h) = 1 ->
            IF inB \/ speed <= 2 THEN Read(\h60C) ELSE Refuse("INVALID_ISO_SPEED")
      [] speed \in 0 .. 5 /\ Len(h) = 2 ->
            Write(\h60C, IF inB THEN IsoB(Slice(h[2], 8, 6), Bits(speed))
                         ELSE IsoLegacy(Slice(h[2], 28, 4), Bits(speed)))
      [] OTHER -> Return(<<>>)

VideoGetIsoChannel(h) ==
    IF Len(h) < 2 THEN Read(IF h = <<>> THEN \h400 ELSE \h60C)
    ELSE IF 23 \in h[1] /\ 15 \in h[2] THEN Return(<<Field(h[2], 8, 6)>>)
         ELSE Return(<<Field(h[2], 28, 4)>>)

VideoSetIsoChannel(h, channel) ==
    LET inB == 23 \in h[1] /\ 15 \in h[2] IN
    CASE Len(h) < 3 -> Read(IF h = <<>> THEN \h400 ELSE \h60C)
      [] Len(h) = 3 ->
            IF inB THEN Write(\h60C, IsoB(Bits(channel), Slice(h[3], 0, 3)))
            ELSE IF Field(h[3], 24, 2) > 2 THEN Refuse("FAILURE")
            ELSE Write(\h60C, IsoLegacy(Bits(channel), Slice(h[3], 24, 2)))
      [] OTHER -> Return(<<>>)

VideoGetOperationMode(cam, h) == Get(h, \h60C, <<cam.bmode /\ 15 \in h[1]>>)

VideoSetOperationMode(cam, h, inB) ==
    IF Len(h) = 1 /\ inB /\ ~cam.bmode THEN Refuse("FUNCTION_NOT_SUPPORTED")
    ELSE Modify(h, \h60C, TRUE, Assign(h[1], 15, inB))

\* Format 7 has a packet size of its own; for the others it is
\* read from a table, whose errors are not looked at.  The quantity is in
\* quadlets at 1600 Mbit/s, with three more for header and trailer.
VideoGetBandwidthUsage(cam, h) ==
    LET mode  == VideoGetMode(Answers(h, 1, 2))
        speed == VideoGetIsoSpeed(cam, Answers(h, 4, 4))
        qpp   == QuadletsPerPacket(mode.out[1], Field(h[3], 29, 3) + 32) + 3
    IN CASE Len(h) < 2 -> mode
         [] Len(h) >= 2 /\ mode.status # "SUCCESS" -> mode
         [] Len(h) = 2 /\ mode.status = "SUCCESS" -> Read(\h600)
         [] OTHER -> IF speed.do = "read" \/ speed.status # "SUCCESS" THEN speed
                     ELSE IF speed.out[1] >= 4
                          THEN Return(<<qpp \div 2^(speed.out[1] - 4)>>)
                     ELSE Return(<<qpp * 2^(4 - speed.out[1])>>)

-----------------------------------------------------------------------------
(* Switches that are a register of their own.                              *)

OnOff(on) == IF on THEN {31} ELSE {}

CameraReset(h)              == Set(h, \h000, {31})
CameraSetPower(h, on)       == Set(h, \h610, OnOff(on))
VideoSetTransmission(h, on) == Set(h, \h614, OnOff(on))
VideoGetTransmission(h)     == Get(h, \h614, <<31 \in h[1]>>)
VideoSetOneShot(h, on)      == Set(h, \h61C, OnOff(on))
VideoGetOneShot(h)          == Get(h, \h61C, <<31 \in h[1]>>)
VideoGetMultiShot(h)        == Get(h, \h61C, <<30 \in h[1], Field(h[1], 0, 16)>>)
VideoSetMultiShot(h, on, n) ==
    IF on THEN Set(h, \h61C, Insert({30}, 0, 16, Bits(n))) ELSE VideoSetOneShot(h, FALSE)
SoftwareTriggerSetPower(h, on) == Set(h, \h62C, OnOff(on))
SoftwareTriggerGetPower(h)     == Get(h, \h62C, <<31 \in h[1]>>)

MemoryBusy(h) == Get(h, \h618, <<31 \in h[1]>>)
MemorySave(h, channel) ==
    CASE h = <<>>   -> Write(\h620, Insert({}, 28, 4, Bits(channel)))
      [] Len(h) = 1 -> Write(\h618, {31})
      [] OTHER      -> Return(<<>>)
MemoryLoad(h, channel) == Set(h, \h624, Insert({}, 28, 4, Bits(channel)))

-----------------------------------------------------------------------------
(* Features with several values.                                           *)

WhitebalanceGetValue(h) ==
    Get(h, \h80C, <<Field(h[1], 12, 12), Field(h[1], 0, 12)>>)
\* Faulty variant: the fields are not masked.
WhitebalanceUnmasked(h, ub, vr) ==
    Modify(h, \h80C, TRUE, InsertAll(InsertAll(h[1], 0, 12, Bits(vr)), 12, 12, Bits(ub)))
\* Faulty variant: a write for each of the fields.
WhitebalanceTwice(h, ub, vr) ==
    CASE Len(h) \in {0, 2} -> Read(\h80C)
      [] Len(h) = 1 -> Write(\h80C, Insert(h[1], 12, 12, Bits(ub)))
      [] Len(h) = 3 -> Write(\h80C, Insert(h[3], 0, 12, Bits(vr)))
      [] OTHER      -> Return(<<>>)

WhitebalanceSetValue(h, ub, vr) ==
    Modify(h, \h80C, TRUE, Insert(Insert(h[1], 12, 12, Bits(ub)), 0, 12, Bits(vr)))

TemperatureGetValue(h) ==
    Get(h, \h82C, <<Field(h[1], 12, 12), Field(h[1], 0, 12)>>)
TemperatureSetValue(h, target) ==
    Modify(h, \h82C, TRUE, Insert(h[1], 12, 12, Bits(target)))

WhiteshadingGetValue(h) ==
    Get(h, \h838, <<Field(h[1], 16, 8), Field(h[1], 8, 8), Field(h[1], 0, 8)>>)
WhiteshadingSetValue(h, r, g, b) ==
    Modify(h, \h838, TRUE,
           Insert(Insert(Insert(h[1], 16, 8, Bits(r)), 8, 8, Bits(g)), 0, 8, Bits(b)))

-----------------------------------------------------------------------------
(* The trigger.  Modes 384..391 are the codes 0..5, 14 and 15, sources     *)
(* 576..580 the codes 0..3 and 7.                                          *)

ExternalTriggerGetMode(h) ==
    LET code == Field(h[1], 16, 4) IN
    Get(h, \h830, <<384 + (IF code > 5 THEN code - 8 ELSE code)>>)
\* Faulty variant: modes 14 and 15 follow 5 in the register as they do in the enumeration.
TriggerModeUnshifted(h, mode) ==
    IF mode \notin 384 .. 391 THEN Refuse("INVALID_TRIGGER_MODE")
    ELSE Modify(h, \h830, TRUE, Insert(h[1], 16, 4, Bits(mode - 384)))

ExternalTriggerSetMode(h, mode) ==
    LET code == mode - 384 IN
    IF mode \notin 384 .. 391 THEN Refuse("INVALID_TRIGGER_MODE")
    ELSE Modify(h, \h830, TRUE,
                Insert(h[1], 16, 4, Bits(IF code > 5 THEN code + 8 ELSE code)))

ExternalTriggerGetSupportedSources(h) ==
    Get(h, InquiryOffset(Trigger),
        <<{s \in 576 .. 580 : 23 - (s - 576) - (IF s - 576 > 3 THEN 3 ELSE 0) \in h[1]}>>)
ExternalTriggerGetSource(h) ==
    LET code == Field(h[1], 21, 3) IN
    Get(h, \h830, <<576 + (IF code > 3 THEN code - 3 ELSE code)>>)
ExternalTriggerSetSource(h, source) ==
    LET code == source - 576 IN
    IF source \notin 576 .. 580 THEN Refuse("INVALID_TRIGGER_SOURCE")
    ELSE Modify(h, \h830, TRUE,
                Insert(h[1], 21, 3, Bits(IF code > 3 THEN code + 3 ELSE code)))

ExternalTriggerGetPolarity(h) == Get(h, \h830, <<704 + Field(h[1], 24, 1)>>)
ExternalTriggerSetPolarity(h, polarity) ==
    IF polarity \notin 704 .. 705 THEN Refuse("INVALID_TRIGGER_POLARITY")
    ELSE Modify(h, \h830, TRUE, Assign(h[1], 24, polarity % 2 = 1))
ExternalTriggerHasPolarity(h) == Get(h, \h500 + (Trigger - 416) * 4, <<25 \in h[1]>>)

-----------------------------------------------------------------------------
(* Any feature.                                                            *)

FeatureGetValue(h, f) ==
    IF f \in MultiValue THEN Refuse("INVALID_FEATURE")
    ELSE ForFeature(f, Get(h, ValueOffset(f), <<Field(h[1], 0, 12)>>))
FeatureSetValue(h, f, v) ==
    IF f \in MultiValue THEN Refuse("INVALID_FEATURE")
    ELSE ForFeature(f, Modify(h, ValueOffset(f), TRUE, Insert(h[1], 0, 12, Bits(v))))

\* Present is what three registers agree is present, asked one after the other.
FeatureIsPresent(h, f) ==
    LET n == Len(h) IN
    ForFeature(f,
        IF n = 0 THEN Read(IF f < Zoom THEN \h404 ELSE \h408)
        ELSE IF (IF n = 1 THEN PresenceBit(f) ELSE 31) \notin h[n] THEN Return(<<FALSE>>)
        ELSE IF n = 3 THEN Return(<<TRUE>>)
        ELSE Read(IF n = 1 THEN InquiryOffset(f) ELSE ValueOffset(f)))

FeatureIsReadable(h, f) ==
    ForFeature(f, Get(h, InquiryOffset(f), <<27 \in h[1]>>))
FeatureIsSwitchable(h, f) ==
    ForFeature(f, Get(h, InquiryOffset(f), <<26 \in h[1]>>))
FeatureGetPower(h, f) == ForFeature(f, Get(h, ValueOffset(f), <<25 \in h[1]>>))
FeatureSetPower(h, f, on) ==
    ForFeature(f, Modify(h, ValueOffset(f), on # (25 \in h[1]), Assign(h[1], 25, on)))

FeatureGetModes(h, f) ==
    IF f = Trigger THEN Return(<<{}>>)
    ELSE ForFeature(f, Get(h, InquiryOffset(f),
             <<(IF 24 \in h[1] THEN {Manual} ELSE {})
                  \cup (IF 25 \in h[1] THEN {Auto} ELSE {})
                  \cup (IF 28 \in h[1] THEN {OnePush} ELSE {})>>))

\* The exception for TRIGGER and TRIGGER_DELAY lacks its return and has no effect.
FeatureGetMode(h, f) ==
    ForFeature(f, Get(h, ValueOffset(f),
        <<IF 26 \in h[1] THEN OnePush ELSE IF 24 \in h[1] THEN Auto ELSE Manual>>))

\* ONE_PUSH leaves the bit of AUTO as it is.
FeatureSetMode(h, f, mode) ==
    IF mode \notin Manual .. OnePush THEN Refuse("INVALID_FEATURE_MODE")
    ELSE IF f = Trigger THEN Refuse("INVALID_FEATURE")
    ELSE ForFeature(f,
        IF mode = OnePush
        THEN Modify(h, ValueOffset(f), 26 \notin h[1], h[1] \cup {26})
        ELSE Modify(h, ValueOffset(f), (mode = Auto) # (24 \in h[1]),
                    Assign(h[1], 24, mode = Auto)))

FeatureGetBoundaries(h, f) ==
    IF f = Trigger THEN Refuse("INVALID_FEATURE")
    ELSE ForFeature(f, Get(h, InquiryOffset(f), <<Field(h[1], 12, 12), Field(h[1], 0, 12)>>))

FeatureGetAbsoluteControl(h, f) ==
    ForFeature(f, Get(h, ValueOffset(f), <<30 \in h[1]>>))
FeatureSetAbsoluteControl(h, f, on) ==
    ForFeature(f, Modify(h, ValueOffset(f), on # (30 \in h[1]), Assign(h[1], 30, on)))
FeatureHasAbsoluteControl(h, f) ==
    ForFeature(f, Get(h, InquiryOffset(f), <<30 \in h[1]>>))

-----------------------------------------------------------------------------
(* Absolute values: the first read tells where the registers are.  Its     *)
(* failure is ignored, and the call goes on at offset 0.                   *)

QueryAbsoluteCSROffset(f) == TryRead(AbsOffset(f), {{}})
AbsoluteRegister(q, offset) == 4 * Number[q] + offset

FeatureGetAbsoluteBoundaries(h, f) ==
    ForFeature(f,
        CASE Len(h) \in {0, 2} -> QueryAbsoluteCSROffset(f)
          [] Len(h) = 1 -> Read(AbsoluteRegister(h[1], 4))
          [] Len(h) = 3 -> Read(AbsoluteRegister(h[3], 0))
          [] OTHER -> Return(<<h[4], h[2]>>))
FeatureGetAbsoluteValue(h, f) ==
    ForFeature(f,
        CASE h = <<>> -> QueryAbsoluteCSROffset(f)
          [] Len(h) = 1 -> Read(AbsoluteRegister(h[1], 8))
          [] OTHER -> Return(<<h[2]>>))

\* The result of the write is dropped: the call always succeeds.
FeatureSetAbsoluteValue(h, f, v) ==
    ForFeature(f,
        CASE h = <<>> -> QueryAbsoluteCSROffset(f)
          [] Len(h) = 1 -> TryWrite(AbsoluteRegister(h[1], 8), v)
          [] OTHER -> Return(<<>>))

-----------------------------------------------------------------------------
(* dc1394_feature_get(): presence, capabilities, then the current values.  *)
(* The results of get_modes and get_mode are not looked at: if the latter  *)
(* fails, the structure keeps the mode its owner had left in it.           *)

FeatureRequests(f) ==
    <<Read(InquiryOffset(f))>>
    \o (IF f = Trigger THEN <<>> ELSE <<TryRead(InquiryOffset(f), {{}})>>)
    \o <<TryRead(ValueOffset(f), {{}, {24}, {26}})>>
    \o (IF f = Trigger THEN <<Read(InquiryOffset(f))>> ELSE <<>>)
    \o <<Read(ValueOffset(f))>>

\* The current values.  Of white shading, R_value, G_value and B_value; of the
\* temperature, target_value as it stands in the register, and value; the polarity of
\* the trigger as a truth value.
\* (Faulty variant: the source is taken as it stands in the register, too.)
FeatureCurrentRaw(f, q) ==
    CASE f = Trigger ->
            LET code == Field(q, 16, 4) IN
            <<384 + (IF code >= 14 THEN code - 8 ELSE code),
              576 + Field(q, 21, 3), Field(q, 24, 1)>>
      [] f = WhiteBalance -> <<Field(q, 12, 12), Field(q, 0, 12)>>
      [] f = WhiteShading -> <<Field(q, 0, 8), Field(q, 8, 8), Field(q, 16, 8)>>
      [] f = Temperature  -> <<4096 * Field(q, 12, 12), Field(q, 0, 12)>>
      [] OTHER            -> <<Field(q, 0, 12)>>

\* Trigger codes from 14 on stand for the last two modes.
FeatureCurrent(f, q) ==
    CASE f = Trigger ->
            LET code == Field(q, 16, 4)  src == Field(q, 21, 3) IN
            <<384 + (IF code >= 14 THEN code - 8 ELSE code),
              576 + (IF src > 3 THEN src - 3 ELSE src), Field(q, 24, 1)>>
      [] f = WhiteBalance -> <<Field(q, 12, 12), Field(q, 0, 12)>>
      [] f = WhiteShading -> <<Field(q, 0, 8), Field(q, 8, 8), Field(q, 16, 8)>>
      [] f = Temperature  -> <<4096 * Field(q, 12, 12), Field(q, 0, 12)>>
      [] OTHER            -> <<Field(q, 0, 12)>>

FeatureGet(h, f) ==
    LET present == FeatureIsPresent(Answers(h, 1, 3), f)
        plain   == FeatureRequests(f)
        inq     == h[4]
        value   == h[3 + Len(plain)]
        abs     == Answers(h, 4 + Len(plain), Len(h))
        mode    == FeatureGetMode(Answers(h, IF f = Trigger THEN 5 ELSE 6,
                                            IF f = Trigger THEN 5 ELSE 6), f)
        control == FeatureGetAbsoluteControl(Answers(abs, 7, 7), f)
        info    == <<TRUE, mode.out[1], 25 \in value>> \o FeatureCurrent(f, value)
    IN IF present.do = "read" \/ present.status # "SUCCESS" \/ present.out = <<FALSE>>
       THEN present
       ELSE IF Len(h) < 3 + Len(plain) THEN plain[Len(h) - 2]
       ELSE IF 30 \notin inq THEN Return(info)
       ELSE IF Len(abs) < 4 THEN FeatureGetAbsoluteBoundaries(abs, f)
       ELSE IF Len(abs) < 6 THEN FeatureGetAbsoluteValue(Answers(abs, 5, 6), f)
       ELSE IF control.do = "read" THEN control ELSE Return(info)
============

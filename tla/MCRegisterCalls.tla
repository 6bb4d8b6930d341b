-------------------------- MODULE MCRegisterCalls ---------------------------
(* RegisterCalls on cameras with the registers of a few settings each.     *)
EXTENDS RegisterCalls

CONSTANTS prog1, prog2

Legacy == [bmode |-> FALSE, v131 |-> FALSE]
New    == [bmode |-> TRUE, v131 |-> TRUE]

Scene(cam, regs, calls, users, clears, computes) ==
    [cam |-> cam, regs |-> regs, calls |-> calls, users |-> users,
     clears |-> clears, computes |-> computes]

\* A feature's registers: presence, inquiry (with auto, manual, one-push,
\* absolute, on/off) and value.
All == {31, 30, 28, 27, 26, 25, 24}
FeatureRegs(f, inq, value) ==
    (IF f < Zoom THEN \h404 ELSE \h408) :> {PresenceBit(f)}
    @@ InquiryOffset(f) :> inq @@ ValueOffset(f) :> value
FeatureCalls(f) ==
    {Feature("FeatureGet", f, 0), Feature("FeatureSetPower", f, FALSE),
     Feature("FeatureSetMode", f, Auto), Feature("FeatureSetMode", f, OnePush)}

White == Scene(New, FeatureRegs(WhiteBalance, {31, 25, 24}, {31, 25} \cup Bits(40)),
    FeatureCalls(WhiteBalance) \cup
    {Camera("WhitebalanceSetValue", <<5, 4096 + 9>>), Camera("WhitebalanceSetValue", <<4096, 17>>)},
    {prog1, prog2}, {<<\h80C, 26>>}, {})

Shaded == Scene(New, FeatureRegs(WhiteShading, {31, 25, 24}, {31, 24} \cup Bits(77)),
    {Feature("FeatureGet", WhiteShading, 0), Feature("FeatureSetPower", WhiteShading, TRUE),
     Feature("FeatureSetMode", WhiteShading, Manual),
     Camera("WhiteshadingSetValue", <<1, 258, 255>>)}, {prog1, prog2}, {}, {})

Warm == Scene(New, FeatureRegs(Temperature, {31, 25}, {31} \cup Bits(700)),
    {Feature("FeatureGet", Temperature, 0), Camera("TemperatureSetValue", <<9>>), Camera("TemperatureSetValue", <<4095>>),
     Feature("FeatureSetPower", Temperature, TRUE)}, {prog1, prog2}, {}, {})

\* Absolute values of the exposure are at 4 * 2^10.
Exposed == Scene(New,
    FeatureRegs(417, All, {31, 25} \cup Bits(3)) @@ \h704 :> {10}
        @@ 4096 :> {0} @@ 4100 :> {5} @@ 4104 :> {2},
    FeatureCalls(417) \cup
    {Feature("FeatureSetValue", 417, 4095), Feature("FeatureSetValue", 417, 4100),
     Feature("FeatureSetAbsoluteControl", 417, TRUE),
     Feature("FeatureSetAbsoluteValue", 417, {3})}, {prog1, prog2}, {<<\h804, 26>>}, {})

\* What is asked of a feature, of one above CAPTURE_SIZE too, or of none.
Inquiry == Scene(New, FeatureRegs(437, All, {31}) @@ \h790 :> {10},
    {Feature(op, f, 0) : op \in {"FeatureIsPresent", "FeatureIsReadable", "FeatureIsSwitchable",
                                 "FeatureGetModes", "FeatureGetBoundaries",
                                 "FeatureHasAbsoluteControl", "FeatureGetAbsoluteValue",
                                 "FeatureGetAbsoluteBoundaries"}, f \in {437, 438}},
    {prog1}, {}, {})

Triggered == Scene(New, FeatureRegs(Trigger, {31, 25, 26} \cup Bits(2^16 - 1), {31, 24, 19, 18, 17}),
    {Feature("FeatureGet", Trigger, 0), Feature("FeatureSetPower", Trigger, TRUE),
     Camera("ExternalTriggerSetMode", <<385>>), Camera("ExternalTriggerSetMode", <<391>>),
     Camera("ExternalTriggerSetSource", <<580>>), Camera("ExternalTriggerSetSource", <<578>>),
     Camera("ExternalTriggerSetPolarity", <<704>>), Camera("ExternalTriggerHasPolarity", <<>>),
     Camera("ExternalTriggerGetSupportedSources", <<>>), Feature("FeatureSetMode", Trigger, Auto)},
    {prog1, prog2}, {}, {})

IsoCalls(speeds, channels) ==
    {Video("VideoSetIsoSpeed", <<s>>) : s \in speeds} \cup
    {Video("VideoSetIsoChannel", <<c>>) : c \in channels}
IsoOld  == Scene(Legacy, \h400 :> {} @@ \h60C :> {29, 25}, IsoCalls({0, 2, 4}, {3, 15}), {prog1, prog2}, {}, {})
IsoNew  == Scene(New, \h400 :> {23} @@ \h60C :> {15, 10, 2}, IsoCalls({1, 4}, {3, 40}), {prog1, prog2}, {}, {})
IsoBoth == Scene(New, \h400 :> {23} @@ \h60C :> {25, 8},
    IsoCalls({2}, {3}) \cup {Video("VideoSetOperationMode", <<on>>) : on \in BOOLEAN}, {prog1, prog2}, {}, {})

Streaming == Scene(New,
    \h608 :> {} @@ \h604 :> {31, 29} @@ \h600 :> {31} @@ \h100 :> {31, 29} @@ \h180 :> {26, 25}
        @@ \h188 :> {31} @@ \h214 :> {28, 27} @@ \h630 :> {} @@ \h60C :> {15, 1},
    {Video(op, <<>>) : op \in {"VideoGetMode", "VideoGetSupportedModes", "VideoGetDataDepth",
                               "VideoGetBandwidthUsage", "CaptureBasicSetup"}} \cup
    {Video("VideoSetMode", <<m>>) : m \in {64, 78, 83, 96}} \cup
    {Video("VideoSetFramerate", <<38>>), Video("VideoGetSupportedFramerates", <<69>>)}, {prog1}, {}, {})

Switches == Scene(New, \h000 :> {} @@ \h610 :> {31} @@ \h614 :> {} @@ \h618 :> {} @@ \h61C :> {}
        @@ \h620 :> {} @@ \h624 :> {} @@ \h62C :> {},
    {Video("VideoSetTransmission", <<TRUE>>), Video("VideoSetOneShot", <<TRUE>>),
     Video("VideoSetMultiShot", <<TRUE, 3>>), Video("VideoSetMultiShot", <<FALSE, 3>>),
     Camera("SoftwareTriggerSetPower", <<TRUE>>), Camera("CameraSetPower", <<FALSE>>),
     Camera("CameraReset", <<>>), Camera("MemoryBusy", <<>>), Camera("MemorySave", <<18>>),
     Camera("MemoryLoad", <<2>>)}, {prog1, prog2}, {<<\h61C, 31>>, <<\h618, 31>>}, {})

\* A general purpose buffer of 5 bytes, two quadlets.
Shading == Scene(Legacy, \h250 :> {25} @@ \h254 :> {5, 3} @@ \hFFC :> {2, 0} @@ \h258 :> {7},
    {Avt("AvtSetShading", <<TRUE, FALSE, TRUE, 300 % 256>>),
     Avt("AvtSetShadingMemCtrl", <<TRUE, TRUE, 6>>),
     Avt("AvtShadingImg", <<18, TRUE>>), Avt("AvtShadingImg", <<8, FALSE>>),
     Avt("AvtTransferGpdata", <<3>>), Avt("AvtGetGpdataInfo", <<>>)}, {prog1, prog2}, {}, {})

Coefficients == [i \in 1 .. 9 |-> {i}]
Curves == Scene(Legacy,
    [r \in {\h280, \h284, \h288, \h28C, \h364, \h368, \h390, \h394, \h398}
           \cup {\h3A0 + 4 * i : i \in 0 .. 9} |-> {4, 24}],
    {Avt("AvtSetMultipleSlope", <<TRUE, 3, {1}, {31, 2}, {4}>>), Avt("AvtSetAutoShutter", <<{2}, {12, 3}>>),
     Avt("AvtSetAoi", <<TRUE, 1, 2, 3, 65535>>), Avt("AvtSetAoi", <<FALSE, 0, 0, 640, 480>>),
     Avt("AvtSetColorCorr", <<TRUE, FALSE>> \o Coefficients),
     Avt("AvtSetColorCorr", <<FALSE, TRUE>> \o Coefficients)}, {prog1}, {}, {})

Singles == Scene(Legacy,
    [r \in {\h010, \h018, \h040, \h044, \h048, \h04C, \h200, \h208, \h20C, \h210, \h248, \h258,
            \h270, \h274, \h370, \h400, \h410, \h424, \h510, \h520} |-> {31, 25, 20, 7, 1}],
    {Avt(op, <<>>) : op \in {"AvtGetVersion", "AvtGetAdvancedFeatureInquiry", "AvtGetMaxResolution",
                             "AvtGetShadingInfo", "AvtGetLutInfo", "AvtGetFrameInfo",
                             "AvtResetFrameInfo", "AvtReset"}} \cup
    {Avt("AvtSetTimebase", <<9>>), Avt("AvtSetExtentedShutter", <<2^28 - 1>>),
     Avt("AvtSetTestImages", <<6>>), Avt("AvtSetAutoGain", <<4095, 2048>>),
     Avt("AvtSetTriggerDelay", <<TRUE, 2^20 - 1>>), Avt("AvtSetHsnr", <<FALSE, 511>>),
     Avt("AvtSetMirror", <<TRUE>>), Avt("AvtSetChannelAdjust", <<0 - 255>>),
     Avt("AvtSetChannelAdjust", <<255>>)}, {prog1}, {}, {})

Corrected == Scene(Legacy, \h290 :> {25} @@ \h294 :> {3},
    {Avt("AvtSetDsnu", <<TRUE, FALSE, 4>>), Avt("AvtSetDsnu", <<FALSE, TRUE, 9>>),
     Avt("AvtSetBlemish", <<TRUE, TRUE, 255>>)}, {prog1, prog2}, {<<\h290, 24>>, <<\h294, 24>>}, {\h290, \h294})

Pins == Scene(Legacy, \h320 :> {31, 20, 0} @@ \h244 :> {31, 26} @@ \h260 :> {31, 9, 8, 0}
        @@ \h240 :> {31, 2},
    {Avt("AvtSetIo", <<\h320, TRUE, 1, FALSE>>), Avt("AvtSetIo", <<\h320, FALSE, 1, TRUE>>),
     Avt("AvtSetLut", <<TRUE, 10>>), Avt("AvtSetLutMemCtrl", <<TRUE, 3, 77>>), Avt("AvtSetDeferredTrans", <<TRUE, FALSE, 3, 12, TRUE>>),
     Avt("AvtSetDeferredTrans", <<FALSE, TRUE, 255, 0, FALSE>>)}, {prog1, prog2}, {<<\h260, 26>>}, {})

MCPrograms == {prog1, prog2}

MCScenes == [
    white |-> White, shaded |-> Shaded, warm |-> Warm, exposed |-> Exposed, inquiry |-> Inquiry,
    triggered |-> Triggered, isoOld |-> IsoOld, isoNew |-> IsoNew, isoBoth |-> IsoBoth,
    streaming |-> Streaming, switches |-> Switches, shading |-> Shading, curves |-> Curves,
    singles |-> Singles, corrected |-> Corrected, pins |-> Pins]
=============================================================================

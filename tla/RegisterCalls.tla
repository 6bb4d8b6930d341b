--------------------------- MODULE RegisterCalls ----------------------------
(***************************************************************************)
(* Programs that call the functions of control.c and vendor/avt.c on one   *)
(* camera.  A call is a sequence of requests; between any two of them the  *)
(* other program may have its own served, the camera may change a bit by   *)
(* itself, and every request may fail.  A write that fails may have        *)
(* reached the camera all the same: only its answer was lost.              *)
(*                                                                         *)
(* A scene is a camera's registers and the calls that are made on them.    *)
(* No scene uses command registers and advanced registers, which have      *)
(* different base addresses, at once.                                      *)
(***************************************************************************)
EXTENDS ControlRegisters, AvtRegisters

CONSTANTS
    Programs,   \* the programs that have opened the camera
    MaxCalls,   \* bound: calls each of them makes
    Scenes,     \* by name, [cam, regs, calls, users, clears, computes] as below
    NoCall      \* a program is not in a call

ASSUME RegisterAssumption ==
    /\ MaxCalls \in Nat
    /\ \A s \in Range(Scenes) :
          /\ s.cam.bmode \in BOOLEAN /\ s.cam.v131 \in BOOLEAN
          /\ s.regs \in [DOMAIN s.regs -> Quadlet]  \* the registers at first
          /\ NoCall \notin s.calls                  \* the calls programs make
          /\ s.users \subseteq Programs             \* who makes them
          /\ s.clears \subseteq (DOMAIN s.regs) \X Positions  \* bits the camera clears
          /\ s.computes \subseteq DOMAIN s.regs     \* bit 26 starts a computation

VARIABLES
    name,   \* of the scene of this behaviour
    reg,    \* the registers of the camera
    call,   \* the call each program is in
    got,    \* the answers to its requests so far
    held,   \* history: did what the call asks for hold since it began?
    moved,  \* history: the quadlets the call has moved in blocks
    done,   \* how the program's last call ended
    left    \* how many calls each program may still make

scene == Scenes[name]
vars == <<name, reg, call, got, held, moved, done, left>>

-----------------------------------------------------------------------------
(* A call c = [op, args] after the answers h.                              *)

FeatureStep(cam, op, h, f, v) ==
    CASE op = "FeatureGet"                -> FeatureGet(h, f)
      [] op = "FeatureGetValue"           -> FeatureGetValue(h, f)
      [] op = "FeatureSetValue"           -> FeatureSetValue(h, f, v)
      [] op = "FeatureIsPresent"          -> FeatureIsPresent(h, f)
      [] op = "FeatureIsReadable"         -> FeatureIsReadable(h, f)
      [] op = "FeatureIsSwitchable"       -> FeatureIsSwitchable(h, f)
      [] op = "FeatureGetPower"           -> FeatureGetPower(h, f)
      [] op = "FeatureSetPower"           -> FeatureSetPower(h, f, v)
      [] op = "FeatureGetModes"           -> FeatureGetModes(h, f)
      [] op = "FeatureGetMode"            -> FeatureGetMode(h, f)
      [] op = "FeatureSetMode"            -> FeatureSetMode(h, f, v)
      [] op = "FeatureGetBoundaries"      -> FeatureGetBoundaries(h, f)
      [] op = "FeatureGetAbsoluteControl" -> FeatureGetAbsoluteControl(h, f)
      [] op = "FeatureSetAbsoluteControl" -> FeatureSetAbsoluteControl(h, f, v)
      [] op = "FeatureHasAbsoluteControl" -> FeatureHasAbsoluteControl(h, f)
      [] op = "FeatureGetAbsoluteBoundaries" -> FeatureGetAbsoluteBoundaries(h, f)
      [] op = "FeatureGetAbsoluteValue"   -> FeatureGetAbsoluteValue(h, f)
      [] op = "FeatureSetAbsoluteValue"   -> FeatureSetAbsoluteValue(h, f, v)

\* capture_basic_setup() for a mode of fixed size; mode 87 has none, and those
\* of Format 7 are in module Format7.
CaptureBasicSetup(cam, h) ==
    LET mode  == VideoGetMode(Answers(h, 1, 2))
        frame == BasicSetup(mode.out[1], Field(h[3], 29, 3) + 32)
        depth == VideoGetDataDepth(cam, SubSeq(h, 4, Len(h)))
    IN CASE mode.do = "read" \/ mode.status # "SUCCESS" -> mode
         [] OTHER ->
              IF mode.out[1] \notin FixedModes THEN Refuse("FAILURE")
              ELSE IF Len(h) = 2 THEN Read(\h600)
              ELSE IF frame.err # "SUCCESS" THEN Refuse(frame.err)
              ELSE IF depth.do = "read" \/ depth.status # "SUCCESS" THEN depth
              ELSE Return(<<mode.out[1], frame.packet_size, frame.total_bytes,
                            frame.image_bytes, depth.out[1]>>)

VideoStep(cam, op, h, a) ==
    CASE op = "VideoGetMode"              -> VideoGetMode(h)
      [] op = "CaptureBasicSetup"         -> CaptureBasicSetup(cam, h)
      [] op = "VideoSetMode"              -> VideoSetMode(h, a[1])
      [] op = "VideoGetSupportedModes"    -> VideoGetSupportedModes(h)
      [] op = "VideoGetSupportedFramerates" -> VideoGetSupportedFramerates(h, a[1])
      [] op = "VideoGetFramerate"         -> VideoGetFramerate(h)
      [] op = "VideoSetFramerate"         -> VideoSetFramerate(h, a[1])
      [] op = "VideoGetDataDepth"         -> VideoGetDataDepth(cam, h)
      [] op = "VideoGetIsoSpeed"          -> VideoGetIsoSpeed(cam, h)
      [] op = "VideoSetIsoSpeed"          -> VideoSetIsoSpeed(cam, h, a[1])
      [] op = "VideoGetIsoChannel"        -> VideoGetIsoChannel(h)
      [] op = "VideoSetIsoChannel"        -> VideoSetIsoChannel(h, a[1])
      [] op = "VideoGetOperationMode"     -> VideoGetOperationMode(cam, h)
      [] op = "VideoSetOperationMode"     -> VideoSetOperationMode(cam, h, a[1])
      [] op = "VideoGetBandwidthUsage"    -> VideoGetBandwidthUsage(cam, h)
      [] op = "VideoGetTransmission"      -> VideoGetTransmission(h)
      [] op = "VideoSetTransmission"      -> VideoSetTransmission(h, a[1])
      [] op = "VideoGetOneShot"           -> VideoGetOneShot(h)
      [] op = "VideoSetOneShot"           -> VideoSetOneShot(h, a[1])
      [] op = "VideoGetMultiShot"         -> VideoGetMultiShot(h)
      [] op = "VideoSetMultiShot"         -> VideoSetMultiShot(h, a[1], a[2])

CameraStep(op, h, a) ==
    CASE op = "CameraReset"               -> CameraReset(h)
      [] op = "CameraSetPower"            -> CameraSetPower(h, a[1])
      [] op = "SoftwareTriggerGetPower"   -> SoftwareTriggerGetPower(h)
      [] op = "SoftwareTriggerSetPower"   -> SoftwareTriggerSetPower(h, a[1])
      [] op = "MemoryBusy"                -> MemoryBusy(h)
      [] op = "MemorySave"                -> MemorySave(h, a[1])
      [] op = "MemoryLoad"                -> MemoryLoad(h, a[1])
      [] op = "WhitebalanceGetValue"      -> WhitebalanceGetValue(h)
      [] op = "WhitebalanceSetValue"      -> WhitebalanceSetValue(h, a[1], a[2])
      [] op = "TemperatureGetValue"       -> TemperatureGetValue(h)
      [] op = "TemperatureSetValue"       -> TemperatureSetValue(h, a[1])
      [] op = "WhiteshadingGetValue"      -> WhiteshadingGetValue(h)
      [] op = "WhiteshadingSetValue"      -> WhiteshadingSetValue(h, a[1], a[2], a[3])
      [] op = "ExternalTriggerGetMode"    -> ExternalTriggerGetMode(h)
      [] op = "ExternalTriggerSetMode"    -> ExternalTriggerSetMode(h, a[1])
      [] op = "ExternalTriggerGetSource"  -> ExternalTriggerGetSource(h)
      [] op = "ExternalTriggerSetSource"  -> ExternalTriggerSetSource(h, a[1])
      [] op = "ExternalTriggerGetSupportedSources" -> ExternalTriggerGetSupportedSources(h)
      [] op = "ExternalTriggerGetPolarity" -> ExternalTriggerGetPolarity(h)
      [] op = "ExternalTriggerSetPolarity" -> ExternalTriggerSetPolarity(h, a[1])
      [] op = "ExternalTriggerHasPolarity" -> ExternalTriggerHasPolarity(h)

AvtStep(op, h, a) ==
    CASE op = "AvtGetVersion"         -> AvtGetVersion(h)
      [] op = "AvtGetAdvancedFeatureInquiry" -> AvtGetAdvancedFeatureInquiry(h)
      [] op = "AvtGetMaxResolution"   -> AvtGetMaxResolution(h)
      [] op = "AvtGetShadingInfo"     -> AvtGetShadingInfo(h)
      [] op = "AvtGetLutInfo"         -> AvtGetLutInfo(h)
      [] op = "AvtGetFrameInfo"       -> AvtGetFrameInfo(h)
      [] op = "AvtResetFrameInfo"     -> AvtResetFrameInfo(h)
      [] op = "AvtReset"              -> AvtReset(h)
      [] op = "AvtGetShading"         -> AvtGetShading(h)
      [] op = "AvtSetShading"         -> AvtSetShading(h, a[1], a[2], a[3], a[4])
      [] op = "AvtGetShadingMemCtrl"  -> AvtGetShadingMemCtrl(h)
      [] op = "AvtSetShadingMemCtrl"  -> AvtSetShadingMemCtrl(h, a[1], a[2], a[3])
      [] op = "AvtGetGpdataInfo"      -> AvtGetGpdataInfo(h)
      [] op = "AvtTransferGpdata"     -> AvtTransferGpdata(h, a[1])
      [] op = "AvtShadingImg"         -> AvtShadingImg(h, a[1], a[2])
      [] op = "AvtGetMultipleSlope"   -> AvtGetMultipleSlope(h)
      [] op = "AvtSetMultipleSlope"   -> AvtSetMultipleSlope(h, a[1], a[2], SubSeq(a, 3, 5))
      [] op = "AvtGetTimebase"        -> AvtGetTimebase(h)
      [] op = "AvtSetTimebase"        -> AvtSetTimebase(h, a[1])
      [] op = "AvtGetExtentedShutter" -> AvtGetExtentedShutter(h)
      [] op = "AvtSetExtentedShutter" -> AvtSetExtentedShutter(h, a[1])
      [] op = "AvtGetAutoShutter"     -> AvtGetAutoShutter(h)
      [] op = "AvtSetAutoShutter"     -> AvtSetAutoShutter(h, a[1], a[2])
      [] op = "AvtGetAutoGain"        -> AvtGetAutoGain(h)
      [] op = "AvtSetAutoGain"        -> AvtSetAutoGain(h, a[1], a[2])
      [] op = "AvtGetTriggerDelay"    -> AvtGetTriggerDelay(h)
      [] op = "AvtSetTriggerDelay"    -> AvtSetTriggerDelay(h, a[1], a[2])
      [] op = "AvtGetHsnr"            -> AvtGetHsnr(h)
      [] op = "AvtSetHsnr"            -> AvtSetHsnr(h, a[1], a[2])
      [] op = "AvtGetAoi"             -> AvtGetAoi(h)
      [] op = "AvtSetAoi"             -> AvtSetAoi(h, a[1], a[2], a[3], a[4], a[5])
      [] op = "AvtGetDsnu"            -> AvtGetDsnu(h)
      [] op = "AvtSetDsnu"            -> AvtSetDsnu(h, a[1], a[2], a[3])
      [] op = "AvtGetBlemish"         -> AvtGetBlemish(h)
      [] op = "AvtSetBlemish"         -> AvtSetBlemish(h, a[1], a[2], a[3])
      [] op = "AvtGetLut"             -> AvtGetLut(h)
      [] op = "AvtSetLut"             -> AvtSetLut(h, a[1], a[2])
      [] op = "AvtGetLutMemCtrl"      -> AvtGetLutMemCtrl(h)
      [] op = "AvtSetLutMemCtrl"      -> AvtSetLutMemCtrl(h, a[1], a[2], a[3])
      [] op = "AvtGetColorCorr"       -> AvtGetColorCorr(h)
      [] op = "AvtSetColorCorr"       -> AvtSetColorCorr(h, a[1], a[2], SubSeq(a, 3, 11))
      [] op = "AvtGetChannelAdjust"   -> AvtGetChannelAdjust(h)
      [] op = "AvtSetChannelAdjust"   -> AvtSetChannelAdjust(h, a[1])
      [] op = "AvtGetMirror"          -> AvtGetMirror(h)
      [] op = "AvtSetMirror"          -> AvtSetMirror(h, a[1])
      [] op = "AvtGetTestImages"      -> AvtGetTestImages(h)
      [] op = "AvtSetTestImages"      -> AvtSetTestImages(h, a[1])
      [] op = "AvtGetIo"              -> AvtGetIo(h, a[1])
      [] op = "AvtSetIo"              -> AvtSetIo(h, a[1], a[2], a[3], a[4])
      [] op = "AvtGetDeferredTrans"   -> AvtGetDeferredTrans(h)
      [] op = "AvtSetDeferredTrans"   -> AvtSetDeferredTrans(h, a[1], a[2], a[3], a[4], a[5])

StepOf(cam, c, h) ==
    CASE c.part = "feature" -> FeatureStep(cam, c.op, h, c.args[1], c.args[2])
      [] c.part = "video"   -> VideoStep(cam, c.op, h, c.args)
      [] c.part = "camera"  -> CameraStep(c.op, h, c.args)
      [] c.part = "avt"     -> AvtStep(c.op, h, c.args)

Step(p) == StepOf(scene.cam, call[p], got[p])

-----------------------------------------------------------------------------
(* What a setting is: the getter that shows it, run on registers that do   *)
(* not change meanwhile.                                                   *)

RECURSIVE Shown(_, _, _)
Shown(g, regs, h) ==
    LET Ending(s) ==
            IF s.do = "return" THEN <<s.status, s.out>>
            ELSE Shown(g, regs, Append(h, IF s.reg \in DOMAIN regs THEN regs[s.reg] ELSE {}))
    IN Ending(StepOf(scene.cam, g, h))
Setting(g, regs) == Shown(g, regs, <<>>)

Video(op, args)   == [part |-> "video",  op |-> op, args |-> args]
Feature(op, f, v) == [part |-> "feature", op |-> op, args |-> <<f, v>>]
Camera(op, args)  == [part |-> "camera", op |-> op, args |-> args]
Avt(op, args)     == [part |-> "avt",    op |-> op, args |-> args]

\* The getter for what a setter sets, and what it shows then.
Shows(g, out) == [getter |-> g, value |-> out]
Nothing == [getter |-> NoCall, value |-> <<>>]

Asked(c) ==
    LET a == c.args  op == c.op IN
    CASE op = "VideoSetMode"          -> Shows(Video("VideoGetMode", <<>>), a)
      [] op = "VideoSetFramerate"     -> Shows(Video("VideoGetFramerate", <<>>), a)
      [] op = "VideoSetIsoSpeed"      -> Shows(Video("VideoGetIsoSpeed", <<>>), a)
      [] op = "VideoSetIsoChannel"    -> Shows(Video("VideoGetIsoChannel", <<>>), a)
      [] op = "VideoSetOperationMode" -> Shows(Video("VideoGetOperationMode", <<>>), a)
      [] op = "VideoSetTransmission"  -> Shows(Video("VideoGetTransmission", <<>>), a)
      [] op = "VideoSetOneShot"       -> Shows(Video("VideoGetOneShot", <<>>), a)
      [] op = "VideoSetMultiShot"     ->
            Shows(Video("VideoGetMultiShot", <<>>), <<a[1], IF a[1] THEN a[2] ELSE 0>>)
      [] op = "SoftwareTriggerSetPower" -> Shows(Camera("SoftwareTriggerGetPower", <<>>), a)
      [] op = "WhitebalanceSetValue"  ->  \* of a value too large, what fits its field
            Shows(Camera("WhitebalanceGetValue", <<>>), <<a[1] % 4096, a[2] % 4096>>)
      [] op = "TemperatureSetValue"   -> Shows(Camera("TemperatureGetValue", <<>>), a)
      [] op = "WhiteshadingSetValue"  ->
            Shows(Camera("WhiteshadingGetValue", <<>>), [i \in 1 .. 3 |-> a[i] % 256])
      [] op = "ExternalTriggerSetMode"   -> Shows(Camera("ExternalTriggerGetMode", <<>>), a)
      [] op = "ExternalTriggerSetSource" -> Shows(Camera("ExternalTriggerGetSource", <<>>), a)
      [] op = "ExternalTriggerSetPolarity" ->
            Shows(Camera("ExternalTriggerGetPolarity", <<>>), a)
      [] op = "FeatureSetValue"  -> Shows(Feature("FeatureGetValue", a[1], 0), <<a[2] % 4096>>)
      [] op = "FeatureSetPower"  -> Shows(Feature("FeatureGetPower", a[1], 0), <<a[2]>>)
      [] op = "FeatureSetMode" /\ a[1] # Trigger ->  \* the trigger has none
            Shows(Feature("FeatureGetMode", a[1], 0), <<a[2]>>)
      [] op = "FeatureSetAbsoluteControl" ->
            Shows(Feature("FeatureGetAbsoluteControl", a[1], 0), <<a[2]>>)
      [] op = "AvtSetShading"         -> Shows(Avt("AvtGetShading", <<>>), a)
      [] op = "AvtSetShadingMemCtrl"  -> Shows(Avt("AvtGetShadingMemCtrl", <<>>), a)
      [] op = "AvtSetMultipleSlope"   -> Shows(Avt("AvtGetMultipleSlope", <<>>), a)
      [] op = "AvtSetTimebase"        -> Shows(Avt("AvtGetTimebase", <<>>), a)
      [] op = "AvtSetExtentedShutter" -> Shows(Avt("AvtGetExtentedShutter", <<>>), a)
      [] op = "AvtSetAutoShutter"     -> Shows(Avt("AvtGetAutoShutter", <<>>), a)
      [] op = "AvtSetAutoGain"        -> Shows(Avt("AvtGetAutoGain", <<>>), a)
      [] op = "AvtSetTriggerDelay"    -> Shows(Avt("AvtGetTriggerDelay", <<>>), a)
      [] op = "AvtSetHsnr"            -> Shows(Avt("AvtGetHsnr", <<>>), a)
      [] op = "AvtSetAoi"             -> Shows(Avt("AvtGetAoi", <<>>), a)
      [] op = "AvtSetDsnu"            -> Shows(Avt("AvtGetDsnu", <<>>), <<a[1], a[3]>>)
      [] op = "AvtSetBlemish"         -> Shows(Avt("AvtGetBlemish", <<>>), <<a[1], a[3]>>)
      [] op = "AvtSetLut"             -> Shows(Avt("AvtGetLut", <<>>), a)
      [] op = "AvtSetLutMemCtrl"      -> Shows(Avt("AvtGetLutMemCtrl", <<>>), a)
      [] op = "AvtSetColorCorr"       ->
            Shows(Avt("AvtGetColorCorr", <<>>), IF a[2] THEN <<a[1]>> ELSE <<a[1]>> \o SubSeq(a, 3, 11))
      [] op = "AvtSetChannelAdjust"   -> Shows(Avt("AvtGetChannelAdjust", <<>>), a)
      [] op = "AvtSetMirror"          -> Shows(Avt("AvtGetMirror", <<>>), a)
      [] op = "AvtSetTestImages"      -> Shows(Avt("AvtGetTestImages", <<>>), a)
      [] op = "AvtSetIo"              -> Shows(Avt("AvtGetIo", <<a[1]>>), SubSeq(a, 2, 4))
      [] op = "AvtSetDeferredTrans"   -> Shows(Avt("AvtGetDeferredTrans", <<>>), SubSeq(a, 1, 4))
      [] OTHER -> Nothing

SettersOf == [n \in DOMAIN Scenes |-> {c \in Scenes[n].calls : Asked(c) # Nothing}]
GettersOf == [n \in DOMAIN Scenes |-> {Asked(c).getter : c \in SettersOf[n]}]
Setters == SettersOf[name]
Getters == GettersOf[name]

\* A pending one-push, which the camera ends, hides what get_mode would show.
Fulfils(setting, c, value) ==
    \/ setting[1] = "SUCCESS" /\ Answers(setting[2], 1, Len(value)) = value
    \/ c.op = "FeatureSetMode" /\ setting = <<"SUCCESS", <<OnePush>>>>
Holds(c, regs) ==
    LET Of(a) == Fulfils(Setting(a.getter, regs), c, a.value) IN Of(Asked(c))

-----------------------------------------------------------------------------
(* Programs, requests and the camera.                                      *)

NotYet == [call |-> NoCall, status |-> "none", held |-> FALSE, moved |-> 0]

Init ==
    /\ name \in DOMAIN Scenes
    /\ reg = scene.regs
    /\ call = [p \in Programs |-> NoCall]
    /\ got = [p \in Programs |-> <<>>]
    /\ held = [p \in Programs |-> FALSE]
    /\ moved = [p \in Programs |-> 0]
    /\ done = [p \in Programs |-> NotYet]
    /\ left = [p \in Programs |-> IF p \in scene.users THEN MaxCalls ELSE 0]

Call(p) ==
    /\ call[p] = NoCall /\ left[p] > 0
    /\ \E c \in scene.calls :
          /\ call' = [call EXCEPT ![p] = c]
          /\ held' = [held EXCEPT ![p] = c \in Setters /\ Holds(c, reg)]
    /\ got' = [got EXCEPT ![p] = <<>>]
    /\ moved' = [moved EXCEPT ![p] = 0]
    /\ left' = [left EXCEPT ![p] = @ - 1]
    /\ UNCHANGED <<name, reg, done>>

\* The registers become regs: note whose wish has come true.
Become(regs) ==
    /\ reg' = regs
    /\ held' = [q \in Programs |->
                   held[q] \/ (call[q] \in Setters /\ Holds(call[q], regs))]

Ends(p, status) ==
    /\ call' = [call EXCEPT ![p] = NoCall]
    /\ got' = [got EXCEPT ![p] = <<>>]
    /\ done' = [done EXCEPT ![p] = [call |-> call[p], status |-> status,
                                    held |-> held[p], moved |-> moved[p]]]

\* The answer to a poll takes the place of the one before.
Answered(p, s, answer) ==
    /\ got' = [got EXCEPT ![p] =
                  Append(IF s.do = "poll" THEN SubSeq(@, 1, s.at - 1) ELSE @, answer)]
    /\ UNCHANGED <<call, done>>

\* Registers that the camera has not do not answer.
ReadRegister(p, s) ==
    /\ s.do \in {"read", "poll"}
    /\ s.reg \in DOMAIN reg
    /\ Answered(p, s, reg[s.reg])
    /\ UNCHANGED <<reg, held, moved>>

\* A failure ends the call, unless the code goes on with what it has.
ReadFails(p, s) ==
    /\ s.do \in {"read", "poll"}
    /\ IF s.do = "poll" \/ s.instead = {} THEN Ends(p, "FAILURE")
       ELSE \E q \in s.instead : Answered(p, s, q)
    /\ UNCHANGED <<reg, held, moved>>

\* The camera keeps what is written; a computation shows in bit 24 at once.
Kept(r, q) == IF r \in scene.computes /\ 26 \in q THEN (q \ {26}) \cup {24} ELSE q

\* A write that fails may have arrived; the code may drop its result.
WriteRegister(p, s) ==
    /\ s.do = "write"
    /\ \E arrives, succeeds \in BOOLEAN :
          /\ succeeds => arrives
          /\ Become(IF arrives /\ s.reg \in DOMAIN reg
                    THEN [reg EXCEPT ![s.reg] = Kept(s.reg, s.data)] ELSE reg)
          /\ IF succeeds \/ s.ignored THEN Answered(p, s, {}) ELSE Ends(p, "FAILURE")
    /\ UNCHANGED moved

TransferBlock(p, s) ==
    /\ s.do = "transfer"
    /\ \/ /\ Answered(p, s, s.quads)
          /\ moved' = [moved EXCEPT ![p] = @ + Number[s.quads]]
       \/ Ends(p, "FAILURE") /\ UNCHANGED moved
    /\ UNCHANGED <<reg, held>>

Finish(p, s) ==
    /\ s.do = "return"
    /\ Ends(p, s.status)
    /\ UNCHANGED <<reg, held, moved>>

\* The camera ends a one-push adjustment, a shot or a computation.
CameraClears ==
    /\ \E t \in scene.clears :
          /\ t[2] \in reg[t[1]]
          /\ Become([reg EXCEPT ![t[1]] = @ \ {t[2]}])
    /\ UNCHANGED <<name, call, got, moved, done, left>>

\* What a program in a call does next, s, comes about or fails.
Request(p) ==
    LET Done(s) == \/ ReadRegister(p, s) \/ ReadFails(p, s) \/ WriteRegister(p, s)
                   \/ TransferBlock(p, s) \/ Finish(p, s)
    IN  /\ call[p] # NoCall
        /\ Done(Step(p))
        /\ UNCHANGED <<name, left>>
Next == CameraClears \/ \E p \in Programs : Call(p) \/ Request(p)

Spec == Init /\ [][Next]_vars

-----------------------------------------------------------------------------
(* Properties.                                                             *)

\* The variables keep their types; in particular no shift drives a bit of an
\* argument out of its quadlet.
RegTypeOK ==
    /\ name \in DOMAIN Scenes
    /\ DOMAIN reg = DOMAIN scene.regs /\ \A r \in DOMAIN reg : reg[r] \subseteq Positions
    /\ \A p \in Programs :
          /\ call[p] \in scene.calls \cup {NoCall}
          /\ \A i \in 1 .. Len(got[p]) : got[p][i] \subseteq Positions
          /\ held[p] \in BOOLEAN /\ moved[p] \in Nat /\ left[p] \in 0 .. MaxCalls
          /\ done[p].call \in scene.calls \cup {NoCall} /\ done[p].moved \in Nat

\* Calls that set more than one register, which others may come between.
SeveralWrites == {"VideoSetMode", "AvtSetMultipleSlope", "AvtSetAutoShutter", "AvtSetAoi",
                  "AvtSetColorCorr"}

\* A setter that returns SUCCESS has set what it was asked: at some moment of
\* the call the getter of the same setting would have shown the argument,
\* whatever the register held, and also where the code leaves out a write
\* because the register already shows it.  For a setting in several registers
\* only if no other program calls.
SuccessHeld ==
    \A p \in Programs :
        (/\ done[p].status = "SUCCESS"
         /\ done[p].call \in Setters
         /\ done[p].call.op \notin SeveralWrites \/ Cardinality(scene.users) = 1)
            => done[p].held

\* Calls after which other settings are not what they were: in the other mode
\* of operation speed and channel stand elsewhere, the two kinds of shots share a
\* register that both overwrite, and an image goes through a memory of which the
\* address and the access are settings.
Shots == {"VideoSetOneShot", "VideoSetMultiShot"}
Disturbs(c, g) ==
    \/ c.op = "VideoSetOperationMode" /\ g.op \in {"VideoGetIsoSpeed", "VideoGetIsoChannel"}
    \/ c.op = "AvtShadingImg" /\ g.op = "AvtGetShadingMemCtrl"
    \/ c.op \in Shots /\ g.op \in {"VideoGetOneShot", "VideoGetMultiShot"}

\* The registers as program p has read them.
RequestOf(p, i) == StepOf(scene.cam, call[p], SubSeq(got[p], 1, i - 1))
ReadBy(p, r) ==
    LET Reads(s) == s.do = "read" /\ s.reg = r
    IN  {got[p][i] : i \in {j \in 1 .. Len(got[p]) : Reads(RequestOf(p, j))}}
AsRead(p) ==
    LET Seen(r, quads) == IF quads = {} THEN reg[r] ELSE CHOOSE q \in quads : TRUE
    IN  [r \in DOMAIN reg |-> Seen(r, ReadBy(p, r))]

\* A write changes no setting but the one the call is for: all others are as
\* they were in the quadlets the call has read, although they share registers
\* with it and arguments may be too large for their fields.  (Not if the call
\* has read one register twice and got different answers, as set_iso_channel
\* may: it mixes the two.)
OthersKept(p, before, s) ==
    \A g \in Getters \ {Asked(call[p]).getter} :
        \/ Disturbs(call[p], g)
        \/ Setting(g, [before EXCEPT ![s.reg] = s.data]) = Setting(g, before)
ChangesAsked(p, s) ==
    (/\ s.do = "write" /\ s.reg \in DOMAIN reg
     /\ \A r \in DOMAIN reg : Cardinality(ReadBy(p, r)) <= 1)
        => OthersKept(p, AsRead(p), s)
OnlyAskedChanges ==
    [][\A p \in Programs :
          call[p] # NoCall /\ got'[p] # got[p] => ChangesAsked(p, Step(p))]_vars

\* Settings in one register are never torn: whatever calls overlap or fail,
\* each of them has the value it had at first or one that a call asks for.
\* (Looked at between calls only, which spares work: a request can always fail,
\* so that all the registers can contain is also met there.)
Quiet == \A p \in Programs : call[p] = NoCall
OneRegister(g) == g.op \notin {"VideoGetMode", "VideoGetIsoChannel", "AvtGetMultipleSlope",
                                "AvtGetAutoShutter", "AvtGetAoi", "AvtGetColorCorr"}
NoTornSetting == Quiet =>
    \A g \in {x \in Getters : OneRegister(x)} :
        \/ Setting(g, reg) = Setting(g, scene.regs)
        \/ \E c \in Setters : Asked(c).getter = g /\ Holds(c, reg)
        \/ \E c \in scene.calls : Disturbs(c, g)

\* The frame that capture_basic_setup() describes, from a mode and a rate in
\* different registers and from two tables, has room for the image of that mode,
\* with less than a packet of padding.  (Not the one of mode 76 at 120 frames
\* per second: the table says 3073 quadlets where it should say 3072, and the
\* number of packets is rounded down to one less than the image needs.)
HasRoom(mode, rate, info) ==
    info[1] = "SUCCESS" /\ ~(mode = 76 /\ rate = 6) =>
        /\ info[2][1] = mode
        /\ info[2][3] - info[2][4] \in 0 .. info[2][2] - 1
FrameHasRoom ==
    LET setup == Video("CaptureBasicSetup", <<>>) IN
    setup \in scene.calls =>
        \A fmt \in 0 .. 2, rate \in 0 .. 7 : \A mode \in ModesOf(fmt) :
            HasRoom(mode, rate,
                    Setting(setup, [reg EXCEPT
                                      ![\h608] = Insert({}, 29, 3, Bits(fmt)),
                                      ![\h604] = Insert({}, 29, 3, Bits(mode - FirstMode[fmt])),
                                      ![\h600] = Insert({}, 29, 3, Bits(rate))]))

\* dc1394_feature_get() tells at a place of its answer what the function for a single
\* setting tells at a place of its own.
Tells(info, at, getter, place) == info[2][at] = Setting(getter, reg)[2][place]
Told(f, info) ==
    /\ Tells(info, 1, Feature("FeatureIsPresent", f, 0), 1)
    /\ Tells(info, 2, Feature("FeatureGetMode", f, 0), 1)
    /\ Tells(info, 3, Feature("FeatureGetPower", f, 0), 1)
    /\ CASE f = Trigger ->
              /\ Tells(info, 4, Camera("ExternalTriggerGetMode", <<>>), 1)
              /\ Tells(info, 5, Camera("ExternalTriggerGetSource", <<>>), 1)
         [] f = WhiteBalance ->
              \A k \in 1 .. 2 : Tells(info, 3 + k, Camera("WhitebalanceGetValue", <<>>), k)
         [] f = WhiteShading -> Tells(info, 5, Camera("WhiteshadingGetValue", <<>>), 2)
         [] f = Temperature  -> Tells(info, 5, Camera("TemperatureGetValue", <<>>), 2)
         [] OTHER            -> Tells(info, 4, Feature("FeatureGetValue", f, 0), 1)
Informed(f, P(_)) ==
    \A c \in scene.calls :
        LET Of(info) == info[1] = "SUCCESS" /\ info[2][1] => P(info)
        IN  c = Feature("FeatureGet", f, 0) => Of(Setting(c, reg))

\* dc1394_feature_get() tells of a feature what the functions for its single
\* settings tell, for the sources and modes of trigger the library knows, but for
\* the three below; and capture_basic_setup() a frame that holds what the camera
\* sends.
InfoAgrees == Quiet =>
    /\ FrameHasRoom
    /\ \A c \in scene.calls : c.op = "FeatureGet" =>
          LET Right(info) == Told(c.args[1], info) IN Informed(c.args[1], Right)

\* The red and the blue of white shading, which dc1394_feature_print() labels R and B
\* (control.c:454), are those of dc1394_feature_whiteshading_get_value().
ShadingAgrees == Quiet =>
    LET Right(info) ==
            \A k \in 1 .. 3 : Tells(info, 3 + k, Camera("WhiteshadingGetValue", <<>>), k)
    IN  Informed(WhiteShading, Right)

\* The target temperature, printed next to the current one (control.c:451), is that
\* of dc1394_feature_temperature_get_value().
TargetAgrees == Quiet =>
    LET Right(info) == Tells(info, 4, Camera("TemperatureGetValue", <<>>), 1)
    IN  Informed(Temperature, Right)

\* The polarity, a dc1394trigger_polarity_t (control.h:170), is one of the values of
\* that type, the one dc1394_external_trigger_get_polarity() tells.
PolarityAgrees == Quiet =>
    LET Right(info) == Tells(info, 6, Camera("ExternalTriggerGetPolarity", <<>>), 1)
    IN  Informed(Trigger, Right)

\* A transfer through the general purpose buffer of an AVT camera that succeeds
\* has moved every byte asked for and no quadlet more, for any size of the
\* buffer that is not zero.
GpdataComplete ==
    \A p \in Programs :
        (done[p].status = "SUCCESS" /\ done[p].call.op \in {"AvtTransferGpdata", "AvtShadingImg"})
            => done[p].moved = CeilDiv(done[p].call.args[1], 4)

=============================================================================

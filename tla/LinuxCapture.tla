---------------------------- MODULE LinuxCapture ----------------------------
(***************************************************************************)
(* dc1394_capture_setup() and dc1394_capture_stop() of the legacy Linux    *)
(* backend: linux/capture.c over IsoResources.  Every camera is driven by  *)
(* a program of its own; the programs interleave between any two requests  *)
(* to the bus, and any request may fail.  A step is one request; the       *)
(* labels of pc are those of the requests.                                 *)
(***************************************************************************)
EXTENDS IsoResources

CONSTANTS
    Units,          \* the bandwidth a capture may need
    FlagSets        \* the combinations of flags that programs pass to setup

Flags == {"CHANNEL_ALLOC", "BANDWIDTH_ALLOC", "AUTO_ISO"}

ASSUME LinuxAssumption ==
    /\ Units \subseteq Nat \ {0}
    /\ FlagSets \subseteq SUBSET Flags

VARIABLES
    pc,         \* the request that the camera's program makes next
    craw,       \* the platform_camera_t
    reg,        \* the camera's registers: [channel: of ISO_DATA, iso_en]
    ret,        \* what setup returned, until the program's next call
    refused     \* history: cameras, since they were opened, from which the bus
                \* did not take back a channel or bandwidth

linuxVars == <<isoVars, pc, craw, reg, ret, refused>>

NoChannel == -1

\* camera_new() callocs the structure.
Fresh == [flags |-> {}, is_set |-> FALSE, channel |-> 0, bandwidth |-> 0,
          iso_channel |-> 0, auto_started |-> FALSE]

Init ==
    /\ IsoInit
    /\ pc = [c \in Cameras |-> "idle"]
    /\ craw = [c \in Cameras |-> Fresh]
    /\ reg = [c \in Cameras |-> [channel |-> 0, iso_en |-> FALSE]]
    /\ ret = [c \in Cameras |-> "SUCCESS"]
    /\ refused = {}

At(c, label) == pc[c] = label /\ UNCHANGED <<leftover, refused>>
Goto(c, label) == pc' = [pc EXCEPT ![c] = label] /\ UNCHANGED ret
Return(c) == Goto(c, "idle")
Called(c, label) == pc' = [pc EXCEPT ![c] = label] /\ ret' = [ret EXCEPT ![c] = "SUCCESS"]
SetupReturns(c, err) == pc' = [pc EXCEPT ![c] = "idle"] /\ ret' = [ret EXCEPT ![c] = err]

\* dc1394_video_set_iso_channel() keeps 6 bits of the channel in 1394b mode and
\* 4 in legacy mode.
Programmed(c, ch) == IF Mode[c] = "1394b" THEN ch % NumChannels ELSE ch % LegacyChannels

-----------------------------------------------------------------------------
(* dc1394_linux_capture_setup; it refuses a camera that has a capture. *)

\* Whether the camera transmits is asked for, but not whether that request
\* succeeded: is_iso_on may be anything.
SetupBegin(c, flags) ==
    /\ At(c, "idle") /\ camera[c].open /\ ~craw[c].is_set
    /\ craw' = [craw EXCEPT ![c].flags = flags, ![c].channel = NoChannel]
    /\ \/ Called(c, "channel")
       \/ "AUTO_ISO" \in flags /\ Called(c, "iso_off")
    /\ UNCHANGED <<irm, camera, reg>>

SetupIsoOff(c) ==
    /\ At(c, "iso_off")
    /\ \/ reg' = [reg EXCEPT ![c].iso_en = FALSE] /\ Goto(c, "channel")
       \/ UNCHANGED reg /\ SetupReturns(c, "FAILURE")
    /\ UNCHANGED <<irm, camera, craw>>

SetupChannel(c) ==
    /\ At(c, "channel")
    /\ IF "CHANNEL_ALLOC" \notin craw[c].flags
       THEN Goto(c, "bandwidth") /\ UNCHANGED <<irm, camera, craw>>
       ELSE \/ \E ch \in Channels :
                  /\ TakesChannel(c, ch)
                  /\ craw' = [craw EXCEPT ![c].channel = ch]
                  /\ Goto(c, "program")
            \/ Goto(c, "fail_channel") /\ UNCHANGED <<irm, camera, craw>>
    /\ UNCHANGED reg

SetupProgram(c) ==
    /\ At(c, "program")
    /\ \/ /\ reg' = [reg EXCEPT ![c].channel = Programmed(c, craw[c].channel)]
          /\ Goto(c, "bandwidth")
       \/ UNCHANGED reg /\ Goto(c, "fail_channel")
    /\ UNCHANGED <<irm, camera, craw>>

\* Faulty variant: a failure returns at once, as it does in SetupIsoOn.
BandwidthReturns(c) ==
    /\ At(c, "bandwidth")
    /\ IF "BANDWIDTH_ALLOC" \notin craw[c].flags
       THEN Goto(c, "listen") /\ UNCHANGED <<irm, camera, craw>>
       ELSE \/ \E units \in Units :
                  /\ TakesBandwidth(c, units)
                  /\ craw' = [craw EXCEPT ![c].bandwidth = units]
                  /\ Goto(c, "listen")
            \/ SetupReturns(c, "FAILURE") /\ UNCHANGED <<irm, camera, craw>>
    /\ UNCHANGED reg

SetupBandwidth(c) ==
    /\ At(c, "bandwidth")
    /\ IF "BANDWIDTH_ALLOC" \notin craw[c].flags
       THEN Goto(c, "listen") /\ UNCHANGED <<irm, camera, craw>>
       ELSE \/ \E units \in Units :
                  /\ TakesBandwidth(c, units)
                  /\ craw' = [craw EXCEPT ![c].bandwidth = units]
                  /\ Goto(c, "listen")
            \/ Goto(c, "fail_channel") /\ UNCHANGED <<irm, camera, craw>>
    /\ UNCHANGED reg

\* capture_basic_setup(), reading back the channel, and capture_linux_setup(),
\* which sets the flag and undoes what it has done when it fails.
SetupListen(c) ==
    /\ At(c, "listen")
    /\ \/ /\ craw' = [craw EXCEPT ![c].iso_channel = reg[c].channel, ![c].is_set = TRUE]
          /\ IF "AUTO_ISO" \in craw[c].flags
             THEN Goto(c, "iso_on")
             ELSE SetupReturns(c, "SUCCESS")
       \/ UNCHANGED craw /\ Goto(c, "fail_channel")
    /\ UNCHANGED <<irm, camera, reg>>

\* A failure here returns at once, past the label fail.
SetupIsoOn(c) ==
    /\ At(c, "iso_on")
    /\ \/ /\ reg' = [reg EXCEPT ![c].iso_en = TRUE]
          /\ craw' = [craw EXCEPT ![c].auto_started = TRUE]
          /\ SetupReturns(c, "SUCCESS")
       \/ UNCHANGED <<reg, craw>> /\ SetupReturns(c, "FAILURE")
    /\ UNCHANGED <<irm, camera>>

-----------------------------------------------------------------------------
(* dc1394_linux_capture_stop, which refuses a camera that has no capture, and *)
(* the tail it shares with a failed setup.                                    *)

\* Faulty variant: the flag is not cleared.
StopKeepsFlag(c) ==
    /\ At(c, "idle") /\ camera[c].open /\ craw[c].is_set
    /\ Called(c, "stop_channel")
    /\ UNCHANGED <<irm, camera, craw, reg>>

StopBegin(c) ==
    /\ At(c, "idle") /\ camera[c].open /\ craw[c].is_set
    /\ \/ craw' = [craw EXCEPT ![c].is_set = FALSE] /\ Called(c, "stop_channel")
       \/ UNCHANGED craw /\ Called(c, "idle")
    /\ UNCHANGED <<irm, camera, reg>>

\* A release that the bus takes or refuses; the result is not looked at.
TriesRelease(c, chs, units) ==
    \/ Releases(c, chs, units) /\ UNCHANGED refused
    \/ refused' = refused \cup {c} /\ UNCHANGED <<irm, camera>>
NothingToRelease == UNCHANGED <<irm, camera, refused>>

FreeChannel(c) ==
    /\ \/ pc[c] = "fail_channel" /\ Goto(c, "fail_bandwidth")
       \/ pc[c] = "stop_channel" /\ Goto(c, "stop_bandwidth")
    /\ IF craw[c].channel \in irm.channels
       THEN TriesRelease(c, {craw[c].channel}, 0)
       ELSE NothingToRelease
    /\ UNCHANGED <<leftover, craw, reg>>

\* Faulty variant: the capture does not forget what it has released.
FreeKeepsAmounts(c) ==
    /\ \/ pc[c] = "fail_bandwidth" /\ SetupReturns(c, "FAILURE")
       \/ pc[c] = "stop_bandwidth" /\ craw[c].auto_started /\ Goto(c, "stop_iso")
       \/ pc[c] = "stop_bandwidth" /\ ~craw[c].auto_started /\ Return(c)
    /\ IF craw[c].bandwidth = 0
       THEN NothingToRelease
       ELSE TriesRelease(c, {}, craw[c].bandwidth)
    /\ UNCHANGED <<leftover, craw, reg>>

FreeBandwidth(c) ==
    /\ \/ pc[c] = "fail_bandwidth" /\ SetupReturns(c, "FAILURE")
       \/ pc[c] = "stop_bandwidth" /\ craw[c].auto_started /\ Goto(c, "stop_iso")
       \/ pc[c] = "stop_bandwidth" /\ ~craw[c].auto_started /\ Return(c)
    /\ IF craw[c].bandwidth = 0
       THEN NothingToRelease
       ELSE TriesRelease(c, {}, craw[c].bandwidth)
    /\ craw' = [craw EXCEPT ![c].channel = NoChannel, ![c].bandwidth = 0]
    /\ UNCHANGED <<leftover, reg>>

StopIso(c) ==
    /\ At(c, "stop_iso")
    /\ \/ /\ reg' = [reg EXCEPT ![c].iso_en = FALSE]
          /\ craw' = [craw EXCEPT ![c].auto_started = FALSE]
          /\ Return(c)
       \/ UNCHANGED <<reg, craw>> /\ Return(c)
    /\ UNCHANGED <<irm, camera>>

-----------------------------------------------------------------------------
(* The rest of the program: it may start the transmission by hand, and frees *)
(* the camera when no capture is set up.                                     *)

SetTransmission(c, on) ==
    /\ At(c, "idle") /\ camera[c].open
    /\ reg' = [reg EXCEPT ![c].iso_en = on]
    /\ Called(c, "idle")
    /\ UNCHANGED <<irm, camera, craw>>

Open(c) == CameraNew(c) /\ UNCHANGED <<pc, craw, reg, ret, refused>>

Free(c) ==
    /\ pc[c] = "idle" /\ ~craw[c].is_set
    /\ CameraFree(c)
    /\ craw' = [craw EXCEPT ![c] = Fresh]
    /\ Called(c, "idle")
    /\ refused' = refused \ {c}
    /\ UNCHANGED reg

SetupStep(c) == \/ SetupIsoOff(c) \/ SetupChannel(c)
                \/ SetupProgram(c) \/ SetupBandwidth(c) \/ SetupListen(c) \/ SetupIsoOn(c)
                \/ \E flags \in FlagSets : SetupBegin(c, flags)
StopStep(c) == \/ StopBegin(c) \/ FreeChannel(c) \/ FreeBandwidth(c) \/ StopIso(c)

Next == \E c \in Cameras :
    \/ SetupStep(c) \/ StopStep(c) \/ Open(c) \/ Free(c)
    \/ \E on \in BOOLEAN : SetTransmission(c, on)

Spec == Init /\ [][Next]_linuxVars

-----------------------------------------------------------------------------
(* Properties *)

Labels == {"idle", "iso_off", "channel", "program", "bandwidth", "listen", "iso_on",
           "fail_channel", "fail_bandwidth", "stop_channel", "stop_bandwidth", "stop_iso"}

\* Every variable has its type; what the capture believes it holds is in the
\* account that dc1394_iso_*() keeps of the camera (linux/capture.c:226, 255).
LinuxTypeOK ==
    /\ IsoTypeOK
    /\ pc \in [Cameras -> Labels]
    /\ craw \in [Cameras -> [flags : SUBSET Flags, is_set : BOOLEAN,
                             channel : Channels \cup {NoChannel}, bandwidth : Units \cup {0},
                             iso_channel : Channels, auto_started : BOOLEAN]]
    /\ reg \in [Cameras -> [channel : Channels, iso_en : BOOLEAN]]
    /\ ret \in [Cameras -> {"SUCCESS", "FAILURE"}]
    /\ refused \subseteq Cameras
    /\ \A c \in Cameras : craw[c].bandwidth <= camera[c].bandwidth

Allocates(c) == craw[c].is_set /\ "CHANNEL_ALLOC" \in craw[c].flags

\* Two captures that both asked for a channel never listen on the same one,
\* however setups, failures and stops of their programs interleave
\* (linux/capture.c:239-246, 264, 284-295, 343-354).
CapturesApart ==
    \A c, d \in Cameras :
       c # d /\ Allocates(c) /\ Allocates(d) => craw[c].iso_channel # craw[d].iso_channel

\* A capture receives on the channel it has allocated: "the complete set of
\* channels supported by this camera will be considered" (iso.h:64-65).
CaptureOnOwnChannel == \A c \in Cameras : Allocates(c) => craw[c].iso_channel = craw[c].channel

\* A camera without a capture has nothing allocated, whichever request of setup
\* failed, unless the bus has refused to take it back (linux/capture.c:282-295,
\* 342-354).
NothingHeldWhenStopped ==
    \A c \in Cameras : pc[c] = "idle" /\ ~craw[c].is_set /\ c \notin refused =>
       camera[c].channels = {} /\ camera[c].bandwidth = 0

\* "free resources if they were allocated" (linux/capture.c:283): a setup that
\* fails leaves the camera without channel and bandwidth.
SetupFailureReleases ==
    \A c \in Cameras : pc[c] = "idle" /\ ret[c] = "FAILURE" /\ c \notin refused =>
       camera[c].channels = {} /\ camera[c].bandwidth = 0

\* AUTO_ISO asks to "automatically start iso before capture and stop it after"
\* (capture.h:56): the stop of a capture set up without it leaves the
\* transmission alone.
ManualIsoKept ==
    [][\A c \in Cameras : "AUTO_ISO" \notin craw[c].flags /\ pc[c] = "stop_iso" =>
          reg'[c].iso_en = reg[c].iso_en]_linuxVars

\* The captures use the bus as programs that release only what they have
\* allocated themselves: all that holds of IsoPrograms holds of them
\* (linux/capture.c:240, 252, 285, 290, 344, 349).
Iso == INSTANCE IsoPrograms WITH OwnOnly <- TRUE
ImplementsIso == Iso!Spec
=============================================================================

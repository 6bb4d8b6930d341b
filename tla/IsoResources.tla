---------------------------- MODULE IsoResources ----------------------------
(***************************************************************************)
(* Isochronous channels and bandwidth: dc1394/iso.c over the legacy Linux  *)
(* backend (linux/control.c).  The cameras of one bus, opened by one or    *)
(* more programs, share the channels and the bandwidth that the bus's      *)
(* isochronous resource manager (IRM) hands out; every dc1394camera_t      *)
(* keeps its own account of what it has allocated.                         *)
(***************************************************************************)
EXTENDS Integers, FiniteSets, FiniteSetsExt

CONSTANTS
    Cameras,
    NumChannels,        \* 64 on a real bus
    LegacyChannels,     \* 16: what a camera without 1394b can use
    TotalBandwidth,     \* 4915 units on a real bus
    Mode                \* Mode[c]: "1394b", "legacy", or "capable": a camera
                        \* that knows 1394b but is operated in legacy mode

Channels == 0 .. NumChannels - 1

ASSUME IsoAssumption ==
    /\ IsFiniteSet(Cameras)
    /\ LegacyChannels \in Nat \ {0}
    /\ NumChannels \in Nat /\ NumChannels >= LegacyChannels
    /\ TotalBandwidth \in Nat
    /\ Mode \in [Cameras -> {"1394b", "capable", "legacy"}]

VARIABLES
    irm,        \* the IRM: [channels: in use, bandwidth: units available]
    camera,     \* the dc1394camera_t: [open, channels, bandwidth, persist]
    leftover    \* what freed cameras have left allocated: [channels, bandwidth]

isoVars == <<irm, camera, leftover>>

Closed == [open |-> FALSE, channels |-> {}, bandwidth |-> 0, persist |-> FALSE]

IsoInit ==
    /\ irm = [channels |-> {}, bandwidth |-> TotalBandwidth]
    /\ camera = [c \in Cameras |-> Closed]
    /\ leftover = [channels |-> {}, bandwidth |-> 0]

-----------------------------------------------------------------------------
(* The bus, as libraw1394 presents it; any request may also fail. *)

\* The channels considered when channels_allowed is 0.
Allowed(c) == IF Mode[c] = "legacy" THEN 0 .. LegacyChannels - 1 ELSE Channels

\* Faulty variant: the answer of the IRM is not looked at.
FreeUnasked(c) == Allowed(c)

FreeChannels(c) == Allowed(c) \ irm.channels

\* dc1394_iso_allocate_channel() tries the allowed channels in ascending order.
\* The driver asks for one channel after the other, from the lowest on: here the
\* first that is free, at the moment it is granted.
TakesChannel(c, ch) ==
    /\ ch \in FreeChannels(c)
    /\ \A other \in FreeChannels(c) : ch <= other
    /\ irm' = [irm EXCEPT !.channels = @ \cup {ch}]
    /\ camera' = [camera EXCEPT ![c].channels = @ \cup {ch}]

TakesBandwidth(c, units) ==
    /\ units <= irm.bandwidth
    /\ irm' = [irm EXCEPT !.bandwidth = @ - units]
    /\ camera' = [camera EXCEPT ![c].bandwidth = @ + units]

\* Giving more back than the bus has makes all of it available.
Available(units) == Min({irm.bandwidth + units, TotalBandwidth})

\* The running total is clamped at zero.
LessBandwidth(total, units) == IF total < units THEN 0 ELSE total - units

\* Faulty variant: what is released stays in the camera's account.
ReleasesUnbooked(c, chs, units) ==
    /\ irm' = [channels |-> irm.channels \ chs, bandwidth |-> Available(units)]
    /\ UNCHANGED camera

\* The releases of one call, where the channels chs and the bandwidth units are
\* those whose release succeeds.
Releases(c, chs, units) ==
    /\ irm' = [channels |-> irm.channels \ chs, bandwidth |-> Available(units)]
    /\ camera' = [camera EXCEPT ![c].channels = @ \ chs,
                                ![c].bandwidth = LessBandwidth(@, units)]

-----------------------------------------------------------------------------
(* The calls of the API *)

\* dc1394_camera_new() and its calloc.
CameraNew(c) ==
    /\ ~camera[c].open
    /\ camera' = [camera EXCEPT ![c].open = TRUE]
    /\ UNCHANGED <<irm, leftover>>

\* dc1394_iso_set_persist(): the backend agrees, whatever is allocated.
SetPersist(c) ==
    /\ camera[c].open
    /\ camera' = [camera EXCEPT ![c].persist = TRUE]
    /\ UNCHANGED <<irm, leftover>>

AllocateChannel(c) ==
    /\ camera[c].open
    /\ \E ch \in Channels : TakesChannel(c, ch)
    /\ UNCHANGED leftover

AllocateBandwidth(c, units) ==
    /\ camera[c].open
    /\ TakesBandwidth(c, units)
    /\ UNCHANGED leftover

\* The IRM frees the channel whoever allocated it.
ReleaseChannel(c, ch) ==
    /\ camera[c].open
    /\ ch \in irm.channels
    /\ Releases(c, {ch}, 0)
    /\ UNCHANGED leftover

ReleaseBandwidth(c, units) ==
    /\ camera[c].open
    /\ Releases(c, {}, units)
    /\ UNCHANGED leftover

\* dc1394_iso_release_all() tries every channel of the camera and all of its
\* bandwidth; each of these releases may fail on its own.
ReleaseAll(c) ==
    /\ camera[c].open
    /\ \E chs \in SUBSET (camera[c].channels \cap irm.channels),
          units \in {0, camera[c].bandwidth} :
          Releases(c, chs, units)
    /\ UNCHANGED leftover

\* dc1394_camera_free(): release everything unless it is to persist, then the
\* account of this camera is gone.
CameraFree(c) ==
    /\ camera[c].open
    /\ \E chs \in SUBSET (camera[c].channels \cap irm.channels),
          units \in {0, camera[c].bandwidth} :
          /\ camera[c].persist => chs = {} /\ units = 0
          /\ irm' = [channels |-> irm.channels \ chs, bandwidth |-> Available(units)]
          /\ leftover' = [channels |-> leftover.channels \cup (camera[c].channels \ chs),
                          bandwidth |-> leftover.bandwidth + camera[c].bandwidth - units]
    /\ camera' = [camera EXCEPT ![c] = Closed]

\* The calls of programs that ask for these units of bandwidth; and that release,
\* if own is TRUE, only what the same camera has allocated.
IsoCalls(asked, own) ==
    \E c \in Cameras :
       \/ CameraNew(c) \/ SetPersist(c) \/ AllocateChannel(c)
       \/ ReleaseAll(c) \/ CameraFree(c)
       \/ \E units \in asked :
             \/ AllocateBandwidth(c, units)
             \/ /\ own => units <= camera[c].bandwidth
                /\ ReleaseBandwidth(c, units)
       \/ \E ch \in Channels :
             /\ own => ch \in camera[c].channels
             /\ ReleaseChannel(c, ch)

-----------------------------------------------------------------------------
(* Properties *)

\* Every variable has its type: no account and no register goes below zero, and
\* the bus never has more bandwidth than it started with.
IsoTypeOK ==
    /\ irm \in [channels : SUBSET Channels, bandwidth : 0 .. TotalBandwidth]
    /\ camera \in [Cameras -> [open : BOOLEAN, channels : SUBSET Channels,
                               bandwidth : Nat, persist : BOOLEAN]]
    /\ leftover \in [channels : SUBSET Channels, bandwidth : Nat]

\* A channel that a camera believes it has is reserved at the IRM, and no other
\* camera, open or freed, believes the same (iso.c:63, 79, 122-124).
ChannelsExclusive ==
    /\ \A c \in Cameras : camera[c].channels \subseteq irm.channels \ leftover.channels
    /\ \A c, d \in Cameras : c # d => camera[c].channels \cap camera[d].channels = {}

ChannelsAccounted ==
    irm.channels = leftover.channels \cup UNION {camera[c].channels : c \in Cameras}

\* Unit n of the account of camera c, for the accounts b of bandwidth.
UnitsOf(b) == UNION {{c} \X (1 .. b[c]) : c \in Cameras}
Booked == UnitsOf([c \in Cameras |-> camera[c].bandwidth])

BandwidthAccounted == TotalBandwidth - irm.bandwidth = leftover.bandwidth + Cardinality(Booked)

\* Every channel and every unit that is reserved at the IRM is in the account
\* of one camera, or was left there by a camera that is gone: nothing is lost
\* and nothing is counted twice (iso.c:63, 95, 111-113, 122-126).
EverythingAccounted == ChannelsAccounted /\ BandwidthAccounted
=============================================================================

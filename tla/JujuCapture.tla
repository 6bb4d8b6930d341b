---------------------------- MODULE JujuCapture -----------------------------
(***************************************************************************)
(* Capture under the Juju stack: juju/capture.c.  The kernel fills the     *)
(* buffers in the order they were queued and puts an event into the        *)
(* context's queue for every buffer that is full.  An event does not tell  *)
(* which buffer it stands for: dequeue takes the one after `current'.      *)
(* The isochronous resource of the capture comes from JujuDevice's         *)
(* juju_iso_allocate() and goes back with juju_iso_deallocate().           *)
(***************************************************************************)
EXTENDS Integers, Sequences, FiniteSets, Selection

CONSTANTS
    NumFrames,      \* num_dma_buffers of dc1394_capture_setup()
    Discipline,     \* "ordered": the application returns the frame it has held
                    \* longest; "owned": any frame it holds
    MaxReserved     \* bound: resources of failed setups that pile up

ASSUME JujuAssumption ==
    /\ NumFrames \in Nat \ {0}
    /\ Discipline \in {"ordered", "owned"}
    /\ MaxReserved \in Nat

Frames == 0 .. NumFrames - 1
NoFrame == -1
FlagSets == SUBSET {"ALLOC", "AUTO_ISO"}

VARIABLES
    pc,         \* where the application's call is
    craw,       \* the platform_camera_t: [flags, is_set, resource, auto_started, current]
    context,    \* the iso context of iso_fd: "closed", "created" or "running"
    queued,     \* buffers queued in the context, next to be filled first
    events,     \* events to be read from iso_fd: the buffer filled, which the
                \* event does not name, or NoFrame for a bus reset
    reserved,   \* iso resources that the kernel holds for this camera
    failed,     \* history: has a setup or a deallocation failed?
    held,       \* frames the application has dequeued and not returned
    oldest,     \* the frame an "ordered" application returns next
    result      \* what the last call gave: [err, frame]

ring == <<context, queued, events>>
resource == <<reserved, failed>>
client == <<held, oldest>>
vars == <<pc, craw, ring, resource, client, result>>

Returns(err, f) == pc' = "idle" /\ result' = [err |-> err, frame |-> f]
Goto(label) == pc' = label /\ UNCHANGED result
CloseContext == context' = "closed" /\ queued' = <<>> /\ events' = <<>>

NextBuffer == (craw.current + 1) % NumFrames

Init ==
    /\ pc = "idle"
    /\ craw = [flags |-> {}, is_set |-> FALSE, resource |-> FALSE,
               auto_started |-> FALSE, current |-> 0]
    /\ context = "closed" /\ queued = <<>> /\ events = <<>>
    /\ reserved = 0 /\ failed = FALSE
    /\ held = {} /\ oldest = 0
    /\ result = [err |-> "SUCCESS", frame |-> NoFrame]

-----------------------------------------------------------------------------
(* dc1394_juju_capture_setup *)

\* A failure returns from where it happens: what was reserved stays.
SetupFails == failed' = TRUE /\ Returns("FAILURE", NoFrame) /\ UNCHANGED reserved

\* Stopping the transmission or capture_basic_setup() may fail.
SetupBegin(flags) ==
    /\ pc = "idle" /\ ~craw.is_set
    /\ craw' = [craw EXCEPT !.flags = flags]
    /\ \/ Goto(IF "ALLOC" \in flags THEN "alloc" ELSE "context") /\ UNCHANGED resource
       \/ SetupFails
    /\ UNCHANGED <<ring, client>>

\* juju_iso_allocate() may succeed, be unknown to the kernel, or fail, with the
\* resource reserved if only reading of the answer failed.
SetupAllocate ==
    /\ pc = "alloc"
    /\ \/ /\ reserved < MaxReserved
          /\ reserved' = reserved + 1
          /\ craw' = [craw EXCEPT !.resource = TRUE]
          /\ Goto("program")
          /\ UNCHANGED failed
       \/ Goto("program") /\ UNCHANGED <<craw, resource>>
       \/ SetupFails /\ UNCHANGED craw
       \/ /\ reserved < MaxReserved
          /\ reserved' = reserved + 1 /\ failed' = TRUE
          /\ Returns("FAILURE", NoFrame)
          /\ UNCHANGED craw
    /\ UNCHANGED <<ring, client>>

SetupProgram ==
    /\ pc = "program"
    /\ \/ Goto("context") /\ UNCHANGED resource
       \/ SetupFails
    /\ UNCHANGED <<craw, ring, client>>

\* Read the channel back, open the device a second time, create the context,
\* map the buffers and allocate the frames; a failure closes the descriptor.
SetupContext ==
    /\ pc = "context"
    /\ \/ /\ context' = "created"
          /\ craw' = [craw EXCEPT !.current = -1]
          /\ Goto("queue")
          /\ UNCHANGED resource
       \/ craw' \in {craw, [craw EXCEPT !.current = -1]} /\ SetupFails /\ UNCHANGED context
    /\ UNCHANGED <<queued, events, client>>

\* Queue all buffers in order; the flag is set once they are queued.
SetupQueue ==
    /\ pc = "queue"
    /\ \/ /\ queued' = [i \in 1 .. NumFrames |-> i - 1]
          /\ oldest' = 0
          /\ craw' = [craw EXCEPT !.is_set = TRUE]
          /\ Goto("start")
          /\ UNCHANGED <<context, events, resource>>
       \/ CloseContext /\ SetupFails /\ UNCHANGED <<craw, oldest>>
    /\ UNCHANGED held

\* If the context cannot be started it is closed, and the flag stays set.
SetupStart ==
    /\ pc = "start"
    /\ \/ /\ context' = "running"
          /\ IF "AUTO_ISO" \in craw.flags THEN Goto("auto") ELSE Returns("SUCCESS", NoFrame)
          /\ UNCHANGED <<queued, events, resource>>
       \/ CloseContext /\ SetupFails
    /\ UNCHANGED <<craw, client>>

SetupAuto ==
    /\ pc = "auto"
    /\ \/ /\ craw' = [craw EXCEPT !.auto_started = TRUE]
          /\ Returns("SUCCESS", NoFrame)
          /\ UNCHANGED resource
       \/ SetupFails /\ UNCHANGED craw
    /\ UNCHANGED <<ring, client>>

-----------------------------------------------------------------------------
(* The kernel *)

Fill ==
    /\ context = "running" /\ queued # <<>>
    /\ events' = Append(events, Head(queued))
    /\ queued' = Tail(queued)
    /\ UNCHANGED <<pc, craw, context, resource, client, result>>

\* Bound: one bus reset at a time waits to be read.
BusReset ==
    /\ context # "closed"
    /\ \A i \in DOMAIN events : events[i] # NoFrame
    /\ events' = Append(events, NoFrame)
    /\ UNCHANGED <<pc, craw, context, queued, resource, client, result>>

-----------------------------------------------------------------------------
(* dc1394_juju_capture_dequeue *)

Running == pc = "idle" /\ craw.is_set

DequeueBegin(policy) ==
    /\ Running
    /\ Goto(policy)
    /\ UNCHANGED <<craw, ring, resource, client>>

Dequeuing == pc \in {"WAIT", "POLL"}

PollFindsNothing ==
    /\ pc = "POLL" /\ context = "running" /\ events = <<>>
    /\ Returns("SUCCESS", NoFrame)
    /\ UNCHANGED <<craw, ring, resource, client>>

\* read() fails; if the context is closed, poll() reports an error that is taken
\* for readiness, and read() fails for sure.
ReadFails ==
    /\ Dequeuing /\ (events # <<>> \/ context = "closed")
    /\ Returns("FAILURE", NoFrame)
    /\ UNCHANGED <<craw, ring, resource, client>>

\* Faulty variant: after an event of another kind, poll() waits whatever the
\* policy.
SkipAndWait ==
    /\ Dequeuing /\ events # <<>> /\ Head(events) = NoFrame
    /\ events' = Tail(events)
    /\ Goto("WAIT")
    /\ UNCHANGED <<craw, context, queued, resource, client>>

\* Any other event than an interrupt is read and forgotten.
SkipEvent ==
    /\ Dequeuing /\ events # <<>> /\ Head(events) = NoFrame
    /\ events' = Tail(events)
    /\ UNCHANGED <<pc, craw, context, queued, resource, client, result>>

\* Faulty variant: the type of the event is not looked at.
TakeAny ==
    /\ Dequeuing /\ events # <<>>
    /\ events' = Tail(events)
    /\ craw' = [craw EXCEPT !.current = NextBuffer]
    /\ held' = held \cup {NextBuffer}
    /\ Returns("SUCCESS", NextBuffer)
    /\ UNCHANGED <<context, queued, resource, oldest>>

Take ==
    /\ Dequeuing /\ events # <<>> /\ Head(events) # NoFrame
    /\ events' = Tail(events)
    /\ craw' = [craw EXCEPT !.current = NextBuffer]
    /\ held' = held \cup {NextBuffer}
    /\ Returns("SUCCESS", NextBuffer)
    /\ UNCHANGED <<context, queued, resource, oldest>>

-----------------------------------------------------------------------------
(* dc1394_juju_capture_enqueue, which queues whatever it is given *)

Returnable == {f \in held : Discipline = "owned" \/ f = oldest}

Enqueue(f) ==
    /\ Running /\ f \in Returnable
    /\ \/ /\ context = "running"
          /\ queued' = Append(queued, f)
          /\ held' = held \ {f}
          /\ oldest' = IF Discipline = "ordered" THEN (oldest + 1) % NumFrames ELSE oldest
          /\ Returns("SUCCESS", NoFrame)
       \/ Returns("FAILURE", NoFrame) /\ UNCHANGED <<queued, held, oldest>>
    /\ UNCHANGED <<craw, context, events, resource>>

-----------------------------------------------------------------------------
(* dc1394_juju_capture_stop *)

\* FW_CDEV_IOC_STOP_ISO fails, as it must on a closed descriptor.
StopFails ==
    /\ Running
    /\ Returns("FAILURE", NoFrame)
    /\ UNCHANGED <<craw, ring, resource, client>>

StopContext ==
    /\ Running /\ context = "running"
    /\ CloseContext /\ held' = {}
    /\ craw' = [craw EXCEPT !.is_set = FALSE]
    /\ Goto("deallocate")
    /\ UNCHANGED <<resource, oldest>>

\* Faulty variant: the pointer is cleared, and nothing is given back.
ResourceForgotten ==
    /\ pc = "deallocate"
    /\ craw' = [craw EXCEPT !.resource = FALSE]
    /\ Goto("stop_auto")
    /\ UNCHANGED <<ring, resource, client>>

\* The pointer is cleared even if the resource could not be given back.
StopDeallocate ==
    /\ pc = "deallocate"
    /\ craw' = [craw EXCEPT !.resource = FALSE]
    /\ IF craw.resource
       THEN \/ reserved' = reserved - 1 /\ UNCHANGED failed
            \/ failed' = TRUE /\ UNCHANGED reserved
       ELSE UNCHANGED resource
    /\ Goto("stop_auto")
    /\ UNCHANGED <<ring, client>>

StopAuto ==
    /\ pc = "stop_auto"
    /\ \/ craw' = [craw EXCEPT !.auto_started = FALSE] /\ Returns("SUCCESS", NoFrame)
       \/ craw.auto_started /\ Returns("FAILURE", NoFrame) /\ UNCHANGED craw
    /\ UNCHANGED <<ring, resource, client>>

\* dc1394_juju_camera_free() closes the device, and the kernel takes back what
\* it holds for it; the camera is opened again.
CameraReopen ==
    /\ pc = "idle" /\ ~craw.is_set
    /\ craw' = [craw EXCEPT !.flags = {}, !.resource = FALSE, !.auto_started = FALSE, !.current = 0]
    /\ reserved' = 0 /\ failed' = FALSE
    /\ Returns("SUCCESS", NoFrame)
    /\ UNCHANGED <<ring, client>>

-----------------------------------------------------------------------------
Setup == \/ SetupAllocate \/ SetupProgram \/ SetupContext \/ SetupQueue \/ SetupStart \/ SetupAuto
         \/ \E flags \in FlagSets : SetupBegin(flags)
Dequeue == \/ PollFindsNothing \/ ReadFails \/ SkipEvent \/ Take
           \/ \E policy \in {"WAIT", "POLL"} : DequeueBegin(policy)
Stop == StopFails \/ StopContext \/ StopDeallocate \/ StopAuto

Next == \/ Setup \/ Fill \/ BusReset \/ Dequeue \/ Stop \/ CameraReopen
        \/ \E f \in Frames : Enqueue(f)

Spec == Init /\ [][Next]_vars

\* A call in progress goes on; the camera owes nothing, and read() need not fail.
Fairness == /\ WF_vars(PollFindsNothing) /\ WF_vars(SkipEvent) /\ WF_vars(Take)
            /\ WF_vars(context = "closed" /\ ReadFails)

FairSpec == Spec /\ Fairness

-----------------------------------------------------------------------------
(* Properties *)

\* Every variable has its type.
JujuTypeOK ==
    /\ pc \in {"idle", "alloc", "program", "context", "queue", "start", "auto",
              "WAIT", "POLL", "deallocate", "stop_auto"}
    /\ craw \in [flags : FlagSets, is_set : BOOLEAN, resource : BOOLEAN,
                 auto_started : BOOLEAN, current : Frames \cup {-1}]
    /\ context \in {"closed", "created", "running"}
    /\ queued \in Seq(Frames) /\ events \in Seq(Frames \cup {NoFrame})
    /\ reserved \in 0 .. MaxReserved /\ failed \in BOOLEAN
    /\ held \subseteq Frames /\ oldest \in Frames
    /\ result \in [err : {"SUCCESS", "FAILURE"}, frame : Frames \cup {NoFrame}]

\* A buffer that the application holds is not queued for the camera to write:
\* enqueue "returns a frame to the ring buffer once it has been used"
\* (capture.h:87-89), and no other frame is handed out meanwhile.
HeldNotQueued == \A i \in DOMAIN queued : queued[i] \notin held

\* Unless a setup or a deallocation has failed, the kernel holds an iso resource
\* for the camera only while a capture has it (juju/capture.c:149-163, 281-285).
ReservedByCapture == ~failed => reserved = (IF craw.resource THEN 1 ELSE 0)

\* The application gets the buffers in the order the kernel has filled them,
\* although no event tells which buffer it stands for, and bus resets come in
\* between (juju/capture.c:328-350).
RingOn == context = "running"
RingDevice == IF RingOn THEN queued ELSE <<>>
RingReady == Selected(events, Frames)
Ring == INSTANCE FrameRing WITH
    on <- RingOn, device <- RingDevice, ready <- RingReady, user <- held
ImplementsRing == Ring!Spec

\* A dequeue returns if a buffer is full, and a POLL in any case, unless the bus
\* is reset for ever (juju/capture.c:328-347).
ResetsEnd == <>[](\A i \in DOMAIN events : events[i] # NoFrame)
FullBuffer == \E i \in DOMAIN events : events[i] # NoFrame
DequeueReturns ==
    ResetsEnd => /\ pc = "WAIT" /\ FullBuffer ~> pc = "idle"
                 /\ pc = "POLL" ~> pc = "idle"
=============================================================================

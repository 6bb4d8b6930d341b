----------------------------- MODULE UsbCapture -----------------------------
(***************************************************************************)
(* Capture over IIDC-over-USB: dc1394/usb/capture.c.                       *)
(*                                                                         *)
(* Two threads share a ring of NumFrames buffers.  The helper thread sits  *)
(* in libusb_handle_events_timeout() and runs callback() for every         *)
(* finished bulk transfer: it sets the frame's status and counts it in     *)
(* frames_ready under the mutex, releases the mutex, and only then writes  *)
(* one byte to the notify pipe.  The application thread calls setup,       *)
(* dequeue, enqueue and stop; dequeue reads one byte of the pipe, then     *)
(* takes the frame that follows `current' in the ring.                     *)
(*                                                                         *)
(* A critical section is two steps: one acquires the mutex and loads       *)
(* frames_ready into a register of the thread, the other stores it back    *)
(* and releases the mutex, so an update could be lost if the mutex did     *)
(* not serialise the two threads.                                          *)
(***************************************************************************)
EXTENDS Integers, Sequences, FiniteSets

CONSTANTS
    NumFrames,   \* num_dma_buffers of dc1394_capture_setup()
    Discipline,  \* which dequeued frames the application may enqueue next:
                 \*   "ordered"  the one it has held longest
                 \*   "owned"    any frame it holds
    LaunchMayFail \* may pthread_create() run out of threads?

ASSUME NumFramesAssumption == NumFrames \in Nat \ {0}
ASSUME DisciplineAssumption == Discipline \in {"ordered", "owned"}
ASSUME LaunchAssumption == LaunchMayFail \in BOOLEAN

Frames == 0 .. NumFrames - 1
NoFrame == -1
Status == {"EMPTY", "FILLED", "CORRUPT", "ERROR"}
Policies == {"WAIT", "POLL"}

\* What setup acquires, in this order; "transfers" stands for every transfer
\* having been submitted.
Resources == {"pipe", "buffer", "frames", "context", "handle", "interface",
              "transfers", "mutex", "thread"}
AcquiredBefore(r) ==
    CASE r = "pipe"      -> {}
      [] r = "buffer"    -> {"pipe"}
      [] r = "frames"    -> {"pipe", "buffer"}
      [] r = "context"   -> {"pipe", "buffer", "frames"}
      [] r = "handle"    -> {"pipe", "buffer", "frames", "context"}
      [] r = "interface" -> {"pipe", "buffer", "frames", "context", "handle"}
      [] r = "transfers" -> Resources \ {"transfers", "mutex", "thread"}
      [] r = "mutex"     -> Resources \ {"mutex", "thread"}
      [] r = "thread"    -> Resources \ {"thread"}

VARIABLES
    status,            \* frames[f].status
    current,           \* the frame dequeued last, -1 before the first
    frames_ready,      \* filled frames that are not dequeued yet
    queue_broken,      \* a transfer could not be resubmitted
    notify_pipe,       \* bytes in the pipe
    mutex,             \* the thread that holds it, or "free"
    kill_thread,
    res,               \* the resources setup holds
    capture_is_set,
    iso_auto_started,
    inflight,          \* transfers submitted to libusb, oldest first
    helper,            \* where the helper thread is: [pc, frame, status, ready]
    app,               \* where the application's call is: [pc, policy, ready]
    held,              \* frames the application has dequeued and not returned
    oldest,            \* the frame an "ordered" application returns next
    result             \* what the last dequeue or enqueue gave: [err, frame]

capture == <<status, current, frames_ready, queue_broken, inflight>>
threads == <<notify_pipe, mutex, kill_thread, helper>>
session == <<res, capture_is_set, iso_auto_started>>
client  == <<held, oldest, result>>
vars == <<capture, threads, session, client, app>>

NoHelper == [pc |-> "none", frame |-> NoFrame, status |-> "EMPTY", ready |-> 0]
Returned(err, f) == [err |-> err, frame |-> f]
AppAt(pc) == app.pc = pc
AppGoto(pc) == app' = [app EXCEPT !.pc = pc]
HelperAt(pc) == helper.pc = pc
HelperGoto(pc) == helper' = [helper EXCEPT !.pc = pc]

Next_frame(f) == (f + 1) % NumFrames
\* NEXT_BUFFER(c, c->current)
NextBuffer == IF current = -1 THEN 0 ELSE Next_frame(current)
InFlight == {inflight[i] : i \in DOMAIN inflight}
\* Frames the helper has filled and dequeue has not handed out.
Ready == {f \in Frames : status[f] # "EMPTY" /\ f \notin held}

Init ==
    /\ status = [f \in Frames |-> "EMPTY"]
    /\ current = 0
    /\ frames_ready = 0
    /\ queue_broken = FALSE
    /\ notify_pipe = 0
    /\ mutex = "free"
    /\ kill_thread = FALSE
    /\ res = {}
    /\ capture_is_set = FALSE
    /\ iso_auto_started = FALSE
    /\ inflight = <<>>
    /\ helper = NoHelper
    /\ app = [pc |-> "idle", policy |-> "WAIT", ready |-> 0]
    /\ held = {}
    /\ oldest = 0
    /\ result = Returned("SUCCESS", NoFrame)

-----------------------------------------------------------------------------
(* dc1394_usb_capture_setup *)

\* Entry: the flag is set first.  capture_basic_setup() may fail, and every
\* failure of setup calls dc1394_usb_capture_stop().
SetupBegin ==
    /\ AppAt("idle")
    /\ ~capture_is_set
    /\ capture_is_set' = TRUE
    /\ \/ AppGoto("setup")
       \/ AppGoto("stop")
    /\ UNCHANGED <<capture, threads, client, res, iso_auto_started>>

\* The steps that acquire one resource each, or fail.  The ring's counters are
\* reset between the pipe and the buffer, the frames when they are allocated.
\* pthread_mutex_init() is tested for a negative result, which it never gives.
SetupAcquire(r) ==
    /\ AppAt("setup")
    /\ res = AcquiredBefore(r)
    /\ r \notin {"transfers", "thread"}
    /\ IF r = "buffer"
       THEN /\ current' = -1
            /\ frames_ready' = 0
            /\ queue_broken' = FALSE
       ELSE UNCHANGED <<current, frames_ready, queue_broken>>
    /\ \/ /\ res' = res \cup {r}
          /\ status' = IF r = "frames" THEN [f \in Frames |-> "EMPTY"] ELSE status
          /\ oldest' = IF r = "frames" THEN 0 ELSE oldest
          /\ UNCHANGED app
       \/ /\ r # "mutex"
          /\ AppGoto("stop")
          /\ UNCHANGED <<res, status, oldest>>
    /\ UNCHANGED <<inflight, threads, capture_is_set, iso_auto_started, held, result>>

\* Faulty variant: the transfers are submitted from the last frame to the first.
SubmitReversed ==
    /\ AppAt("setup")
    /\ res = AcquiredBefore("transfers")
    /\ inflight' = [i \in 1 .. NumFrames |-> NumFrames - i]
    /\ res' = res \cup {"transfers"}
    /\ UNCHANGED <<status, current, frames_ready, queue_broken, threads,
                   capture_is_set, iso_auto_started, client, app>>

\* The initial transfers are submitted in ring order; n of them succeed.
SetupSubmit ==
    /\ AppAt("setup")
    /\ res = AcquiredBefore("transfers")
    /\ \E n \in 0 .. NumFrames :
          /\ inflight' = [i \in 1 .. n |-> i - 1]
          /\ IF n = NumFrames
             THEN res' = res \cup {"transfers"} /\ UNCHANGED app
             ELSE AppGoto("stop") /\ UNCHANGED res
    /\ UNCHANGED <<status, current, frames_ready, queue_broken, threads,
                   capture_is_set, iso_auto_started, client>>

\* pthread_create, then the automatic start of the transmission, whose result
\* is not looked at.  pthread_create() is tested for a negative result too, but
\* fails with a positive one: thread_created is set whether or not it ran.
SetupLaunch ==
    /\ AppAt("setup")
    /\ res = AcquiredBefore("thread")
    /\ res' = res \cup {"thread"}
    /\ \/ helper' = [NoHelper EXCEPT !.pc = "events"]
       \/ LaunchMayFail /\ UNCHANGED helper
    /\ iso_auto_started' \in BOOLEAN
    /\ AppGoto("idle")
    /\ UNCHANGED <<capture, notify_pipe, mutex, kill_thread, capture_is_set, client>>

-----------------------------------------------------------------------------
(* capture_thread and callback *)

\* libusb reports the transfer that has been in flight longest.
CallbackBegin ==
    /\ HelperAt("events")
    /\ inflight # <<>>
    /\ inflight' = Tail(inflight)
    /\ \E s \in Status \ {"EMPTY"} :
          helper' = [helper EXCEPT !.pc = "enter", !.frame = Head(inflight), !.status = s]
    /\ UNCHANGED <<status, current, frames_ready, queue_broken, notify_pipe, mutex,
                   kill_thread, session, client, app>>

\* Faulty variant: the callback does not take the mutex.
CallbackUnlocked ==
    /\ HelperAt("enter")
    /\ helper' = [helper EXCEPT !.pc = "exit", !.ready = frames_ready]
    /\ UNCHANGED <<capture, notify_pipe, mutex, kill_thread, session, client, app>>

CallbackLock ==
    /\ HelperAt("enter")
    /\ mutex = "free"
    /\ mutex' = "helper"
    /\ helper' = [helper EXCEPT !.pc = "exit", !.ready = frames_ready]
    /\ UNCHANGED <<capture, notify_pipe, kill_thread, session, client, app>>

\* Faulty variant: a frame is filled and not counted.
FillUncounted ==
    /\ HelperAt("exit")
    /\ status' = [status EXCEPT ![helper.frame] = helper.status]
    /\ mutex' = "free"
    /\ HelperGoto("notify")
    /\ UNCHANGED <<current, frames_ready, queue_broken, inflight, notify_pipe, kill_thread,
                   session, client, app>>

\* The frame becomes visible to dequeue here, before the byte is written.
CallbackFill ==
    /\ HelperAt("exit")
    /\ status' = [status EXCEPT ![helper.frame] = helper.status]
    /\ frames_ready' = helper.ready + 1
    /\ mutex' = "free"
    /\ HelperGoto("notify")
    /\ UNCHANGED <<current, queue_broken, inflight, notify_pipe, kill_thread,
                   session, client, app>>

\* Faulty variant: nothing is written to the pipe.
NotifyNobody ==
    /\ HelperAt("notify")
    /\ HelperGoto("events")
    /\ UNCHANGED <<capture, notify_pipe, mutex, kill_thread, session, client, app>>

CallbackNotify ==
    /\ HelperAt("notify")
    /\ notify_pipe' = notify_pipe + 1
    /\ HelperGoto("events")
    /\ UNCHANGED <<capture, mutex, kill_thread, session, client, app>>

\* libusb_handle_events_timeout() returns: its callbacks are done or it timed
\* out; the thread then looks at kill_thread under the mutex.
EventsReturn ==
    /\ HelperAt("events")
    /\ HelperGoto("check")
    /\ UNCHANGED <<capture, notify_pipe, mutex, kill_thread, session, client, app>>

CheckKill ==
    /\ HelperAt("check")
    /\ mutex = "free"
    /\ HelperGoto(IF kill_thread THEN "done" ELSE "events")
    /\ UNCHANGED <<capture, notify_pipe, mutex, kill_thread, session, client, app>>

-----------------------------------------------------------------------------
(* dc1394_usb_capture_dequeue *)

Running == AppAt("idle") /\ capture_is_set

\* The pointer to the next frame is fixed on entry; POLL reads its status under
\* the mutex and returns no frame if it is empty.
PollFindsEmpty(policy) == policy = "POLL" /\ status[NextBuffer] = "EMPTY"
PollLock(policy) == policy = "POLL" => mutex = "free"

DequeueEmpty(policy) ==
    /\ Running
    /\ PollLock(policy)
    /\ PollFindsEmpty(policy)
    /\ result' = Returned("SUCCESS", NoFrame)
    /\ UNCHANGED <<capture, threads, session, held, oldest, app>>

DequeueBroken(policy) ==
    /\ Running
    /\ PollLock(policy)
    /\ ~PollFindsEmpty(policy)
    /\ queue_broken
    /\ result' = Returned("FAILURE", NoFrame)
    /\ UNCHANGED <<capture, threads, session, held, oldest, app>>

DequeueBegin(policy) ==
    /\ Running
    /\ PollLock(policy)
    /\ ~PollFindsEmpty(policy)
    /\ ~queue_broken
    /\ app' = [app EXCEPT !.pc = "read", !.policy = policy]
    /\ UNCHANGED <<capture, threads, session, client>>

\* read() of the pipe blocks until there is a byte.
DequeueRead ==
    /\ AppAt("read")
    /\ notify_pipe > 0
    /\ notify_pipe' = notify_pipe - 1
    /\ AppGoto("enter")
    /\ UNCHANGED <<capture, mutex, kill_thread, helper, session, client>>

\* read() is interrupted by a signal while the pipe is empty.
DequeueInterrupted ==
    /\ AppAt("read")
    /\ notify_pipe = 0
    /\ AppGoto("idle")
    /\ result' = Returned("FAILURE", NoFrame)
    /\ UNCHANGED <<capture, threads, session, held, oldest>>

DequeueLock ==
    /\ AppAt("enter")
    /\ mutex = "free"
    /\ mutex' = "app"
    /\ app' = [app EXCEPT !.pc = "exit", !.ready = frames_ready]
    /\ UNCHANGED <<capture, notify_pipe, kill_thread, helper, session, client>>

\* "Expected filled buffer": the byte read before is gone.
DequeueUnexpected ==
    /\ AppAt("exit")
    /\ status[NextBuffer] = "EMPTY"
    /\ mutex' = "free"
    /\ AppGoto("idle")
    /\ result' = Returned("FAILURE", NoFrame)
    /\ UNCHANGED <<capture, notify_pipe, kill_thread, helper, session, held, oldest>>

\* Faulty variant: current is not advanced.
TakeInPlace ==
    /\ AppAt("exit")
    /\ status[NextBuffer] # "EMPTY"
    /\ frames_ready' = app.ready - 1
    /\ held' = held \cup {NextBuffer}
    /\ result' = Returned(IF status[NextBuffer] = "ERROR" THEN "FAILURE" ELSE "SUCCESS",
                          NextBuffer)
    /\ mutex' = "free"
    /\ AppGoto("idle")
    /\ UNCHANGED <<status, current, queue_broken, inflight, notify_pipe, kill_thread, helper,
                   session, oldest>>

\* The frame is handed out, with DC1394_FAILURE if its transfer failed.
DequeueTake ==
    /\ AppAt("exit")
    /\ status[NextBuffer] # "EMPTY"
    /\ frames_ready' = app.ready - 1
    /\ current' = NextBuffer
    /\ held' = held \cup {NextBuffer}
    /\ result' = Returned(IF status[NextBuffer] = "ERROR" THEN "FAILURE" ELSE "SUCCESS",
                          NextBuffer)
    /\ mutex' = "free"
    /\ AppGoto("idle")
    /\ UNCHANGED <<status, queue_broken, inflight, notify_pipe, kill_thread, helper,
                   session, oldest>>

-----------------------------------------------------------------------------
(* dc1394_usb_capture_enqueue *)

\* What the application passes to enqueue: a frame its Discipline allows, or by
\* mistake one that it has returned and that no transfer has filled since.
Returnable == {f \in held : Discipline = "owned" \/ f = oldest}
Passed(f) == f \in Returnable \/ status[f] = "EMPTY"

\* Faulty variant: a frame is submitted without a look at its status.
EnqueueUnchecked(f) ==
    /\ Running
    /\ Passed(f)
    /\ status' = [status EXCEPT ![f] = "EMPTY"]
    /\ held' = held \ {f}
    /\ inflight' = Append(inflight, f)
    /\ result' = Returned("SUCCESS", NoFrame)
    /\ Len(inflight) <= NumFrames
    /\ UNCHANGED <<queue_broken, oldest, current, frames_ready, threads, session, app>>

\* The status is read and reset without the mutex, then the transfer is
\* submitted; if that fails the frame is in no queue any more, and the test for
\* an empty frame keeps it out of enqueue too.
Enqueue(f) ==
    /\ Running
    /\ Passed(f)
    /\ status[f] # "EMPTY"
    /\ status' = [status EXCEPT ![f] = "EMPTY"]
    /\ held' = held \ {f}
    /\ oldest' = IF Discipline = "ordered" THEN Next_frame(oldest) ELSE oldest
    /\ \/ /\ inflight' = Append(inflight, f)
          /\ result' = Returned("SUCCESS", NoFrame)
          /\ UNCHANGED queue_broken
       \/ /\ queue_broken' = TRUE
          /\ result' = Returned("FAILURE", NoFrame)
          /\ UNCHANGED inflight
    /\ UNCHANGED <<current, frames_ready, threads, session, app>>

\* "Frame is not enqueuable"
EnqueueRefused(f) ==
    /\ Running
    /\ Passed(f)
    /\ status[f] = "EMPTY"
    /\ result' = Returned("FAILURE", NoFrame)
    /\ UNCHANGED <<capture, threads, session, held, oldest, app>>

-----------------------------------------------------------------------------
(* dc1394_usb_capture_stop *)

StopBegin ==
    /\ Running
    /\ AppGoto("stop")
    /\ UNCHANGED <<capture, threads, session, client>>

\* Faulty variants: the helper is not joined; it is joined but not told to end.
KillNotJoined ==
    /\ AppAt("stop")
    /\ iso_auto_started' = FALSE
    /\ kill_thread' = ("thread" \in res)
    /\ AppGoto("release")
    /\ UNCHANGED <<capture, notify_pipe, mutex, helper, res, capture_is_set, client>>

KillForgotten ==
    /\ AppAt("stop")
    /\ iso_auto_started' = FALSE
    /\ AppGoto(IF "thread" \in res THEN "join" ELSE "release")
    /\ UNCHANGED <<capture, notify_pipe, mutex, kill_thread, helper, res, capture_is_set,
                   client>>

\* Stop the transmission if setup started it, then ask the helper to end.
StopKill ==
    /\ AppAt("stop")
    /\ iso_auto_started' = FALSE
    /\ IF "thread" \in res
       THEN mutex = "free" /\ kill_thread' = TRUE /\ AppGoto("join")
       ELSE AppGoto("release") /\ UNCHANGED kill_thread
    /\ UNCHANGED <<capture, notify_pipe, mutex, helper, res, capture_is_set, client>>

\* Joining a thread that never ran is undefined: if the call comes back at all,
\* it is with an error that nobody looks at.
StopJoin ==
    /\ AppAt("join")
    /\ HelperAt("done") \/ HelperAt("none")
    /\ helper' = NoHelper
    /\ kill_thread' = FALSE
    /\ res' = res \ {"thread"}
    /\ AppGoto("release")
    /\ UNCHANGED <<capture, notify_pipe, mutex, capture_is_set, iso_auto_started, client>>

\* The rest of the function: no other thread runs any more.  Closing the
\* handle drops the transfers in flight; the frames, and with them whatever
\* the application still holds, are freed; the pipe is closed.
StopRelease ==
    /\ AppAt("release")
    /\ res' = {}
    /\ inflight' = <<>>
    /\ status' = [f \in Frames |-> "EMPTY"]
    /\ held' = {}
    /\ notify_pipe' = 0
    /\ capture_is_set' = FALSE
    /\ AppGoto("idle")
    /\ result' = Returned("SUCCESS", NoFrame)
    /\ UNCHANGED <<current, frames_ready, queue_broken, mutex, kill_thread, helper,
                   iso_auto_started, oldest>>

-----------------------------------------------------------------------------
Helper == \/ CallbackBegin \/ CallbackLock \/ CallbackFill \/ CallbackNotify
          \/ EventsReturn \/ CheckKill

Setup == \/ SetupBegin \/ SetupSubmit \/ SetupLaunch
         \/ \E r \in Resources : SetupAcquire(r)

DequeueCall == \E policy \in Policies :
    DequeueEmpty(policy) \/ DequeueBroken(policy) \/ DequeueBegin(policy)
DequeueRest == \/ DequeueRead \/ DequeueInterrupted \/ DequeueLock
               \/ DequeueUnexpected \/ DequeueTake

StopRest == StopKill \/ StopJoin \/ StopRelease

Next == \/ Helper \/ Setup \/ DequeueCall \/ DequeueRest
        \/ \E f \in Frames : Enqueue(f) \/ EnqueueRefused(f)
        \/ StopBegin \/ StopRest

Spec == Init /\ [][Next]_vars

(***************************************************************************)
(* The helper thread runs until it ends, and a library call that can go on *)
(* does.  Neither the camera nor the application owes a step: no fairness  *)
(* on CallbackBegin, on a signal, or on the calls themselves.              *)
(***************************************************************************)
Fairness ==
    /\ WF_vars(CallbackLock) /\ WF_vars(CallbackFill) /\ WF_vars(CallbackNotify)
    /\ WF_vars(EventsReturn) /\ WF_vars(CheckKill)
    /\ WF_vars(DequeueRead) /\ WF_vars(DequeueLock)
    /\ WF_vars(DequeueUnexpected) /\ WF_vars(DequeueTake)
    /\ WF_vars(StopRest)

FairSpec == Spec /\ Fairness

-----------------------------------------------------------------------------
(* Properties *)

HelperPC == {"none", "events", "enter", "exit", "notify", "check", "done"}
AppPC == {"idle", "setup", "read", "enter", "exit", "stop", "join", "release"}
HelperState == [pc : HelperPC, frame : Frames \cup {NoFrame}, status : Status, ready : Nat]
AppState == [pc : AppPC, policy : Policies, ready : Nat]
Result == [err : {"SUCCESS", "FAILURE"}, frame : Frames \cup {NoFrame}]

\* Every variable has its type; a callback names a frame.
TypeOK ==
    /\ status \in [Frames -> Status]
    /\ current \in Frames \cup {-1}
    /\ frames_ready \in Nat
    /\ queue_broken \in BOOLEAN
    /\ notify_pipe \in Nat
    /\ mutex \in {"free", "helper", "app"}
    /\ kill_thread \in BOOLEAN
    /\ res \subseteq Resources
    /\ capture_is_set \in BOOLEAN
    /\ iso_auto_started \in BOOLEAN
    /\ inflight \in Seq(Frames)
    /\ helper \in HelperState
    /\ helper.pc \in {"enter", "exit", "notify"} =>
          helper.frame \in Frames /\ helper.status # "EMPTY"
    /\ app \in AppState
    /\ held \subseteq Frames
    /\ oldest \in Frames
    /\ result \in Result

InCallback == HelperAt("enter") \/ HelperAt("exit")
DmaFrames == InFlight \cup (IF InCallback THEN {helper.frame} ELSE {})

\* No buffer has two owners: one that a transfer writes, or whose completion is
\* being processed, is not with the application, and no buffer is submitted
\* twice (capture.c:34-59, 340-346, 366-372).
NoSharedBuffer ==
    /\ DmaFrames \cap held = {}
    /\ \A i, j \in DOMAIN inflight : inflight[i] = inflight[j] => i = j
    /\ InCallback => helper.frame \notin InFlight

OneIf(p) == IF p THEN 1 ELSE 0
\* Bytes written to the pipe or about to be, and the byte dequeue has just read.
Notified == notify_pipe + OneIf(HelperAt("notify"))
                        + OneIf(AppAt("enter") \/ AppAt("exit"))

\* Whatever the order in which frames come back, a byte always stands for a
\* counted frame and a counted frame for one that waits in the ring.  So the
\* counter never goes below zero, and the pipe never holds more bytes than the
\* ring has buffers: the callback's write cannot block on a full pipe with the
\* helper thread in it (capture.c:56-64, 329-342).
NotifyBounded ==
    "buffer" \in res =>
        /\ Notified <= frames_ready
        /\ frames_ready <= Cardinality(Ready)

\* If frames come back in the order they were taken, the three numbers are
\* equal: frames_behind is exact, no update of it is lost, and the descriptor
\* of get_fileno() is readable whenever a frame waits (capture.c:56-64, 340).
EveryFrameNotified ==
    "buffer" \in res =>
        /\ Notified = frames_ready
        /\ frames_ready = Cardinality(Ready)

\* ... and the byte that dequeue reads stands for the next frame of the ring,
\* which is filled and not with the application yet (capture.c:306-307, 335).
NextFrameReady == AppAt("enter") \/ AppAt("exit") => NextBuffer \in Ready

\* As long as the helper runs, nothing it uses is freed, closed or destroyed:
\* stop joins it before it releases anything (capture.c:246-293).
HelperHasResources == ~HelperAt("none") => res = Resources

\* A frame leaves the hands of the application only by enqueue or stop, and a
\* frame it has is never written: the status of a held frame stays what
\* dequeue reported (capture.c:57, 366-371).
HeldFramesStable ==
    [][\A f \in held : f \in held' => status'[f] = status[f]]_vars

\* stop returns, whatever the helper is doing and even if the camera has gone
\* silent (capture.c:74-84, 252-255).
StopReturns == AppAt("stop") ~> AppAt("idle")

\* A POLL call returns (capture.h:39): it never waits for a frame that is not
\* there (capture.c:316-332).
PollReturns == (AppAt("read") /\ app.policy = "POLL") ~> AppAt("idle")

\* A WAIT call that finds a filled frame in the ring, or during which one is
\* filled, returns (capture.c:329-346).
ReadyFrameDelivered == (AppAt("read") /\ Ready # {}) ~> AppAt("idle")
=============================================================================

----------------------------- MODULE FrameRing ------------------------------
(***************************************************************************)
(* What dc1394_capture_setup(), dequeue(), enqueue() and stop() promise of *)
(* a ring of NumFrames buffers, whatever the platform: every buffer is     *)
(* with the camera's side, waiting, or with the application; the camera    *)
(* fills the buffers in the order they were given to it; the application   *)
(* receives them in the order they were filled, each filling once.         *)
(***************************************************************************)
EXTENDS Naturals, Sequences

CONSTANT NumFrames

VARIABLES
    on,       \* capture is set up
    device,   \* buffers queued for the camera, next to be filled first
    ready,    \* filled buffers, oldest first
    user      \* the set of buffers the application holds

vars == <<on, device, ready, user>>

Init == on = FALSE /\ device = <<>> /\ ready = <<>> /\ user = {}

\* dc1394_capture_setup() succeeds.
Start ==
    /\ ~on
    /\ on' = TRUE
    /\ device' = [i \in 1 .. NumFrames |-> i - 1]
    /\ UNCHANGED <<ready, user>>

Fill ==
    /\ device # <<>>
    /\ device' = Tail(device)
    /\ ready' = Append(ready, Head(device))
    /\ UNCHANGED <<on, user>>

\* dc1394_capture_dequeue() returns a frame.
Deliver ==
    /\ ready # <<>>
    /\ ready' = Tail(ready)
    /\ user' = user \cup {Head(ready)}
    /\ UNCHANGED <<on, device>>

\* dc1394_capture_enqueue(): the buffer goes back to the camera, or is lost
\* if the platform refuses it.
Return(f) ==
    /\ f \in user
    /\ user' = user \ {f}
    /\ device' \in {device, Append(device, f)}
    /\ UNCHANGED <<on, ready>>

\* dc1394_capture_stop()
Stop ==
    /\ on
    /\ on' = FALSE
    /\ device' = <<>> /\ ready' = <<>> /\ user' = {}

Next == Start \/ Fill \/ Deliver \/ Stop \/ \E f \in user : Return(f)

Spec == Init /\ [][Next]_vars
=============================================================================

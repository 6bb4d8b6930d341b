--------------------------- MODULE UsbCaptureRing ---------------------------
(***************************************************************************)
(* The USB backend implements FrameRing for an application that enqueues   *)
(* frames in the order it dequeued them.  The concrete ring keeps no queue *)
(* of filled frames: their order is the order of the frames after current. *)
(***************************************************************************)
EXTENDS UsbCapture, Selection

\* The frames after `current', in ring order.
RingOrder == [i \in 1 .. NumFrames |-> (NextBuffer + i - 1) % NumFrames]

RingOn == "thread" \in res
BeingFilled == IF InCallback THEN <<helper.frame>> ELSE <<>>

RingDevice == IF RingOn THEN BeingFilled \o inflight ELSE <<>>
RingReady == IF RingOn THEN Selected(RingOrder, Ready) ELSE <<>>
RingUser == IF RingOn THEN held ELSE {}

Ring == INSTANCE FrameRing WITH
    on <- RingOn, device <- RingDevice, ready <- RingReady, user <- RingUser

\* Frames reach the application in the order the transfers filled them, each
\* filling exactly once, although dequeue never looks at that order
\* (capture.c:300-346 against 56-61 and 371-372).
ImplementsRing == Ring!Spec
=============================================================================

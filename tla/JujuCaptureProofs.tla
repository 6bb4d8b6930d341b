------------------------- MODULE JujuCaptureProofs --------------------------
(***************************************************************************)
(* Proofs about JujuCapture, for any number of buffers and whichever       *)
(* request fails: in any order in which the application returns buffers,   *)
(* every variable has its type and no iso resource outlives its capture;   *)
(* in the order in which it got them, the kernel never fills a buffer that *)
(* the application has, and the ring implements FrameRing.                 *)
(*                                                                         *)
(* That reserved counts what craw.resource tells is not inductive: between *)
(* captures the flag must be down, or the next setup would raise it a      *)
(* second time (OwnedOK).  The buffers that are out of the application's   *)
(* hands are, in the order of the ring, those whose events wait and those  *)
(* queued (RingIs).                                                        *)
(***************************************************************************)
EXTENDS JujuCapture, RingLemmas

\* Where calls are that have not reserved anything yet, or have given it back.
Before == {"idle", "alloc", "stop_auto"}

\* The flag of a capture that is not set up is down there, and of all other
\* labels these are reached with the capture set up.
OwnedOK ==
    /\ pc \in {"start", "auto", "WAIT", "POLL"} => craw.is_set
    /\ pc \in {"alloc", "program", "context", "queue", "deallocate", "stop_auto"} => ~craw.is_set
    /\ (~failed /\ ~craw.is_set /\ pc \in Before) => ~craw.resource

\* What a resource that is held counts for, whatever failed.
CountOK == craw.resource => reserved > 0

\* The type invariant by parts.
CrawType == [flags : FlagSets, is_set : BOOLEAN, resource : BOOLEAN,
             auto_started : BOOLEAN, current : Frames \cup {-1}]
Labels == {"idle", "alloc", "program", "context", "queue", "start", "auto",
           "WAIT", "POLL", "deallocate", "stop_auto"}
ControlType ==
    /\ pc \in Labels
    /\ result \in [err : {"SUCCESS", "FAILURE"}, frame : Frames \cup {NoFrame}]
RingType ==
    /\ context \in {"closed", "created", "running"}
    /\ queued \in Seq(Frames) /\ events \in Seq(Frames \cup {NoFrame})
ClientType == held \subseteq Frames /\ oldest \in Frames
ResourceType == reserved \in 0 .. MaxReserved /\ failed \in BOOLEAN

Types == ControlType /\ craw \in CrawType /\ RingType /\ ClientType /\ ResourceType
Inv == Types /\ OwnedOK /\ CountOK /\ ReservedByCapture

\* The parts make up JujuTypeOK.
LEMMA TypesAreTypeOK == Types => JujuTypeOK
  BY DEF Types, ControlType, RingType, ClientType, ResourceType, CrawType, Labels, JujuTypeOK

\* The buffer after the last one is a buffer.
LEMMA NextIsBuffer == Types => NextBuffer \in Frames
<1> SUFFICES ASSUME Types PROVE NextBuffer \in Frames
  OBVIOUS
<1>1. craw.current \in Frames \cup {-1} /\ NumFrames \in Nat \ {0}
  BY JujuAssumption DEF Types, CrawType
<1>2. craw.current + 1 \in Nat
  BY <1>1 DEF Frames
<1>3. (craw.current + 1) % NumFrames \in 0 .. NumFrames - 1
  BY <1>1, <1>2
<1> QED
  BY <1>3 DEF NextBuffer, Frames

\* All buffers in order are a sequence of buffers.
LEMMA AllBuffers == [i \in 1 .. NumFrames |-> i - 1] \in Seq(Frames)
<1>1. NumFrames \in Nat
  BY JujuAssumption
<1>2. [i \in 1 .. NumFrames |-> i - 1] \in [1 .. NumFrames -> Frames]
  BY <1>1 DEF Frames
<1> QED
  BY <1>1, <1>2


\* A call returns, or goes on.
LEMMA ReturnsType ==
    \A err \in {"SUCCESS", "FAILURE"}, f \in Frames \cup {NoFrame} :
        Returns(err, f) => ControlType' /\ pc' = "idle"
  BY DEF Returns, ControlType, Labels
LEMMA GotoType ==
    \A label \in Labels : ControlType /\ Goto(label) => ControlType' /\ pc' = label
  BY DEF Goto, ControlType
LEMMA ClosedType == CloseContext => RingType'
  BY DEF CloseContext, RingType

\* The initial state.
LEMMA InitInv == Init => Inv
<1> SUFFICES ASSUME Init PROVE Inv
  OBVIOUS
<1> USE JujuAssumption DEF Init
<1>1. ControlType
  BY DEF ControlType, Labels, NoFrame
<1>a. RingType /\ ClientType
  BY DEF RingType, ClientType, Frames
<1>b. reserved \in 0 .. MaxReserved
  OBVIOUS
<1>c. ResourceType
  BY <1>b DEF ResourceType
<1>2. craw \in CrawType
  BY DEF CrawType, FlagSets, Frames
<1>3. OwnedOK /\ CountOK /\ ReservedByCapture
  BY DEF OwnedOK, CountOK, ReservedByCapture
<1> QED
  BY <1>1, <1>a, <1>c, <1>2, <1>3 DEF Inv, Types

\* What relates the labels, the flag and the count is left alone by steps that
\* leave these alone.
LEMMA SameOwned ==
    ASSUME OwnedOK, CountOK, ReservedByCapture, craw'.is_set = craw.is_set,
           craw'.resource = craw.resource, reserved' = reserved,
           failed' = failed \/ failed' = TRUE,
           pc' = pc \/ (pc' = "idle" /\ (pc \in Before \/ craw.is_set \/ failed' = TRUE))
    PROVE  OwnedOK' /\ CountOK' /\ ReservedByCapture'
  BY DEF OwnedOK, CountOK, ReservedByCapture, Before

\* Setup, request by request: first what the request does, then the invariant.
LEMMA SetupStep == ASSUME Inv, Setup PROVE Inv'
<1>0. /\ ControlType /\ craw \in CrawType /\ RingType /\ ClientType /\ ResourceType
      /\ OwnedOK /\ CountOK /\ ReservedByCapture
  BY DEF Inv, Types
<1> USE <1>0
<1>a. /\ \A f \in {NoFrame} : f \in Frames \cup {NoFrame}
      /\ \A l \in {"alloc", "program", "context", "queue", "start", "auto"} : l \in Labels
  BY DEF Labels
<1>1. CASE SetupAllocate
  <2>1. pc = "alloc" /\ UNCHANGED <<ring, client>>
    BY <1>1 DEF SetupAllocate
  <2>2. /\ ControlType'
        /\ \/ /\ reserved < MaxReserved /\ reserved' = reserved + 1 /\ failed' = failed
              /\ craw' = [craw EXCEPT !.resource = TRUE] /\ pc' = "program"
           \/ reserved' = reserved /\ failed' = failed /\ craw' = craw /\ pc' = "program"
           \/ reserved' = reserved /\ failed' = TRUE /\ craw' = craw /\ pc' = "idle"
           \/ /\ reserved < MaxReserved /\ reserved' = reserved + 1 /\ failed' = TRUE
              /\ craw' = craw /\ pc' = "idle"
    BY <1>1, <1>a, ReturnsType, GotoType DEF SetupAllocate, SetupFails, resource
  <2>3. /\ craw' \in CrawType /\ craw'.is_set = craw.is_set
    BY <2>2 DEF CrawType
  <2>4. ResourceType' /\ RingType' /\ ClientType'
    <3>1. reserved' \in 0 .. MaxReserved
      BY <2>2, JujuAssumption DEF ResourceType
    <3>2. failed' \in BOOLEAN
      BY <2>2, Zenon DEF ResourceType
    <3> QED
      BY <2>1, <3>1, <3>2 DEF ResourceType, RingType, ClientType, ring, client
  <2>5. ~failed => ~craw.resource
    BY <2>1 DEF OwnedOK, Before
  <2>6. OwnedOK' /\ CountOK' /\ ReservedByCapture'
    <3>1. ~craw.is_set /\ reserved \in Nat
      BY <2>1, JujuAssumption DEF OwnedOK, ResourceType
    <3>2. CASE craw' = craw /\ reserved' = reserved
      BY <2>1, <2>2, <2>5, <3>1, <3>2 DEF OwnedOK, CountOK, ReservedByCapture, Before
    <3>3. CASE /\ craw' = [craw EXCEPT !.resource = TRUE] /\ pc' = "program"
               /\ reserved' = reserved + 1 /\ failed' = failed
      <4>1. craw'.resource = TRUE /\ craw'.is_set = craw.is_set
        BY <3>3 DEF CrawType
      <4> QED
        BY <2>5, <3>1, <3>3, <4>1 DEF OwnedOK, CountOK, ReservedByCapture, Before
    <3>4. CASE craw' = craw /\ reserved' = reserved + 1 /\ failed' = TRUE /\ pc' = "idle"
      BY <3>1, <3>4 DEF OwnedOK, CountOK, ReservedByCapture, Before
    <3> QED
      BY <2>2, <3>2, <3>3, <3>4
  <2> QED
    BY <2>2, <2>3, <2>4, <2>6 DEF Inv, Types
<1>2. CASE SetupProgram
  <2>1. pc = "program" /\ UNCHANGED <<craw, ring, client>>
    BY <1>2 DEF SetupProgram
  <2>2. /\ ControlType'
        /\ reserved' = reserved
        /\ \/ failed' = failed /\ pc' = "context"
           \/ failed' = TRUE /\ pc' = "idle"
    BY <1>2, <1>a, ReturnsType, GotoType DEF SetupProgram, SetupFails, resource
  <2>3. ResourceType' /\ RingType' /\ ClientType'
    BY <2>1, <2>2 DEF ResourceType, RingType, ClientType, ring, client
  <2>4. OwnedOK' /\ CountOK' /\ ReservedByCapture'
    BY <2>1, <2>2 DEF OwnedOK, CountOK, ReservedByCapture, Before
  <2> QED
    BY <2>1, <2>2, <2>3, <2>4 DEF Inv, Types
<1>3. CASE SetupContext
  <2>1. pc = "context" /\ UNCHANGED <<queued, events, client>>
    BY <1>3 DEF SetupContext
  <2>2. /\ ControlType'
        /\ context' \in {"created", context}
        /\ reserved' = reserved
        /\ \/ failed' = failed /\ pc' = "queue"
           \/ failed' = TRUE /\ pc' = "idle"
        /\ craw' \in {craw, [craw EXCEPT !.current = -1]}
    BY <1>3, <1>a, ReturnsType, GotoType DEF SetupContext, SetupFails, resource
  <2>3. craw' \in CrawType /\ craw'.is_set = craw.is_set /\ craw'.resource = craw.resource
    BY <2>2 DEF CrawType
  <2>4. ResourceType' /\ RingType' /\ ClientType'
    BY <2>1, <2>2 DEF ResourceType, RingType, ClientType, client
  <2>5. OwnedOK' /\ CountOK' /\ ReservedByCapture'
    BY <2>1, <2>2, <2>3 DEF OwnedOK, CountOK, ReservedByCapture, Before
  <2> QED
    BY <2>2, <2>3, <2>4, <2>5 DEF Inv, Types
<1>4. CASE SetupQueue
  <2>1. pc = "queue" /\ UNCHANGED held
    BY <1>4 DEF SetupQueue
  <2>2. /\ ControlType'
        /\ \/ /\ queued' = [i \in 1 .. NumFrames |-> i - 1] /\ UNCHANGED <<context, events>>
           \/ CloseContext
        /\ oldest' \in {0, oldest}
        /\ reserved' = reserved
        /\ \/ failed' = failed /\ pc' = "start" /\ craw' = [craw EXCEPT !.is_set = TRUE]
           \/ failed' = TRUE /\ pc' = "idle" /\ craw' = craw
    BY <1>4, <1>a, ReturnsType, GotoType DEF SetupQueue, SetupFails, resource
  <2>3. craw' \in CrawType /\ craw'.resource = craw.resource /\ (pc' = "start" => craw'.is_set)
    BY <2>2 DEF CrawType
  <2>4. ResourceType' /\ ClientType'
    <3>1. 0 \in Frames
      BY JujuAssumption DEF Frames
    <3>2. ResourceType'
      BY <2>2 DEF ResourceType
    <3> QED
      BY <2>1, <2>2, <3>1, <3>2 DEF ClientType
  <2>5. RingType'
    BY <2>2, AllBuffers, ClosedType DEF RingType
  <2>6. OwnedOK' /\ CountOK' /\ ReservedByCapture'
    BY <2>1, <2>2, <2>3 DEF OwnedOK, CountOK, ReservedByCapture, Before
  <2> QED
    BY <2>2, <2>3, <2>4, <2>5, <2>6 DEF Inv, Types
<1>5. CASE SetupStart
  <2>1. pc = "start" /\ UNCHANGED <<craw, client>>
    BY <1>5 DEF SetupStart
  <2>2. /\ ControlType'
        /\ \/ context' = "running" /\ UNCHANGED <<queued, events>>
           \/ CloseContext
        /\ reserved' = reserved
        /\ failed' = failed \/ failed' = TRUE
        /\ pc' = "auto" \/ pc' = "idle"
    BY <1>5, <1>a, ReturnsType, GotoType DEF SetupStart, SetupFails, resource
  <2>3. ResourceType' /\ ClientType' /\ RingType'
    BY <2>1, <2>2, ClosedType DEF ResourceType, ClientType, RingType, client
  <2>4. OwnedOK' /\ CountOK' /\ ReservedByCapture'
    BY <2>1, <2>2 DEF OwnedOK, CountOK, ReservedByCapture, Before
  <2> QED
    BY <2>1, <2>2, <2>3, <2>4 DEF Inv, Types
<1>6. CASE SetupAuto
  <2>1. pc = "auto" /\ UNCHANGED <<ring, client>>
    BY <1>6 DEF SetupAuto
  <2>2. /\ ControlType'
        /\ reserved' = reserved
        /\ failed' = failed \/ failed' = TRUE
        /\ pc' = "idle"
        /\ craw' \in {craw, [craw EXCEPT !.auto_started = TRUE]}
    BY <1>6, <1>a, ReturnsType DEF SetupAuto, SetupFails, resource
  <2>3. craw' \in CrawType /\ craw'.is_set = craw.is_set /\ craw'.resource = craw.resource
    BY <2>2 DEF CrawType
  <2>4. ResourceType' /\ ClientType' /\ RingType'
    BY <2>1, <2>2 DEF ResourceType, ClientType, RingType, ring, client
  <2>5. OwnedOK' /\ CountOK' /\ ReservedByCapture'
    BY <2>1, <2>2, <2>3 DEF OwnedOK, CountOK, ReservedByCapture, Before
  <2> QED
    BY <2>2, <2>3, <2>4, <2>5 DEF Inv, Types
<1>7. ASSUME NEW flags \in FlagSets, SetupBegin(flags) PROVE Inv'
  <2>1. pc = "idle" /\ ~craw.is_set /\ UNCHANGED <<ring, client>>
        /\ craw' = [craw EXCEPT !.flags = flags]
    BY <1>7 DEF SetupBegin
  <2>2. /\ ControlType'
        /\ reserved' = reserved
        /\ \/ failed' = failed /\ pc' \in {"alloc", "context"}
           \/ failed' = TRUE /\ pc' = "idle"
    BY <1>7, <1>a, ReturnsType, GotoType DEF SetupBegin, SetupFails, resource
  <2>3. craw' \in CrawType /\ craw'.is_set = craw.is_set /\ craw'.resource = craw.resource
    BY <2>1 DEF CrawType
  <2>4. ResourceType' /\ ClientType' /\ RingType'
    BY <2>1, <2>2 DEF ResourceType, ClientType, RingType, ring, client
  <2>5. OwnedOK' /\ CountOK' /\ ReservedByCapture'
    BY <2>1, <2>2, <2>3 DEF OwnedOK, CountOK, ReservedByCapture, Before
  <2> QED
    BY <2>2, <2>3, <2>4, <2>5 DEF Inv, Types
<1> QED
  BY <1>1, <1>2, <1>3, <1>4, <1>5, <1>6, <1>7 DEF Setup

\* The kernel: only the two queues change.
LEMMA KernelStep == ASSUME Inv, Fill \/ BusReset PROVE Inv'
<1>1. queued \in Seq(Frames) /\ events \in Seq(Frames \cup {NoFrame})
  BY DEF Inv, Types, RingType
<1>2. queued' \in Seq(Frames) /\ events' \in Seq(Frames \cup {NoFrame})
  <2>1. CASE Fill
    <3>1. queued # <<>> /\ queued' = Tail(queued) /\ events' = Append(events, Head(queued))
      BY <2>1 DEF Fill
    <3> QED
      BY <1>1, <3>1
  <2>2. CASE BusReset
    <3>1. queued' = queued /\ events' = Append(events, NoFrame)
      BY <2>2 DEF BusReset
    <3> QED
      BY <1>1, <3>1
  <2> QED
    BY <2>1, <2>2
<1>3. UNCHANGED <<pc, craw, context, reserved, failed, held, oldest, result>>
  BY DEF Fill, BusReset, resource, client
<1>4. Types'
  BY <1>2, <1>3 DEF Inv, Types, ControlType, RingType, ClientType, ResourceType
<1>5. OwnedOK' /\ CountOK' /\ ReservedByCapture'
  BY <1>3, SameOwned DEF Inv
<1> QED
  BY <1>4, <1>5 DEF Inv

\* Dequeue takes events and moves current.
LEMMA DequeueStep == ASSUME Inv, Dequeue PROVE Inv'
<1>0. /\ ControlType /\ craw \in CrawType /\ RingType /\ ClientType /\ ResourceType
      /\ OwnedOK /\ CountOK /\ ReservedByCapture
  BY DEF Inv, Types
<1> USE <1>0
<1>1. /\ UNCHANGED <<context, queued, reserved, failed, oldest>>
      /\ craw' \in {craw, [craw EXCEPT !.current = NextBuffer]}
      /\ held' = held \/ held' = held \cup {NextBuffer}
      /\ events' = events \/ (events # <<>> /\ events' = Tail(events))
  BY DEF Dequeue, PollFindsNothing, ReadFails, SkipEvent, Take, DequeueBegin, ring, resource, client
<1>2. NextBuffer \in Frames
  BY NextIsBuffer DEF Inv
<1>3. /\ ControlType'
      /\ pc' = pc \/ (pc' = "idle" /\ pc \in {"WAIT", "POLL"})
           \/ (pc = "idle" /\ craw.is_set /\ pc' \in {"WAIT", "POLL"})
  <2>1. ASSUME NEW policy \in {"WAIT", "POLL"}, DequeueBegin(policy)
        PROVE ControlType' /\ pc = "idle" /\ craw.is_set /\ pc' = policy
    BY <2>1, GotoType DEF DequeueBegin, Running, Labels
  <2>2. CASE PollFindsNothing \/ ReadFails \/ Take
    BY <1>2, <2>2, ReturnsType DEF PollFindsNothing, ReadFails, Take, Dequeuing
  <2>3. CASE SkipEvent
    BY <2>3 DEF SkipEvent, ControlType
  <2> QED
    BY <2>1, <2>2, <2>3 DEF Dequeue
<1>4. craw' \in CrawType /\ craw'.is_set = craw.is_set /\ craw'.resource = craw.resource
  BY <1>1, <1>2 DEF CrawType
<1>5. RingType'
  BY <1>1 DEF RingType
<1>6. ClientType' /\ ResourceType'
  BY <1>1, <1>2 DEF ClientType, ResourceType
<1>7. OwnedOK' /\ CountOK' /\ ReservedByCapture'
  BY <1>1, <1>3, <1>4 DEF OwnedOK, CountOK, ReservedByCapture, Before
<1> QED
  BY <1>3, <1>4, <1>5, <1>6, <1>7 DEF Inv, Types

\* Enqueue appends what it is given.
LEMMA EnqueueStep == ASSUME Inv, NEW f \in Frames, Enqueue(f) PROVE Inv'
<1>0. /\ ControlType /\ craw \in CrawType /\ RingType /\ ClientType /\ ResourceType
      /\ OwnedOK /\ CountOK /\ ReservedByCapture
  BY DEF Inv, Types
<1> USE <1>0
<1>1. /\ pc = "idle" /\ craw' = craw /\ context' = context /\ events' = events
      /\ reserved' = reserved /\ failed' = failed
      /\ queued' \in {queued, Append(queued, f)}
      /\ held' \in {held, held \ {f}}
      /\ oldest' \in {oldest, (oldest + 1) % NumFrames}
  BY DEF Enqueue, Running, resource
<1>2. ControlType' /\ pc' = "idle"
  BY ReturnsType DEF Enqueue
<1>3. (oldest + 1) % NumFrames \in Frames
  BY JujuAssumption DEF ClientType, Frames
<1>4. RingType'
  BY <1>1 DEF RingType
<1>5. ClientType' /\ ResourceType'
  BY <1>1, <1>3 DEF ClientType, ResourceType
<1>6. OwnedOK' /\ CountOK' /\ ReservedByCapture'
  BY <1>1, <1>2, SameOwned
<1> QED
  BY <1>1, <1>2, <1>4, <1>5, <1>6 DEF Inv, Types

\* Stop takes the flag down before the resource is forgotten.
LEMMA StopStep == ASSUME Inv, Stop PROVE Inv'
<1>0. /\ ControlType /\ craw \in CrawType /\ RingType /\ ClientType /\ ResourceType
      /\ OwnedOK /\ CountOK /\ ReservedByCapture
  BY DEF Inv, Types
<1> USE <1>0
<1>a. NoFrame \in Frames \cup {NoFrame} /\ "deallocate" \in Labels /\ "stop_auto" \in Labels
  BY DEF Labels
<1>1. CASE StopFails
  <2>1. pc = "idle" /\ UNCHANGED <<craw, context, queued, events, reserved, failed, held, oldest>>
    BY <1>1 DEF StopFails, Running, ring, resource, client
  <2>2. ControlType' /\ pc' = "idle"
    BY <1>1, <1>a, ReturnsType DEF StopFails
  <2>3. OwnedOK' /\ CountOK' /\ ReservedByCapture'
    BY <2>1, <2>2, SameOwned
  <2> QED
    BY <2>1, <2>2, <2>3 DEF RingType, ClientType, ResourceType, Inv, Types
<1>2. CASE StopContext
  <2>1. /\ CloseContext /\ held' = {} /\ UNCHANGED <<reserved, failed, oldest>>
        /\ craw' = [craw EXCEPT !.is_set = FALSE]
    BY <1>2 DEF StopContext, resource
  <2>2. ControlType' /\ pc' = "deallocate"
    BY <1>2, <1>a, GotoType DEF StopContext
  <2>3. craw' \in CrawType /\ ~craw'.is_set /\ craw'.resource = craw.resource
    BY <2>1 DEF CrawType
  <2>4. RingType' /\ ClientType' /\ ResourceType'
    BY <2>1, ClosedType DEF ClientType, ResourceType
  <2>5. OwnedOK' /\ CountOK' /\ ReservedByCapture'
    BY <2>1, <2>2, <2>3 DEF OwnedOK, CountOK, ReservedByCapture, Before
  <2> QED
    BY <2>2, <2>3, <2>4, <2>5 DEF Inv, Types
<1>3. CASE StopDeallocate
  <2>1. /\ pc = "deallocate" /\ UNCHANGED <<context, queued, events, held, oldest>>
        /\ craw' = [craw EXCEPT !.resource = FALSE]
        /\ \/ craw.resource /\ reserved' = reserved - 1 /\ failed' = failed
           \/ reserved' = reserved /\ failed' = TRUE
           \/ ~craw.resource /\ reserved' = reserved /\ failed' = failed
    BY <1>3 DEF StopDeallocate, ring, client, resource
  <2>2. ControlType' /\ pc' = "stop_auto"
    BY <1>3, <1>a, GotoType DEF StopDeallocate
  <2>3. craw' \in CrawType /\ craw'.is_set = craw.is_set /\ craw'.resource = FALSE
    BY <2>1 DEF CrawType
  <2>4. ResourceType' /\ RingType' /\ ClientType'
    <3>1. reserved' \in 0 .. MaxReserved
      BY <2>1, JujuAssumption DEF ResourceType, CountOK
    <3>2. failed' \in BOOLEAN
      BY <2>1, Zenon DEF ResourceType
    <3> QED
      BY <2>1, <3>1, <3>2 DEF RingType, ClientType, ResourceType
  <2>5. OwnedOK' /\ CountOK' /\ ReservedByCapture'
    <3>1. ~craw.is_set /\ reserved \in Nat
      BY <2>1, JujuAssumption DEF OwnedOK, ResourceType
    <3> QED
      BY <2>1, <2>2, <2>3, <3>1 DEF OwnedOK, CountOK, ReservedByCapture, Before
  <2> QED
    BY <2>2, <2>3, <2>4, <2>5 DEF Inv, Types
<1>4. CASE StopAuto
  <2>1. /\ pc = "stop_auto" /\ UNCHANGED <<context, queued, events, reserved, failed, held, oldest>>
        /\ craw' \in {craw, [craw EXCEPT !.auto_started = FALSE]}
    BY <1>4 DEF StopAuto, ring, client, resource
  <2>2. ControlType' /\ pc' = "idle"
    BY <1>4, <1>a, ReturnsType DEF StopAuto
  <2>3. craw' \in CrawType /\ craw'.is_set = craw.is_set /\ craw'.resource = craw.resource
    BY <2>1 DEF CrawType
  <2>4. ResourceType' /\ RingType' /\ ClientType'
    BY <2>1 DEF RingType, ClientType, ResourceType
  <2>5. OwnedOK' /\ CountOK' /\ ReservedByCapture'
    BY <2>1, <2>2, <2>3, SameOwned DEF Before
  <2> QED
    BY <2>2, <2>3, <2>4, <2>5 DEF Inv, Types
<1> QED
  BY <1>1, <1>2, <1>3, <1>4 DEF Stop

\* A camera opened again has nothing reserved.
LEMMA ReopenStep == ASSUME Inv, CameraReopen PROVE Inv'
<1>0. /\ ControlType /\ craw \in CrawType /\ RingType /\ ClientType /\ ResourceType
      /\ OwnedOK /\ CountOK /\ ReservedByCapture
  BY DEF Inv, Types
<1> USE <1>0
<1> DEFINE new == [craw EXCEPT !.flags = {}, !.resource = FALSE, !.auto_started = FALSE, !.current = 0]
<1>1. /\ ~craw.is_set /\ craw' = new /\ reserved' = 0 /\ failed' = FALSE
      /\ UNCHANGED <<context, queued, events, held, oldest>>
  BY DEF CameraReopen, ring, client
<1>2. ControlType' /\ pc' = "idle"
  BY ReturnsType DEF CameraReopen
<1>3. new \in CrawType /\ new.is_set = craw.is_set /\ new.resource = FALSE
  <2>1. 0 \in Frames /\ {} \in FlagSets
    BY JujuAssumption DEF Frames, FlagSets
  <2> QED
    BY <2>1 DEF CrawType
<1> HIDE DEF new
<1>4. RingType' /\ ClientType' /\ ResourceType'
  <2>1. reserved' \in 0 .. MaxReserved
    BY <1>1, JujuAssumption
  <2> QED
    BY <1>1, <2>1 DEF RingType, ClientType, ResourceType
<1>5. OwnedOK' /\ CountOK' /\ ReservedByCapture'
  BY <1>1, <1>2, <1>3 DEF OwnedOK, CountOK, ReservedByCapture, Before
<1> QED
  BY <1>1, <1>2, <1>3, <1>4, <1>5 DEF Inv, Types

\* The invariant holds in every state of the capture.
THEOREM Invariance == Spec => []Inv
<1>1. Inv /\ [Next]_vars => Inv'
  <2> SUFFICES ASSUME Inv, [Next]_vars PROVE Inv'
    OBVIOUS
  <2>1. CASE Next
    BY <2>1, SetupStep, KernelStep, DequeueStep, EnqueueStep, StopStep, ReopenStep DEF Next
  <2>2. CASE UNCHANGED vars
    BY <2>2 DEF vars, ring, resource, client, Inv, Types, ControlType, RingType, ClientType,
       ResourceType, OwnedOK, CountOK, ReservedByCapture, Before
  <2> QED
    BY <2>1, <2>2
<1> QED
  BY <1>1, InitInv, PTL DEF Spec

\* Every variable of a Juju capture has its type (juju/juju.h, juju/capture.c); in
\* particular no resource is given back that the kernel does not hold.
THEOREM JujuTypeCorrect == Spec => []JujuTypeOK
  BY Invariance, TypesAreTypeOK, PTL DEF Inv

\* Whatever the order of calls: unless a setup or a deallocation has failed, the
\* kernel holds one resource while a capture has it and none otherwise
\* (juju/capture.c:149-163, 281-285).
THEOREM ReservedOnce == Spec => []ReservedByCapture
  BY Invariance, PTL DEF Inv

-----------------------------------------------------------------------------
(* The ring under an application that returns buffers in order *)

\* How many buffers are dequeued before f.
Pos(f) == Behind(NumFrames, NextBuffer, f)

\* The buffers the application does not hold: those filled, whose events wait,
\* then those queued.
Line == RingReady \o queued

\* They are the next ones of the ring, in its order, and the application holds
\* the h others; it returns the oldest of them next.
RingIs(h) ==
    /\ Len(Line) = NumFrames - h
    /\ \A i \in 1 .. Len(Line) : Pos(Line[i]) = i - 1
    /\ \A f \in Frames : f \in held <=> Pos(f) >= NumFrames - h
    /\ IF h = 0 THEN oldest = NextBuffer ELSE Pos(oldest) = NumFrames - h

\* The context is created by one label of setup and started by another; no event
\* of it names a buffer before that, and the application holds nothing.
ContextOK ==
    /\ context # "running" => held = {} /\ \A i \in DOMAIN events : events[i] = NoFrame
    /\ context = "closed" => queued = <<>> /\ events = <<>>
    /\ context = "created" <=> pc \in {"queue", "start"}
    /\ context = "running" => craw.is_set
    /\ pc \in {"queue", "start"} => craw.current = -1
    /\ pc = "start" => queued = [i \in 1 .. NumFrames |-> i - 1] /\ oldest = 0

RingInv == ContextOK /\ (RingOn => \E h \in 0 .. NumFrames : RingIs(h))

\* The lemmas on distances, for this ring.
LEMMA Around ==
    /\ NumFrames \in Nat \ {0}
    /\ \A f \in Frames : (f + 1) % NumFrames \in Frames
    /\ \A n, f \in Frames :
          /\ Behind(NumFrames, n, f) \in 0 .. NumFrames - 1 /\ (Behind(NumFrames, n, f) = 0 <=> f = n)
          /\ \A g \in Frames : Behind(NumFrames, n, f) = Behind(NumFrames, n, g) => f = g
          /\ Behind(NumFrames, n, (f + 1) % NumFrames)
                = IF Behind(NumFrames, n, f) = NumFrames - 1 THEN 0 ELSE Behind(NumFrames, n, f) + 1
          /\ Behind(NumFrames, (n + 1) % NumFrames, f)
                = IF f = n THEN NumFrames - 1 ELSE Behind(NumFrames, n, f) - 1
<1> USE JujuAssumption DEF Frames
<1>1. NumFrames \in Nat \ {0} /\ \A f \in Frames : (f + 1) % NumFrames \in Frames
  BY NextValue
<1>2. ASSUME NEW n \in Frames, NEW f \in Frames
      PROVE  /\ Behind(NumFrames, n, f) \in 0 .. NumFrames - 1 /\ (Behind(NumFrames, n, f) = 0 <=> f = n)
             /\ \A g \in Frames : Behind(NumFrames, n, f) = Behind(NumFrames, n, g) => f = g
  BY BehindRange, BehindInjective
<1>3. ASSUME NEW n \in Frames, NEW f \in Frames
      PROVE  Behind(NumFrames, n, (f + 1) % NumFrames)
                = IF Behind(NumFrames, n, f) = NumFrames - 1 THEN 0 ELSE Behind(NumFrames, n, f) + 1
  BY BehindNext
<1>4. ASSUME NEW n \in Frames, NEW f \in Frames
      PROVE  Behind(NumFrames, (n + 1) % NumFrames, f)
                = IF f = n THEN NumFrames - 1 ELSE Behind(NumFrames, n, f) - 1
  BY BehindAdvanced
<1> QED
  BY <1>1, <1>2, <1>3, <1>4

LEMMA NoFrameIsNone == NoFrame \notin Frames
  BY DEF NoFrame, Frames

\* The buffers waiting, and those the application does not hold, are buffers.
LEMMA LineType ==
    ASSUME Types
    PROVE  /\ RingReady \in Seq(Frames) /\ queued \in Seq(Frames) /\ Line \in Seq(Frames)
           /\ Len(Line) = Len(RingReady) + Len(queued)
<1>1. events \in Seq(Frames \cup {NoFrame}) /\ queued \in Seq(Frames)
  BY DEF Types, RingType
<1>2. RingReady \in Seq(Frames)
  <2>1. /\ RingReady = [k \in 1 .. Cardinality(Places(events, Frames)) |->
                             events[Nth(Places(events, Frames), k)]]
        /\ Cardinality(Places(events, Frames)) \in Nat
    BY <1>1, SelectedType DEF RingReady, Selected
  <2> DEFINE P == Places(events, Frames)
  <2>2. P \in SUBSET Int /\ IsFiniteSet(P) /\ \A i \in P : events[i] \in Frames
    BY <1>1, PlacesFinite
  <2>3. \A k \in 1 .. Cardinality(P) : events[Nth(P, k)] \in Frames
    BY <2>2, NthExists
  <2> QED
    BY <2>1, <2>3
<1> QED
  BY <1>1, <1>2 DEF Line

\* A buffer that is filled moves from one part of the line to the other.
LEMMA LineFilled ==
    ASSUME Types, Fill
    PROVE  /\ queued # <<>> /\ RingReady' = Append(RingReady, Head(queued))
           /\ queued' = Tail(queued) /\ Line' = Line
<1>1. /\ queued \in Seq(Frames) /\ queued # <<>> /\ queued' = Tail(queued)
      /\ events \in Seq(Frames \cup {NoFrame}) /\ events' = Append(events, Head(queued))
  BY DEF Fill, Types, RingType
<1>2. Head(queued) \in Frames
  BY <1>1
<1>3. RingReady' = Append(RingReady, Head(queued))
  <2> DEFINE E == Frames \cup {NoFrame}
  <2>1. events \in Seq(E) /\ Head(queued) \in E
    BY <1>1, <1>2
  <2> HIDE DEF E
  <2>2. Selected(Append(events, Head(queued)), Frames) = Append(Selected(events, Frames), Head(queued))
    BY <1>2, <2>1, SelectedOfAppend
  <2> QED
    BY <1>1, <2>2 DEF RingReady
<1>4. RingReady \in Seq(Frames)
  BY LineType
<1>5. Append(RingReady, Head(queued)) \o Tail(queued) = RingReady \o queued
  BY <1>1, <1>2, <1>4
<1> QED
  BY <1>1, <1>3, <1>5 DEF Line

\* A bus reset among the events is not a buffer.
LEMMA LineReset ==
    ASSUME Types, BusReset \/ SkipEvent
    PROVE  RingReady' = RingReady /\ queued' = queued /\ Line' = Line
<1>1. events \in Seq(Frames \cup {NoFrame}) /\ queued' = queued
  BY DEF BusReset, SkipEvent, Types, RingType
<1>2. RingReady' = RingReady
  <2>1. CASE BusReset
    BY <1>1, <2>1, SelectedOfAppend, NoFrameIsNone DEF BusReset, RingReady
  <2>2. CASE SkipEvent
    BY <1>1, <2>2, SelectedOfTail, NoFrameIsNone DEF SkipEvent, RingReady
  <2> QED
    BY <2>1, <2>2
<1> QED
  BY <1>1, <1>2 DEF Line

\* Steps that leave the ring alone.
LEMMA RingUntouched ==
    ASSUME NEW h, RingIs(h), Line' = Line, craw'.current = craw.current, UNCHANGED <<held, oldest>>
    PROVE  RingIs(h)'
<1>1. NextBuffer' = NextBuffer
  BY DEF NextBuffer
<1> QED
  BY <1>1 DEF RingIs, Pos

\* The start of the context: the application holds nothing.
LEMMA RingStarted ==
    ASSUME Inv, ContextOK, SetupStart, RingOn'
    PROVE  RingIs(0)' /\ RingReady' = <<>> /\ ~RingOn
<1>1. /\ queued = [i \in 1 .. NumFrames |-> i - 1] /\ UNCHANGED <<queued, events, held, oldest, craw>>
      /\ craw.current = -1 /\ oldest = 0 /\ context = "created" /\ held = {}
      /\ \A i \in DOMAIN events : events[i] = NoFrame
  BY DEF SetupStart, ContextOK, CloseContext, RingOn, client
<1>2. RingReady' = <<>>
  <2>1. Places(events, Frames) = {}
    BY <1>1, NoFrameIsNone DEF Places
  <2> QED
    BY <1>1, <2>1, NothingSelected DEF RingReady
<1>3. NextBuffer' = 0 /\ NumFrames \in Nat \ {0}
  <2>1. NumFrames \in Nat \ {0}
    BY JujuAssumption
  <2>2. (-1 + 1) % NumFrames = 0
    BY <2>1
  <2> QED
    BY <1>1, <2>1, <2>2 DEF NextBuffer
<1>4. Line' = queued /\ Len(queued) = NumFrames /\ \A i \in 1 .. NumFrames : queued[i] = i - 1
  BY <1>1, <1>2, <1>3, AllBuffers DEF Line
<1>5. \A f \in Frames : Behind(NumFrames, 0, f) = f
  BY DEF Frames, Behind
<1>6. \A i \in 1 .. NumFrames : i - 1 \in Frames
  BY <1>3 DEF Frames
<1>7. \A f \in Frames : ~(f >= NumFrames - 0)
  BY <1>3 DEF Frames
<1>8. \A i \in 1 .. Len(Line') : Behind(NumFrames, NextBuffer', Line'[i]) = i - 1
  BY <1>3, <1>4, <1>5, <1>6
<1>9. Len(Line') = NumFrames - 0 /\ held' = {} /\ oldest' = 0
  BY <1>1, <1>3, <1>4
<1>10. \A f \in Frames : Behind(NumFrames, NextBuffer', f) = f
  BY <1>3, <1>5
<1> QED
  BY <1>1, <1>2, <1>3, <1>7, <1>8, <1>9, <1>10 DEF RingIs, Pos, RingOn

\* dequeue: the event at the head of the queue stands for the next buffer.
LEMMA RingTaken ==
    ASSUME Inv, NEW h \in 0 .. NumFrames, RingIs(h), Take
    PROVE  /\ h + 1 \in 0 .. NumFrames /\ RingIs(h + 1)'
           /\ RingReady # <<>> /\ RingReady' = Tail(RingReady) /\ held' = held \cup {Head(RingReady)}
<1>1. PICK n \in Frames : n = NextBuffer
  BY NextIsBuffer DEF Inv
<1>2. /\ events \in Seq(Frames \cup {NoFrame}) /\ events # <<>> /\ Head(events) # NoFrame
      /\ events' = Tail(events) /\ held' = held \cup {n} /\ UNCHANGED <<queued, oldest>>
      /\ craw'.current = n /\ oldest \in Frames
  BY <1>1 DEF Take, Inv, Types, RingType, CrawType, ClientType
<1>3. Head(events) \in Frames
  BY <1>2
<1>4. RingReady # <<>> /\ RingReady' = Tail(RingReady)
  BY <1>2, <1>3, SelectedOfTail DEF RingReady
<1>5. NextBuffer' = (n + 1) % NumFrames
  BY <1>2 DEF NextBuffer
<1>6. /\ RingReady \in Seq(Frames) /\ queued \in Seq(Frames) /\ Line \in Seq(Frames)
      /\ Line = RingReady \o queued /\ Line' = Tail(RingReady) \o queued
  BY <1>2, <1>4, LineType DEF Inv, Line
<1>7. /\ Line # <<>> /\ Line' = Tail(Line) /\ Head(RingReady) = Line[1]
  BY <1>4, <1>6
<1>8. /\ NumFrames \in Nat \ {0} /\ \A f \in Frames : Pos(f) \in 0 .. NumFrames - 1
      /\ \A f \in Frames : Pos(f) = 0 <=> f = n
      /\ \A f \in Frames : Behind(NumFrames, NextBuffer', f) = IF f = n THEN NumFrames - 1 ELSE Pos(f) - 1
  <2>1. \A f \in Frames : Behind(NumFrames, NextBuffer', f) = Behind(NumFrames, (n + 1) % NumFrames, f)
    BY <1>5
  <2>2. \A f \in Frames : Pos(f) = Behind(NumFrames, n, f)
    BY <1>1 DEF Pos
  <2> QED
    BY <2>1, <2>2, Around
<1>9. /\ Len(Line) = NumFrames - h /\ \A i \in 1 .. Len(Line) : Line[i] \in Frames /\ Pos(Line[i]) = i - 1
      /\ 1 \in 1 .. Len(Line)
  BY <1>6, <1>7 DEF RingIs
<1>10. Line[1] = n /\ h + 1 \in 0 .. NumFrames
  BY <1>8, <1>9
<1>11. Len(Line') = NumFrames - (h + 1) /\ \A i \in 1 .. Len(Line') : Behind(NumFrames, NextBuffer', Line'[i]) = i - 1
  <2>1. Len(Line') = Len(Line) - 1
    BY <1>6, <1>7
  <2>2. ASSUME NEW i \in 1 .. Len(Line') PROVE Behind(NumFrames, NextBuffer', Line'[i]) = i - 1
    <3>1. PICK j \in 1 .. Len(Line) : j = i + 1
      BY <2>1, <1>9
    <3>2. Line'[i] = Line[j]
      BY <1>6, <1>7, <3>1
    <3>3. Pos(Line[j]) = i /\ Line[j] \in Frames /\ Pos(Line[j]) # 0
      BY <1>9, <3>1
    <3> QED
      BY <1>8, <3>2, <3>3
  <2> QED
    <3>1. NumFrames - (h + 1) = NumFrames - h - 1
      BY <1>8
    <3>2. Len(Line') = NumFrames - (h + 1)
      BY <1>8, <1>9, <2>1, <3>1
    <3> QED
      BY <2>2, <3>2
<1>12. ASSUME NEW f \in Frames PROVE f \in held' <=> Behind(NumFrames, NextBuffer', f) >= NumFrames - (h + 1)
  BY <1>2, <1>8, <1>10 DEF RingIs
<1>13. Behind(NumFrames, NextBuffer', oldest') = NumFrames - (h + 1)
  <2>1. CASE h = 0
    BY <1>1, <1>2, <1>8, <2>1 DEF RingIs, Pos
  <2>2. CASE h # 0
    <3>1. Pos(oldest) = NumFrames - h
      BY <2>2 DEF RingIs
    <3>2. oldest # n
      BY <1>2, <1>8, <1>10, <3>1
    <3>3. Behind(NumFrames, NextBuffer', oldest') = Pos(oldest) - 1
      BY <1>2, <1>8, <3>2
    <3> QED
      BY <1>8, <3>1, <3>3
  <2> QED
    BY <2>1, <2>2
<1>14. h + 1 # 0
  OBVIOUS
<1>15. RingIs(h + 1)'
  BY <1>11, <1>12, <1>13, <1>14 DEF RingIs, Pos
<1> QED
  BY <1>2, <1>4, <1>7, <1>10, <1>15

\* enqueue: the buffer held longest goes to the end of the line.
LEMMA RingGrown ==
    ASSUME Inv, Discipline = "ordered", NEW h \in 0 .. NumFrames, RingIs(h), NEW f \in Frames,
           Enqueue(f), held' # held
    PROVE  h - 1 \in 0 .. NumFrames /\ RingIs(h - 1)'
<1>1. PICK n \in Frames : n = NextBuffer
  BY NextIsBuffer DEF Inv
<1>2. /\ f \in held /\ f = oldest /\ held' = held \ {f} /\ oldest' = (f + 1) % NumFrames
      /\ queued' = Append(queued, f) /\ UNCHANGED <<events, craw>>
  BY DEF Enqueue, Returnable
<1>3. NextBuffer' = n /\ RingReady' = RingReady
  BY <1>1, <1>2 DEF NextBuffer, RingReady
<1>4. Line \in Seq(Frames) /\ Line' = Append(Line, f)
  <2>1. RingReady \in Seq(Frames) /\ queued \in Seq(Frames) /\ Line \in Seq(Frames)
    BY LineType DEF Inv
  <2>2. RingReady \o Append(queued, f) = Append(RingReady \o queued, f)
    BY <2>1
  <2> QED
    BY <1>2, <1>3, <2>1, <2>2 DEF Line
<1>5. /\ NumFrames \in Nat \ {0}
      /\ \A g \in Frames : Pos(g) \in 0 .. NumFrames - 1 /\ Behind(NumFrames, NextBuffer', g) = Pos(g)
      /\ \A g \in Frames : Pos(g) = Pos(f) => g = f
      /\ \A g \in Frames : Pos(g) = 0 <=> g = n
      /\ oldest' \in Frames
      /\ Behind(NumFrames, NextBuffer', oldest') = IF Pos(f) = NumFrames - 1 THEN 0 ELSE Pos(f) + 1
  <2>1. \A g \in Frames : Pos(g) = Behind(NumFrames, n, g)
    BY <1>1 DEF Pos
  <2>2. /\ (f + 1) % NumFrames \in Frames
        /\ Behind(NumFrames, NextBuffer', oldest') = Behind(NumFrames, n, (f + 1) % NumFrames)
        /\ \A g \in Frames : Behind(NumFrames, NextBuffer', g) = Behind(NumFrames, n, g)
    BY <1>2, <1>3, Around
  <2>3. /\ Behind(NumFrames, n, (f + 1) % NumFrames)
             = IF Behind(NumFrames, n, f) = NumFrames - 1 THEN 0 ELSE Behind(NumFrames, n, f) + 1
        /\ \A g \in Frames : Behind(NumFrames, n, g) = Behind(NumFrames, n, f) => g = f
        /\ \A g \in Frames : Behind(NumFrames, n, g) \in 0 .. NumFrames - 1
        /\ \A g \in Frames : Behind(NumFrames, n, g) = 0 <=> g = n
        /\ NumFrames \in Nat \ {0}
    BY Around
  <2> QED
    BY <1>2, <2>1, <2>2, <2>3
<1>6. /\ Len(Line) = NumFrames - h /\ \A i \in 1 .. Len(Line) : Line[i] \in Frames /\ Pos(Line[i]) = i - 1
      /\ \A g \in Frames : g \in held <=> Pos(g) >= NumFrames - h
  BY <1>4 DEF RingIs
<1>7. h # 0 /\ Pos(f) = NumFrames - h
  <2>1. h # 0
    BY <1>2, <1>5, <1>6
  <2> QED
    BY <1>2, <2>1 DEF RingIs
<1>8. h - 1 \in 0 .. NumFrames
  BY <1>5, <1>7
<1>9. Len(Line') = NumFrames - (h - 1) /\ \A i \in 1 .. Len(Line') : Behind(NumFrames, NextBuffer', Line'[i]) = i - 1
  <2>1. Len(Line') = Len(Line) + 1
    BY <1>4
  <2>2. ASSUME NEW i \in 1 .. Len(Line') PROVE Behind(NumFrames, NextBuffer', Line'[i]) = i - 1
    <3>1. CASE i \in 1 .. Len(Line)
      <4>1. Line'[i] = Line[i]
        BY <1>4, <3>1
      <4> QED
        BY <1>5, <1>6, <3>1, <4>1
    <3>2. CASE i \notin 1 .. Len(Line)
      <4>1. i = Len(Line) + 1 /\ Line'[i] = f
        BY <1>4, <2>1, <3>2
      <4>2. Pos(f) = i - 1
        BY <1>5, <1>6, <1>7, <4>1
      <4> QED
        BY <1>5, <4>1, <4>2
    <3> QED
      BY <3>1, <3>2
  <2> QED
    BY <1>5, <1>6, <2>1, <2>2
<1>10. ASSUME NEW g \in Frames PROVE g \in held' <=> Behind(NumFrames, NextBuffer', g) >= NumFrames - (h - 1)
  BY <1>2, <1>5, <1>6, <1>7
<1>11. IF h - 1 = 0 THEN oldest' = NextBuffer' ELSE Behind(NumFrames, NextBuffer', oldest') = NumFrames - (h - 1)
  <2>1. CASE h = 1
    <3>1. Behind(NumFrames, NextBuffer', oldest') = 0
      BY <1>5, <1>7, <2>1
    <3>2. Behind(NumFrames, n, oldest') = 0
      BY <1>3, <3>1
    <3> QED
      BY <1>3, <1>5, <2>1, <3>2, Around
  <2>2. CASE h # 1
    BY <1>5, <1>7, <2>2
  <2> QED
    BY <2>1, <2>2
<1>12. RingIs(h - 1)'
  BY <1>9, <1>10, <1>11 DEF RingIs, Pos
<1> QED
  BY <1>8, <1>12

\* Each step keeps the ring in order.
LEMMA RingInvStep ==
    ASSUME Discipline = "ordered", Inv, RingInv, [Next]_vars
    PROVE  RingInv'
<1>1. ContextOK /\ (RingOn => \E h \in 0 .. NumFrames : RingIs(h))
  BY DEF RingInv
<1> DEFINE Same == UNCHANGED <<context, craw, held, oldest, queued, events>>
<1>2. ASSUME Same PROVE RingOn' = RingOn /\ (RingOn => \E h \in 0 .. NumFrames : RingIs(h)')
  <2>1. Line' = Line /\ RingOn' = RingOn
    BY <1>2 DEF Line, RingReady, RingOn
  <2> QED
    BY <1>1, <1>2, <2>1, RingUntouched
<1>3. ASSUME Same, context = "created" <=> pc' \in {"queue", "start"}, pc' \in {"queue", "start"} => pc' = pc
      PROVE  RingInv'
  <2>1. ContextOK'
    BY <1>1, <1>3 DEF ContextOK
  <2> QED
    BY <1>2, <1>3, <2>1 DEF RingInv
<1>4. ASSUME NEW flags \in FlagSets, SetupBegin(flags) PROVE RingInv'
  <2>1. /\ pc = "idle" /\ ~craw.is_set /\ craw' = [craw EXCEPT !.flags = flags]
        /\ pc' \in {"alloc", "context", "idle"} /\ UNCHANGED <<context, queued, events, held, oldest>>
    BY <1>4 DEF SetupBegin, Goto, SetupFails, Returns, ring, client
  <2>2. ~RingOn /\ ~RingOn' /\ context # "created"
    BY <1>1, <2>1 DEF ContextOK, RingOn
  <2>3. ContextOK'
    BY <1>1, <2>1, <2>2 DEF ContextOK, RingOn
  <2> QED
    BY <2>2, <2>3 DEF RingInv
<1>5. CASE SetupAllocate \/ SetupProgram \/ SetupContext
  <2>1. /\ pc \in {"alloc", "program", "context"} /\ UNCHANGED <<queued, events, held, oldest>>
        /\ \/ pc' \in {"program", "context", "idle"} /\ context' = context
           \/ pc' = "queue" /\ context' = "created" /\ craw' = [craw EXCEPT !.current = -1]
    BY <1>5 DEF SetupAllocate, SetupProgram, SetupContext, Goto, SetupFails, Returns, ring, client
  <2>2. ~craw.is_set /\ craw \in CrawType
    BY <2>1 DEF Inv, OwnedOK, Types
  <2>3. context = "closed"
    BY <1>1, <2>1, <2>2 DEF ContextOK, Inv, Types, RingType
  <2>4. ~RingOn'
    BY <2>1, <2>3 DEF RingOn
  <2>5. pc' = "queue" => craw'.current = -1
    BY <2>1, <2>2 DEF CrawType
  <2>6. ContextOK'
    BY <1>1, <2>1, <2>3, <2>5 DEF ContextOK
  <2> QED
    BY <2>4, <2>6 DEF RingInv
<1>6. CASE SetupQueue
  <2>1. /\ pc = "queue" /\ held' = held
        /\ \/ /\ queued' = [i \in 1 .. NumFrames |-> i - 1] /\ oldest' = 0 /\ pc' = "start"
              /\ craw' = [craw EXCEPT !.is_set = TRUE] /\ UNCHANGED <<context, events>>
           \/ context' = "closed" /\ queued' = <<>> /\ events' = <<>> /\ pc' = "idle"
    BY <1>6 DEF SetupQueue, Goto, SetupFails, Returns, CloseContext
  <2>2. craw.current = -1 /\ craw \in CrawType /\ context = "created" /\ held = {}
    BY <1>1, <2>1 DEF ContextOK, Inv, Types
  <2>3. pc' = "start" => craw'.current = -1
    BY <2>1, <2>2 DEF CrawType
  <2>4. ~RingOn'
    BY <2>1, <2>2 DEF RingOn
  <2>5. ContextOK'
    BY <1>1, <2>1, <2>2, <2>3 DEF ContextOK
  <2> QED
    BY <2>4, <2>5 DEF RingInv
<1>7. CASE SetupStart
  <2>1. /\ pc = "start" /\ UNCHANGED <<craw, held, oldest>> /\ pc' \in {"auto", "idle"}
        /\ \/ context' = "running" /\ UNCHANGED <<queued, events>>
           \/ context' = "closed" /\ queued' = <<>> /\ events' = <<>>
    BY <1>7 DEF SetupStart, Goto, SetupFails, Returns, CloseContext, client
  <2>2. craw.is_set /\ context = "created" /\ held = {}
    BY <1>1, <2>1 DEF ContextOK, Inv, OwnedOK
  <2>3. ContextOK'
    BY <2>1, <2>2 DEF ContextOK
  <2>4. RingOn' => RingIs(0)'
    BY <1>1, <1>7, RingStarted
  <2>5. 0 \in 0 .. NumFrames
    BY JujuAssumption
  <2> QED
    BY <2>3, <2>4, <2>5 DEF RingInv
<1>8. CASE SetupAuto
  <2>1. /\ pc = "auto" /\ pc' = "idle" /\ UNCHANGED <<context, queued, events, held, oldest>>
        /\ craw' \in {craw, [craw EXCEPT !.auto_started = TRUE]}
    BY <1>8 DEF SetupAuto, SetupFails, Returns, ring, client
  <2>2. craw'.current = craw.current /\ craw'.is_set = craw.is_set
    BY <2>1 DEF Inv, Types, CrawType
  <2>3. ContextOK'
    BY <1>1, <2>1, <2>2 DEF ContextOK
  <2>4. Line' = Line /\ RingOn' = RingOn
    BY <2>1 DEF Line, RingReady, RingOn
  <2> QED
    BY <1>1, <2>1, <2>2, <2>3, <2>4, RingUntouched DEF RingInv
<1>9. CASE Fill \/ BusReset \/ SkipEvent
  <2>1. Line' = Line
    BY <1>9, LineFilled, LineReset DEF Inv
  <2>2. /\ UNCHANGED <<pc, craw, context, held, oldest>>
    BY <1>9 DEF Fill, BusReset, SkipEvent, client
  <2>3. ContextOK'
    <3>1. CASE context = "running"
      BY <1>1, <2>2, <3>1 DEF ContextOK
    <3>2. CASE context # "running"
      <4>1. events \in Seq(Frames \cup {NoFrame}) /\ queued' = queued
            /\ \/ events' = Append(events, NoFrame) /\ context # "closed"
               \/ events # <<>> /\ events' = Tail(events)
        BY <1>9, <3>2 DEF Fill, BusReset, SkipEvent, Inv, Types, RingType
      <4>2. (\A i \in DOMAIN events : events[i] = NoFrame) => \A i \in DOMAIN events' : events'[i] = NoFrame
        <5>1. CASE events' = Append(events, NoFrame)
          BY <4>1, <5>1
        <5>2. CASE events # <<>> /\ events' = Tail(events)
          BY <4>1, <5>2
        <5> QED
          BY <4>1, <5>1, <5>2
      <4> QED
        BY <1>1, <2>2, <4>1, <4>2 DEF ContextOK
    <3> QED
      BY <3>1, <3>2
  <2>4. RingOn' = RingOn
    BY <2>2 DEF RingOn
  <2> QED
    BY <1>1, <2>1, <2>2, <2>3, <2>4, RingUntouched DEF RingInv
<1>10. CASE \/ PollFindsNothing \/ ReadFails \/ StopFails \/ \E policy \in {"WAIT", "POLL"} : DequeueBegin(policy)
  <2>1. Same /\ pc \in {"idle", "WAIT", "POLL"} /\ pc' \in {"idle", "WAIT", "POLL"}
    BY <1>10
    DEF PollFindsNothing, ReadFails, StopFails, DequeueBegin, Dequeuing, Running, Returns, Goto, ring,
        client
  <2>2. context # "created"
    BY <1>1, <2>1 DEF ContextOK
  <2> QED
    BY <1>3, <2>1, <2>2
<1>11. CASE Take
  <2>1. /\ pc \in {"WAIT", "POLL"} /\ pc' = "idle" /\ UNCHANGED <<context, queued>>
        /\ craw' = [craw EXCEPT !.current = NextBuffer] /\ events # <<>> /\ Head(events) # NoFrame
        /\ events \in Seq(Frames \cup {NoFrame})
    BY <1>11 DEF Take, Dequeuing, Returns, Inv, Types, RingType
  <2>2. 1 \in DOMAIN events /\ events[1] # NoFrame
    BY <2>1
  <2>3. context = "running" /\ craw.is_set /\ craw \in CrawType
    BY <1>1, <2>2 DEF ContextOK, Inv, Types
  <2>4. RingOn /\ craw'.is_set
    BY <2>1, <2>3 DEF RingOn, CrawType
  <2>5. ContextOK'
    BY <1>1, <2>1, <2>3, <2>4 DEF ContextOK
  <2> QED
    BY <1>1, <1>11, <2>4, <2>5, RingTaken DEF RingInv
<1>12. ASSUME NEW f \in Frames, Enqueue(f) PROVE RingInv'
  <2>1. /\ pc = "idle" /\ pc' = "idle" /\ UNCHANGED <<context, events, craw>> /\ f \in held
        /\ (held' = held => Same)
    BY <1>12 DEF Enqueue, Running, Returns, Returnable
  <2>2. RingOn
    BY <1>1, <2>1 DEF ContextOK, RingOn
  <2>3. ContextOK'
    BY <1>1, <2>1, <2>2 DEF ContextOK, RingOn
  <2>4. CASE held' = held
    BY <1>2, <2>1, <2>2, <2>3, <2>4 DEF RingInv
  <2>5. CASE held' # held
    BY <1>1, <1>12, <2>2, <2>3, <2>5, RingGrown DEF RingInv
  <2> QED
    BY <2>4, <2>5
<1>13. CASE StopContext
  <2>1. /\ context' = "closed" /\ queued' = <<>> /\ events' = <<>> /\ held' = {} /\ pc' = "deallocate"
    BY <1>13 DEF StopContext, CloseContext, Goto
  <2> QED
    BY <2>1 DEF RingInv, ContextOK, RingOn
<1>14. CASE StopDeallocate \/ StopAuto \/ CameraReopen
  <2>1. /\ pc \in {"deallocate", "stop_auto", "idle"} /\ pc' \in {"stop_auto", "idle"}
        /\ UNCHANGED <<context, queued, events, held, oldest>>
        /\ ~craw.is_set
    BY <1>14 DEF StopDeallocate, StopAuto, CameraReopen, Goto, Returns, ring, client, Inv, OwnedOK
  <2>2. context = "closed"
    BY <1>1, <2>1 DEF ContextOK, Inv, Types, RingType
  <2> QED
    BY <1>1, <2>1, <2>2 DEF RingInv, ContextOK, RingOn
<1>15. CASE UNCHANGED vars
  <2>1. Same /\ pc' = pc
    BY <1>15 DEF vars, ring, client
  <2> QED
    BY <1>1, <1>3, <2>1 DEF ContextOK
<1> QED
  BY <1>4, <1>5, <1>6, <1>7, <1>8, <1>9, <1>10, <1>11, <1>12, <1>13, <1>14, <1>15
  DEF Next, Setup, Dequeue, Stop

LEMMA RingInvHolds == Discipline = "ordered" => (Spec => []RingInv)
<1> SUFFICES ASSUME Discipline = "ordered" PROVE Spec => []RingInv
  OBVIOUS
<1>1. Init => RingInv
  BY DEF Init, RingInv, ContextOK, RingOn
<1>2. Inv /\ RingInv /\ [Next]_vars => RingInv'
  BY RingInvStep
<1> QED
  BY <1>1, <1>2, Invariance, PTL DEF Spec

\* If buffers come back in the order they were dequeued, no buffer that the
\* application holds is queued for the camera, for any number of buffers
\* (capture.h:87-89; juju/capture.c:359-377).
THEOREM HeldStayOut == Discipline = "ordered" => (Spec => []HeldNotQueued)
<1>1. Inv /\ RingInv => HeldNotQueued
  <2> SUFFICES ASSUME Inv, RingInv, NEW i \in DOMAIN queued, queued[i] \in held PROVE FALSE
    BY DEF HeldNotQueued
  <2>1. PICK h \in 0 .. NumFrames : RingIs(h)
    BY DEF RingInv, ContextOK, RingOn
  <2>2. /\ RingReady \in Seq(Frames) /\ queued \in Seq(Frames) /\ Line \in Seq(Frames)
        /\ Line = RingReady \o queued
    BY LineType DEF Inv, Line
  <2>3. PICK k \in 1 .. Len(Line) : k = Len(RingReady) + i /\ Line[k] = queued[i]
    BY <2>2
  <2>4. Line[k] \in Frames /\ Pos(Line[k]) = k - 1 /\ k <= NumFrames - h
    BY <2>1, <2>2 DEF RingIs
  <2>5. Pos(Line[k]) >= NumFrames - h
    BY <2>1, <2>3, <2>4 DEF RingIs
  <2> QED
    BY <2>4, <2>5, JujuAssumption
<1> QED
  BY <1>1, RingInvHolds, Invariance, PTL

-----------------------------------------------------------------------------
(* The ring implements FrameRing *)

LEMMA RingStepImplements ==
    ASSUME Discipline = "ordered", Inv, RingInv, [Next]_vars
    PROVE  [Ring!Next]_(Ring!vars)
<1>1. ContextOK /\ (RingOn => \E h \in 0 .. NumFrames : RingIs(h))
  BY DEF RingInv
<1> DEFINE Unseen == /\ RingOn' = RingOn /\ RingDevice' = RingDevice
                     /\ RingReady' = RingReady /\ held' = held
<1>2. ASSUME Unseen PROVE UNCHANGED Ring!vars
  BY <1>2 DEF Ring!vars
<1>3. ASSUME UNCHANGED <<context, queued, events, held>> PROVE Unseen
  BY <1>3 DEF RingOn, RingDevice, RingReady
<1>4. ASSUME \A i \in DOMAIN events : events[i] = NoFrame PROVE RingReady = <<>>
  <2>1. Places(events, Frames) = {}
    BY <1>4, NoFrameIsNone DEF Places
  <2> QED
    BY <2>1, NothingSelected DEF RingReady
<1>5. CASE \/ SetupAllocate \/ SetupProgram \/ SetupAuto \/ \E flags \in FlagSets : SetupBegin(flags)
           \/ PollFindsNothing \/ ReadFails \/ StopFails
           \/ \E policy \in {"WAIT", "POLL"} : DequeueBegin(policy)
           \/ StopDeallocate \/ StopAuto \/ CameraReopen \/ UNCHANGED vars
  <2>1. UNCHANGED <<context, queued, events, held>>
    BY <1>5
    DEF SetupAllocate, SetupProgram, SetupAuto, SetupBegin, PollFindsNothing, ReadFails, StopFails,
        DequeueBegin, StopDeallocate, StopAuto, CameraReopen, vars, ring, client
  <2> QED
    BY <1>2, <1>3, <2>1
<1>6. CASE SetupContext \/ SetupQueue
  <2>1. ~RingOn /\ ~RingOn' /\ held' = held /\ events' \in {events, <<>>}
    BY <1>1, <1>6
    DEF SetupContext, SetupQueue, CloseContext, ContextOK, RingOn, client, Inv, OwnedOK
  <2>2. /\ \A i \in DOMAIN events : events[i] = NoFrame
        /\ \A i \in DOMAIN events' : events'[i] = NoFrame
    BY <1>1, <2>1 DEF ContextOK, RingOn
  <2>3. RingReady = <<>> /\ RingReady' = <<>>
    <3>1. Places(events', Frames) = {}
      BY <2>2, NoFrameIsNone DEF Places
    <3>2. RingReady' = <<>>
      BY <3>1, NothingSelected DEF RingReady
    <3> QED
      BY <1>4, <2>2, <3>2
  <2>4. RingDevice' = RingDevice
    BY <2>1 DEF RingDevice
  <2>5. RingOn' = RingOn
    BY <2>1 DEF RingOn
  <2> QED
    BY <1>2, <2>1, <2>3, <2>4, <2>5
<1>7. CASE SetupStart
  <2>1. /\ pc = "start" /\ held' = held
        /\ \/ context' = "running" /\ UNCHANGED <<queued, events>>
           \/ context' = "closed" /\ queued' = <<>> /\ events' = <<>>
    BY <1>7 DEF SetupStart, CloseContext, client
  <2>2. /\ ~RingOn /\ queued = [i \in 1 .. NumFrames |-> i - 1]
        /\ \A i \in DOMAIN events : events[i] = NoFrame
    BY <1>1, <2>1 DEF ContextOK, RingOn
  <2>3. RingReady = <<>>
    BY <1>4, <2>2
  <2>4. CASE RingOn'
    <3>1. RingReady' = <<>>
      BY <1>1, <1>7, <2>4, RingStarted
    <3>2. RingDevice' = [i \in 1 .. NumFrames |-> i - 1]
      BY <2>1, <2>2, <2>4 DEF RingDevice, RingOn
    <3> QED
      BY <2>1, <2>2, <2>3, <2>4, <3>1, <3>2 DEF Ring!Next, Ring!Start
  <2>5. CASE ~RingOn'
    <3>1. RingReady' = <<>>
      <4>1. Places(events', Frames) = {}
        BY <2>1, <2>5 DEF Places, RingOn
      <4> QED
        BY <4>1, NothingSelected DEF RingReady
    <3>2. RingDevice' = RingDevice
      BY <2>2, <2>5 DEF RingDevice
    <3>3. RingOn' = RingOn
      BY <2>2, <2>5 DEF RingOn
    <3> QED
      BY <1>2, <2>1, <2>3, <3>1, <3>2, <3>3
  <2> QED
    BY <2>4, <2>5
<1>8. CASE Fill
  <2>1. /\ queued # <<>> /\ RingReady' = Append(RingReady, Head(queued)) /\ queued' = Tail(queued)
    BY <1>8, LineFilled DEF Inv
  <2>2. RingOn /\ RingOn' /\ RingOn' = RingOn /\ held' = held
    BY <1>8 DEF Fill, RingOn, client
  <2>3. RingDevice = queued /\ RingDevice' = queued'
    BY <2>2 DEF RingDevice
  <2> QED
    BY <2>1, <2>2, <2>3 DEF Ring!Next, Ring!Fill
<1>9. CASE BusReset \/ SkipEvent
  <2>1. RingReady' = RingReady /\ queued' = queued
    BY <1>9, LineReset DEF Inv
  <2>2. RingOn' = RingOn /\ held' = held
    BY <1>9 DEF BusReset, SkipEvent, RingOn, client
  <2>3. RingDevice' = RingDevice
    BY <2>1, <2>2 DEF RingDevice
  <2> QED
    BY <1>2, <2>1, <2>2, <2>3
<1>10. CASE Take
  <2>1. UNCHANGED <<context, queued>>
    BY <1>10 DEF Take
  <2>2. UNCHANGED <<RingOn, RingDevice>>
    BY <2>1 DEF RingOn, RingDevice
  <2>3. RingOn
    <3>1. events # <<>> /\ Head(events) # NoFrame /\ events \in Seq(Frames \cup {NoFrame})
      BY <1>10 DEF Take, Inv, Types, RingType
    <3>2. 1 \in DOMAIN events /\ events[1] # NoFrame
      BY <3>1
    <3> QED
      BY <1>1, <3>2 DEF ContextOK, RingOn
  <2>4. RingReady # <<>> /\ RingReady' = Tail(RingReady) /\ held' = held \cup {Head(RingReady)}
    BY <1>1, <1>10, <2>3, RingTaken
  <2> QED
    BY <2>2, <2>4 DEF Ring!Next, Ring!Deliver
<1>11. ASSUME NEW f \in Frames, Enqueue(f) PROVE [Ring!Next]_(Ring!vars)
  <2>1. /\ UNCHANGED <<context, events>> /\ f \in held
        /\ \/ queued' = Append(queued, f) /\ held' = held \ {f}
           \/ queued' = queued /\ held' = held
    BY <1>11 DEF Enqueue, Returnable
  <2>2. RingOn /\ RingOn' /\ RingOn' = RingOn
    BY <1>1, <2>1 DEF ContextOK, RingOn
  <2>3. RingReady' = RingReady
    BY <2>1 DEF RingReady
  <2>4. RingDevice = queued /\ RingDevice' = queued'
    BY <2>2 DEF RingDevice
  <2>5. CASE queued' = queued /\ held' = held
    BY <1>2, <2>2, <2>3, <2>4, <2>5
  <2>6. CASE queued' = Append(queued, f) /\ held' = held \ {f}
    BY <2>1, <2>2, <2>3, <2>4, <2>6 DEF Ring!Next, Ring!Return
  <2> QED
    BY <2>1, <2>5, <2>6
<1>12. CASE StopContext
  <2>1. /\ context = "running" /\ context' = "closed" /\ queued' = <<>> /\ events' = <<>> /\ held' = {}
    BY <1>12 DEF StopContext, CloseContext
  <2>2. RingOn /\ ~RingOn' /\ RingOn' = FALSE
    BY <2>1 DEF RingOn
  <2>3. RingReady' = <<>>
    <3>1. Places(events', Frames) = {}
      BY <2>1 DEF Places
    <3> QED
      BY <3>1, NothingSelected DEF RingReady
  <2>4. RingDevice' = <<>>
    BY <2>2 DEF RingDevice
  <2> QED
    BY <2>1, <2>2, <2>3, <2>4 DEF Ring!Next, Ring!Stop
<1> QED
  BY <1>5, <1>6, <1>7, <1>8, <1>9, <1>10, <1>11, <1>12 DEF Next, Setup, Dequeue, Stop

\* For an application that returns buffers in the order it dequeued them, and any
\* number of buffers, the events of the kernel and `current' implement FrameRing:
\* each event stands for the buffer it seems to stand for
\* (juju/capture.c:315-357).
THEOREM RingImplemented == Discipline = "ordered" => (Spec => ImplementsRing)
<1> SUFFICES ASSUME Discipline = "ordered" PROVE Spec => ImplementsRing
  OBVIOUS
<1>1. Init => Ring!Init
  <2> SUFFICES ASSUME Init PROVE Ring!Init
    OBVIOUS
  <2>1. context = "closed" /\ events = <<>> /\ held = {}
    BY DEF Init
  <2>2. RingOn = FALSE /\ RingDevice = <<>>
    BY <2>1 DEF RingOn, RingDevice
  <2>3. RingReady = <<>>
    <3>1. Places(events, Frames) = {}
      BY <2>1 DEF Places
    <3> QED
      BY <3>1, NothingSelected DEF RingReady
  <2> QED
    BY <2>1, <2>2, <2>3 DEF Ring!Init
<1>2. Inv /\ RingInv /\ [Next]_vars => [Ring!Next]_(Ring!vars)
  BY RingStepImplements
<1> QED
  BY <1>1, <1>2, Invariance, RingInvHolds, PTL DEF Spec, ImplementsRing, Ring!Spec
=============================================================================

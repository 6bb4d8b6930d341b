-------------------------- MODULE JujuDeviceProofs --------------------------
(***************************************************************************)
(* Proofs about JujuDevice, for any number of structures, handles, tries,  *)
(* bus resets and failed reads: every variable has its type, every         *)
(* isochronous event points to a structure that is allocated and is the    *)
(* one of its handle, what the library believes to be allocated the kernel *)
(* knows, and a request is carried out at most once.                       *)
(*                                                                         *)
(* None of these is inductive.  What is said of a structure depends on     *)
(* what the kernel still has to tell about it, and in which order: an      *)
(* allocation is told before the loss of what was allocated, and when the  *)
(* kernel gives a handle out again, the loss of the resource that had it   *)
(* is in the queue before anything about the new one (ApartOK).            *)
(***************************************************************************)
EXTENDS JujuDevice, TLAPS

-----------------------------------------------------------------------------
(* What the kernel holds and has to tell, by structure *)

\* The places in the queue q of the events about structure a, and the resources
\* of R that have it for a closure.
At(q, a) == {i \in DOMAIN q : q[i].type \in IsoTypes /\ q[i].closure = a}
Of(R, a) == {r \in R : r.closure = a}

\* Nothing is left.
Silent(q, R, a) == At(q, a) = {} /\ Of(R, a) = {}

\* A resource in state s is there, and nothing is to be told of it.
Has(q, R, a, s) == At(q, a) = {} /\ \E r \in Of(R, a) : r.state = s

\* The resource is gone, and this is still to be told.
Gone(q, R, a) == Of(R, a) = {} /\ \E i \in At(q, a) : At(q, a) = {i} /\ q[i].type = "deallocated"

\* What became of the allocation is still to be told, perhaps together with the
\* loss of what was allocated.
Told(q, R, a) ==
    \E i \in At(q, a) :
       /\ q[i].type = "allocated"
       /\ \/ q[i].ok /\ At(q, a) = {i} /\ \E r \in Of(R, a) : r.state = "held"
          \/ /\ q[i].ok /\ Of(R, a) = {}
             /\ \E j \in At(q, a) : i < j /\ At(q, a) = {i, j} /\ q[j].type = "deallocated"
          \/ ~q[i].ok /\ At(q, a) = {i} /\ Of(R, a) = {}

\* Structure a of a resource that was allocated: it is in state s, or lost.
Known(q, R, I, a, s) ==
    IF I[a].got_dealloc THEN Silent(q, R, a) ELSE Has(q, R, a, s) \/ Gone(q, R, a)

\* Structure a of an allocation in progress.
Asked(q, R, I, a) ==
    IF I[a].got_alloc
    THEN IF I[a].ok THEN Has(q, R, a, "held") \/ Gone(q, R, a) ELSE Silent(q, R, a)
    ELSE Has(q, R, a, "allocating") \/ Told(q, R, a)

\* A camera that is closed has left nothing behind.
ClosedOK ==
    ~cam.open => /\ queue = <<>> /\ requests = <<>> /\ resources = {}
                 /\ cam = ClosedCam /\ call.pc = "idle"

OwnersOK ==
    /\ cam.owned \subseteq cam.iso_resources
    /\ call.pc \in {"alloc", "dealloc"} => call.info \in cam.iso_resources \ cam.owned

\* A handle, and a structure, stand for one resource of the kernel.
UniqueOK == \A r, s \in resources : r.handle = s.handle \/ r.closure = s.closure => r = s

KnownOK ==
    /\ \A a \in cam.owned : Known(queue, resources, info, a, "held")
    /\ call.pc = "dealloc" => Known(queue, resources, info, call.info, "deallocating")

AskedOK ==
    call.pc = "alloc" =>
       ~info[call.info].got_dealloc /\ Asked(queue, resources, info, call.info)

\* Of two structures that have the same handle, the library has been told that
\* the resource of one is gone, or will be before it is told of the other.
ApartOK ==
    /\ \A a, b \in cam.owned :
          a # b /\ info[a].handle = info[b].handle => info[a].got_dealloc \/ info[b].got_dealloc
    /\ call.pc = "alloc" =>
          \A a \in cam.owned : info[a].handle = info[call.info].handle =>
             \/ info[a].got_dealloc
             \/ /\ ~info[call.info].got_alloc /\ Of(resources, a) = {}
                /\ \A i \in At(queue, a), j \in At(queue, call.info) : i < j

\* As long as no read has failed, what is under way belongs to the try that
\* waits: one request, or one response, or the answer it has got.
Responses(q) == {i \in DOMAIN q : q[i].type = "response"}
DoneBy(rcode, did) ==
    CASE rcode = "COMPLETE" -> did = 1 [] rcode = "ERROR" -> did \in {0, 1} [] OTHER -> did = 0

Waits ==
    \/ /\ ~call.got /\ Responses(queue) = {} /\ call.did = 0
       /\ \E m \in {requests[i] : i \in DOMAIN requests} : requests = <<m>> /\ m.attempt # Orphan
    \/ /\ ~call.got /\ requests = <<>>
       /\ \E i \in Responses(queue) : /\ Responses(queue) = {i} /\ queue[i].attempt # Orphan
                                      /\ DoneBy(queue[i].rcode, call.did)
    \/ call.got /\ requests = <<>> /\ Responses(queue) = {} /\ DoneBy(call.rcode, call.did)

Trying ==
    /\ call.did \in {0, 1}
    /\ IF call.pc = "response" THEN Waits ELSE requests = <<>> /\ Responses(queue) = {}
    /\ call.pc = "send" => call.did = 0
    /\ call.pc \in {"alloc", "dealloc"} => call.op # "transaction"
    /\ call.op = "transaction" /\ call.pc = "idle" /\ call.err = "SUCCESS" => call.did = 1

TriesOK == failures = 0 => Trying

IsoOK == OwnersOK /\ IsoClosuresValid /\ UniqueOK /\ KnownOK /\ AskedOK /\ ApartOK
Inv == DeviceTypeOK /\ ClosedOK /\ IsoOK

-----------------------------------------------------------------------------
(* Types *)

ResetEvents == [type : {"reset"}, generation : Nat]
ResponseEvents == [type : {"response"}, attempt : Attempts, rcode : AllRcodes]
IsoEvents == [type : IsoTypes, closure : Infos, handle : Handles, ok : BOOLEAN]
RequestType == [attempt : Attempts, generation : Nat]
ResourceType == [handle : Handles, closure : Infos, state : {"allocating", "held", "deallocating"}]
CamType == [open : BOOLEAN, generation : Nat, iso_resources : SUBSET Infos, owned : SUBSET Infos]
CallType == [op : {"none", "transaction", "allocate", "deallocate"},
             pc : {"idle", "send", "response", "alloc", "dealloc"}, err : Errors,
             tries : Attempts, got : BOOLEAN, rcode : AllRcodes \cup {"NONE"},
             did : Nat, info : Infos \cup {NoAddress}]

CountsType == bus \in Nat /\ reported \in Nat /\ failures \in Nat
QueueType == queue \in Seq(Events) /\ requests \in Seq(RequestType)

LEMMA TypeByParts ==
    DeviceTypeOK <=> /\ CountsType /\ QueueType /\ resources \subseteq ResourceType
                     /\ cam \in CamType /\ info \in [Infos -> InfoState] /\ call \in CallType
  BY DEF DeviceTypeOK, CountsType, QueueType, RequestType, ResourceType, CamType, CallType

LEMMA EventsByKind == Events = ResetEvents \cup ResponseEvents \cup IsoEvents
  BY DEF Events, ResetEvents, ResponseEvents, IsoEvents

\* What kind an event is its type tells.
LEMMA EventKinds ==
    ASSUME NEW e \in Events
    PROVE  /\ e.type = "reset" => e.generation \in Nat
           /\ e.type = "response" => e.attempt \in Attempts /\ e.rcode \in AllRcodes
           /\ e.type \in IsoTypes => e.closure \in Infos /\ e.handle \in Handles /\ e.ok \in BOOLEAN
           /\ e.type \in {"reset", "response"} \cup IsoTypes
  BY EventsByKind DEF ResetEvents, ResponseEvents, IsoEvents, IsoTypes

\* Events that the kernel appends are events.
LEMMA NewEvents ==
    /\ \A g \in Nat : Reset(g) \in Events
    /\ \A n \in Attempts, rc \in AllRcodes : Response(n, rc) \in Events
    /\ \A r \in ResourceType, ok \in BOOLEAN : Allocated(r, ok) \in Events
    /\ \A r \in ResourceType : Deallocated(r) \in Events
  BY EventsByKind
  DEF Reset, Response, Allocated, Deallocated, ResetEvents, ResponseEvents, IsoEvents, IsoTypes,
      ResourceType

LEMMA QuietInfo == NoInfo \in InfoState /\ \A h \in Handles : [NoInfo EXCEPT !.handle = h] \in InfoState
  BY DEF NoInfo, InfoState

LEMMA CallTypes ==
    /\ \A op \in {"none", "transaction", "allocate", "deallocate"} :
          /\ Idle(op) \in CallType
          /\ \A err \in Errors : [Idle(op) EXCEPT !.err = err] \in CallType
          /\ \A pc \in {"idle", "send", "response", "alloc", "dealloc"} :
                /\ Begun(op, pc) \in CallType
                /\ \A a \in Infos : [Begun(op, pc) EXCEPT !.info = a] \in CallType
    /\ call \in CallType => \A err \in Errors : Returned(err) \in CallType
<1>1. ASSUME NEW op \in {"none", "transaction", "allocate", "deallocate"},
             NEW pc \in {"idle", "send", "response", "alloc", "dealloc"}
      PROVE  Begun(op, pc) \in CallType
  BY <1>1, DeviceAssumption DEF Begun, CallType, Errors, Attempts
<1>2. ASSUME NEW c \in CallType
      PROVE  /\ \A err \in Errors : [c EXCEPT !.err = err] \in CallType
             /\ \A a \in Infos : [c EXCEPT !.info = a] \in CallType
             /\ \A err \in Errors, did \in Nat : [c EXCEPT !.err = err, !.did = did] \in CallType
  BY <1>2 DEF CallType
<1>3. ASSUME call \in CallType, NEW err \in Errors PROVE Returned(err) \in CallType
  <2>1. Idle(call.op) \in CallType /\ call.did \in Nat
    BY <1>1, <1>3 DEF Idle, CallType
  <2> QED
    BY <1>2, <2>1 DEF Returned
<1>4. ASSUME NEW op \in {"none", "transaction", "allocate", "deallocate"}
      PROVE  /\ Idle(op) \in CallType /\ \A err \in Errors : [Idle(op) EXCEPT !.err = err] \in CallType
             /\ \A pc \in {"idle", "send", "response", "alloc", "dealloc"} :
                   /\ Begun(op, pc) \in CallType
                   /\ \A a \in Infos : [Begun(op, pc) EXCEPT !.info = a] \in CallType
  <2>1. Idle(op) \in CallType
    BY <1>1 DEF Idle
  <2>2. \A err \in Errors : [Idle(op) EXCEPT !.err = err] \in CallType
    BY <1>2, <2>1
  <2> QED
    BY <1>1, <1>2, <2>1, <2>2
<1> QED
  BY <1>3, <1>4

\* A transaction that returns leaves sequences of the same length.
LEMMA OrphanType ==
    ASSUME QueueType
    PROVE  OrphanedEvents \in Seq(Events) /\ OrphanedRequests \in Seq(RequestType)
<1>1. queue \in Seq(Events) /\ requests \in Seq(RequestType) /\ Orphan \in Attempts
  BY DeviceAssumption DEF QueueType, Orphan, Attempts
<1>2. ASSUME NEW e \in Events, e.type = "response" PROVE [e EXCEPT !.attempt = Orphan] \in Events
  <2>1. e \in ResponseEvents
    BY <1>2, EventsByKind DEF ResetEvents, ResponseEvents, IsoEvents, IsoTypes
  <2> QED
    BY <1>1, <2>1, EventsByKind DEF ResponseEvents
<1>3. ASSUME NEW m \in RequestType PROVE [m EXCEPT !.attempt = Orphan] \in RequestType
  BY <1>1 DEF RequestType
<1>4. \A i \in DOMAIN queue : queue[i] \in Events
  BY <1>1
<1>5. \A i \in DOMAIN requests : requests[i] \in RequestType
  BY <1>1
<1>6. OrphanedEvents \in [1 .. Len(queue) -> Events]
  BY <1>1, <1>2, <1>4 DEF OrphanedEvents
<1>7. OrphanedRequests \in [1 .. Len(requests) -> RequestType]
  BY <1>1, <1>3, <1>5 DEF OrphanedRequests
<1>8. Len(queue) \in Nat /\ Len(requests) \in Nat
  BY <1>1
<1> QED
  BY <1>6, <1>7, <1>8

\* Every step keeps the types.
LEMMA TypeStep ==
    ASSUME DeviceTypeOK, OwnersOK, [Next]_vars
    PROVE  DeviceTypeOK'
<1>1. /\ CountsType /\ QueueType /\ resources \subseteq ResourceType
      /\ cam \in CamType /\ info \in [Infos -> InfoState] /\ call \in CallType
  BY TypeByParts
<1>2. /\ bus \in Nat /\ reported \in Nat /\ failures \in Nat
      /\ queue \in Seq(Events) /\ requests \in Seq(RequestType)
  BY <1>1 DEF CountsType, QueueType
<1> DEFINE Goal == /\ CountsType' /\ QueueType' /\ resources' \subseteq ResourceType
                   /\ cam' \in CamType /\ info' \in [Infos -> InfoState] /\ call' \in CallType
<1>3. SUFFICES ASSUME TRUE PROVE Goal
  BY TypeByParts DEF DeviceTypeOK, CountsType, QueueType, RequestType, ResourceType, CamType, CallType
<1>4. CASE BusReset
  <2>1. bus' = bus + 1 /\ UNCHANGED <<reported, queue, requests, resources, cam, info, call, failures>>
    BY <1>4 DEF BusReset
  <2> QED
    BY <1>1, <1>2, <2>1 DEF CountsType, QueueType
<1>5. CASE ReportReset
  <2>1. /\ reported' = bus /\ UNCHANGED <<bus, requests, resources, cam, info, call, failures>>
        /\ queue' \in {queue, Append(queue, Reset(bus))}
    BY <1>5 DEF ReportReset
  <2> QED
    BY <1>1, <1>2, <2>1, NewEvents DEF CountsType, QueueType
<1>6. CASE Answer
  <2>1. PICK i \in DOMAIN requests : \E rcode \in Rcodes(requests[i].generation) :
           /\ requests' = RemoveAt(requests, i)
           /\ queue' = Append(queue, Response(requests[i].attempt, rcode))
           /\ \E d \in {0, 1} : call' = [call EXCEPT !.did = call.did + d]
           /\ UNCHANGED <<bus, reported, resources, cam, info, failures>>
    BY <1>6 DEF Answer
  <2>2. requests[i].attempt \in Attempts /\ Rcodes(requests[i].generation) \subseteq AllRcodes
    <3>1. requests[i] \in RequestType
      BY <1>2
    <3> QED
      BY <3>1 DEF Rcodes, AllRcodes, RequestType
  <2>3. queue' \in Seq(Events)
    <3>1. \A rcode \in Rcodes(requests[i].generation) : Response(requests[i].attempt, rcode) \in Events
      BY <2>2, NewEvents
    <3>2. \E e \in Events : queue' = Append(queue, e)
      BY <2>1, <3>1
    <3> QED
      BY <1>2, <3>2
  <2>4. requests' \in Seq(RequestType)
    BY <1>2, <2>1 DEF RemoveAt
  <2>5. call' \in CallType
    BY <1>1, <2>1 DEF CallType
  <2> QED
    BY <1>1, <1>2, <2>1, <2>3, <2>4, <2>5 DEF CountsType, QueueType
<1>7. CASE AllocationDone \/ DeallocationDone \/ ResourceLost
  <2>1. PICK r \in resources :
           /\ \/ resources' = resources \ {r}
              \/ resources' = (resources \ {r}) \cup {[r EXCEPT !.state = "held"]}
           /\ \/ \E ok \in BOOLEAN : queue' = Append(queue, Allocated(r, ok))
              \/ queue' = Append(queue, Deallocated(r))
           /\ UNCHANGED <<bus, reported, requests, cam, info, call, failures>>
    BY <1>7 DEF AllocationDone, DeallocationDone, ResourceLost
  <2>2. r \in ResourceType /\ [r EXCEPT !.state = "held"] \in ResourceType
    BY <1>1 DEF ResourceType
  <2>3. queue' \in Seq(Events)
    <3>1. Deallocated(r) \in Events /\ \A ok \in BOOLEAN : Allocated(r, ok) \in Events
      BY <2>2, NewEvents
    <3>2. \E e \in Events : queue' = Append(queue, e)
      BY <2>1, <3>1
    <3> QED
      BY <1>2, <3>2
  <2> QED
    BY <1>1, <1>2, <2>1, <2>2, <2>3 DEF CountsType, QueueType
<1>8. CASE HandleEvent
  <2> DEFINE e == Head(queue)
  <2>1. /\ queue # <<>> /\ queue' = Tail(queue) /\ UNCHANGED <<bus, reported, requests, resources, failures>>
        /\ HandleReset(e) \/ HandleResponse(e) \/ HandleIso(e)
    BY <1>8 DEF HandleEvent, kernel
  <2>2. queue' \in Seq(Events) /\ e \in Events
    BY <1>2, <2>1
  <2> HIDE DEF e
  <2>3. CASE HandleReset(e)
    BY <1>1, <1>2, <2>1, <2>2, <2>3, EventKinds DEF HandleReset, CountsType, QueueType, CamType
  <2>4. CASE HandleResponse(e)
    <3>1. /\ UNCHANGED <<cam, info>> /\ e.rcode \in AllRcodes
          /\ call' \in {call, [call EXCEPT !.got = TRUE, !.rcode = e.rcode]}
      BY <2>2, <2>4, EventKinds DEF HandleResponse
    <3>2. call' \in CallType
      BY <1>1, <3>1 DEF CallType
    <3> QED
      BY <1>1, <1>2, <2>1, <2>2, <3>1, <3>2 DEF CountsType, QueueType
  <2>5. CASE HandleIso(e)
    <3>1. /\ UNCHANGED <<cam, call>> /\ e.closure \in Infos /\ e.ok \in BOOLEAN
          /\ info' = [info EXCEPT ![e.closure] = IF e.type = "allocated"
                         THEN [info[e.closure] EXCEPT !.got_alloc = TRUE, !.ok = e.ok]
                         ELSE [info[e.closure] EXCEPT !.got_dealloc = TRUE, !.ok = e.ok]]
      BY <2>2, <2>5, EventKinds DEF HandleIso
    <3>2. info' \in [Infos -> InfoState]
      <4>1. info[e.closure] \in InfoState
        BY <1>1, <3>1
      <4>2. /\ [info[e.closure] EXCEPT !.got_alloc = TRUE, !.ok = e.ok] \in InfoState
            /\ [info[e.closure] EXCEPT !.got_dealloc = TRUE, !.ok = e.ok] \in InfoState
        BY <3>1, <4>1 DEF InfoState
      <4> QED
        BY <1>1, <3>1, <4>2
    <3> QED
      BY <1>1, <1>2, <2>1, <2>2, <3>1, <3>2 DEF CountsType, QueueType
  <2> QED
    BY <2>1, <2>3, <2>4, <2>5
<1>9. CASE ReadFails \/ SendFails \/ GotResponse
  <2>1. /\ UNCHANGED <<bus, reported, resources, cam, info>> /\ failures' \in {failures, failures + 1}
        /\ \E err \in Errors : call' = Returned(err)
        /\ queue' = OrphanedEvents /\ requests' = OrphanedRequests
    BY <1>9
    DEF ReadFails, SendFails, GotResponse, TransactionReturns, OrphanTransaction, Errors
  <2>2. failures' \in Nat /\ call' \in CallType
    BY <1>1, <1>2, <2>1, CallTypes
  <2> QED
    BY <1>1, <1>2, <2>1, <2>2, OrphanType DEF CountsType, QueueType
<1>10. CASE Send
  <2>1. /\ call.tries < MaxTries /\ UNCHANGED <<bus, reported, queue, resources, cam, info, failures>>
        /\ requests' = Append(requests, [attempt |-> call.tries + 1, generation |-> cam.generation])
        /\ call' = [call EXCEPT !.pc = "response", !.got = FALSE, !.tries = call.tries + 1]
    BY <1>10 DEF Send
  <2>2. call.tries + 1 \in Attempts
    BY <1>1, <2>1, DeviceAssumption DEF CallType, Attempts
  <2>3. requests' \in Seq(RequestType)
    BY <1>1, <1>2, <2>1, <2>2 DEF RequestType, CamType
  <2>4. call' \in CallType
    BY <1>1, <2>1, <2>2 DEF CallType
  <2> QED
    BY <1>1, <1>2, <2>1, <2>3, <2>4 DEF CountsType, QueueType
<1>11. CASE TransactionBegin \/ Retry
  <2>1. /\ UNCHANGED <<bus, reported, requests, resources, queue, cam, info, failures>>
        /\ call' \in {Begun("transaction", "send"), [call EXCEPT !.pc = "send"]}
    BY <1>11 DEF TransactionBegin, Retry, kernel
  <2>2. call' \in CallType
    <3>1. [call EXCEPT !.pc = "send"] \in CallType
      BY <1>1 DEF CallType
    <3> QED
      BY <2>1, <3>1, CallTypes
  <2> QED
    BY <1>1, <1>2, <2>1, <2>2 DEF CountsType, QueueType
<1>12. CASE CameraNew \/ CameraFree
  <2>1. /\ failures' \in {failures, 0} /\ UNCHANGED <<bus, reported>> /\ call' = Idle("none")
        /\ cam' \in {ClosedCam, [ClosedCam EXCEPT !.open = TRUE, !.generation = reported]}
        /\ info' \in {info, [a \in Infos |-> NoInfo]}
        /\ queue' \in {queue, <<>>} /\ requests' \in {requests, <<>>} /\ resources' \in {resources, {}}
    BY <1>12 DEF CameraNew, CameraFree, kernel
  <2>2. cam' \in CamType
    <3>1. ClosedCam \in CamType
      BY DEF ClosedCam, CamType
    <3>2. [ClosedCam EXCEPT !.open = TRUE, !.generation = reported] \in CamType
      BY <1>2, <3>1 DEF CamType
    <3> QED
      BY <2>1, <3>1, <3>2
  <2>3. info' \in [Infos -> InfoState]
    BY <1>1, <2>1, QuietInfo
  <2>4. queue' \in Seq(Events) /\ requests' \in Seq(RequestType) /\ failures' \in Nat
    <3>1. <<>> \in Seq(Events) /\ <<>> \in Seq(RequestType)
      OBVIOUS
    <3>2. failures' \in Nat
      BY <1>2, <2>1
    <3> QED
      BY <1>2, <2>1, <3>1, <3>2, Zenon
  <2>5. call' \in CallType
    BY <2>1, CallTypes
  <2> QED
    BY <1>1, <1>2, <2>1, <2>2, <2>3, <2>4, <2>5 DEF CountsType, QueueType
<1>13. CASE AllocateBegin
  <2>1. PICK a \in Infos \ cam.iso_resources, h \in Handles \ {r.handle : r \in resources} :
           /\ cam' = [cam EXCEPT !.iso_resources = cam.iso_resources \cup {a}]
           /\ info' = [info EXCEPT ![a] = [NoInfo EXCEPT !.handle = h]]
           /\ resources' = resources \cup {[handle |-> h, closure |-> a, state |-> "allocating"]}
           /\ call' = [Begun("allocate", "alloc") EXCEPT !.info = a]
           /\ UNCHANGED <<bus, reported, queue, requests, failures>>
    BY <1>13 DEF AllocateBegin
  <2>2. cam' \in CamType
    BY <1>1, <2>1 DEF CamType
  <2>3. info' \in [Infos -> InfoState] /\ call' \in CallType
    BY <1>1, <2>1, QuietInfo, CallTypes
  <2>4. resources' \subseteq ResourceType
    BY <1>1, <2>1 DEF ResourceType
  <2> QED
    BY <1>1, <1>2, <2>1, <2>2, <2>3, <2>4 DEF CountsType, QueueType
<1>14. CASE AllocateReturn \/ DeallocateReturn \/ \E a \in Infos : DeallocateKnown(a)
  <2>1. PICK a \in Infos :
           /\ \/ info' = info /\ cam' = [cam EXCEPT !.owned = cam.owned \cup {a}]
              \/ info' = [info EXCEPT ![a] = NoInfo]
                 /\ cam' = [cam EXCEPT !.iso_resources = cam.iso_resources \ {a}, !.owned = cam.owned \ {a}]
           /\ \E err \in Errors : call' \in {Returned(err), Idle("deallocate")}
           /\ UNCHANGED <<bus, reported, requests, resources, queue, failures>>
    <3>1. call.pc \in {"alloc", "dealloc"} => call.info \in Infos
      BY <1>1 DEF OwnersOK, CamType
    <3>2. CASE AllocateReturn \/ DeallocateReturn
      BY <3>1, <3>2 DEF AllocateReturn, DeallocateReturn, RemoveIso, Errors, kernel
    <3>3. CASE \E a \in Infos : DeallocateKnown(a)
      BY <3>3 DEF DeallocateKnown, RemoveIso, Errors, kernel
    <3> QED
      BY <1>14, <3>2, <3>3
  <2>2. cam' \in CamType
    BY <1>1, <2>1 DEF CamType
  <2>3. info' \in [Infos -> InfoState]
    BY <1>1, <2>1, QuietInfo
  <2>4. call' \in CallType
    BY <1>1, <2>1, CallTypes
  <2> QED
    BY <1>1, <1>2, <2>1, <2>2, <2>3, <2>4 DEF CountsType, QueueType
<1>15. ASSUME NEW a \in Infos, DeallocateBegin(a) PROVE Goal
  <2>1. /\ cam' = [cam EXCEPT !.owned = cam.owned \ {a}]
        /\ \/ resources' = resources
           \/ \E r \in resources : resources' = (resources \ {r}) \cup {[r EXCEPT !.state = "deallocating"]}
        /\ call' \in {[Begun("deallocate", "dealloc") EXCEPT !.info = a],
                      [Idle("deallocate") EXCEPT !.err = "FAILURE"]}
        /\ UNCHANGED <<bus, reported, queue, requests, info, failures>>
    BY <1>15 DEF DeallocateBegin
  <2>2. cam' \in CamType
    BY <1>1, <2>1 DEF CamType
  <2>3. call' \in CallType
    BY <2>1, CallTypes DEF Errors
  <2>4. resources' \subseteq ResourceType
    <3>1. \A r \in resources : [r EXCEPT !.state = "deallocating"] \in ResourceType
      BY <1>1 DEF ResourceType
    <3> QED
      BY <1>1, <2>1, <3>1
  <2> QED
    BY <1>1, <1>2, <2>1, <2>2, <2>3, <2>4 DEF CountsType, QueueType
<1>16. CASE UNCHANGED vars
  <2>1. UNCHANGED <<bus, reported, requests, resources, queue, cam, info, call, failures>>
    BY <1>16 DEF vars, kernel
  <2> QED
    BY <1>1, <1>2, <2>1 DEF CountsType, QueueType
<1> QED
  BY <1>4, <1>5, <1>6, <1>7, <1>8, <1>9, <1>10, <1>11, <1>12, <1>13, <1>14, <1>15, <1>16
  DEF Next, Kernel, Library, Client

-----------------------------------------------------------------------------
(* Queues *)

\* The queue p tells of a what the queue q told, k places further on.
Follows(p, q, a, k) ==
    /\ \A i \in Int : i \in At(p, a) <=> i + k \in At(q, a)
    /\ \A i \in At(p, a) : p[i] = q[i + k]

LEMMA PlacesInQueue ==
    ASSUME NEW E, NEW q \in Seq(E), NEW a
    PROVE  At(q, a) \in SUBSET Int /\ \A i \in At(q, a) : i \in 1 .. Len(q)
  BY DEF At

\* What is said of a structure depends on what the queue tells of it alone.
LEMMA SameNews ==
    ASSUME NEW p, NEW q, NEW R, NEW S, NEW a, NEW k \in Int,
           At(p, a) \in SUBSET Int, At(q, a) \in SUBSET Int, Follows(p, q, a, k),
           Of(S, a) = Of(R, a)
    PROVE  /\ Silent(q, R, a) => Silent(p, S, a)
           /\ \A s : Has(q, R, a, s) => Has(p, S, a, s)
           /\ Gone(q, R, a) => Gone(p, S, a)
           /\ Told(q, R, a) => Told(p, S, a)
<1>1. /\ \A i \in Int : i \in At(p, a) <=> i + k \in At(q, a)
      /\ \A i \in At(p, a) : p[i] = q[i + k]
  BY DEF Follows
<1>2. At(q, a) = {} => At(p, a) = {}
  BY <1>1
<1>3. ASSUME NEW i \in At(q, a) PROVE i - k \in At(p, a) /\ p[i - k] = q[i]
  <2>1. i - k \in Int /\ (i - k) + k = i
    OBVIOUS
  <2>2. i - k \in At(p, a)
    BY <1>1, <2>1
  <2> QED
    BY <1>1, <2>1, <2>2
<1>4. ASSUME NEW i \in At(q, a), At(q, a) = {i} PROVE At(p, a) = {i - k}
  <2>1. \A j \in At(p, a) : j \in Int /\ j + k = i
    BY <1>1, <1>4
  <2>2. \A j \in At(p, a) : j = i - k
    BY <2>1
  <2> QED
    BY <1>3, <2>2
<1>5. ASSUME NEW i \in At(q, a), NEW j \in At(q, a), At(q, a) = {i, j} PROVE At(p, a) = {i - k, j - k}
  <2>1. \A m \in At(p, a) : m \in Int /\ (m + k = i \/ m + k = j)
    BY <1>1, <1>5
  <2>2. \A m \in At(p, a) : m = i - k \/ m = j - k
    BY <2>1
  <2> QED
    BY <1>3, <2>2
<1>6. Silent(q, R, a) => Silent(p, S, a)
  BY <1>2 DEF Silent
<1>7. \A s : Has(q, R, a, s) => Has(p, S, a, s)
  BY <1>2 DEF Has
<1>8. ASSUME Gone(q, R, a) PROVE Gone(p, S, a)
  <2>1. PICK i \in At(q, a) : At(q, a) = {i} /\ q[i].type = "deallocated"
    BY <1>8 DEF Gone
  <2>2. i - k \in At(p, a) /\ At(p, a) = {i - k} /\ p[i - k].type = "deallocated"
    BY <1>3, <1>4, <2>1
  <2> QED
    BY <1>8, <2>2 DEF Gone
<1>9. ASSUME Told(q, R, a) PROVE Told(p, S, a)
  <2>1. PICK i \in At(q, a) :
           /\ q[i].type = "allocated"
           /\ \/ q[i].ok /\ At(q, a) = {i} /\ \E r \in Of(R, a) : r.state = "held"
              \/ /\ q[i].ok /\ Of(R, a) = {}
                 /\ \E j \in At(q, a) : i < j /\ At(q, a) = {i, j} /\ q[j].type = "deallocated"
              \/ ~q[i].ok /\ At(q, a) = {i} /\ Of(R, a) = {}
    BY <1>9 DEF Told
  <2>2. i - k \in At(p, a) /\ p[i - k] = q[i]
    BY <1>3
  <2>3. CASE q[i].ok /\ At(q, a) = {i} /\ \E r \in Of(R, a) : r.state = "held"
    <3>1. At(p, a) = {i - k}
      BY <1>4, <2>3
    <3> QED
      BY <2>1, <2>2, <2>3, <3>1 DEF Told
  <2>4. CASE /\ q[i].ok /\ Of(R, a) = {}
             /\ \E j \in At(q, a) : i < j /\ At(q, a) = {i, j} /\ q[j].type = "deallocated"
    <3>1. PICK j \in At(q, a) : i < j /\ At(q, a) = {i, j} /\ q[j].type = "deallocated"
      BY <2>4
    <3>2. j - k \in At(p, a) /\ p[j - k] = q[j] /\ At(p, a) = {i - k, j - k}
      BY <1>3, <1>5, <3>1
    <3>3. i - k < j - k
      BY <3>1
    <3> QED
      BY <2>1, <2>2, <2>4, <3>1, <3>2, <3>3 DEF Told
  <2>5. CASE ~q[i].ok /\ At(q, a) = {i} /\ Of(R, a) = {}
    <3>1. At(p, a) = {i - k}
      BY <1>4, <2>5
    <3> QED
      BY <2>1, <2>2, <2>5, <3>1 DEF Told
  <2> QED
    BY <2>1, <2>3, <2>4, <2>5
<1> QED
  BY <1>6, <1>7, <1>8, <1>9

\* An event is appended.
LEMMA AtAppend ==
    ASSUME NEW q \in Seq(Events), NEW e \in Events, NEW a
    PROVE  /\ Append(q, e) \in Seq(Events)
           /\ At(Append(q, e), a)
                 = At(q, a) \cup (IF e.type \in IsoTypes /\ e.closure = a THEN {Len(q) + 1} ELSE {})
           /\ \A i \in At(q, a) : i \in 1 .. Len(q) /\ Append(q, e)[i] = q[i]
           /\ Append(q, e)[Len(q) + 1] = e
           /\ ~(e.type \in IsoTypes /\ e.closure = a) => Follows(Append(q, e), q, a, 0)
<1> DEFINE p == Append(q, e)
<1> DEFINE n == Len(q)
<1>1. /\ p \in Seq(Events) /\ Len(p) = n + 1 /\ n \in Nat /\ p[n + 1] = e
      /\ DOMAIN p = 1 .. n + 1 /\ DOMAIN q = 1 .. n
      /\ \A i \in 1 .. n : p[i] = q[i]
  OBVIOUS
<1> HIDE DEF p, n
<1>2. \A i \in 1 .. n + 1 : i \in 1 .. n \/ i = n + 1
  BY <1>1
<1>3. n + 1 \in 1 .. n + 1 /\ n + 1 \notin 1 .. n /\ \A i \in 1 .. n : i \in 1 .. n + 1
  BY <1>1
<1>4. \A i : i \in At(p, a) <=> i \in At(q, a) \/ (i = n + 1 /\ e.type \in IsoTypes /\ e.closure = a)
  BY <1>1, <1>2, <1>3 DEF At
<1>5. \A i \in At(q, a) : i \in 1 .. n /\ p[i] = q[i]
  BY <1>1 DEF At
<1>6. At(p, a) = At(q, a) \cup (IF e.type \in IsoTypes /\ e.closure = a THEN {n + 1} ELSE {})
  BY <1>4
<1>7. ASSUME ~(e.type \in IsoTypes /\ e.closure = a) PROVE Follows(p, q, a, 0)
  <2>1. \A i \in Int : i + 0 = i
    OBVIOUS
  <2>2. \A i \in At(q, a) : i \in Int
    BY <1>1, <1>5
  <2> QED
    BY <1>4, <1>5, <1>7, <2>1, <2>2 DEF Follows
<1> QED
  BY <1>1, <1>5, <1>6, <1>7 DEF p, n

\* The oldest event is read.
LEMMA AtTail ==
    ASSUME NEW q \in Seq(Events), q # <<>>, NEW a
    PROVE  /\ Tail(q) \in Seq(Events) /\ Head(q) \in Events
           /\ 1 \in At(q, a) <=> Head(q).type \in IsoTypes /\ Head(q).closure = a
           /\ q[1] = Head(q)
           /\ \A i \in Int : i \in At(Tail(q), a) <=> i + 1 \in At(q, a) /\ i # 0
           /\ \A i \in At(Tail(q), a) : Tail(q)[i] = q[i + 1]
           /\ ~(Head(q).type \in IsoTypes /\ Head(q).closure = a) => Follows(Tail(q), q, a, 1)
<1> DEFINE p == Tail(q)
<1> DEFINE n == Len(q)
<1>1. /\ p \in Seq(Events) /\ Len(p) = n - 1 /\ n \in Nat \ {0} /\ q[1] = Head(q) /\ Head(q) \in Events
      /\ DOMAIN p = 1 .. n - 1 /\ DOMAIN q = 1 .. n
      /\ \A i \in 1 .. n - 1 : p[i] = q[i + 1]
  OBVIOUS
<1> HIDE DEF p, n
<1>2. \A i \in Int : i \in 1 .. n - 1 <=> i + 1 \in 1 .. n /\ i # 0
  BY <1>1
<1>3. 1 \in 1 .. n /\ \A i \in 1 .. n - 1 : i \in Int
  BY <1>1
<1>4. \A i \in Int : i \in At(p, a) <=> i + 1 \in At(q, a) /\ i # 0
  BY <1>1, <1>2 DEF At
<1>5. \A i \in At(p, a) : i \in Int /\ p[i] = q[i + 1]
  BY <1>1, <1>3 DEF At
<1>6. 1 \in At(q, a) <=> Head(q).type \in IsoTypes /\ Head(q).closure = a
  BY <1>1, <1>3 DEF At
<1>7. 1 \notin At(q, a) => Follows(p, q, a, 1)
  <2>1. 0 + 1 = 1
    OBVIOUS
  <2> QED
    BY <1>4, <1>5, <2>1 DEF Follows
<1> QED
  BY <1>1, <1>4, <1>5, <1>6, <1>7 DEF p

\* What a failed transaction does to its answers, nobody sees in the iso events.
LEMMA AtOrphaned ==
    ASSUME queue \in Seq(Events), NEW a
    PROVE  OrphanedEvents \in Seq(Events) /\ Follows(OrphanedEvents, queue, a, 0)
<1> DEFINE p == OrphanedEvents
<1>1. /\ DOMAIN p = DOMAIN queue
      /\ \A i \in DOMAIN queue :
            p[i] = IF queue[i].type = "response" THEN [queue[i] EXCEPT !.attempt = Orphan] ELSE queue[i]
  BY DEF OrphanedEvents
<1>2. \A i \in DOMAIN queue : queue[i] \in Events /\ i \in Int
  OBVIOUS
<1>3. ASSUME NEW e \in Events, e.type = "response"
      PROVE  /\ [e EXCEPT !.attempt = Orphan].type = "response"
             /\ [e EXCEPT !.attempt = Orphan] \in Events
  <2>1. e \in ResponseEvents
    BY <1>3, EventsByKind DEF ResetEvents, ResponseEvents, IsoEvents, IsoTypes
  <2>2. Orphan \in Attempts
    BY DeviceAssumption DEF Orphan, Attempts
  <2> QED
    BY <2>1, <2>2, EventsByKind DEF ResponseEvents
<1> HIDE DEF p
<1>4. "response" \notin IsoTypes
  BY DEF IsoTypes
<1>5. \A i : i \in At(p, a) <=> i \in At(queue, a)
  BY <1>1, <1>2, <1>3, <1>4 DEF At
<1>6. \A i \in At(queue, a) : i \in Int /\ p[i] = queue[i]
  BY <1>1, <1>2, <1>4 DEF At
<1>7. p \in Seq(Events)
  <2>1. p \in [1 .. Len(queue) -> Events]
    <3>1. DOMAIN queue = 1 .. Len(queue)
      OBVIOUS
    <3>2. \A i \in 1 .. Len(queue) : p[i] \in Events
      BY <1>1, <1>2, <1>3, <3>1
    <3>3. p = [i \in 1 .. Len(queue) |-> p[i]]
      BY <3>1 DEF p, OrphanedEvents
    <3> QED
      BY <3>2, <3>3
  <2> QED
    BY <2>1
<1>8. \A i \in Int : i + 0 = i
  OBVIOUS
<1> QED
  BY <1>5, <1>6, <1>7, <1>8 DEF Follows, p

-----------------------------------------------------------------------------
(* Iso resources, step by step *)

\* IsoClosuresValid, by places in the queue.
NewsValid ==
    /\ \A r \in resources : r.closure \in cam.iso_resources /\ info[r.closure].handle = r.handle
    /\ \A a : \A i \in At(queue, a) : a \in cam.iso_resources /\ info[a].handle = queue[i].handle

LEMMA ClosuresByPlace == (IsoClosuresValid <=> NewsValid) /\ (IsoClosuresValid' <=> NewsValid')
  BY DEF IsoClosuresValid, NewsValid, QueuedIso, At

\* What the types say of the parts that the proofs take apart.
LEMMA Typed ==
    ASSUME Inv
    PROVE  /\ queue \in Seq(Events) /\ requests \in Seq(RequestType)
           /\ resources \subseteq ResourceType /\ cam \in CamType
           /\ info \in [Infos -> InfoState] /\ call \in CallType
           /\ \A a : At(queue, a) \in SUBSET Int
           /\ call.pc \in {"alloc", "dealloc"} => call.info \in Infos
  BY TypeByParts, PlacesInQueue DEF Inv, IsoOK, QueueType, OwnersOK, CamType

\* Steps that neither tell nor change anything of a resource.
LEMMA QuietStep ==
    ASSUME Inv, queue' \in Seq(Events), NEW k \in Int, \A a : Follows(queue', queue, a, k),
           resources' = resources, info' = info,
           cam'.iso_resources = cam.iso_resources, cam'.owned = cam.owned,
           call'.pc \in {"alloc", "dealloc"} => call'.pc = call.pc /\ call'.info = call.info
    PROVE  IsoOK'
<1>1. OwnersOK /\ NewsValid /\ UniqueOK /\ KnownOK /\ AskedOK /\ ApartOK
  BY ClosuresByPlace DEF Inv, IsoOK
<1>2. \A a : At(queue, a) \in SUBSET Int /\ At(queue', a) \in SUBSET Int
  BY Typed, PlacesInQueue
<1>3. ASSUME NEW a
      PROVE  /\ Silent(queue, resources, a) => Silent(queue', resources', a)
             /\ \A s : Has(queue, resources, a, s) => Has(queue', resources', a, s)
             /\ Gone(queue, resources, a) => Gone(queue', resources', a)
             /\ Told(queue, resources, a) => Told(queue', resources', a)
  BY <1>2, SameNews
<1>4. \A a, s : Known(queue, resources, info, a, s) => Known(queue', resources', info', a, s)
  BY <1>3 DEF Known
<1>5. \A a : Asked(queue, resources, info, a) => Asked(queue', resources', info', a)
  BY <1>3 DEF Asked
<1>6. OwnersOK' /\ UniqueOK' /\ KnownOK' /\ AskedOK'
  BY <1>1, <1>4, <1>5 DEF OwnersOK, UniqueOK, KnownOK, AskedOK
<1>7. NewsValid'
  <2>1. ASSUME NEW a, NEW i \in At(queue', a)
        PROVE  i + k \in At(queue, a) /\ queue'[i] = queue[i + k]
    BY <1>2 DEF Follows
  <2>2. ASSUME NEW a, NEW i \in At(queue', a)
        PROVE  a \in cam'.iso_resources /\ info'[a].handle = queue'[i].handle
    BY <1>1, <2>1 DEF NewsValid
  <2> QED
    BY <1>1, <2>2 DEF NewsValid
<1>8. ApartOK'
  <2>1. ASSUME NEW a, NEW b, \A i \in At(queue, a), j \in At(queue, b) : i < j,
               NEW i \in At(queue', a), NEW j \in At(queue', b)
        PROVE  i < j
    <3>1. i + k \in At(queue, a) /\ j + k \in At(queue, b) /\ i \in Int /\ j \in Int
      BY <1>2, <2>1 DEF Follows
    <3> QED
      BY <2>1, <3>1
  <2> QED
    BY <1>1, <2>1 DEF ApartOK
<1> QED
  BY <1>6, <1>7, <1>8, ClosuresByPlace DEF IsoOK

\* The resource of a structure is the only one.
LEMMA OfOne ==
    ASSUME UniqueOK, NEW r \in resources
    PROVE  /\ Of(resources, r.closure) = {r}
           /\ Of(resources \ {r}, r.closure) = {}
           /\ \A a : a # r.closure => Of(resources \ {r}, a) = Of(resources, a)
           /\ \A t : t.closure = r.closure =>
                 /\ Of((resources \ {r}) \cup {t}, r.closure) = {t}
                 /\ \A a : a # r.closure => Of((resources \ {r}) \cup {t}, a) = Of(resources, a)
  BY DEF UniqueOK, Of

LEMMA OnlyState ==
    ASSUME UniqueOK, NEW r \in resources
    PROVE  /\ \A s : Has(queue, resources, r.closure, s) => r.state = s /\ At(queue, r.closure) = {}
           /\ ~Gone(queue, resources, r.closure) /\ ~Silent(queue, resources, r.closure)
           /\ Told(queue, resources, r.closure) =>
                 /\ r.state = "held"
                 /\ \E i \in At(queue, r.closure) :
                       At(queue, r.closure) = {i} /\ queue[i].type = "allocated" /\ queue[i].ok
<1>1. Of(resources, r.closure) = {r}
  BY OfOne
<1> QED
  BY <1>1 DEF Has, Gone, Silent, Told

\* The kernel tells of resource r, which it gives up or which changes its state.
LEMMA OneSpeaks ==
    ASSUME Inv, NEW r \in resources, NEW e \in Events, e.type \in IsoTypes,
           e.closure = r.closure, e.handle = r.handle, queue' = Append(queue, e),
           \/ resources' = resources \ {r}
           \/ \E t : /\ resources' = (resources \ {r}) \cup {t}
                     /\ t.closure = r.closure /\ t.handle = r.handle,
           UNCHANGED <<cam, info, call>>,
           r.closure \in cam.owned => Known(queue', resources', info, r.closure, "held"),
           (call.pc = "dealloc" /\ call.info = r.closure) =>
               Known(queue', resources', info, r.closure, "deallocating"),
           (call.pc = "alloc" /\ call.info = r.closure) => Asked(queue', resources', info, r.closure)
    PROVE  IsoOK'
<1>1. OwnersOK /\ NewsValid /\ UniqueOK /\ KnownOK /\ AskedOK /\ ApartOK
  BY ClosuresByPlace DEF Inv, IsoOK
<1> DEFINE c == r.closure
<1>2. queue \in Seq(Events) /\ queue' \in Seq(Events)
  BY Typed, AtAppend
<1>3. \A a : At(queue, a) \in SUBSET Int /\ At(queue', a) \in SUBSET Int
  BY <1>2, PlacesInQueue
<1>4. ASSUME NEW a, a # c PROVE Follows(queue', queue, a, 0) /\ At(queue', a) = At(queue, a)
  <2>1. e.closure # a
    BY <1>4
  <2>2. /\ At(queue', a) = At(queue, a) \cup (IF e.type \in IsoTypes /\ e.closure = a THEN {Len(queue) + 1} ELSE {})
        /\ Follows(queue', queue, a, 0)
    BY <1>2, <2>1, AtAppend
  <2> QED
    BY <2>1, <2>2
<1>5. ASSUME NEW a, a # c PROVE Of(resources', a) = Of(resources, a)
  <2>1. CASE resources' = resources \ {r}
    BY <1>1, <1>5, <2>1, OfOne
  <2>2. ASSUME NEW t, resources' = (resources \ {r}) \cup {t}, t.closure = r.closure
        PROVE  Of(resources', a) = Of(resources, a)
    <3>1. r.closure # a /\ t.closure # a
      BY <1>5, <2>2
    <3>2. \A s : s \in resources' /\ s.closure = a <=> s \in resources /\ s.closure = a
      BY <2>2, <3>1
    <3> QED
      BY <3>2 DEF Of
  <2> QED
    BY <2>1, <2>2
<1>6. ASSUME NEW a, a # c
      PROVE  /\ Silent(queue, resources, a) => Silent(queue', resources', a)
             /\ \A s : Has(queue, resources, a, s) => Has(queue', resources', a, s)
             /\ Gone(queue, resources, a) => Gone(queue', resources', a)
             /\ Told(queue, resources, a) => Told(queue', resources', a)
  <2>1. /\ At(queue', a) \in SUBSET Int /\ At(queue, a) \in SUBSET Int
        /\ Follows(queue', queue, a, 0) /\ Of(resources', a) = Of(resources, a) /\ 0 \in Int
    BY <1>3, <1>4, <1>5, <1>6
  <2> QED
    BY <2>1, SameNews
<1>7. \A a, s : a # c /\ Known(queue, resources, info, a, s) => Known(queue', resources', info', a, s)
  BY <1>6 DEF Known
<1>8. \A a : a # c /\ Asked(queue, resources, info, a) => Asked(queue', resources', info', a)
  BY <1>6 DEF Asked
<1>9. KnownOK' /\ AskedOK' /\ OwnersOK'
  BY <1>1, <1>7, <1>8 DEF KnownOK, AskedOK, OwnersOK
<1>10. UniqueOK'
  BY <1>1 DEF UniqueOK
<1>11. NewsValid'
  <2>1. \A a : \A i \in At(queue', a) :
           \/ i \in At(queue, a) /\ queue'[i] = queue[i]
           \/ queue'[i] = e /\ a = c
    BY <1>2, AtAppend
  <2>2. \A s \in resources' : \E u \in resources : s.closure = u.closure /\ s.handle = u.handle
    OBVIOUS
  <2>3. /\ c \in cam.iso_resources /\ info[c].handle = e.handle
        /\ \A a : \A i \in At(queue, a) : a \in cam.iso_resources /\ info[a].handle = queue[i].handle
    BY <1>1 DEF NewsValid
  <2>4. \A a : \A i \in At(queue', a) : a \in cam.iso_resources /\ info[a].handle = queue'[i].handle
    <3>1. ASSUME NEW a, NEW i \in At(queue', a)
          PROVE  a \in cam.iso_resources /\ info[a].handle = queue'[i].handle
      <4>1. CASE i \in At(queue, a) /\ queue'[i] = queue[i]
        BY <2>3, <4>1
      <4>2. CASE queue'[i] = e /\ a = c
        BY <2>3, <4>2
      <4> QED
        BY <2>1, <4>1, <4>2
    <3> QED
      BY <3>1
  <2>5. \A s \in resources' : s.closure \in cam.iso_resources /\ info[s.closure].handle = s.handle
    BY <1>1, <2>2 DEF NewsValid
  <2> QED
    BY <2>4, <2>5 DEF NewsValid
<1>12. ApartOK'
  <2>1. ASSUME call.pc = "alloc", NEW a \in cam.owned, info[a].handle = info[call.info].handle,
               ~info[a].got_dealloc
        PROVE  /\ ~info[call.info].got_alloc /\ Of(resources', a) = {}
               /\ \A i \in At(queue', a), j \in At(queue', call.info) : i < j
    <3>1. /\ ~info[call.info].got_alloc /\ Of(resources, a) = {}
          /\ \A i \in At(queue, a), j \in At(queue, call.info) : i < j
      BY <1>1, <2>1 DEF ApartOK
    <3>2. a # c
      BY <3>1 DEF Of
    <3>3. At(queue', a) = At(queue, a) /\ Of(resources', a) = {}
      BY <1>4, <1>5, <3>1, <3>2
    <3>4. \A i \in At(queue, a) : i \in 1 .. Len(queue)
      BY <1>2, PlacesInQueue
    <3>5. \A j \in At(queue', call.info) : j \in At(queue, call.info) \/ j = Len(queue) + 1
      BY <1>2, AtAppend
    <3> QED
      BY <1>2, <3>1, <3>3, <3>4, <3>5
  <2> QED
    BY <1>1, <2>1 DEF ApartOK
<1> QED
  BY <1>9, <1>10, <1>11, <1>12, ClosuresByPlace DEF IsoOK

LEMMA AllocationStep ==
    ASSUME Inv, AllocationDone \/ DeallocationDone \/ ResourceLost
    PROVE  IsoOK'
<1>1. /\ OwnersOK /\ UniqueOK /\ KnownOK /\ AskedOK
      /\ queue \in Seq(Events) /\ resources \subseteq ResourceType
      /\ UNCHANGED <<cam, info, call>>
  BY Typed DEF Inv, IsoOK, AllocationDone, DeallocationDone, ResourceLost
<1>2. ASSUME NEW r \in resources
      PROVE  /\ \A ok \in BOOLEAN : /\ Allocated(r, ok) \in Events /\ Allocated(r, ok).type = "allocated"
                                    /\ Allocated(r, ok).closure = r.closure
                                    /\ Allocated(r, ok).handle = r.handle /\ Allocated(r, ok).ok = ok
             /\ Deallocated(r) \in Events /\ Deallocated(r).type = "deallocated"
             /\ Deallocated(r).closure = r.closure /\ Deallocated(r).handle = r.handle
             /\ "allocated" \in IsoTypes /\ "deallocated" \in IsoTypes
  <2>1. r \in ResourceType
    BY <1>1
  <2> QED
    BY <2>1, NewEvents DEF Allocated, Deallocated, IsoTypes
<1>3. ASSUME NEW r \in resources
      PROVE  Of(resources, r.closure) = {r} /\ Of(resources \ {r}, r.closure) = {}
  BY <1>1, OfOne
\* The event is the only one about r if there was none.
<1>4. ASSUME NEW r \in resources, NEW e \in Events, e.type \in IsoTypes, e.closure = r.closure,
             At(queue, r.closure) = {}
      PROVE  /\ At(Append(queue, e), r.closure) = {Len(queue) + 1}
             /\ Append(queue, e)[Len(queue) + 1] = e
  BY <1>1, <1>4, AtAppend
<1>5. CASE AllocationDone
  <2>1. PICK r \in resources :
           /\ r.state = "allocating"
           /\ \/ /\ resources' = (resources \ {r}) \cup {[r EXCEPT !.state = "held"]}
                 /\ queue' = Append(queue, Allocated(r, TRUE))
              \/ /\ resources' = resources \ {r}
                 /\ queue' = Append(queue, Allocated(r, FALSE))
    BY <1>5 DEF AllocationDone
  <2> DEFINE c == r.closure
  <2> DEFINE t == [r EXCEPT !.state = "held"]
  <2>2. t.closure = c /\ t.handle = r.handle /\ t.state = "held"
    BY <1>1 DEF ResourceType
  <2>3. /\ Of(resources, c) = {r} /\ Of(resources \ {r}, c) = {}
        /\ Of((resources \ {r}) \cup {t}, c) = {t}
    BY <1>1, <2>2, OfOne
  <2> HIDE DEF t
  <2>4. /\ \A s : Has(queue, resources, c, s) => s = "allocating" /\ At(queue, c) = {}
        /\ ~Gone(queue, resources, c) /\ ~Silent(queue, resources, c) /\ ~Told(queue, resources, c)
    BY <1>1, <2>1, OnlyState
  <2>5. c \notin cam.owned /\ ~(call.pc = "dealloc" /\ call.info = c)
    BY <1>1, <2>4 DEF KnownOK, Known
  <2>6. ASSUME call.pc = "alloc", call.info = c PROVE Asked(queue', resources', info, c)
    <3>1. ~info[c].got_alloc /\ At(queue, c) = {}
      BY <1>1, <2>4, <2>6 DEF AskedOK, Asked
    <3>2. CASE resources' = (resources \ {r}) \cup {t} /\ queue' = Append(queue, Allocated(r, TRUE))
      <4>1. /\ At(queue', c) = {Len(queue) + 1} /\ queue'[Len(queue) + 1].type = "allocated"
            /\ queue'[Len(queue) + 1].ok /\ Of(resources', c) = {t}
        <5>1. PICK e \in Events : /\ e = Allocated(r, TRUE) /\ e.type = "allocated" /\ e.ok = TRUE
                                  /\ e.closure = c /\ e.type \in IsoTypes
          BY <1>2
        <5>2. At(queue', c) = {Len(queue) + 1} /\ queue'[Len(queue) + 1] = e
          BY <1>4, <3>1, <3>2, <5>1
        <5> QED
          BY <2>3, <3>2, <5>1, <5>2
      <4> QED
        BY <2>2, <3>1, <4>1 DEF Asked, Told
    <3>3. CASE resources' = resources \ {r} /\ queue' = Append(queue, Allocated(r, FALSE))
      <4>1. /\ At(queue', c) = {Len(queue) + 1} /\ queue'[Len(queue) + 1].type = "allocated"
            /\ ~queue'[Len(queue) + 1].ok /\ Of(resources', c) = {}
        <5>1. PICK e \in Events : /\ e = Allocated(r, FALSE) /\ e.type = "allocated" /\ e.ok = FALSE
                                  /\ e.closure = c /\ e.type \in IsoTypes
          BY <1>2
        <5>2. At(queue', c) = {Len(queue) + 1} /\ queue'[Len(queue) + 1] = e
          BY <1>4, <3>1, <3>3, <5>1
        <5> QED
          BY <2>3, <3>3, <5>1, <5>2
      <4> QED
        BY <3>1, <4>1 DEF Asked, Told
    <3> QED
      BY <2>1, <3>2, <3>3 DEF t
  <2>7. \E e \in Events : /\ queue' = Append(queue, e) /\ e.type \in IsoTypes /\ e.closure = r.closure
                          /\ e.handle = r.handle
    BY <1>2, <2>1
  <2>8. \/ resources' = resources \ {r}
        \/ resources' = (resources \ {r}) \cup {t}
    BY <2>1 DEF t
  <2> QED
    BY <1>1, <2>2, <2>5, <2>6, <2>7, <2>8, OneSpeaks
<1>6. CASE DeallocationDone
  <2>1. PICK r \in resources :
           /\ r.state = "deallocating" /\ resources' = resources \ {r}
           /\ queue' = Append(queue, Deallocated(r))
    BY <1>6 DEF DeallocationDone
  <2> DEFINE c == r.closure
  <2>2. /\ \A s : Has(queue, resources, c, s) => s = "deallocating" /\ At(queue, c) = {}
        /\ ~Gone(queue, resources, c) /\ ~Silent(queue, resources, c) /\ ~Told(queue, resources, c)
    BY <1>1, <2>1, OnlyState
  <2>3. c \notin cam.owned /\ ~(call.pc = "alloc" /\ call.info = c)
    BY <1>1, <2>2 DEF KnownOK, Known, AskedOK, Asked
  <2>4. ASSUME call.pc = "dealloc", call.info = c PROVE Known(queue', resources', info, c, "deallocating")
    <3>1. ~info[c].got_dealloc /\ At(queue, c) = {}
      BY <1>1, <2>2, <2>4 DEF KnownOK, Known
    <3>2. At(queue', c) = {Len(queue) + 1} /\ queue'[Len(queue) + 1].type = "deallocated"
      BY <1>2, <1>4, <2>1, <3>1
    <3> QED
      BY <1>3, <2>1, <3>1, <3>2 DEF Known, Gone
  <2> QED
    BY <1>1, <1>2, <2>1, <2>3, <2>4, OneSpeaks
<1>7. CASE ResourceLost
  <2>1. PICK r \in resources :
           /\ r.state = "held" /\ resources' = resources \ {r}
           /\ queue' = Append(queue, Deallocated(r))
    BY <1>7 DEF ResourceLost
  <2> DEFINE c == r.closure
  <2>2. /\ \A s : Has(queue, resources, c, s) => s = "held" /\ At(queue, c) = {}
        /\ ~Gone(queue, resources, c) /\ ~Silent(queue, resources, c)
        /\ Told(queue, resources, c) =>
              \E i \in At(queue, c) : At(queue, c) = {i} /\ queue[i].type = "allocated" /\ queue[i].ok
    BY <1>1, <2>1, OnlyState
  <2>3. Of(resources', c) = {}
    BY <1>3, <2>1
  <2>4. ASSUME At(queue, c) = {} PROVE Gone(queue', resources', c)
    <3>1. At(queue', c) = {Len(queue) + 1} /\ queue'[Len(queue) + 1].type = "deallocated"
      BY <1>2, <1>4, <2>1, <2>4
    <3> QED
      BY <2>3, <3>1 DEF Gone
  <2>5. c \in cam.owned => Known(queue', resources', info, c, "held")
    BY <1>1, <2>2, <2>4 DEF KnownOK, Known
  <2>6. ~(call.pc = "dealloc" /\ call.info = c)
    BY <1>1, <2>2 DEF KnownOK, Known
  <2>7. ASSUME call.pc = "alloc", call.info = c PROVE Asked(queue', resources', info, c)
    <3>1. CASE At(queue, c) = {}
      <4>1. ~Told(queue, resources, c)
        BY <3>1 DEF Told
      <4>2. info[c].got_alloc /\ info[c].ok
        BY <1>1, <2>2, <2>7, <4>1 DEF AskedOK, Asked
      <4> QED
        BY <2>4, <3>1, <4>2 DEF Asked
    <3>2. CASE At(queue, c) # {}
      <4>1. ~info[c].got_alloc /\ Told(queue, resources, c)
        BY <1>1, <2>2, <2>7, <3>2 DEF AskedOK, Asked
      <4>2. PICK i \in At(queue, c) : At(queue, c) = {i} /\ queue[i].type = "allocated" /\ queue[i].ok
        BY <2>2, <4>1
      <4> DEFINE j == Len(queue) + 1
      <4>3. /\ At(queue', c) = {i, j} /\ queue'[j].type = "deallocated"
            /\ queue'[i] = queue[i] /\ i \in 1 .. Len(queue)
        BY <1>1, <1>2, <2>1, <4>2, AtAppend
      <4>4. i < j
        BY <1>1, <4>3
      <4> HIDE DEF j
      <4>5. Told(queue', resources', c)
        BY <2>3, <4>2, <4>3, <4>4 DEF Told
      <4> QED
        BY <4>1, <4>5 DEF Asked
    <3> QED
      BY <3>1, <3>2
  <2> QED
    BY <1>1, <1>2, <2>1, <2>5, <2>6, <2>7, OneSpeaks
<1> QED
  BY <1>5, <1>6, <1>7

\* Reading that a resource is gone, or what became of an allocation.
LEMMA GoneRead ==
    ASSUME NEW q \in Seq(Events), q # <<>>, NEW R, NEW a, 1 \in At(q, a), Gone(q, R, a)
    PROVE  q[1].type = "deallocated" /\ Silent(Tail(q), R, a)
<1>1. At(q, a) = {1} /\ q[1].type = "deallocated" /\ Of(R, a) = {}
  BY DEF Gone
<1>2. At(Tail(q), a) \in SUBSET Int /\ \A i \in Int : i \in At(Tail(q), a) <=> i + 1 \in At(q, a) /\ i # 0
  BY AtTail, PlacesInQueue
<1>3. \A i \in Int : i + 1 = 1 => i = 0
  OBVIOUS
<1>4. At(Tail(q), a) = {}
  BY <1>1, <1>2, <1>3
<1> QED
  BY <1>1, <1>4 DEF Silent

LEMMA ToldRead ==
    ASSUME NEW q \in Seq(Events), q # <<>>, NEW R, NEW a, 1 \in At(q, a), Told(q, R, a)
    PROVE  /\ q[1].type = "allocated"
           /\ IF q[1].ok THEN Has(Tail(q), R, a, "held") \/ Gone(Tail(q), R, a)
                         ELSE Silent(Tail(q), R, a)
<1>1. /\ At(Tail(q), a) \in SUBSET Int /\ \A i \in At(q, a) : i \in Int /\ 1 <= i
      /\ \A i \in Int : i \in At(Tail(q), a) <=> i + 1 \in At(q, a) /\ i # 0
      /\ \A i \in At(Tail(q), a) : Tail(q)[i] = q[i + 1]
  <2>1. /\ At(q, a) \in SUBSET Int /\ \A i \in At(q, a) : i \in 1 .. Len(q)
        /\ Len(q) \in Nat
    BY PlacesInQueue
  <2>2. \A i \in At(q, a) : i \in Int /\ 1 <= i
    BY <2>1
  <2>3. /\ \A i \in Int : i \in At(Tail(q), a) <=> i + 1 \in At(q, a) /\ i # 0
        /\ \A i \in At(Tail(q), a) : Tail(q)[i] = q[i + 1]
        /\ Tail(q) \in Seq(Events)
    BY AtTail
  <2>4. At(Tail(q), a) \in SUBSET Int
    BY <2>3, PlacesInQueue
  <2> QED
    BY <2>2, <2>3, <2>4
<1>2. PICK i \in At(q, a) :
         /\ q[i].type = "allocated"
         /\ \/ q[i].ok /\ At(q, a) = {i} /\ \E r \in Of(R, a) : r.state = "held"
            \/ /\ q[i].ok /\ Of(R, a) = {}
               /\ \E j \in At(q, a) : i < j /\ At(q, a) = {i, j} /\ q[j].type = "deallocated"
            \/ ~q[i].ok /\ At(q, a) = {i} /\ Of(R, a) = {}
  BY DEF Told
<1>3. i = 1
  BY <1>1, <1>2
<1>4. ASSUME At(q, a) = {1} PROVE At(Tail(q), a) = {}
  <2>1. \A m \in Int : m + 1 = 1 => m = 0
    OBVIOUS
  <2> QED
    BY <1>1, <1>4, <2>1
<1>5. CASE q[i].ok /\ At(q, a) = {i} /\ \E r \in Of(R, a) : r.state = "held"
  BY <1>2, <1>3, <1>4, <1>5 DEF Has
<1>6. CASE ~q[i].ok /\ At(q, a) = {i} /\ Of(R, a) = {}
  BY <1>2, <1>3, <1>4, <1>6 DEF Silent
<1>7. CASE /\ q[i].ok /\ Of(R, a) = {}
           /\ \E j \in At(q, a) : i < j /\ At(q, a) = {i, j} /\ q[j].type = "deallocated"
  <2>1. PICK j \in At(q, a) : 1 < j /\ At(q, a) = {1, j} /\ q[j].type = "deallocated"
    BY <1>3, <1>7
  <2>2. PICK m \in Int : m = j - 1 /\ m + 1 = j /\ m # 0
    <3>1. j \in Int /\ j - 1 \in Int /\ (j - 1) + 1 = j /\ j - 1 # 0
      BY <1>1, <2>1
    <3> QED
      BY <3>1
  <2>3. m \in At(Tail(q), a) /\ Tail(q)[m].type = "deallocated"
    BY <1>1, <2>1, <2>2
  <2>4. \A n \in Int : n + 1 = j \/ n + 1 = 1 => n = m \/ n = 0
    BY <2>2
  <2>5. At(Tail(q), a) = {m}
    BY <1>1, <2>1, <2>3, <2>4
  <2> QED
    BY <1>2, <1>3, <1>7, <2>3, <2>5 DEF Gone
<1> QED
  BY <1>2, <1>5, <1>6, <1>7

\* An iso event is read: the structure it points to knows what it tells.
LEMMA HandleIsoStep ==
    ASSUME Inv, Reading, queue # <<>>, HandleIso(Head(queue)), queue' = Tail(queue),
           resources' = resources
    PROVE  IsoOK'
<1>1. OwnersOK /\ NewsValid /\ UniqueOK /\ KnownOK /\ AskedOK /\ ApartOK
  BY ClosuresByPlace DEF Inv, IsoOK
<1>2. PICK e \in Events : e = Head(queue) /\ e = queue[1] /\ e.type \in IsoTypes
  BY Typed, AtTail DEF HandleIso
<1>3. PICK c \in Infos : c = e.closure
  BY <1>2, EventKinds
<1>4. /\ UNCHANGED <<cam, call>> /\ queue \in Seq(Events) /\ info[c] \in InfoState
      /\ 1 \in At(queue, c) /\ queue' \in Seq(Events)
  BY <1>2, <1>3, Typed, AtTail DEF HandleIso
<1>5. \A a \in Infos : a # c => info'[a] = info[a]
  BY <1>2, <1>3, Typed DEF HandleIso
<1>6. /\ info'[c].handle = info[c].handle
      /\ e.type = "allocated" => /\ info'[c].got_alloc /\ info'[c].ok = e.ok
                                 /\ info'[c].got_dealloc = info[c].got_dealloc
      /\ e.type = "deallocated" => /\ info'[c].got_dealloc
                                   /\ info'[c].got_alloc = info[c].got_alloc
      /\ info[c].got_dealloc => info'[c].got_dealloc
  <2>1. info'[c] = IF e.type = "allocated"
                   THEN [info[c] EXCEPT !.got_alloc = TRUE, !.ok = e.ok]
                   ELSE [info[c] EXCEPT !.got_dealloc = TRUE, !.ok = e.ok]
    BY <1>2, <1>3, Typed DEF HandleIso
  <2>2. e.type \in {"allocated", "deallocated"}
    BY <1>2 DEF IsoTypes
  <2>3. CASE e.type = "allocated"
    BY <1>4, <2>1, <2>3 DEF InfoState
  <2>4. CASE e.type = "deallocated"
    BY <1>4, <2>1, <2>4 DEF InfoState
  <2> QED
    BY <2>2, <2>3, <2>4
<1>7. ASSUME NEW a
      PROVE  /\ At(queue, a) \in SUBSET Int /\ At(queue', a) \in SUBSET Int
             /\ \A i \in Int : i \in At(queue', a) <=> i + 1 \in At(queue, a) /\ i # 0
             /\ \A i \in At(queue', a) : queue'[i] = queue[i + 1]
             /\ a # c => Follows(queue', queue, a, 1)
  <2>1. At(queue, a) \in SUBSET Int /\ At(queue', a) \in SUBSET Int
    BY <1>4, PlacesInQueue
  <2>2. /\ \A i \in Int : i \in At(Tail(queue), a) <=> i + 1 \in At(queue, a) /\ i # 0
        /\ \A i \in At(Tail(queue), a) : Tail(queue)[i] = queue[i + 1]
        /\ ~(Head(queue).type \in IsoTypes /\ Head(queue).closure = a)
              => Follows(Tail(queue), queue, a, 1)
    BY <1>4, AtTail
  <2>3. a # c => Head(queue).closure # a
    BY <1>2, <1>3
  <2> QED
    BY <2>1, <2>2, <2>3
<1>8. ASSUME NEW a, a # c
      PROVE  /\ Silent(queue, resources, a) => Silent(queue', resources', a)
             /\ \A s : Has(queue, resources, a, s) => Has(queue', resources', a, s)
             /\ Gone(queue, resources, a) => Gone(queue', resources', a)
             /\ Told(queue, resources, a) => Told(queue', resources', a)
  <2>1. /\ At(queue', a) \in SUBSET Int /\ At(queue, a) \in SUBSET Int
        /\ Follows(queue', queue, a, 1) /\ Of(resources', a) = Of(resources, a) /\ 1 \in Int
    BY <1>7, <1>8
  <2> QED
    BY <2>1, SameNews
<1>9. \A a \in Infos : \A s : a # c /\ Known(queue, resources, info, a, s) => Known(queue', resources', info', a, s)
  BY <1>5, <1>8 DEF Known
<1>10. \A a \in Infos : a # c /\ Asked(queue, resources, info, a) => Asked(queue', resources', info', a)
  BY <1>5, <1>8 DEF Asked
<1>11. ASSUME NEW s, Known(queue, resources, info, c, s)
       PROVE  Known(queue', resources', info', c, s) /\ info'[c].got_dealloc
  <2>1. Gone(queue, resources, c)
    BY <1>4, <1>11 DEF Known, Silent, Has
  <2>2. queue[1].type = "deallocated" /\ Silent(Tail(queue), resources, c)
    BY <1>4, <2>1, GoneRead
  <2> QED
    BY <1>2, <1>6, <2>2 DEF Known
<1>12. ASSUME call.pc = "alloc", call.info = c
       PROVE  /\ info'[c].got_dealloc = info[c].got_dealloc /\ Asked(queue', resources', info', c)
              /\ ~info[c].got_alloc
  <2>1. ~info[c].got_alloc
    BY <1>12 DEF Reading, GotIt
  <2>2. Told(queue, resources, c)
    BY <1>1, <1>4, <1>12, <2>1 DEF AskedOK, Asked, Has
  <2>3. /\ queue[1].type = "allocated"
        /\ IF queue[1].ok THEN Has(Tail(queue), resources, c, "held") \/ Gone(Tail(queue), resources, c)
                          ELSE Silent(Tail(queue), resources, c)
    BY <1>4, <2>2, ToldRead
  <2> QED
    BY <1>2, <1>6, <2>1, <2>3 DEF Asked
<1>13. cam.owned \subseteq Infos /\ (call.pc \in {"alloc", "dealloc"} => call.info \in Infos)
  BY Typed DEF CamType
<1>14. KnownOK'
  BY <1>1, <1>4, <1>9, <1>11, <1>13 DEF KnownOK
<1>15. AskedOK'
  <2>1. call.pc = "alloc" /\ call.info # c => info'[call.info] = info[call.info]
    BY <1>5, <1>13
  <2> QED
    BY <1>1, <1>4, <1>10, <1>12, <1>13, <2>1 DEF AskedOK
<1>16. OwnersOK' /\ UniqueOK'
  BY <1>1, <1>4 DEF OwnersOK, UniqueOK
<1>17. \A a \in Infos : info'[a].handle = info[a].handle
  BY <1>5, <1>6
<1>18. NewsValid'
  <2>1. ASSUME NEW a, NEW i \in At(queue', a) PROVE a \in cam'.iso_resources /\ info'[a].handle = queue'[i].handle
    <3>1. i + 1 \in At(queue, a) /\ queue'[i] = queue[i + 1]
      BY <1>7
    <3>2. a \in cam.iso_resources /\ info[a].handle = queue[i + 1].handle
      BY <1>1, <3>1 DEF NewsValid
    <3> QED
      BY <1>4, <1>17, <3>1, <3>2, Typed DEF CamType
  <2>2. ASSUME NEW r \in resources PROVE r.closure \in cam'.iso_resources /\ info'[r.closure].handle = r.handle
    BY <1>1, <1>4, <1>17, Typed DEF CamType, NewsValid
  <2> QED
    BY <2>1, <2>2 DEF NewsValid
<1>19. \A a \in Infos : info[a].got_dealloc => info'[a].got_dealloc
  BY <1>5, <1>6
<1>20. ApartOK'
  <2>1. ASSUME call.pc = "alloc", NEW a \in cam.owned, info[a].handle = info[call.info].handle,
               ~info'[a].got_dealloc
        PROVE  /\ ~info'[call.info].got_alloc /\ Of(resources', a) = {}
               /\ \A i \in At(queue', a), j \in At(queue', call.info) : i < j
    <3>1. /\ ~info[call.info].got_alloc /\ Of(resources, a) = {}
          /\ \A i \in At(queue, a), j \in At(queue, call.info) : i < j
      BY <1>1, <1>13, <1>19, <2>1 DEF ApartOK
    <3>2. Gone(queue, resources, a)
      BY <1>1, <1>13, <1>19, <2>1, <3>1 DEF KnownOK, Known, Has
    <3>3. a # c
      BY <1>1, <1>11, <2>1 DEF KnownOK
    <3>4. call.info # c
      <4>1. PICK i \in At(queue, a) : TRUE
        BY <3>2 DEF Gone
      <4>2. i \in 1 .. Len(queue)
        BY <1>4, PlacesInQueue
      <4> QED
        BY <1>4, <3>1, <4>2
    <3>5. \A i \in At(queue', a), j \in At(queue', call.info) : i < j
      <4>1. ASSUME NEW i \in At(queue', a), NEW j \in At(queue', call.info) PROVE i < j
        <5>1. i + 1 \in At(queue, a) /\ j + 1 \in At(queue, call.info) /\ i \in Int /\ j \in Int
          BY <1>7
        <5>2. i + 1 < j + 1
          BY <3>1, <5>1
        <5> QED
          BY <5>1, <5>2
      <4> QED
        BY <4>1
    <3> QED
      BY <1>5, <1>13, <2>1, <3>1, <3>4, <3>5
  <2>2. ASSUME NEW a \in cam.owned, NEW b \in cam.owned, a # b, info'[a].handle = info'[b].handle
        PROVE  info'[a].got_dealloc \/ info'[b].got_dealloc
    <3>1. info[a].handle = info[b].handle
      BY <1>13, <1>17, <2>2
    <3> QED
      BY <1>1, <1>13, <1>19, <2>2, <3>1 DEF ApartOK
  <2>3. ASSUME call.pc = "alloc", NEW a \in cam.owned, info'[a].handle = info'[call.info].handle
        PROVE  info[a].handle = info[call.info].handle
    BY <1>13, <1>17, <2>3
  <2> QED
    BY <1>4, <2>1, <2>2, <2>3 DEF ApartOK
<1> QED
  BY <1>14, <1>15, <1>16, <1>18, <1>20, ClosuresByPlace DEF IsoOK

\* The structure of a resource that is gone leaves the list.
LEMMA RemoveStep ==
    ASSUME Inv, NEW c \in Infos, Silent(queue, resources, c), RemoveIso(c),
           queue' = queue, resources' = resources, call'.pc \notin {"alloc", "dealloc"}
    PROVE  IsoOK'
<1>1. OwnersOK /\ NewsValid /\ UniqueOK /\ KnownOK /\ ApartOK
  BY ClosuresByPlace DEF Inv, IsoOK
<1>2. cam'.iso_resources = cam.iso_resources \ {c} /\ cam'.owned = cam.owned \ {c}
  BY Typed DEF RemoveIso, CamType
<1>3. \A a : a # c /\ a \in Infos => info'[a] = info[a]
  BY Typed DEF RemoveIso
<1>4. cam.owned \subseteq Infos /\ cam.iso_resources \subseteq Infos
  BY Typed DEF CamType
<1>5. \A a \in cam'.owned : a \in cam.owned /\ info'[a] = info[a]
  BY <1>2, <1>3, <1>4
<1>6. OwnersOK' /\ UniqueOK' /\ AskedOK'
  BY <1>1, <1>2 DEF OwnersOK, UniqueOK, AskedOK
<1>7. KnownOK'
  BY <1>1, <1>5 DEF KnownOK, Known
<1>8. NewsValid'
  <2>1. At(queue, c) = {} /\ \A r \in resources : r.closure # c
    BY DEF Silent, Of
  <2>2. ASSUME NEW a, NEW i \in At(queue, a) PROVE a \in cam'.iso_resources /\ info'[a].handle = queue[i].handle
    <3>1. a # c /\ a \in cam.iso_resources /\ info[a].handle = queue[i].handle
      BY <1>1, <2>1 DEF NewsValid
    <3> QED
      BY <1>2, <1>3, <1>4, <3>1
  <2>3. ASSUME NEW r \in resources PROVE r.closure \in cam'.iso_resources /\ info'[r.closure].handle = r.handle
    <3>1. r.closure # c /\ r.closure \in cam.iso_resources /\ info[r.closure].handle = r.handle
      BY <1>1, <2>1 DEF NewsValid
    <3> QED
      BY <1>2, <1>3, <1>4, <3>1
  <2> QED
    BY <2>2, <2>3 DEF NewsValid
<1>9. ApartOK'
  BY <1>1, <1>5 DEF ApartOK
<1> QED
  BY <1>6, <1>7, <1>8, <1>9, ClosuresByPlace DEF IsoOK

\* What a record of the camera, or of a call, becomes.
LEMMA Changed ==
    ASSUME Inv
    PROVE  /\ \A S, T : LET c == [cam EXCEPT !.iso_resources = S, !.owned = T] IN
                         c.iso_resources = S /\ c.owned = T /\ c.open = cam.open
           /\ \A T : LET c == [cam EXCEPT !.owned = T] IN
                         c.iso_resources = cam.iso_resources /\ c.owned = T /\ c.open = cam.open
           /\ \A T : LET c == [cam EXCEPT !.iso_resources = T] IN
                         c.iso_resources = T /\ c.owned = cam.owned /\ c.open = cam.open
           /\ \A g : LET c == [cam EXCEPT !.generation = g] IN
                         c.iso_resources = cam.iso_resources /\ c.owned = cam.owned /\ c.open = cam.open
           /\ \A err : Returned(err).pc = "idle"
           /\ \A op, pc : Begun(op, pc).pc = pc /\ Idle(op).pc = "idle"
           /\ \A op, pc, a : LET c == [Begun(op, pc) EXCEPT !.info = a] IN c.pc = pc /\ c.info = a
           /\ \A op, err : [Idle(op) EXCEPT !.err = err].pc = "idle"
  BY Typed DEF CamType, Returned, Idle, Begun

\* The caller gets the resource that was asked for.
LEMMA AllocateReturnStep ==
    ASSUME Inv, AllocateReturn
    PROVE  IsoOK'
<1>1. OwnersOK /\ IsoClosuresValid /\ UniqueOK /\ KnownOK /\ AskedOK /\ ApartOK
  BY DEF Inv, IsoOK
<1> DEFINE c == call.info
<1>2. /\ call.pc = "alloc" /\ info[c].got_alloc /\ c \in Infos /\ c \in cam.iso_resources \ cam.owned
      /\ queue' = queue /\ resources' = resources
  BY <1>1, Typed DEF AllocateReturn, OwnersOK, kernel
<1>3. ~info[c].got_dealloc
  BY <1>1, <1>2 DEF AskedOK
<1>4. CASE info[c].ok
  <2>1. cam' = [cam EXCEPT !.owned = cam.owned \cup {c}] /\ call' = Returned("SUCCESS") /\ info' = info
    BY <1>4 DEF AllocateReturn
  <2>2. cam'.owned = cam.owned \cup {c} /\ cam'.iso_resources = cam.iso_resources /\ call'.pc = "idle"
    BY <2>1, Changed
  <2>3. Has(queue, resources, c, "held") \/ Gone(queue, resources, c)
    BY <1>1, <1>2, <1>4 DEF AskedOK, Asked
  <2>4. KnownOK'
    BY <1>1, <1>2, <1>3, <2>1, <2>2, <2>3 DEF KnownOK, Known
  <2>5. \A a \in cam.owned : info[a].handle = info[c].handle => info[a].got_dealloc
    BY <1>1, <1>2 DEF ApartOK
  <2>6. ApartOK'
    BY <1>1, <2>1, <2>2, <2>5 DEF ApartOK
  <2>7. OwnersOK' /\ UniqueOK' /\ AskedOK' /\ IsoClosuresValid'
    BY <1>1, <1>2, <2>1, <2>2 DEF OwnersOK, UniqueOK, AskedOK, IsoClosuresValid, QueuedIso
  <2> QED
    BY <2>4, <2>6, <2>7 DEF IsoOK
<1>5. CASE ~info[c].ok
  <2>1. RemoveIso(c) /\ call'.pc = "idle"
    BY <1>5, Changed DEF AllocateReturn
  <2>2. Silent(queue, resources, c)
    BY <1>1, <1>2, <1>5 DEF AskedOK, Asked
  <2> QED
    BY <1>2, <2>1, <2>2, RemoveStep
<1> QED
  BY <1>4, <1>5

LEMMA DeallocateReturnStep ==
    ASSUME Inv, DeallocateReturn
    PROVE  IsoOK'
<1>1. /\ call.pc = "dealloc" /\ info[call.info].got_dealloc /\ call.info \in Infos
      /\ queue' = queue /\ resources' = resources /\ RemoveIso(call.info) /\ call'.pc = "idle"
  BY Typed, Changed DEF DeallocateReturn, kernel
<1>2. Silent(queue, resources, call.info)
  BY <1>1 DEF Inv, IsoOK, KnownOK, Known
<1> QED
  BY <1>1, <1>2, RemoveStep

LEMMA DeallocateKnownStep ==
    ASSUME Inv, NEW a \in Infos, DeallocateKnown(a)
    PROVE  IsoOK'
<1>1. /\ a \in cam.owned /\ info[a].got_dealloc
      /\ queue' = queue /\ resources' = resources /\ RemoveIso(a) /\ call'.pc = "idle"
  BY Changed DEF DeallocateKnown, kernel
<1>2. Silent(queue, resources, a)
  BY <1>1 DEF Inv, IsoOK, KnownOK, Known
<1> QED
  BY <1>1, <1>2, RemoveStep

\* A structure that no event and no resource points to gets a new resource.
LEMMA AllocateBeginStep ==
    ASSUME Inv, AllocateBegin
    PROVE  IsoOK'
<1>1. OwnersOK /\ NewsValid /\ UniqueOK /\ KnownOK /\ ApartOK
  BY ClosuresByPlace DEF Inv, IsoOK
<1>2. PICK a \in Infos \ cam.iso_resources, h \in Handles \ {r.handle : r \in resources} :
         /\ cam' = [cam EXCEPT !.iso_resources = @ \cup {a}]
         /\ info' = [info EXCEPT ![a] = [NoInfo EXCEPT !.handle = h]]
         /\ resources' = resources \cup {[handle |-> h, closure |-> a, state |-> "allocating"]}
         /\ call' = [Begun("allocate", "alloc") EXCEPT !.info = a]
  BY DEF AllocateBegin
<1> DEFINE t == [handle |-> h, closure |-> a, state |-> "allocating"]
<1>3. /\ cam'.iso_resources = cam.iso_resources \cup {a} /\ cam'.owned = cam.owned
      /\ call'.pc = "alloc" /\ call'.info = a /\ queue' = queue
  <2>1. cam'.iso_resources = cam.iso_resources \cup {a} /\ cam'.owned = cam.owned
    BY <1>2, Typed DEF CamType
  <2>2. call'.pc = "alloc" /\ call'.info = a
    BY <1>2, Changed
  <2>3. queue' = queue
    BY DEF AllocateBegin
  <2> QED
    BY <2>1, <2>2, <2>3
<1>4. /\ info'[a].handle = h /\ ~info'[a].got_alloc /\ ~info'[a].got_dealloc
      /\ \A b \in Infos : b # a => info'[b] = info[b]
  BY <1>2, Typed DEF NoInfo
<1>5. At(queue, a) = {} /\ Of(resources, a) = {}
  BY <1>1, <1>2 DEF NewsValid, Of
<1>6. /\ t.handle = h /\ t.closure = a /\ t.state = "allocating" /\ resources' = resources \cup {t}
      /\ \A r \in resources : r.handle # h /\ r.closure # a
  BY <1>2, <1>5 DEF Of
<1> HIDE DEF t
<1>7. Of(resources', a) = {t} /\ \A b : b # a => Of(resources', b) = Of(resources, b)
  BY <1>5, <1>6 DEF Of
<1>8. cam.owned \subseteq Infos /\ cam.iso_resources \subseteq Infos /\ cam.owned \subseteq cam.iso_resources
  BY <1>1, Typed DEF CamType, OwnersOK
<1>9. \A b \in cam.owned : b # a /\ info'[b] = info[b] /\ Of(resources', b) = Of(resources, b)
  BY <1>2, <1>4, <1>7, <1>8
<1>10. OwnersOK'
  BY <1>1, <1>2, <1>3 DEF OwnersOK
<1>11. UniqueOK'
  BY <1>1, <1>6 DEF UniqueOK
<1>12. KnownOK'
  BY <1>1, <1>3, <1>9 DEF KnownOK, Known, Silent, Has, Gone
<1>13. AskedOK'
  BY <1>3, <1>4, <1>5, <1>6, <1>7 DEF AskedOK, Asked, Has
<1>14. NewsValid'
  <2>1. \A b : \A i \in At(queue, b) : b \in cam.iso_resources /\ b # a /\ info[b].handle = queue[i].handle
    BY <1>1, <1>5 DEF NewsValid
  <2>2. \A b : \A i \in At(queue, b) : b \in cam'.iso_resources /\ info'[b].handle = queue[i].handle
    BY <1>3, <1>4, <1>8, <2>1
  <2>3. \A r \in resources : /\ r.closure \in cam.iso_resources /\ r.closure # a
                             /\ info[r.closure].handle = r.handle
    BY <1>1, <1>6 DEF NewsValid
  <2>4. \A r \in resources' : r.closure \in cam'.iso_resources /\ info'[r.closure].handle = r.handle
    BY <1>3, <1>4, <1>6, <1>8, <2>3
  <2> QED
    BY <1>3, <2>2, <2>4 DEF NewsValid
<1>15. ApartOK'
  <2>1. ASSUME NEW b \in cam.owned, info[b].handle = h, ~info[b].got_dealloc
        PROVE  Of(resources, b) = {}
    <3>1. Has(queue, resources, b, "held") \/ Gone(queue, resources, b)
      BY <1>1, <2>1 DEF KnownOK, Known
    <3>2. ~Has(queue, resources, b, "held")
      BY <1>1, <1>6, <2>1 DEF Has, Of, NewsValid
    <3> QED
      BY <3>1, <3>2 DEF Gone
  <2>2. ASSUME NEW b \in cam.owned, info'[b].handle = info'[a].handle
        PROVE  \/ info'[b].got_dealloc
               \/ /\ ~info'[a].got_alloc /\ Of(resources', b) = {}
                  /\ \A i \in At(queue', b), j \in At(queue', a) : i < j
    BY <1>3, <1>4, <1>5, <1>9, <2>1, <2>2
  <2>3. \A b, d \in cam.owned :
           b # d /\ info'[b].handle = info'[d].handle => info'[b].got_dealloc \/ info'[d].got_dealloc
    BY <1>1, <1>9 DEF ApartOK
  <2> QED
    BY <1>3, <2>2, <2>3 DEF ApartOK
<1> QED
  BY <1>10, <1>11, <1>12, <1>13, <1>14, <1>15, ClosuresByPlace DEF IsoOK

\* A resource is given back by its handle.  When the kernel has given the handle
\* to another structure since, the loss of the resource is in the queue.
LEMMA DeallocateBeginStep ==
    ASSUME Inv, NEW a \in Infos, DeallocateBegin(a)
    PROVE  IsoOK'
<1>1. OwnersOK /\ NewsValid /\ UniqueOK /\ KnownOK /\ ApartOK
  BY ClosuresByPlace DEF Inv, IsoOK
<1>2. /\ a \in cam.owned /\ ~info[a].got_dealloc /\ queue' = queue /\ info' = info /\ CallIdle
      /\ cam'.owned = cam.owned \ {a} /\ cam'.iso_resources = cam.iso_resources
  BY Changed DEF DeallocateBegin
<1>3. Has(queue, resources, a, "held") \/ Gone(queue, resources, a)
  BY <1>1, <1>2 DEF KnownOK, Known
<1>4. CASE resources' = resources /\ call'.pc = "idle"
  <2>1. OwnersOK' /\ UniqueOK' /\ KnownOK' /\ AskedOK' /\ ApartOK' /\ NewsValid'
    BY <1>1, <1>2, <1>4 DEF OwnersOK, UniqueOK, KnownOK, AskedOK, ApartOK, NewsValid
  <2> QED
    BY <2>1, ClosuresByPlace DEF IsoOK
<1>5. ASSUME NEW r \in resources, r.handle = info[a].handle,
             resources' = (resources \ {r}) \cup {[r EXCEPT !.state = "deallocating"]},
             call'.pc = "dealloc", call'.info = a
      PROVE  IsoOK'
  <2> DEFINE t == [r EXCEPT !.state = "deallocating"]
  <2>1. /\ t.handle = r.handle /\ t.closure = r.closure /\ t.state = "deallocating"
        /\ resources' = (resources \ {r}) \cup {t}
    BY <1>5, Typed DEF ResourceType
  <2> HIDE DEF t
  <2>2. /\ Of(resources, r.closure) = {r} /\ Of(resources', r.closure) = {t}
        /\ \A b : b # r.closure => Of(resources', b) = Of(resources, b)
    <3>1. Of(resources, r.closure) = {r} /\ Of(resources', r.closure) = {t}
      BY <1>1, <2>1, OfOne
    <3>2. ASSUME NEW b, b # r.closure PROVE Of(resources', b) = Of(resources, b)
      <4>1. r.closure # b /\ t.closure # b
        BY <2>1, <3>2
      <4>2. \A s : s \in resources' /\ s.closure = b <=> s \in resources /\ s.closure = b
        BY <2>1, <4>1
      <4> QED
        BY <4>2 DEF Of
    <3> QED
      BY <3>1, <3>2
  <2>3. UniqueOK'
    BY <1>1, <2>1 DEF UniqueOK
  <2>4. NewsValid'
    BY <1>1, <1>2, <2>1 DEF NewsValid
  <2>5. OwnersOK' /\ AskedOK' /\ ApartOK'
    BY <1>1, <1>2, <1>5 DEF OwnersOK, AskedOK, ApartOK
  <2>6. Known(queue, resources', info, a, "deallocating")
    <3>1. CASE r.closure = a
      <4>1. Has(queue, resources, a, "held")
        BY <1>3, <2>2, <3>1 DEF Gone
      <4> QED
        BY <1>2, <2>1, <2>2, <3>1, <4>1 DEF Known, Has
    <3>2. CASE r.closure # a
      <4>1. ~Has(queue, resources, a, "held")
        BY <1>1, <1>5, <3>2 DEF Has, Of, UniqueOK, NewsValid
      <4> QED
        BY <1>2, <1>3, <2>2, <3>2, <4>1 DEF Known, Gone
    <3> QED
      BY <3>1, <3>2
  <2>7. ASSUME NEW b \in cam.owned, b # a PROVE b # r.closure
    <3>1. SUFFICES ASSUME b = r.closure PROVE FALSE
      OBVIOUS
    <3>2. info[b].handle = info[a].handle
      BY <1>1, <1>5, <3>1 DEF NewsValid
    <3>3. info[b].got_dealloc
      BY <1>1, <1>2, <2>7, <3>2 DEF ApartOK
    <3>4. Silent(queue, resources, b)
      BY <1>1, <3>3 DEF KnownOK, Known
    <3> QED
      BY <2>2, <3>1, <3>4 DEF Silent
  <2>8. KnownOK'
    <3>1. ASSUME NEW b \in cam'.owned PROVE Known(queue', resources', info', b, "held")
      <4>1. b \in cam.owned /\ Of(resources', b) = Of(resources, b)
        BY <1>2, <2>2, <2>7
      <4>2. Known(queue, resources, info, b, "held")
        BY <1>1, <4>1 DEF KnownOK
      <4> QED
        BY <1>2, <4>1, <4>2 DEF Known, Silent, Has, Gone
    <3> QED
      BY <1>2, <1>5, <2>6, <3>1 DEF KnownOK
  <2> QED
    BY <2>3, <2>4, <2>5, <2>8, ClosuresByPlace DEF IsoOK
<1> QED
  <2>1. \/ \E r \in resources : /\ r.handle = info[a].handle
                                /\ resources' = (resources \ {r}) \cup {[r EXCEPT !.state = "deallocating"]}
                                /\ call' = [Begun("deallocate", "dealloc") EXCEPT !.info = a]
        \/ resources' = resources /\ call' = [Idle("deallocate") EXCEPT !.err = "FAILURE"]
    BY DEF DeallocateBegin
  <2>2. CASE resources' = resources /\ call' = [Idle("deallocate") EXCEPT !.err = "FAILURE"]
    <3>1. call'.pc = "idle"
      BY <2>2, Changed
    <3> QED
      BY <1>4, <2>2, <3>1
  <2>3. ASSUME NEW r \in resources, r.handle = info[a].handle,
               resources' = (resources \ {r}) \cup {[r EXCEPT !.state = "deallocating"]},
               call' = [Begun("deallocate", "dealloc") EXCEPT !.info = a]
        PROVE  IsoOK'
    <3>1. call'.pc = "dealloc" /\ call'.info = a
      BY <2>3, Changed
    <3> QED
      BY <1>5, <2>3, <3>1
  <2> QED
    BY <2>1, <2>2, <2>3

\* The camera is closed, and nothing is left.
LEMMA EmptyStep ==
    ASSUME queue' = <<>>, resources' = {}, cam'.iso_resources = {}, cam'.owned = {}, call'.pc = "idle"
    PROVE  IsoOK'
  BY DEF IsoOK, OwnersOK, IsoClosuresValid, UniqueOK, KnownOK, AskedOK, ApartOK, QueuedIso

\* Steps that leave every resource, and what is told of it, alone.
LEMMA QuietSteps ==
    ASSUME Inv,
           \/ BusReset \/ ReportReset \/ Answer \/ ReadFails \/ Send \/ SendFails
           \/ GotResponse \/ Retry \/ TransactionBegin \/ UNCHANGED vars
           \/ HandleEvent /\ ~HandleIso(Head(queue))
    PROVE  IsoOK'
<1>1. queue \in Seq(Events) /\ requests \in Seq(RequestType) /\ call \in CallType /\ cam \in CamType
  BY Typed
<1>2. ASSUME queue' = queue, resources' = resources, info' = info,
             cam'.iso_resources = cam.iso_resources, cam'.owned = cam.owned,
             call'.pc \in {"alloc", "dealloc"} => call'.pc = call.pc /\ call'.info = call.info
      PROVE  IsoOK'
  <2>1. \A i \in Int : i + 0 = i
    OBVIOUS
  <2>2. \A a : Follows(queue', queue, a, 0)
    <3>1. ASSUME NEW a PROVE Follows(queue, queue, a, 0)
      <4>1. At(queue, a) \in SUBSET Int
        BY <1>1, PlacesInQueue
      <4> QED
        BY <2>1, <4>1 DEF Follows
    <3> QED
      BY <1>2, <3>1
  <2> QED
    BY <1>1, <1>2, <2>2, QuietStep
<1>3. ASSUME NEW e \in Events, e.type \notin IsoTypes, queue' = Append(queue, e),
             UNCHANGED <<resources, info, cam>>, call'.pc = call.pc, call'.info = call.info
      PROVE  IsoOK'
  <2>1. queue' \in Seq(Events) /\ \A a : Follows(queue', queue, a, 0)
    BY <1>1, <1>3, AtAppend
  <2>2. /\ resources' = resources /\ info' = info /\ cam'.iso_resources = cam.iso_resources
        /\ cam'.owned = cam.owned
    BY <1>3
  <2> QED
    BY <1>3, <2>1, <2>2, QuietStep
<1>4. ASSUME queue' = OrphanedEvents, UNCHANGED <<resources, info, cam>>, call'.pc = "idle"
      PROVE  IsoOK'
  <2>1. queue' \in Seq(Events) /\ \A a : Follows(queue', queue, a, 0)
    BY <1>1, <1>4, AtOrphaned
  <2>2. /\ resources' = resources /\ info' = info /\ cam'.iso_resources = cam.iso_resources
        /\ cam'.owned = cam.owned
    BY <1>4
  <2> QED
    BY <1>4, <2>1, <2>2, QuietStep
<1>5. CASE BusReset \/ UNCHANGED vars
  BY <1>2, <1>5 DEF BusReset, vars, kernel
<1>6. CASE ReportReset
  <2>1. bus \in Nat
    BY TypeByParts DEF Inv, CountsType
  <2>2. PICK e \in Events : e = Reset(bus)
    BY <2>1, NewEvents
  <2>3. e.type \notin IsoTypes
    BY <2>2 DEF Reset, IsoTypes
  <2>4. queue' = queue \/ queue' = Append(queue, e)
    BY <1>6, <2>2 DEF ReportReset
  <2> QED
    BY <1>2, <1>3, <1>6, <2>3, <2>4 DEF ReportReset
<1>7. CASE Answer
  <2>1. PICK i \in DOMAIN requests : \E rcode \in Rcodes(requests[i].generation) :
           /\ queue' = Append(queue, Response(requests[i].attempt, rcode))
           /\ \E d \in {0, 1} : call' = [call EXCEPT !.did = call.did + d]
           /\ UNCHANGED <<resources, cam, info>>
    BY <1>7 DEF Answer
  <2>2. requests[i] \in RequestType
    BY <1>1
  <2>3. requests[i].attempt \in Attempts /\ Rcodes(requests[i].generation) \subseteq AllRcodes
    BY <2>2 DEF Rcodes, AllRcodes, RequestType
  <2>4. \E e \in Events : e.type \notin IsoTypes /\ queue' = Append(queue, e)
    <3>1. PICK rcode \in AllRcodes : queue' = Append(queue, Response(requests[i].attempt, rcode))
      BY <2>1, <2>3
    <3>2. PICK e \in Events : e = Response(requests[i].attempt, rcode)
      BY <2>3, NewEvents
    <3>3. e.type \notin IsoTypes
      BY <3>2 DEF Response, IsoTypes
    <3> QED
      BY <3>1, <3>2, <3>3
  <2>5. call'.pc = call.pc /\ call'.info = call.info
    BY <1>1, <2>1 DEF CallType
  <2> QED
    BY <1>3, <2>1, <2>4, <2>5
<1>8. CASE ReadFails \/ SendFails \/ GotResponse
  <2>1. queue' = OrphanedEvents /\ UNCHANGED <<resources, info, cam>>
    BY <1>8 DEF ReadFails, SendFails, GotResponse, TransactionReturns, OrphanTransaction
  <2>2. call'.pc = "idle"
    BY <1>8, Changed DEF ReadFails, SendFails, GotResponse, TransactionReturns
  <2> QED
    BY <1>4, <2>1, <2>2
<1>9. CASE Send \/ Retry \/ TransactionBegin
  <2>1. UNCHANGED <<queue, resources, info, cam>>
    BY <1>9 DEF Send, Retry, TransactionBegin, kernel
  <2>2. call'.pc \in {"response", "send"}
    <3>1. CASE Send
      BY <1>1, <3>1 DEF Send, CallType
    <3>2. CASE Retry
      BY <1>1, <3>2 DEF Retry, CallType
    <3>3. CASE TransactionBegin
      BY <3>3, Changed DEF TransactionBegin
    <3> QED
      BY <1>9, <3>1, <3>2, <3>3
  <2> QED
    BY <1>2, <2>1, <2>2
<1>10. CASE HandleEvent /\ ~HandleIso(Head(queue))
  <2>1. /\ queue # <<>> /\ queue' = Tail(queue) /\ resources' = resources
        /\ HandleReset(Head(queue)) \/ HandleResponse(Head(queue))
    BY <1>10 DEF HandleEvent, kernel
  <2>2. Head(queue).type \notin IsoTypes
    BY <2>1 DEF HandleReset, HandleResponse, IsoTypes
  <2>3. queue' \in Seq(Events) /\ \A a : Follows(queue', queue, a, 1)
    BY <1>1, <2>1, <2>2, AtTail
  <2>4. /\ info' = info /\ cam'.iso_resources = cam.iso_resources /\ cam'.owned = cam.owned
        /\ call'.pc = call.pc /\ call'.info = call.info
    <3>1. CASE HandleReset(Head(queue))
      BY <1>1, <3>1 DEF HandleReset, CamType
    <3>2. CASE HandleResponse(Head(queue))
      BY <1>1, <3>2 DEF HandleResponse, CallType
    <3> QED
      BY <2>1, <3>1, <3>2
  <2> QED
    BY <2>1, <2>3, <2>4, QuietStep
<1> QED
  BY <1>5, <1>6, <1>7, <1>8, <1>9, <1>10

LEMMA IsoStep ==
    ASSUME Inv, [Next]_vars
    PROVE  IsoOK'
<1>1. CASE AllocationDone \/ DeallocationDone \/ ResourceLost
  BY <1>1, AllocationStep
<1>2. CASE HandleEvent
  <2>1. CASE HandleIso(Head(queue))
    BY <1>2, <2>1, HandleIsoStep DEF HandleEvent, kernel
  <2>2. CASE ~HandleIso(Head(queue))
    BY <1>2, <2>2, QuietSteps
  <2> QED
    BY <2>1, <2>2
<1>3. CASE CameraNew
  <2>1. /\ queue = <<>> /\ resources = {} /\ queue' = queue /\ resources' = resources
    BY <1>3 DEF Inv, ClosedOK, CameraNew, kernel
  <2>2. cam'.iso_resources = {} /\ cam'.owned = {} /\ call'.pc = "idle"
    BY <1>3, Changed DEF CameraNew, ClosedCam
  <2> QED
    BY <2>1, <2>2, EmptyStep
<1>4. CASE CameraFree
  <2>1. cam'.iso_resources = {} /\ cam'.owned = {} /\ call'.pc = "idle"
    BY <1>4, Changed DEF CameraFree, ClosedCam
  <2> QED
    BY <1>4, <2>1, EmptyStep DEF CameraFree
<1>5. ASSUME NEW a \in Infos, DeallocateKnown(a) \/ DeallocateBegin(a) PROVE IsoOK'
  BY <1>5, DeallocateKnownStep, DeallocateBeginStep
<1> QED
  BY <1>1, <1>2, <1>3, <1>4, <1>5, QuietSteps, AllocateBeginStep, AllocateReturnStep, DeallocateReturnStep
  DEF Next, Kernel, Library, Client

LEMMA ClosedStep ==
    ASSUME Inv, [Next]_vars
    PROVE  ClosedOK'
<1>1. ClosedOK /\ cam \in CamType
  BY Typed DEF Inv
<1>2. CASE ~cam.open
  <2>1. /\ queue = <<>> /\ requests = <<>> /\ resources = {} /\ cam = ClosedCam /\ call.pc = "idle"
    BY <1>1, <1>2 DEF ClosedOK
  <2>2. DOMAIN requests = {}
    BY <2>1
  <2>3. BusReset \/ ReportReset \/ CameraNew \/ UNCHANGED vars
    BY <1>2, <2>1, <2>2
    DEF Next, Kernel, Library, Client, Answer, AllocationDone, DeallocationDone, ResourceLost,
        HandleEvent, ReadFails, Reading, Send, SendFails, GotResponse, Retry, AllocateReturn,
        DeallocateReturn, CameraFree, CallIdle, TransactionBegin, AllocateBegin, DeallocateKnown,
        DeallocateBegin
  <2>4. CASE CameraNew
    <3>1. cam'.open
      BY <2>4 DEF CameraNew, ClosedCam
    <3> QED
      BY <3>1 DEF ClosedOK
  <2>5. CASE BusReset \/ ReportReset \/ UNCHANGED vars
    BY <1>2, <2>1, <2>5 DEF BusReset, ReportReset, vars, kernel, ClosedOK
  <2> QED
    BY <2>3, <2>4, <2>5
<1>3. CASE cam.open
  <2>1. CASE CameraFree
    BY <2>1, Changed DEF CameraFree, ClosedOK
  <2>2. CASE ~CameraFree
    <3>1. cam'.open
      <4>1. CASE cam' = cam
        BY <1>3, <4>1
      <4>2. CASE HandleEvent
        BY <1>1, <1>3, <4>2 DEF HandleEvent, HandleReset, HandleResponse, HandleIso, CamType
      <4>3. CASE AllocateBegin
        BY <1>1, <1>3, <4>3 DEF AllocateBegin, CamType
      <4>4. CASE AllocateReturn \/ DeallocateReturn
        BY <1>1, <1>3, <4>4 DEF AllocateReturn, DeallocateReturn, RemoveIso, CamType
      <4>5. ASSUME NEW a \in Infos, DeallocateKnown(a) \/ DeallocateBegin(a) PROVE cam'.open
        BY <1>1, <1>3, <4>5 DEF DeallocateKnown, DeallocateBegin, RemoveIso, CamType
      <4>6. CASE Kernel \/ ReadFails \/ Send \/ SendFails \/ GotResponse \/ Retry
                 \/ TransactionBegin \/ UNCHANGED vars
        BY <4>1, <4>6
        DEF Kernel, BusReset, ReportReset, Answer, AllocationDone, DeallocationDone, ResourceLost,
            ReadFails, Send, SendFails, GotResponse, Retry, TransactionReturns, TransactionBegin, vars
      <4>7. ~CameraNew
        BY <1>3 DEF CameraNew
      <4> QED
        BY <2>2, <4>2, <4>3, <4>4, <4>5, <4>6, <4>7 DEF Next, Library, Client
    <3> QED
      BY <3>1 DEF ClosedOK
  <2> QED
    BY <2>1, <2>2
<1> QED
  BY <1>2, <1>3

LEMMA Initially == Init => Inv
<1>1. SUFFICES ASSUME Init PROVE Inv
  OBVIOUS
<1>2. CountsType /\ QueueType /\ resources \subseteq ResourceType
  BY <1>1 DEF Init, CountsType, QueueType
<1>3. cam \in CamType /\ info \in [Infos -> InfoState] /\ call \in CallType
  BY <1>1, QuietInfo, CallTypes DEF Init, ClosedCam, CamType
<1>4. call.pc = "idle" /\ cam.owned = {}
  BY <1>1 DEF Init, Idle, Begun, ClosedCam
<1>5. ClosedOK
  BY <1>1, <1>4 DEF Init, ClosedOK
<1>6. IsoOK
  BY <1>1, <1>4
  DEF Init, IsoOK, OwnersOK, IsoClosuresValid, UniqueOK, KnownOK, AskedOK, ApartOK, QueuedIso
<1> QED
  BY <1>2, <1>3, <1>5, <1>6, TypeByParts DEF Inv

LEMMA Inductive == Spec => []Inv
<1>1. Inv /\ [Next]_vars => Inv'
  <2>1. SUFFICES ASSUME Inv, [Next]_vars PROVE Inv'
    OBVIOUS
  <2>2. DeviceTypeOK /\ OwnersOK
    BY <2>1 DEF Inv, IsoOK
  <2> QED
    BY <2>1, <2>2, TypeStep, ClosedStep, IsoStep DEF Inv
<1> QED
  BY <1>1, Initially, PTL DEF Spec

-----------------------------------------------------------------------------
(* Theorems about isochronous resources *)

\* Every variable has its type, whatever the kernel tells and whenever a read
\* of the device fails (juju/control.c).
THEOREM DeviceTypeCorrect == Spec => []DeviceTypeOK
<1>1. Inv => DeviceTypeOK
  BY DEF Inv
<1> QED
  BY <1>1, Inductive, PTL

\* No iso event points to a structure that has been freed or belongs to another
\* handle (juju/control.c:329-365).
THEOREM ClosuresValid == Spec => []IsoClosuresValid
<1>1. Inv => IsoClosuresValid
  BY DEF Inv, IsoOK
<1> QED
  BY <1>1, Inductive, PTL

\* No resource is lost without an event that tells it (juju/control.c:343-345,
\* 361-363, 601-605).
THEOREM AllocatedStaysKnown == Spec => []AllocatedIsKnown
<1>1. Inv => AllocatedIsKnown
  <2>1. SUFFICES ASSUME Inv, NEW a \in cam.owned, ~info[a].got_dealloc
                 PROVE  \/ \E r \in resources : r.closure = a /\ r.state = "held"
                        \/ \E e \in QueuedIso : e.closure = a /\ e.type = "deallocated"
    BY DEF AllocatedIsKnown
  <2>2. Has(queue, resources, a, "held") \/ Gone(queue, resources, a)
    BY <2>1 DEF Inv, IsoOK, KnownOK, Known
  <2>3. CASE Has(queue, resources, a, "held")
    BY <2>3 DEF Has, Of
  <2>4. CASE Gone(queue, resources, a)
    BY <2>4 DEF Gone, At, QueuedIso
  <2> QED
    BY <2>2, <2>3, <2>4
<1> QED
  BY <1>1, Inductive, PTL

-----------------------------------------------------------------------------
(* Requests and their responses *)

LEMMA ResponseAppended ==
    ASSUME NEW q \in Seq(Events), NEW e \in Events
    PROVE  /\ Responses(Append(q, e))
                 = Responses(q) \cup (IF e.type = "response" THEN {Len(q) + 1} ELSE {})
           /\ \A i \in Responses(q) : Append(q, e)[i] = q[i]
           /\ Append(q, e)[Len(q) + 1] = e
<1> DEFINE p == Append(q, e)
<1> DEFINE n == Len(q)
<1>1. /\ p[n + 1] = e /\ n \in Nat
      /\ DOMAIN p = 1 .. n + 1 /\ DOMAIN q = 1 .. n
      /\ \A i \in 1 .. n : p[i] = q[i]
  OBVIOUS
<1> HIDE DEF p, n
<1>2. \A i \in 1 .. n + 1 : i \in 1 .. n \/ i = n + 1
  BY <1>1
<1>3. n + 1 \in 1 .. n + 1 /\ n + 1 \notin 1 .. n /\ \A i \in 1 .. n : i \in 1 .. n + 1
  BY <1>1
<1>4. \A i : i \in Responses(p) <=> i \in Responses(q) \/ (i = n + 1 /\ e.type = "response")
  BY <1>1, <1>2, <1>3 DEF Responses
<1>5. \A i \in Responses(q) : p[i] = q[i]
  BY <1>1 DEF Responses
<1>6. Responses(p) = Responses(q) \cup (IF e.type = "response" THEN {n + 1} ELSE {})
  BY <1>4
<1> QED
  BY <1>1, <1>5, <1>6 DEF p, n

LEMMA ResponseRead ==
    ASSUME NEW q \in Seq(Events), q # <<>>
    PROVE  /\ 1 \in Responses(q) <=> Head(q).type = "response"
           /\ q[1] = Head(q)
           /\ Responses(Tail(q)) \in SUBSET Int /\ Responses(q) \in SUBSET Int
           /\ \A i \in Int : i \in Responses(Tail(q)) <=> i + 1 \in Responses(q) /\ i # 0
           /\ \A i \in Responses(Tail(q)) : Tail(q)[i] = q[i + 1]
<1> DEFINE p == Tail(q)
<1> DEFINE n == Len(q)
<1>1. /\ n \in Nat \ {0} /\ q[1] = Head(q)
      /\ DOMAIN p = 1 .. n - 1 /\ DOMAIN q = 1 .. n
      /\ \A i \in 1 .. n - 1 : p[i] = q[i + 1]
  OBVIOUS
<1> HIDE DEF p, n
<1>2. \A i \in Int : i \in 1 .. n - 1 <=> i + 1 \in 1 .. n /\ i # 0
  BY <1>1
<1>3. 1 \in 1 .. n /\ \A i \in 1 .. n - 1 : i \in Int
  BY <1>1
<1>4. \A i \in Int : i \in Responses(p) <=> i + 1 \in Responses(q) /\ i # 0
  BY <1>1, <1>2 DEF Responses
<1>5. \A i \in Responses(p) : i \in Int /\ p[i] = q[i + 1]
  BY <1>1, <1>3 DEF Responses
<1>6. 1 \in Responses(q) <=> Head(q).type = "response"
  BY <1>1, <1>3 DEF Responses
<1>7. \A i \in Responses(q) : i \in Int
  BY <1>1 DEF Responses
<1> QED
  BY <1>1, <1>4, <1>5, <1>6, <1>7 DEF p

LEMMA NothingOrphaned ==
    ASSUME queue \in Seq(Events)
    PROVE  /\ Responses(queue) = {} => Responses(OrphanedEvents) = {}
           /\ requests = <<>> => OrphanedRequests = <<>>
<1>1. ASSUME Responses(queue) = {} PROVE Responses(OrphanedEvents) = {}
  <2>1. \A i \in DOMAIN queue : queue[i].type # "response"
    BY <1>1 DEF Responses
  <2>2. DOMAIN OrphanedEvents = DOMAIN queue /\ \A i \in DOMAIN queue : OrphanedEvents[i] = queue[i]
    BY <2>1 DEF OrphanedEvents
  <2> QED
    BY <2>1, <2>2 DEF Responses
<1>2. requests = <<>> => OrphanedRequests = <<>>
  BY DEF OrphanedRequests
<1> QED
  BY <1>1, <1>2

\* An event that is not a response is appended.
LEMMA TryingAppend ==
    ASSUME queue \in Seq(Events), Trying, requests' = requests, call' = call,
           queue' = queue \/ \E e \in Events : e.type # "response" /\ queue' = Append(queue, e)
    PROVE  Trying'
<1>1. Responses(queue') = Responses(queue) /\ \A i \in Responses(queue) : queue'[i] = queue[i]
  <2>1. CASE queue' = queue
    BY <2>1
  <2>2. ASSUME NEW e \in Events, e.type # "response", queue' = Append(queue, e)
        PROVE  Responses(queue') = Responses(queue) /\ \A i \in Responses(queue) : queue'[i] = queue[i]
    <3>1. /\ Responses(Append(queue, e))
                = Responses(queue) \cup (IF e.type = "response" THEN {Len(queue) + 1} ELSE {})
          /\ \A i \in Responses(queue) : Append(queue, e)[i] = queue[i]
      BY ResponseAppended
    <3>2. Responses(Append(queue, e)) = Responses(queue)
      BY <2>2, <3>1
    <3> QED
      BY <2>2, <3>1, <3>2
  <2> QED
    BY <2>1, <2>2
<1>2. Waits => Waits'
  BY <1>1 DEF Waits
<1> QED
  BY <1>1, <1>2 DEF Trying

\* The kernel answers the one request that is under way.
LEMMA TryingAnswer ==
    ASSUME Inv, Trying, Answer
    PROVE  Trying'
<1>1. queue \in Seq(Events) /\ requests \in Seq(RequestType) /\ call \in CallType
  BY Typed
<1> DEFINE Done(n, rcode) == IF n = Orphan THEN {0}
                             ELSE CASE rcode = "COMPLETE" -> {1}
                                    [] rcode = "ERROR"    -> {0, 1}
                                    [] OTHER              -> {0}
<1>0. PICK i \in DOMAIN requests : \E rcode \in Rcodes(requests[i].generation) :
         /\ requests' = RemoveAt(requests, i)
         /\ queue' = Append(queue, Response(requests[i].attempt, rcode))
         /\ \E d \in Done(requests[i].attempt, rcode) : call' = [call EXCEPT !.did = call.did + d]
  BY DEF Answer
<1>2. PICK rcode \in Rcodes(requests[i].generation) :
         /\ requests' = RemoveAt(requests, i)
         /\ queue' = Append(queue, Response(requests[i].attempt, rcode))
         /\ \E d \in Done(requests[i].attempt, rcode) : call' = [call EXCEPT !.did = call.did + d]
  BY <1>0
<1>3. requests # <<>>
  BY <1>2
<1>4. /\ call.pc = "response" /\ ~call.got /\ Responses(queue) = {} /\ call.did = 0
      /\ \E m \in {requests[j] : j \in DOMAIN requests} : requests = <<m>> /\ m.attempt # Orphan
  BY <1>3 DEF Trying, Waits
<1>5. PICK m : requests = <<m>> /\ m.attempt # Orphan
  BY <1>4
<1>6. i = 1 /\ requests[i] = m
  BY <1>2, <1>5
<1>7. requests' = <<>>
  BY <1>1, <1>2, <1>5, <1>6 DEF RemoveAt
<1>8. m \in RequestType
  BY <1>1, <1>2, <1>6
<1>9. m.attempt \in Attempts /\ rcode \in AllRcodes
  BY <1>2, <1>6, <1>8 DEF RequestType, Rcodes, AllRcodes
<1>10. PICK e \in Events : e = Response(m.attempt, rcode)
  BY <1>9, NewEvents
<1>11. e.type = "response" /\ e.attempt # Orphan /\ e.rcode = rcode
  BY <1>5, <1>10 DEF Response
<1>12. PICK j : j = Len(queue) + 1
  OBVIOUS
<1>13. Responses(queue') = {j} /\ queue'[j] = e
  BY <1>1, <1>2, <1>4, <1>6, <1>10, <1>11, <1>12, ResponseAppended
<1>14. PICK d \in {0, 1} : /\ call' = [call EXCEPT !.did = call.did + d]
                           /\ rcode = "COMPLETE" => d = 1
                           /\ rcode \notin {"COMPLETE", "ERROR"} => d = 0
  <2>1. \E d \in (CASE rcode = "COMPLETE" -> {1}
                    [] rcode = "ERROR"    -> {0, 1}
                    [] OTHER              -> {0}) : call' = [call EXCEPT !.did = call.did + d]
    BY <1>2, <1>5, <1>6
  <2>2. CASE rcode = "COMPLETE"
    BY <2>1, <2>2
  <2>3. CASE rcode = "ERROR"
    BY <2>1, <2>3
  <2>4. CASE rcode # "COMPLETE" /\ rcode # "ERROR"
    BY <2>1, <2>4
  <2> QED
    BY <2>2, <2>3, <2>4
<1>15. call'.did = d /\ call'.pc = "response" /\ ~call'.got
  BY <1>1, <1>4, <1>14 DEF CallType
<1>16. DoneBy(e.rcode, call'.did)
  BY <1>11, <1>14, <1>15 DEF DoneBy
<1>17. Waits'
  BY <1>7, <1>11, <1>13, <1>15, <1>16 DEF Waits
<1> QED
  BY <1>14, <1>15, <1>17 DEF Trying

\* The library reads an event: if it is a response, then the one that it waits for.
LEMMA TryingRead ==
    ASSUME Inv, Trying, HandleEvent
    PROVE  Trying'
<1>1. queue \in Seq(Events) /\ call \in CallType
  BY Typed
<1>2. /\ queue # <<>> /\ queue' = Tail(queue) /\ requests' = requests
      /\ HandleReset(Head(queue)) \/ HandleResponse(Head(queue)) \/ HandleIso(Head(queue))
  BY DEF HandleEvent, kernel
<1>3. /\ 1 \in Responses(queue) <=> Head(queue).type = "response"
      /\ queue[1] = Head(queue)
      /\ Responses(queue') \in SUBSET Int /\ Responses(queue) \in SUBSET Int
      /\ \A i \in Int : i \in Responses(queue') <=> i + 1 \in Responses(queue) /\ i # 0
      /\ \A i \in Responses(queue') : queue'[i] = queue[i + 1]
  BY <1>1, <1>2, ResponseRead
<1>4. Responses(queue) = {} => Responses(queue') = {}
  BY <1>3
<1>5. CASE Head(queue).type # "response"
  <2>1. call' = call
    BY <1>2, <1>5 DEF HandleReset, HandleResponse, HandleIso
  <2>2. ASSUME NEW i \in Responses(queue), Responses(queue) = {i}
        PROVE  /\ i - 1 \in Responses(queue') /\ queue'[i - 1] = queue[i]
               /\ Responses(queue') = {i - 1}
    <3>1. i \in Int /\ i # 1
      BY <1>3, <1>5
    <3>2. PICK k \in Int : k = i - 1 /\ k + 1 = i /\ k # 0
      BY <3>1
    <3>3. k \in Responses(queue') /\ queue'[k] = queue[i]
      BY <1>3, <3>2
    <3>4. \A m \in Int : m + 1 = i => m = k
      BY <3>2
    <3>5. \A m \in Responses(queue') : m = k
      BY <1>3, <2>2, <3>4
    <3> QED
      BY <3>2, <3>3, <3>5
  <2>3. ASSUME Waits PROVE Waits'
    <3>1. CASE \/ ~call.got /\ Responses(queue) = {} /\ call.did = 0
               \/ call.got /\ requests = <<>> /\ Responses(queue) = {} /\ DoneBy(call.rcode, call.did)
      BY <1>2, <1>4, <2>1, <2>3, <3>1 DEF Waits
    <3>2. CASE /\ ~call.got /\ requests = <<>>
               /\ \E i \in Responses(queue) : /\ Responses(queue) = {i} /\ queue[i].attempt # Orphan
                                              /\ DoneBy(queue[i].rcode, call.did)
      <4>1. PICK i \in Responses(queue) : /\ Responses(queue) = {i} /\ queue[i].attempt # Orphan
                                          /\ DoneBy(queue[i].rcode, call.did)
        BY <3>2
      <4>2. \E j \in Responses(queue') : /\ Responses(queue') = {j} /\ queue'[j].attempt # Orphan
                                         /\ DoneBy(queue'[j].rcode, call.did)
        BY <2>2, <4>1
      <4> QED
        BY <1>2, <2>1, <3>2, <4>2 DEF Waits
    <3> QED
      BY <2>3, <3>1, <3>2 DEF Waits
  <2> QED
    BY <1>2, <1>4, <2>1, <2>3 DEF Trying
<1>6. CASE Head(queue).type = "response"
  <2>1. 1 \in Responses(queue)
    BY <1>3, <1>6
  <2>2. /\ call.pc = "response" /\ requests = <<>> /\ Responses(queue) = {1}
        /\ queue[1].attempt # Orphan /\ DoneBy(queue[1].rcode, call.did)
    BY <2>1 DEF Trying, Waits
  <2>3. HandleResponse(Head(queue))
    BY <1>2, <1>6 DEF HandleReset, HandleIso, IsoTypes
  <2>4. call' = [call EXCEPT !.got = TRUE, !.rcode = queue[1].rcode]
    BY <1>3, <2>2, <2>3 DEF HandleResponse
  <2>5. Head(queue) \in Events /\ Head(queue).rcode \in AllRcodes
    BY <1>1, <1>2, <1>6, AtTail, EventKinds
  <2>6. call'.got /\ call'.rcode = queue[1].rcode /\ call'.did = call.did /\ call'.pc = "response"
    BY <1>1, <2>2, <2>4 DEF CallType
  <2>7. \A i \in Int : i + 1 = 1 => i = 0
    OBVIOUS
  <2>8. Responses(queue') = {}
    BY <1>3, <2>2, <2>7
  <2> QED
    BY <1>2, <2>2, <2>6, <2>8 DEF Trying, Waits
<1> QED
  BY <1>5, <1>6

\* A try begins, is repeated, or is the last one.
LEMMA TryingSend ==
    ASSUME Inv, Trying, TransactionBegin \/ Send \/ SendFails \/ GotResponse \/ Retry
    PROVE  Trying'
<1>1. queue \in Seq(Events) /\ requests \in Seq(RequestType) /\ call \in CallType
  BY Typed
<1>2. CASE TransactionBegin
  <2>1. call' = Begun("transaction", "send") /\ queue' = queue /\ requests' = requests /\ call.pc = "idle"
    BY <1>2 DEF TransactionBegin, CallIdle, kernel
  <2>2. call'.did = 0 /\ call'.pc = "send"
    BY <2>1 DEF Begun
  <2> QED
    BY <2>1, <2>2 DEF Trying
<1>3. CASE Send
  <2>1. /\ call.pc = "send" /\ queue' = queue
        /\ requests' = Append(requests, [attempt |-> call.tries + 1, generation |-> cam.generation])
        /\ call' = [call EXCEPT !.pc = "response", !.got = FALSE, !.tries = @ + 1]
    BY <1>3 DEF Send
  <2>2. requests = <<>> /\ Responses(queue) = {} /\ call.did = 0
    BY <2>1 DEF Trying
  <2>3. call'.pc = "response" /\ ~call'.got /\ call'.did = 0
    BY <1>1, <2>1, <2>2 DEF CallType
  <2>4. PICK m : m = [attempt |-> call.tries + 1, generation |-> cam.generation]
    OBVIOUS
  <2>5. m.attempt # Orphan
    BY <1>1, <2>4, DeviceAssumption DEF CallType, Attempts, Orphan
  <2>6. requests' = <<m>> /\ m \in {requests'[i] : i \in DOMAIN requests'}
    BY <2>1, <2>2, <2>4
  <2>7. Waits'
    BY <2>1, <2>2, <2>3, <2>5, <2>6 DEF Waits
  <2> QED
    BY <2>3, <2>7 DEF Trying
<1>4. CASE SendFails \/ GotResponse
  <2>1. PICK err \in Errors : /\ call' = Returned(err)
                              /\ queue' = OrphanedEvents /\ requests' = OrphanedRequests
                              /\ err = "SUCCESS" => call.pc = "response" /\ call.got /\ call.rcode = "COMPLETE"
    BY <1>4 DEF SendFails, GotResponse, TransactionReturns, OrphanTransaction, Errors
  <2>2. /\ requests = <<>> /\ Responses(queue) = {}
        /\ call.rcode = "COMPLETE" /\ call.pc = "response" => call.did = 1
    BY <1>4 DEF SendFails, GotResponse, Trying, Waits, DoneBy
  <2>3. requests' = <<>> /\ Responses(queue') = {}
    BY <1>1, <2>1, <2>2, NothingOrphaned
  <2>4. call'.pc = "idle" /\ call'.did = call.did /\ call'.err = err
    BY <2>1 DEF Returned, Idle, Begun
  <2> QED
    BY <2>1, <2>2, <2>3, <2>4 DEF Trying
<1>5. CASE Retry
  <2>1. /\ call.pc = "response" /\ call.got /\ call.rcode \in {"BUSY", "GENERATION"}
        /\ call' = [call EXCEPT !.pc = "send"] /\ queue' = queue /\ requests' = requests
    BY <1>5 DEF Retry, RetryRcodes, kernel
  <2>2. requests = <<>> /\ Responses(queue) = {} /\ call.did = 0
    BY <2>1 DEF Trying, Waits, DoneBy
  <2>3. call'.pc = "send" /\ call'.did = 0
    BY <1>1, <2>1, <2>2 DEF CallType
  <2> QED
    BY <2>1, <2>2, <2>3 DEF Trying
<1> QED
  BY <1>2, <1>3, <1>4, <1>5

\* Calls about iso resources send no request.
LEMMA TryingIso ==
    ASSUME Inv, Trying,
           \/ AllocateBegin \/ AllocateReturn \/ DeallocateReturn
           \/ \E a \in Infos : DeallocateKnown(a) \/ DeallocateBegin(a)
    PROVE  Trying'
<1>1. queue' = queue /\ requests' = requests
  BY DEF AllocateBegin, AllocateReturn, DeallocateReturn, DeallocateKnown, DeallocateBegin, kernel
<1>2. call.pc # "response" /\ (call.pc \in {"alloc", "dealloc"} \/ call.pc = "idle")
  BY DEF AllocateBegin, AllocateReturn, DeallocateReturn, DeallocateKnown, DeallocateBegin, CallIdle
<1>3. requests = <<>> /\ Responses(queue) = {} /\ call.did \in {0, 1}
  BY <1>2 DEF Trying
<1>4. /\ call'.did \in {0, 1} /\ call'.op # "transaction"
      /\ call'.pc \notin {"response", "send"}
  <2>1. CASE AllocateReturn \/ DeallocateReturn
    <3>1. PICK err : call' = Returned(err)
      BY <2>1 DEF AllocateReturn, DeallocateReturn
    <3>2. call.op # "transaction"
      BY <2>1 DEF AllocateReturn, DeallocateReturn, Trying
    <3> QED
      BY <1>3, <3>1, <3>2 DEF Returned, Idle, Begun
  <2>2. CASE AllocateBegin
    BY <2>2 DEF AllocateBegin, Begun
  <2>3. ASSUME NEW a \in Infos, DeallocateKnown(a) \/ DeallocateBegin(a)
        PROVE  /\ call'.did \in {0, 1} /\ call'.op # "transaction"
               /\ call'.pc \notin {"response", "send"}
    BY <2>3 DEF DeallocateKnown, DeallocateBegin, Idle, Begun
  <2> QED
    BY <2>1, <2>2, <2>3
<1> QED
  BY <1>1, <1>3, <1>4 DEF Trying

LEMMA TriesStep ==
    ASSUME Inv, TriesOK, [Next]_vars
    PROVE  TriesOK'
<1>1. /\ queue \in Seq(Events) /\ resources \subseteq ResourceType /\ call \in CallType
      /\ failures \in Nat /\ bus \in Nat
  BY Typed, TypeByParts DEF Inv, CountsType
<1>2. CASE CameraNew \/ CameraFree
  <2>1. queue' = <<>> /\ requests' = <<>> /\ call' = Idle("none")
    BY <1>2 DEF Inv, ClosedOK, CameraNew, CameraFree, kernel
  <2>2. Responses(queue') = {}
    BY <2>1 DEF Responses
  <2>3. call'.pc = "idle" /\ call'.op = "none" /\ call'.did = 0
    BY <2>1 DEF Idle, Begun
  <2> QED
    BY <2>1, <2>2, <2>3 DEF TriesOK, Trying
<1>3. CASE ReadFails
  <2>1. failures' # 0
    BY <1>1, <1>3 DEF ReadFails
  <2> QED
    BY <2>1 DEF TriesOK
<1>4. CASE ~(CameraNew \/ CameraFree \/ ReadFails)
  <2>1. failures' = failures
    BY <1>4
    DEF Next, Kernel, Library, Client, vars, BusReset, ReportReset, Answer, AllocationDone,
        DeallocationDone, ResourceLost, HandleEvent, Send, SendFails, GotResponse, TransactionReturns,
        Retry, AllocateReturn, DeallocateReturn, TransactionBegin, AllocateBegin, DeallocateKnown,
        DeallocateBegin
  <2>2. SUFFICES ASSUME Trying PROVE Trying'
    BY <2>1 DEF TriesOK
  <2>3. CASE BusReset \/ UNCHANGED vars
    BY <1>1, <2>2, <2>3, TryingAppend DEF BusReset, vars, kernel
  <2>4. CASE ReportReset
    <3>1. PICK e \in Events : e = Reset(bus)
      BY <1>1, NewEvents
    <3>2. e.type # "response"
      BY <3>1 DEF Reset
    <3> QED
      BY <1>1, <2>2, <2>4, <3>1, <3>2, TryingAppend DEF ReportReset
  <2>5. CASE AllocationDone \/ DeallocationDone \/ ResourceLost
    <3>1. PICK r \in resources, ok \in BOOLEAN :
             queue' = Append(queue, Allocated(r, ok)) \/ queue' = Append(queue, Deallocated(r))
      BY <2>5 DEF AllocationDone, DeallocationDone, ResourceLost
    <3>2. r \in ResourceType
      BY <1>1
    <3>3. /\ Allocated(r, ok) \in Events /\ Allocated(r, ok).type # "response"
          /\ Deallocated(r) \in Events /\ Deallocated(r).type # "response"
      BY <3>2, NewEvents DEF Allocated, Deallocated
    <3>4. \E e \in Events : e.type # "response" /\ queue' = Append(queue, e)
      BY <3>1, <3>3
    <3>5. requests' = requests /\ call' = call
      BY <2>5 DEF AllocationDone, DeallocationDone, ResourceLost
    <3> QED
      BY <1>1, <2>2, <3>4, <3>5, TryingAppend
  <2> QED
    BY <1>4, <2>2, <2>3, <2>4, <2>5, TryingAnswer, TryingRead, TryingSend, TryingIso
    DEF Next, Kernel, Library, Client
<1> QED
  BY <1>2, <1>3, <1>4

\* A request that is sent again has not been carried out before, unless a read
\* has failed in between (juju/control.c:398-440).
THEOREM DoneAtMostOnce == Spec => []DoneOnce
<1>1. Init => TriesOK
  <2>1. SUFFICES ASSUME Init PROVE Trying
    BY DEF TriesOK
  <2>2. queue = <<>> /\ requests = <<>> /\ call = Idle("none")
    BY <2>1 DEF Init
  <2>3. call.pc = "idle" /\ call.op = "none" /\ call.did = 0 /\ Responses(queue) = {}
    BY <2>2 DEF Idle, Begun, Responses
  <2> QED
    BY <2>2, <2>3 DEF Trying
<1>2. Inv /\ TriesOK /\ [Next]_vars => TriesOK'
  BY TriesStep
<1>3. TriesOK => DoneOnce
  BY DEF TriesOK, Trying, DoneOnce
<1> QED
  BY <1>1, <1>2, <1>3, Inductive, PTL DEF Spec
=============================================================================

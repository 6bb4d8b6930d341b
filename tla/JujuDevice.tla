----------------------------- MODULE JujuDevice -----------------------------
(***************************************************************************)
(* The character device of a camera under the Juju stack: juju/control.c.  *)
(*                                                                         *)
(* The kernel puts everything it has to tell into one queue of events:     *)
(* responses to requests, bus resets, and what became of isochronous       *)
(* resources.  The library reads events only inside a call that waits for  *)
(* one of them, and handles all that come before it.  A response carries   *)
(* the address of a structure on the stack of do_transaction(), an iso     *)
(* event the address of a juju_iso_info that the camera keeps in a list.   *)
(***************************************************************************)
EXTENDS Naturals, Sequences, SequencesExt, FiniteSets

CONSTANTS
    Infos,          \* addresses that calloc() may give to a juju_iso_info
    Handles,        \* the kernel's handles for iso resources
    MaxTries,       \* 300 in do_transaction()
    MaxGeneration,  \* bound: bus resets happen up to this generation
    MaxFailures     \* bound: how often read() of the device fails

NoAddress == 0    \* NULL

ASSUME DeviceAssumption ==
    /\ IsFiniteSet(Infos) /\ Infos \subseteq Nat \ {NoAddress}
    /\ IsFiniteSet(Handles) /\ Handles \subseteq Nat \ {0}
    /\ MaxTries \in Nat \ {0} /\ MaxGeneration \in Nat /\ MaxFailures \in Nat

VARIABLES
    bus,        \* generation of the bus
    reported,   \* the generation that the kernel has told the device's users
    queue,      \* events to be read, oldest first
    requests,   \* requests that are not answered yet: [attempt, generation]
    resources,  \* iso resources in the kernel: [handle, closure, state]
    cam,        \* the platform_camera_t: [open, generation, iso_resources, owned]
    info,       \* the juju_iso_info at each address
    call,       \* the call in progress, or the last one
    failures    \* failed reads since the camera was opened

kernel == <<bus, reported, requests, resources>>
vars == <<kernel, queue, cam, info, call, failures>>

Orphan == 0    \* the attempt of a transaction that has returned since

Reset(g)         == [type |-> "reset", generation |-> g]
Response(n, rc)  == [type |-> "response", attempt |-> n, rcode |-> rc]
Allocated(r, ok) == [type |-> "allocated", closure |-> r.closure, handle |-> r.handle, ok |-> ok]
Deallocated(r)   == [type |-> "deallocated", closure |-> r.closure, handle |-> r.handle, ok |-> FALSE]
IsoTypes == {"allocated", "deallocated"}

NoInfo == [got_alloc |-> FALSE, got_dealloc |-> FALSE, ok |-> FALSE, handle |-> 0]
ClosedCam == [open |-> FALSE, generation |-> 0, iso_resources |-> {}, owned |-> {}]

\* did counts how often the camera has carried out the request of a transaction.
Begun(op, pc) == [op |-> op, pc |-> pc, err |-> "SUCCESS", tries |-> 0, got |-> FALSE,
                  rcode |-> "NONE", did |-> 0, info |-> NoAddress]
Idle(op) == Begun(op, "idle")
Returned(err) == [Idle(call.op) EXCEPT !.err = err, !.did = call.did]

Init ==
    /\ bus = 0 /\ reported = 0
    /\ queue = <<>> /\ requests = <<>> /\ resources = {}
    /\ cam = ClosedCam
    /\ info = [a \in Infos |-> NoInfo]
    /\ call = Idle("none")
    /\ failures = 0

-----------------------------------------------------------------------------
(* The kernel, as firewire-cdev.h describes it *)

BusReset ==
    /\ bus < MaxGeneration
    /\ bus' = bus + 1
    /\ UNCHANGED <<reported, queue, requests, resources, cam, info, call, failures>>

\* The event may come after answers that the reset has caused.
ReportReset ==
    /\ reported # bus
    /\ reported' = bus
    /\ queue' = IF cam.open THEN Append(queue, Reset(bus)) ELSE queue
    /\ UNCHANGED <<bus, requests, resources, cam, info, call, failures>>

\* BUSY stands for the rcodes that mean "not done, try again", ERROR for those
\* after which nobody knows.
Rcodes(g) == IF g = bus THEN {"COMPLETE", "BUSY", "ERROR"} ELSE {"GENERATION", "ERROR"}

Answer ==
    \E i \in DOMAIN requests : \E rcode \in Rcodes(requests[i].generation) :
        LET n == requests[i].attempt
            done == IF n = Orphan THEN {0}
                    ELSE CASE rcode = "COMPLETE" -> {1}
                           [] rcode = "ERROR"    -> {0, 1}
                           [] OTHER              -> {0} IN
        /\ requests' = RemoveAt(requests, i)
        /\ queue' = Append(queue, Response(n, rcode))
        /\ \E d \in done : call' = [call EXCEPT !.did = @ + d]
        /\ UNCHANGED <<bus, reported, resources, cam, info, failures>>

\* The kernel has asked the IRM for a resource.
AllocationDone ==
    \E r \in resources :
        /\ r.state = "allocating"
        /\ \/ /\ resources' = (resources \ {r}) \cup {[r EXCEPT !.state = "held"]}
              /\ queue' = Append(queue, Allocated(r, TRUE))
           \/ /\ resources' = resources \ {r}
              /\ queue' = Append(queue, Allocated(r, FALSE))
        /\ UNCHANGED <<bus, reported, requests, cam, info, call, failures>>

DeallocationDone ==
    \E r \in resources :
        /\ r.state = "deallocating"
        /\ resources' = resources \ {r}
        /\ queue' = Append(queue, Deallocated(r))
        /\ UNCHANGED <<bus, reported, requests, cam, info, call, failures>>

\* After a bus reset the kernel could not get the resource again.
ResourceLost ==
    \E r \in resources :
        /\ r.state = "held" /\ bus > 0
        /\ resources' = resources \ {r}
        /\ queue' = Append(queue, Deallocated(r))
        /\ UNCHANGED <<bus, reported, requests, cam, info, call, failures>>

-----------------------------------------------------------------------------
(* Opening and freeing the camera *)

CallIdle == cam.open /\ call.pc = "idle"

\* FW_CDEV_IOC_GET_INFO tells the generation of the bus as it is reported.
CameraNew ==
    /\ ~cam.open
    /\ cam' = [ClosedCam EXCEPT !.open = TRUE, !.generation = reported]
    /\ failures' = 0
    /\ call' = Idle("none")
    /\ UNCHANGED <<kernel, queue, info>>

\* Closing the descriptor makes the kernel forget queue, requests and resources.
CameraFree ==
    /\ CallIdle
    /\ cam' = ClosedCam
    /\ info' = [a \in Infos |-> NoInfo]
    /\ queue' = <<>> /\ requests' = <<>> /\ resources' = {}
    /\ call' = Idle("none")
    /\ UNCHANGED <<bus, reported, failures>>

-----------------------------------------------------------------------------
(* juju_handle_event() *)

\* Each of the three waiting loops first looks whether its answer has come.
GotIt == \/ call.pc = "response" /\ call.got
         \/ call.pc = "alloc" /\ info[call.info].got_alloc
         \/ call.pc = "dealloc" /\ info[call.info].got_dealloc
Reading == call.pc \in {"response", "alloc", "dealloc"} /\ ~GotIt

\* What a transaction leaves unanswered when it returns points to a structure
\* that is gone.
OrphanedRequests == [i \in DOMAIN requests |-> [requests[i] EXCEPT !.attempt = Orphan]]
OrphanedEvents ==
    [i \in DOMAIN queue |->
        IF queue[i].type = "response" THEN [queue[i] EXCEPT !.attempt = Orphan] ELSE queue[i]]
OrphanTransaction == queue' = OrphanedEvents /\ requests' = OrphanedRequests

HandleReset(e) ==
    /\ e.type = "reset"
    /\ cam' = [cam EXCEPT !.generation = e.generation]
    /\ UNCHANGED <<info, call>>

\* The structure of a transaction that waits now may have the address that an
\* orphan's structure had.
HandleResponse(e) ==
    /\ e.type = "response"
    /\ \/ /\ call.pc = "response"
          /\ call' = [call EXCEPT !.got = TRUE, !.rcode = e.rcode]
       \/ e.attempt = Orphan /\ UNCHANGED call
    /\ UNCHANGED <<cam, info>>

\* Faulty variant: an allocation that failed is not taken for an answer.
HandleIsoGranted(e) ==
    /\ e.type \in IsoTypes
    /\ info' = [info EXCEPT ![e.closure] =
                   IF e.type = "allocated"
                   THEN [@ EXCEPT !.got_alloc = e.ok, !.ok = e.ok]
                   ELSE [@ EXCEPT !.got_dealloc = TRUE, !.ok = e.ok]]
    /\ UNCHANGED <<cam, call>>

HandleIso(e) ==
    /\ e.type \in IsoTypes
    /\ info' = [info EXCEPT ![e.closure] =
                   IF e.type = "allocated"
                   THEN [@ EXCEPT !.got_alloc = TRUE, !.ok = e.ok]
                   ELSE [@ EXCEPT !.got_dealloc = TRUE, !.ok = e.ok]]
    /\ UNCHANGED <<cam, call>>

HandleEvent ==
    /\ Reading /\ queue # <<>>
    /\ HandleReset(Head(queue)) \/ HandleResponse(Head(queue)) \/ HandleIso(Head(queue))
    /\ queue' = Tail(queue)
    /\ UNCHANGED <<kernel, failures>>

\* Faulty variant: the structure of the resource waited for is freed.
ReadFailsFrees ==
    /\ Reading /\ failures < MaxFailures
    /\ failures' = failures + 1
    /\ cam' = [cam EXCEPT !.iso_resources = @ \ {call.info}]
    /\ call' = Returned("FAILURE")
    /\ OrphanTransaction
    /\ UNCHANGED <<bus, reported, resources, info>>

\* Every call passes the failure on; a juju_iso_info stays in the list.
ReadFails ==
    /\ Reading /\ failures < MaxFailures
    /\ failures' = failures + 1
    /\ call' = Returned("FAILURE")
    /\ OrphanTransaction
    /\ UNCHANGED <<bus, reported, resources, cam, info>>

-----------------------------------------------------------------------------
(* do_transaction() *)

TransactionBegin ==
    /\ CallIdle
    /\ call' = Begun("transaction", "send")
    /\ UNCHANGED <<kernel, queue, cam, info, failures>>

\* Faulty variant: the answer to the try before is not cleared.
SendUncleared ==
    /\ call.pc = "send" /\ call.tries < MaxTries
    /\ requests' = Append(requests, [attempt |-> call.tries + 1, generation |-> cam.generation])
    /\ call' = [call EXCEPT !.pc = "response", !.tries = @ + 1]
    /\ UNCHANGED <<bus, reported, queue, resources, cam, info, failures>>

Send ==
    /\ call.pc = "send" /\ call.tries < MaxTries
    /\ requests' = Append(requests, [attempt |-> call.tries + 1, generation |-> cam.generation])
    /\ call' = [call EXCEPT !.pc = "response", !.got = FALSE, !.tries = @ + 1]
    /\ UNCHANGED <<bus, reported, queue, resources, cam, info, failures>>

TransactionReturns(err) ==
    /\ call' = Returned(err)
    /\ OrphanTransaction
    /\ UNCHANGED <<bus, reported, resources, cam, info, failures>>

\* The ioctl fails, or the tries are used up.
SendFails == call.pc = "send" /\ TransactionReturns("FAILURE")

RetryRcodes == {"BUSY", "GENERATION"}

GotResponse ==
    /\ call.pc = "response" /\ call.got
    /\ call.rcode \notin RetryRcodes
    /\ TransactionReturns(IF call.rcode = "COMPLETE" THEN "SUCCESS" ELSE "FAILURE")

Retry ==
    /\ call.pc = "response" /\ call.got
    /\ call.rcode \in RetryRcodes
    /\ call' = [call EXCEPT !.pc = "send"]
    /\ UNCHANGED <<kernel, queue, cam, info, failures>>

-----------------------------------------------------------------------------
(* juju_iso_allocate() and juju_iso_deallocate() *)

RemoveIso(a) ==
    /\ cam' = [cam EXCEPT !.iso_resources = @ \ {a}, !.owned = @ \ {a}]
    /\ info' = [info EXCEPT ![a] = NoInfo]

\* An ioctl that the kernel refuses leaves everything as it was.
AllocateBegin ==
    /\ CallIdle
    /\ \E a \in Infos \ cam.iso_resources, h \in Handles \ {r.handle : r \in resources} :
          /\ cam' = [cam EXCEPT !.iso_resources = @ \cup {a}]
          /\ info' = [info EXCEPT ![a] = [NoInfo EXCEPT !.handle = h]]
          /\ resources' = resources \cup {[handle |-> h, closure |-> a, state |-> "allocating"]}
          /\ call' = [Begun("allocate", "alloc") EXCEPT !.info = a]
    /\ UNCHANGED <<bus, reported, queue, requests, failures>>

\* Faulty variant: the event is taken for a success whatever it says.
AllocateUnchecked ==
    /\ call.pc = "alloc" /\ info[call.info].got_alloc
    /\ cam' = [cam EXCEPT !.owned = @ \cup {call.info}]
    /\ call' = Returned("SUCCESS")
    /\ UNCHANGED <<kernel, queue, info, failures>>

AllocateReturn ==
    /\ call.pc = "alloc" /\ info[call.info].got_alloc
    /\ IF info[call.info].ok
       THEN /\ cam' = [cam EXCEPT !.owned = @ \cup {call.info}]
            /\ call' = Returned("SUCCESS")
            /\ UNCHANGED info
       ELSE /\ RemoveIso(call.info)
            /\ call' = Returned("FAILURE")
    /\ UNCHANGED <<kernel, queue, failures>>

\* An event has already told that the resource is gone.
DeallocateKnown(a) ==
    /\ CallIdle /\ a \in cam.owned
    /\ info[a].got_dealloc
    /\ RemoveIso(a)
    /\ call' = Idle("deallocate")
    /\ UNCHANGED <<kernel, queue, failures>>

\* The kernel knows the handle, or it has lost the resource without the library
\* knowing: then the ioctl fails and the structure stays in the list.  The
\* caller forgets the resource either way.
DeallocateBegin(a) ==
    /\ CallIdle /\ a \in cam.owned
    /\ ~info[a].got_dealloc
    /\ cam' = [cam EXCEPT !.owned = @ \ {a}]
    /\ \/ \E r \in resources :
             /\ r.handle = info[a].handle
             /\ resources' = (resources \ {r}) \cup {[r EXCEPT !.state = "deallocating"]}
             /\ call' = [Begun("deallocate", "dealloc") EXCEPT !.info = a]
       \/ /\ info[a].handle \notin {r.handle : r \in resources}
          /\ call' = [Idle("deallocate") EXCEPT !.err = "FAILURE"]
          /\ UNCHANGED resources
    /\ UNCHANGED <<bus, reported, queue, requests, info, failures>>

DeallocateReturn ==
    /\ call.pc = "dealloc" /\ info[call.info].got_dealloc
    /\ RemoveIso(call.info)
    /\ call' = Returned("SUCCESS")
    /\ UNCHANGED <<kernel, queue, failures>>

-----------------------------------------------------------------------------
Kernel == BusReset \/ ReportReset \/ Answer \/ AllocationDone \/ DeallocationDone \/ ResourceLost
Library == \/ HandleEvent \/ ReadFails
           \/ Send \/ SendFails \/ GotResponse \/ Retry
           \/ AllocateReturn \/ DeallocateReturn
Client == \/ CameraNew \/ CameraFree \/ TransactionBegin \/ AllocateBegin
          \/ \E a \in Infos : DeallocateKnown(a) \/ DeallocateBegin(a)

Next == Kernel \/ Library \/ Client

Spec == Init /\ [][Next]_vars

(***************************************************************************)
(* The kernel answers what it is asked, and a call in progress goes on.    *)
(* Nobody owes a bus reset, the loss of a resource, or a call.             *)
(***************************************************************************)
Fairness ==
    /\ WF_vars(Answer) /\ WF_vars(AllocationDone) /\ WF_vars(DeallocationDone)
    /\ WF_vars(HandleEvent) /\ WF_vars(Send \/ SendFails)
    /\ WF_vars(GotResponse) /\ WF_vars(Retry)
    /\ WF_vars(AllocateReturn) /\ WF_vars(DeallocateReturn)

FairSpec == Spec /\ Fairness

-----------------------------------------------------------------------------
(* Properties *)

Errors == {"SUCCESS", "FAILURE"}
AllRcodes == {"COMPLETE", "BUSY", "GENERATION", "ERROR"}
Attempts == 0 .. MaxTries
InfoState == [got_alloc : BOOLEAN, got_dealloc : BOOLEAN, ok : BOOLEAN, handle : Handles \cup {0}]
Events == [type : {"reset"}, generation : Nat]
          \cup [type : {"response"}, attempt : Attempts, rcode : AllRcodes]
          \cup [type : IsoTypes, closure : Infos, handle : Handles, ok : BOOLEAN]

\* Every variable has its type.
DeviceTypeOK ==
    /\ bus \in Nat /\ reported \in Nat /\ failures \in Nat
    /\ queue \in Seq(Events)
    /\ requests \in Seq([attempt : Attempts, generation : Nat])
    /\ resources \subseteq [handle : Handles, closure : Infos,
                           state : {"allocating", "held", "deallocating"}]
    /\ cam \in [open : BOOLEAN, generation : Nat, iso_resources : SUBSET Infos, owned : SUBSET Infos]
    /\ info \in [Infos -> InfoState]
    /\ call \in [op : {"none", "transaction", "allocate", "deallocate"},
                 pc : {"idle", "send", "response", "alloc", "dealloc"}, err : Errors,
                 tries : Attempts, got : BOOLEAN, rcode : AllRcodes \cup {"NONE"},
                 did : Nat, info : Infos \cup {NoAddress}]

QueuedIso == {queue[i] : i \in {j \in DOMAIN queue : queue[j].type \in IsoTypes}}

\* Whatever the kernel still has to tell of a resource, the juju_iso_info it
\* points to is allocated and is the one of that handle, even after reads have
\* failed and resources were lost: no event writes to freed memory, and "handle
\* was %d, expected %d" is never logged (juju/control.c:336-338, 354-356).
IsoClosuresValid ==
    /\ \A r \in resources :
          r.closure \in cam.iso_resources /\ info[r.closure].handle = r.handle
    /\ \A e \in QueuedIso :
          e.closure \in cam.iso_resources /\ info[e.closure].handle = e.handle

\* What the library believes to be allocated the kernel holds, or is giving
\* back, or has told the library about: no resource is lost silently
\* (juju/control.c:343-345, 361-363, 601-605).
AllocatedIsKnown ==
    \A a \in cam.owned : ~info[a].got_dealloc =>
       \/ \E r \in resources : r.closure = a /\ r.state = "held"
       \/ \E e \in QueuedIso : e.closure = a /\ e.type = "deallocated"

\* As long as no read has failed, the camera carries out a request at most once
\* however often it is sent, and exactly once if the transaction succeeds
\* (juju/control.c:398-440).
DoneOnce ==
    failures = 0 =>
       /\ call.did <= 1
       /\ call.op = "transaction" /\ call.pc = "idle" /\ call.err = "SUCCESS" => call.did = 1

\* Every call returns, whatever comes in between (juju/control.c:398-440, 580-582,
\* 617-619).
CallsReturn == call.pc # "idle" ~> call.pc = "idle"
=============================================================================

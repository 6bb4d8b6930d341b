-------------------------- MODULE UsbCaptureProofs --------------------------
(***************************************************************************)
(* Theorems about UsbCapture and UsbCaptureRing, for every number of       *)
(* buffers and whether or not pthread_create() can fail: what holds under  *)
(* both disciplines of the application, by the invariant Inv; and, for an  *)
(* application that returns frames in the order it got them, that the ring *)
(* stays in order and implements FrameRing, by RingInv.                    *)
(*                                                                         *)
(* The frames that the application holds, that wait, and that a transfer   *)
(* has are three stretches of the ring; RingInv says how long each is.     *)
(***************************************************************************)
EXTENDS UsbCaptureRing, RingLemmas

\* Where the two threads can be, and what setup holds then.
PhasesOK ==
    /\ ~HelperAt("none") => res = Resources
    /\ AppAt("idle") /\ capture_is_set => res = Resources
    /\ AppAt("idle") \/ capture_is_set
    /\ app.pc \in {"read", "enter", "exit"} => res = Resources
    /\ AppAt("release") \/ AppAt("setup") => HelperAt("none")
    /\ AppAt("setup") => "thread" \notin res

\* Nothing is in use before the buffers are submitted.
Quiet ==
    /\ held = {}
    /\ notify_pipe = 0
    /\ \A f \in Frames : status[f] = "EMPTY"
QuietOK ==
    /\ AppAt("setup") \/ (AppAt("idle") /\ ~capture_is_set) => Quiet
    /\ AppAt("idle") /\ ~capture_is_set => inflight = <<>> /\ res = {}
    /\ AppAt("setup") /\ "transfers" \notin res => inflight = <<>>
    /\ AppAt("setup") /\ "buffer" \in res => frames_ready = 0
    /\ "buffer" \notin res => notify_pipe = 0

\* The registers hold the counter while their thread holds the mutex.
MutexOK ==
    /\ HelperAt("exit") <=> mutex = "helper"
    /\ AppAt("exit") <=> mutex = "app"
    /\ HelperAt("exit") => helper.ready = frames_ready
    /\ AppAt("exit") => app.ready = frames_ready

\* The status of a frame tells who has it.
OwnersOK ==
    /\ \A i, j \in DOMAIN inflight : inflight[i] = inflight[j] => i = j
    /\ \A i \in DOMAIN inflight : status[inflight[i]] = "EMPTY"
    /\ \A f \in held : status[f] # "EMPTY"
    /\ InCallback => /\ status[helper.frame] = "EMPTY"
                     /\ \A i \in DOMAIN inflight : inflight[i] # helper.frame

Inv == TypeOK /\ PhasesOK /\ QuietOK /\ MutexOK /\ OwnersOK /\ NotifyBounded

\* The ring arithmetic of NEXT_BUFFER stays within the ring.
LEMMA RingStep == ASSUME NEW x \in Nat PROVE x % NumFrames \in Frames
  BY NumFramesAssumption DEF Frames

LEMMA NextBufferInFrames == TypeOK => NextBuffer \in Frames
  <1>1. ASSUME TypeOK, current # -1 PROVE current + 1 \in Nat
    BY <1>1 DEF TypeOK, Frames
  <1>2. 0 \in Frames BY NumFramesAssumption DEF Frames
  <1>3. QED BY RingStep, <1>1, <1>2 DEF NextBuffer, Next_frame

\* The ready frames can be counted, before and after a step.
LEMMA ReadyFinite ==
    TypeOK => IsFiniteSet(Ready) /\ Cardinality(Ready) \in Nat /\ Cardinality(Ready) <= NumFrames
  <1>1. IsFiniteSet(Frames) /\ Cardinality(Frames) = NumFrames
    BY FS_Interval, NumFramesAssumption DEF Frames
  <1>2. Ready \subseteq Frames BY DEF Ready
  <1>3. QED BY <1>1, <1>2, FS_Subset, FS_CardinalityType

LEMMA ReadyFinitePrime ==
    TypeOK' => IsFiniteSet(Ready') /\ Cardinality(Ready') \in Nat
  <1>1. IsFiniteSet(Frames) BY FS_Interval, NumFramesAssumption DEF Frames
  <1>2. Ready' \subseteq Frames BY DEF Ready
  <1>3. QED BY <1>1, <1>2, FS_Subset, FS_CardinalityType

-----------------------------------------------------------------------------
\* Every step of either thread preserves Inv.
LEMMA InvStep == Inv /\ [Next]_vars => Inv'
<1> USE NumFramesAssumption
<1> USE DEF capture, threads, session, client, AppAt, AppGoto, HelperAt, HelperGoto,
            Running, NoHelper, Returned, Frames, NoFrame
<1> SUFFICES ASSUME Inv, [Next]_vars PROVE Inv'
  OBVIOUS
<1>1. ASSUME SetupBegin PROVE Inv'
  <2>1. TypeOK'
    BY <1>1 DEF SetupBegin, Inv, TypeOK, NotifyBounded, AppState, AppPC, Policies
  <2>2. PhasesOK'
    <3>1. UNCHANGED <<res, helper>> /\ app'.pc \in {"setup", "stop"} /\ capture_is_set'
      BY <1>1 DEF SetupBegin, Inv, TypeOK, AppState
    <3>2. res = {} BY <1>1 DEF SetupBegin, Inv, QuietOK
    <3>3. HelperAt("none") BY <3>2 DEF Inv, PhasesOK, Resources
    <3>4. QED BY <3>1, <3>2, <3>3 DEF PhasesOK
  <2>3. QuietOK'
    BY <1>1 DEF SetupBegin, Inv, QuietOK, Quiet, PhasesOK, TypeOK, Resources
  <2>4. MutexOK'
    BY <1>1 DEF SetupBegin, Inv, MutexOK, PhasesOK, TypeOK, HelperState, AppState
  <2>5. OwnersOK'
    BY <1>1 DEF SetupBegin, Inv, OwnersOK, InCallback, PhasesOK, QuietOK, Quiet, TypeOK
  <2>6. NotifyBounded'
    BY <1>1
    DEF SetupBegin, Inv, NotifyBounded, Notified, OneIf, PhasesOK, QuietOK, Quiet, TypeOK,
        HelperState, AppState, Ready
  <2>7. QED BY <2>1, <2>2, <2>3, <2>4, <2>5, <2>6 DEF Inv
<1>2. ASSUME NEW r \in Resources, SetupAcquire(r) PROVE Inv'
  <2>1. TypeOK'
    <3>1. app' \in AppState BY <1>2 DEF SetupAcquire, Inv, TypeOK, AppState, AppPC
    <3>2. status' \in [Frames -> Status] /\ oldest' \in Frames /\ res' \subseteq Resources
      BY <1>2 DEF SetupAcquire, Inv, TypeOK, Status
    <3>3. /\ current' \in Frames \cup {-1} /\ frames_ready' \in Nat
          /\ queue_broken' \in BOOLEAN
      <4>1. CASE r = "buffer"
        <5>1. current' = -1 /\ frames_ready' = 0 /\ queue_broken' = FALSE
          BY <1>2, <4>1 DEF SetupAcquire
        <5>2. QED BY <5>1
      <4>2. CASE r # "buffer" BY <1>2, <4>2 DEF SetupAcquire, Inv, TypeOK
      <4>3. QED BY <4>1, <4>2
    <3>4. UNCHANGED <<notify_pipe, mutex, kill_thread, helper, inflight, capture_is_set,
                      iso_auto_started, held, result>>
      BY <1>2 DEF SetupAcquire
    <3>5. QED BY <3>1, <3>2, <3>3, <3>4 DEF Inv, TypeOK
  <2>2. PhasesOK'
    <3>1. HelperAt("none") /\ "thread" \notin res /\ capture_is_set
      BY <1>2 DEF SetupAcquire, Inv, PhasesOK
    <3>2. app'.pc \in {"setup", "stop"} /\ UNCHANGED <<helper, capture_is_set>>
      BY <1>2 DEF SetupAcquire, Inv, TypeOK, AppState
    <3>3. "thread" \notin res' BY <1>2, <3>1 DEF SetupAcquire
    <3>4. QED BY <3>1, <3>2, <3>3 DEF PhasesOK
  <2>3. QuietOK'
    BY <1>2 DEF SetupAcquire, Inv, QuietOK, Quiet, PhasesOK, TypeOK, Resources, AcquiredBefore
  <2>4. MutexOK'
    BY <1>2
    DEF SetupAcquire, Inv, MutexOK, PhasesOK, TypeOK, HelperState, AppState,
        AcquiredBefore, Resources
  <2>5. OwnersOK'
    <3>1. held' = {} /\ \A f \in Frames : status'[f] = "EMPTY"
      BY <1>2 DEF SetupAcquire, Inv, QuietOK, Quiet
    <3>2. UNCHANGED <<inflight, helper>> /\ inflight \in Seq(Frames)
      BY <1>2 DEF SetupAcquire, Inv, TypeOK
    <3>3. HelperAt("none")
      BY <1>2 DEF SetupAcquire, Inv, PhasesOK
    <3>4. QED BY <3>1, <3>2, <3>3 DEF Inv, OwnersOK, InCallback
  <2>6. NotifyBounded'
    <3>1. "buffer" \in res' => frames_ready' = 0 /\ notify_pipe' = 0
      BY <1>2 DEF SetupAcquire, Inv, QuietOK, Quiet, AcquiredBefore
    <3>2. HelperAt("none")' /\ (AppAt("setup") \/ AppAt("stop"))'
      BY <1>2 DEF SetupAcquire, Inv, PhasesOK, TypeOK, AppState
    <3>3. Cardinality(Ready)' \in Nat
      BY <2>1, ReadyFinitePrime
    <3>4. QED BY <3>1, <3>2, <3>3 DEF NotifyBounded, Notified, OneIf
  <2>7. QED BY <2>1, <2>2, <2>3, <2>4, <2>5, <2>6 DEF Inv
<1>3. ASSUME SetupSubmit PROVE Inv'
  <2>1. TypeOK'
    <3>1. app' \in AppState BY <1>3 DEF SetupSubmit, Inv, TypeOK, AppState, AppPC
    <3>2. inflight' \in Seq(Frames)
      <4>1. PICK n \in 0 .. NumFrames : inflight' = [i \in 1 .. n |-> i - 1]
        BY <1>3 DEF SetupSubmit
      <4>2. QED BY <4>1
    <3>3. QED BY <1>3, <3>1, <3>2 DEF SetupSubmit, Inv, TypeOK, Resources
  <2>2. PhasesOK'
    <3>1. HelperAt("none") /\ "thread" \notin res /\ capture_is_set
      BY <1>3 DEF SetupSubmit, Inv, PhasesOK
    <3>2. app'.pc \in {"setup", "stop"} /\ UNCHANGED <<helper, capture_is_set>>
      BY <1>3 DEF SetupSubmit, Inv, TypeOK, AppState
    <3>3. "thread" \notin res' BY <1>3, <3>1 DEF SetupSubmit
    <3>4. QED BY <3>1, <3>2, <3>3 DEF PhasesOK
  <2>3. QuietOK'
    <3>1. app'.pc \in {"setup", "stop"} /\ UNCHANGED <<held, notify_pipe, status, frames_ready>>
      BY <1>3 DEF SetupSubmit, Inv, TypeOK, AppState
    <3>2. app'.pc = "setup" => "transfers" \in res'
      BY <1>3 DEF SetupSubmit, Inv, TypeOK, AppState
    <3>3. "buffer" \in res => frames_ready = 0
      BY <1>3 DEF SetupSubmit, Inv, QuietOK
    <3>4. "buffer" \in res
      BY <1>3 DEF SetupSubmit, AcquiredBefore, Resources
    <3>5. Quiet BY <1>3 DEF SetupSubmit, Inv, QuietOK
    <3>6. res \subseteq res' BY <1>3 DEF SetupSubmit
    <3>7. QED BY <3>1, <3>2, <3>3, <3>4, <3>5, <3>6 DEF QuietOK, Quiet
  <2>4. MutexOK'
    BY <1>3
    DEF SetupSubmit, Inv, MutexOK, PhasesOK, TypeOK, HelperState, AppState,
        AcquiredBefore, Resources
  <2>5. OwnersOK'
    <3>1. PICK n \in 0 .. NumFrames : inflight' = [i \in 1 .. n |-> i - 1]
      BY <1>3 DEF SetupSubmit
    <3>2. QED BY <1>3, <3>1 DEF SetupSubmit, Inv, PhasesOK, QuietOK, Quiet, OwnersOK, InCallback
  <2>6. NotifyBounded'
    BY <1>3
    DEF SetupSubmit, Inv, NotifyBounded, Notified, OneIf, PhasesOK, QuietOK, Quiet,
        TypeOK, HelperState, AppState, Ready, AcquiredBefore, Resources
  <2>7. QED BY <2>1, <2>2, <2>3, <2>4, <2>5, <2>6 DEF Inv
<1>4. ASSUME SetupLaunch PROVE Inv'
  <2>1. TypeOK'
    BY <1>4
    DEF SetupLaunch, Inv, TypeOK, NotifyBounded, AcquiredBefore, Resources, AppState,
        AppPC, Policies, HelperState, HelperPC, Status
  <2>2. PhasesOK'
    BY <1>4 DEF SetupLaunch, Inv, PhasesOK, Resources, AcquiredBefore
  <2>3. QuietOK'
    BY <1>4 DEF SetupLaunch, Inv, QuietOK, Quiet, PhasesOK, TypeOK, Resources, AcquiredBefore
  <2>4. MutexOK'
    BY <1>4
    DEF SetupLaunch, Inv, MutexOK, PhasesOK, TypeOK, HelperState, AppState,
        AcquiredBefore, Resources
  <2>5. OwnersOK'
    BY <1>4
    DEF SetupLaunch, Inv, OwnersOK, InCallback, PhasesOK, QuietOK, Quiet, TypeOK,
        AcquiredBefore, Resources
  <2>6. NotifyBounded'
    BY <1>4
    DEF SetupLaunch, Inv, NotifyBounded, Notified, OneIf, PhasesOK, QuietOK, Quiet,
        TypeOK, HelperState, AppState, Ready, AcquiredBefore, Resources
  <2>7. QED BY <2>1, <2>2, <2>3, <2>4, <2>5, <2>6 DEF Inv
<1>5. ASSUME CallbackBegin PROVE Inv'
  <2>1. TypeOK'
    <3>1. Head(inflight) \in Frames /\ Tail(inflight) \in Seq(Frames)
      BY <1>5 DEF CallbackBegin, Inv, TypeOK
    <3>2. helper' \in HelperState /\ helper'.frame \in Frames /\ helper'.status # "EMPTY"
      BY <1>5, <3>1 DEF CallbackBegin, Inv, TypeOK, HelperState, HelperPC, Status
    <3>3. QED BY <1>5, <3>1, <3>2 DEF CallbackBegin, Inv, TypeOK
  <2>2. PhasesOK'
    BY <1>5 DEF CallbackBegin, Inv, PhasesOK, Resources
  <2>3. QuietOK'
    BY <1>5 DEF CallbackBegin, Inv, QuietOK, Quiet, PhasesOK, TypeOK, Resources
  <2>4. MutexOK'
    BY <1>5 DEF CallbackBegin, Inv, MutexOK, PhasesOK, TypeOK, HelperState, AppState
  <2>5. OwnersOK'
    <3>1. /\ inflight \in Seq(Frames) /\ inflight # <<>>
          /\ inflight' = Tail(inflight)
          /\ helper'.frame = Head(inflight)
          /\ UNCHANGED <<status, held>>
      BY <1>5 DEF CallbackBegin, Inv, TypeOK, HelperState
    <3>2. /\ Head(inflight) = inflight[1] /\ 1 \in DOMAIN inflight
          /\ \A i \in DOMAIN Tail(inflight) :
                /\ i + 1 \in DOMAIN inflight
                /\ i \in Nat
                /\ Tail(inflight)[i] = inflight[i + 1]
      BY <3>1
    <3>3. QED BY <3>1, <3>2 DEF Inv, OwnersOK, InCallback
  <2>6. NotifyBounded'
    BY <1>5
    DEF CallbackBegin, Inv, NotifyBounded, Notified, OneIf, PhasesOK, QuietOK, Quiet,
        TypeOK, HelperState, AppState, Ready
  <2>7. QED BY <2>1, <2>2, <2>3, <2>4, <2>5, <2>6 DEF Inv
<1>6. ASSUME CallbackLock PROVE Inv'
  <2>1. TypeOK'
    BY <1>6 DEF CallbackLock, Inv, TypeOK, NotifyBounded, HelperState, HelperPC, Status
  <2>2. PhasesOK'
    BY <1>6 DEF CallbackLock, Inv, PhasesOK, Resources
  <2>3. QuietOK'
    BY <1>6 DEF CallbackLock, Inv, QuietOK, Quiet, PhasesOK, TypeOK, Resources
  <2>4. MutexOK'
    BY <1>6 DEF CallbackLock, Inv, MutexOK, PhasesOK, TypeOK, HelperState, AppState
  <2>5. OwnersOK'
    BY <1>6 DEF CallbackLock, Inv, OwnersOK, InCallback, PhasesOK, QuietOK, Quiet, TypeOK
  <2>6. NotifyBounded'
    BY <1>6
    DEF CallbackLock, Inv, NotifyBounded, Notified, OneIf, PhasesOK, QuietOK, Quiet,
        TypeOK, HelperState, AppState, Ready
  <2>7. QED BY <2>1, <2>2, <2>3, <2>4, <2>5, <2>6 DEF Inv
<1>7. ASSUME CallbackFill PROVE Inv'
  <2>1. TypeOK'
    <3>1. helper' \in HelperState /\ helper'.frame = helper.frame /\ helper'.status = helper.status
      BY <1>7 DEF CallbackFill, Inv, TypeOK, HelperState, HelperPC
    <3>2. /\ helper.frame \in Frames /\ helper.ready \in Nat
          /\ helper.status \in Status /\ helper.status # "EMPTY"
      BY <1>7 DEF CallbackFill, Inv, TypeOK, HelperState
    <3>3. QED BY <1>7, <3>1, <3>2 DEF CallbackFill, Inv, TypeOK
  <2>2. PhasesOK'
    BY <1>7 DEF CallbackFill, Inv, PhasesOK, Resources
  <2>3. QuietOK'
    BY <1>7 DEF CallbackFill, Inv, QuietOK, Quiet, PhasesOK, TypeOK, Resources
  <2>4. MutexOK'
    BY <1>7 DEF CallbackFill, Inv, MutexOK, PhasesOK, TypeOK, HelperState, AppState
  <2>5. OwnersOK'
    BY <1>7 DEF CallbackFill, Inv, OwnersOK, InCallback, PhasesOK, QuietOK, Quiet, TypeOK
  <2>6. NotifyBounded'
    <3> DEFINE g == helper.frame
    <3>1. g \in Frames /\ g \notin Ready /\ g \notin held /\ helper.status # "EMPTY"
      BY <1>7 DEF CallbackFill, Inv, TypeOK, OwnersOK, InCallback, Ready
    <3>2. Ready' = Ready \cup {g}
      BY <1>7, <3>1 DEF CallbackFill, Ready, Inv, TypeOK
    <3>3. Cardinality(Ready') = Cardinality(Ready) + 1
      BY <3>1, <3>2, ReadyFinite, FS_AddElement DEF Inv
    <3>4. frames_ready' = frames_ready + 1 /\ Notified' = Notified + 1 /\ UNCHANGED res
      BY <1>7 DEF CallbackFill, Inv, MutexOK, TypeOK, Notified, OneIf, HelperState
    <3>5. Notified \in Nat /\ frames_ready \in Nat /\ Cardinality(Ready) \in Nat
      BY ReadyFinite DEF Inv, TypeOK, Notified, OneIf
    <3>6. QED BY <3>3, <3>4, <3>5 DEF Inv, NotifyBounded
  <2>7. QED BY <2>1, <2>2, <2>3, <2>4, <2>5, <2>6 DEF Inv
<1>8. ASSUME CallbackNotify PROVE Inv'
  <2>1. TypeOK'
    <3>1. helper' \in HelperState /\ helper'.pc = "events"
      BY <1>8 DEF CallbackNotify, Inv, TypeOK, HelperState, HelperPC
    <3>2. QED BY <1>8, <3>1 DEF CallbackNotify, Inv, TypeOK
  <2>2. PhasesOK'
    BY <1>8 DEF CallbackNotify, Inv, PhasesOK, Resources
  <2>3. QuietOK'
    BY <1>8 DEF CallbackNotify, Inv, QuietOK, Quiet, PhasesOK, TypeOK, Resources
  <2>4. MutexOK'
    BY <1>8 DEF CallbackNotify, Inv, MutexOK, PhasesOK, TypeOK, HelperState, AppState
  <2>5. OwnersOK'
    BY <1>8 DEF CallbackNotify, Inv, OwnersOK, InCallback, PhasesOK, QuietOK, Quiet, TypeOK
  <2>6. NotifyBounded'
    BY <1>8
    DEF CallbackNotify, Inv, NotifyBounded, Notified, OneIf, PhasesOK, QuietOK, Quiet,
        TypeOK, HelperState, AppState, Ready
  <2>7. QED BY <2>1, <2>2, <2>3, <2>4, <2>5, <2>6 DEF Inv
<1>9. ASSUME EventsReturn PROVE Inv'
  <2>1. TypeOK'
    BY <1>9 DEF EventsReturn, Inv, TypeOK, NotifyBounded, HelperState, HelperPC, Status
  <2>2. PhasesOK'
    BY <1>9 DEF EventsReturn, Inv, PhasesOK, Resources
  <2>3. QuietOK'
    BY <1>9 DEF EventsReturn, Inv, QuietOK, Quiet, PhasesOK, TypeOK, Resources
  <2>4. MutexOK'
    BY <1>9 DEF EventsReturn, Inv, MutexOK, PhasesOK, TypeOK, HelperState, AppState
  <2>5. OwnersOK'
    BY <1>9 DEF EventsReturn, Inv, OwnersOK, InCallback, PhasesOK, QuietOK, Quiet, TypeOK
  <2>6. NotifyBounded'
    BY <1>9
    DEF EventsReturn, Inv, NotifyBounded, Notified, OneIf, PhasesOK, QuietOK, Quiet,
        TypeOK, HelperState, AppState, Ready
  <2>7. QED BY <2>1, <2>2, <2>3, <2>4, <2>5, <2>6 DEF Inv
<1>10. ASSUME CheckKill PROVE Inv'
  <2>1. TypeOK'
    BY <1>10 DEF CheckKill, Inv, TypeOK, NotifyBounded, HelperState, HelperPC, Status
  <2>2. PhasesOK'
    BY <1>10 DEF CheckKill, Inv, PhasesOK, Resources
  <2>3. QuietOK'
    BY <1>10 DEF CheckKill, Inv, QuietOK, Quiet, PhasesOK, TypeOK, Resources
  <2>4. MutexOK'
    BY <1>10 DEF CheckKill, Inv, MutexOK, PhasesOK, TypeOK, HelperState, AppState
  <2>5. OwnersOK'
    BY <1>10 DEF CheckKill, Inv, OwnersOK, InCallback, PhasesOK, QuietOK, Quiet, TypeOK
  <2>6. NotifyBounded'
    BY <1>10
    DEF CheckKill, Inv, NotifyBounded, Notified, OneIf, PhasesOK, QuietOK, Quiet, TypeOK,
        HelperState, AppState, Ready
  <2>7. QED BY <2>1, <2>2, <2>3, <2>4, <2>5, <2>6 DEF Inv
<1>11. ASSUME NEW policy \in Policies, DequeueEmpty(policy) PROVE Inv'
  <2>1. TypeOK'
    BY <1>11 DEF DequeueEmpty, Inv, TypeOK, NotifyBounded, Result
  <2>2. PhasesOK'
    BY <1>11 DEF DequeueEmpty, Inv, PhasesOK, Resources
  <2>3. QuietOK'
    BY <1>11 DEF DequeueEmpty, Inv, QuietOK, Quiet, PhasesOK, TypeOK, Resources
  <2>4. MutexOK'
    BY <1>11 DEF DequeueEmpty, Inv, MutexOK, PhasesOK, TypeOK, HelperState, AppState
  <2>5. OwnersOK'
    BY <1>11 DEF DequeueEmpty, Inv, OwnersOK, InCallback, PhasesOK, QuietOK, Quiet, TypeOK
  <2>6. NotifyBounded'
    BY <1>11
    DEF DequeueEmpty, Inv, NotifyBounded, Notified, OneIf, PhasesOK, QuietOK, Quiet,
        TypeOK, HelperState, AppState, Ready
  <2>7. QED BY <2>1, <2>2, <2>3, <2>4, <2>5, <2>6 DEF Inv
<1>12. ASSUME NEW policy \in Policies, DequeueBroken(policy) PROVE Inv'
  <2>1. TypeOK'
    BY <1>12 DEF DequeueBroken, Inv, TypeOK, NotifyBounded, Result
  <2>2. PhasesOK'
    BY <1>12 DEF DequeueBroken, Inv, PhasesOK, Resources
  <2>3. QuietOK'
    BY <1>12 DEF DequeueBroken, Inv, QuietOK, Quiet, PhasesOK, TypeOK, Resources
  <2>4. MutexOK'
    BY <1>12 DEF DequeueBroken, Inv, MutexOK, PhasesOK, TypeOK, HelperState, AppState
  <2>5. OwnersOK'
    BY <1>12 DEF DequeueBroken, Inv, OwnersOK, InCallback, PhasesOK, QuietOK, Quiet, TypeOK
  <2>6. NotifyBounded'
    BY <1>12
    DEF DequeueBroken, Inv, NotifyBounded, Notified, OneIf, PhasesOK, QuietOK, Quiet,
        TypeOK, HelperState, AppState, Ready
  <2>7. QED BY <2>1, <2>2, <2>3, <2>4, <2>5, <2>6 DEF Inv
<1>13. ASSUME NEW policy \in Policies, DequeueBegin(policy) PROVE Inv'
  <2>1. TypeOK'
    BY <1>13 DEF DequeueBegin, Inv, TypeOK, NotifyBounded, AppState, AppPC, Policies
  <2>2. PhasesOK'
    BY <1>13 DEF DequeueBegin, Inv, PhasesOK, Resources
  <2>3. QuietOK'
    BY <1>13 DEF DequeueBegin, Inv, QuietOK, Quiet, PhasesOK, TypeOK, Resources
  <2>4. MutexOK'
    BY <1>13 DEF DequeueBegin, Inv, MutexOK, PhasesOK, TypeOK, HelperState, AppState
  <2>5. OwnersOK'
    BY <1>13 DEF DequeueBegin, Inv, OwnersOK, InCallback, PhasesOK, QuietOK, Quiet, TypeOK
  <2>6. NotifyBounded'
    BY <1>13
    DEF DequeueBegin, Inv, NotifyBounded, Notified, OneIf, PhasesOK, QuietOK, Quiet,
        TypeOK, HelperState, AppState, Ready
  <2>7. QED BY <2>1, <2>2, <2>3, <2>4, <2>5, <2>6 DEF Inv
<1>14. ASSUME DequeueRead PROVE Inv'
  <2>1. TypeOK'
    <3>1. app' \in AppState
      BY <1>14 DEF DequeueRead, Inv, TypeOK, AppState, AppPC
    <3>2. QED BY <1>14, <3>1 DEF DequeueRead, Inv, TypeOK
  <2>2. PhasesOK'
    BY <1>14 DEF DequeueRead, Inv, PhasesOK, Resources
  <2>3. QuietOK'
    BY <1>14 DEF DequeueRead, Inv, QuietOK, Quiet, PhasesOK, TypeOK, Resources
  <2>4. MutexOK'
    BY <1>14 DEF DequeueRead, Inv, MutexOK, PhasesOK, TypeOK, HelperState, AppState
  <2>5. OwnersOK'
    BY <1>14 DEF DequeueRead, Inv, OwnersOK, InCallback, PhasesOK, QuietOK, Quiet, TypeOK
  <2>6. NotifyBounded'
    BY <1>14
    DEF DequeueRead, Inv, NotifyBounded, Notified, OneIf, PhasesOK, QuietOK, Quiet,
        TypeOK, HelperState, AppState, Ready
  <2>7. QED BY <2>1, <2>2, <2>3, <2>4, <2>5, <2>6 DEF Inv
<1>15. ASSUME DequeueInterrupted PROVE Inv'
  <2>1. TypeOK'
    BY <1>15 DEF DequeueInterrupted, Inv, TypeOK, NotifyBounded, AppState, AppPC, Policies, Result
  <2>2. PhasesOK'
    BY <1>15 DEF DequeueInterrupted, Inv, PhasesOK, Resources
  <2>3. QuietOK'
    BY <1>15 DEF DequeueInterrupted, Inv, QuietOK, Quiet, PhasesOK, TypeOK, Resources
  <2>4. MutexOK'
    BY <1>15 DEF DequeueInterrupted, Inv, MutexOK, PhasesOK, TypeOK, HelperState, AppState
  <2>5. OwnersOK'
    BY <1>15 DEF DequeueInterrupted, Inv, OwnersOK, InCallback, PhasesOK, QuietOK, Quiet, TypeOK
  <2>6. NotifyBounded'
    BY <1>15
    DEF DequeueInterrupted, Inv, NotifyBounded, Notified, OneIf, PhasesOK, QuietOK, Quiet,
        TypeOK, HelperState, AppState, Ready
  <2>7. QED BY <2>1, <2>2, <2>3, <2>4, <2>5, <2>6 DEF Inv
<1>16. ASSUME DequeueLock PROVE Inv'
  <2>1. TypeOK'
    BY <1>16 DEF DequeueLock, Inv, TypeOK, NotifyBounded, AppState, AppPC, Policies
  <2>2. PhasesOK'
    BY <1>16 DEF DequeueLock, Inv, PhasesOK, Resources
  <2>3. QuietOK'
    BY <1>16 DEF DequeueLock, Inv, QuietOK, Quiet, PhasesOK, TypeOK, Resources
  <2>4. MutexOK'
    BY <1>16 DEF DequeueLock, Inv, MutexOK, PhasesOK, TypeOK, HelperState, AppState
  <2>5. OwnersOK'
    BY <1>16 DEF DequeueLock, Inv, OwnersOK, InCallback, PhasesOK, QuietOK, Quiet, TypeOK
  <2>6. NotifyBounded'
    BY <1>16
    DEF DequeueLock, Inv, NotifyBounded, Notified, OneIf, PhasesOK, QuietOK, Quiet,
        TypeOK, HelperState, AppState, Ready
  <2>7. QED BY <2>1, <2>2, <2>3, <2>4, <2>5, <2>6 DEF Inv
<1>17. ASSUME DequeueUnexpected PROVE Inv'
  <2>1. TypeOK'
    BY <1>17 DEF DequeueUnexpected, Inv, TypeOK, NotifyBounded, AppState, AppPC, Policies, Result
  <2>2. PhasesOK'
    BY <1>17 DEF DequeueUnexpected, Inv, PhasesOK, Resources
  <2>3. QuietOK'
    BY <1>17 DEF DequeueUnexpected, Inv, QuietOK, Quiet, PhasesOK, TypeOK, Resources
  <2>4. MutexOK'
    BY <1>17 DEF DequeueUnexpected, Inv, MutexOK, PhasesOK, TypeOK, HelperState, AppState
  <2>5. OwnersOK'
    BY <1>17 DEF DequeueUnexpected, Inv, OwnersOK, InCallback, PhasesOK, QuietOK, Quiet, TypeOK
  <2>6. NotifyBounded'
    BY <1>17
    DEF DequeueUnexpected, Inv, NotifyBounded, Notified, OneIf, PhasesOK, QuietOK, Quiet,
        TypeOK, HelperState, AppState, Ready
  <2>7. QED BY <2>1, <2>2, <2>3, <2>4, <2>5, <2>6 DEF Inv
<1>18. ASSUME DequeueTake PROVE Inv'
  <2>1. TypeOK'
    <3>1. NextBuffer \in Frames BY NextBufferInFrames DEF Inv
    <3>2. app' \in AppState BY <1>18 DEF DequeueTake, Inv, TypeOK, AppState, AppPC
    <3>3. result' \in Result BY <1>18, <3>1 DEF DequeueTake, Result
    <3>4. frames_ready' \in Nat
      BY <1>18
      DEF DequeueTake, Inv, TypeOK, MutexOK, PhasesOK, NotifyBounded, Notified, OneIf,
          Resources
    <3>5. QED BY <1>18, <3>1, <3>2, <3>3, <3>4 DEF DequeueTake, Inv, TypeOK
  <2>2. PhasesOK'
    BY <1>18 DEF DequeueTake, Inv, PhasesOK, Resources
  <2>3. QuietOK'
    BY <1>18 DEF DequeueTake, Inv, QuietOK, Quiet, PhasesOK, TypeOK, Resources
  <2>4. MutexOK'
    BY <1>18 DEF DequeueTake, Inv, MutexOK, PhasesOK, TypeOK, HelperState, AppState
  <2>5. OwnersOK'
    BY <1>18 DEF DequeueTake, Inv, OwnersOK, InCallback, PhasesOK, QuietOK, Quiet, TypeOK
  <2>6. NotifyBounded'
    <3>1. NextBuffer \in Frames BY NextBufferInFrames DEF Inv
    <3>2. Ready' = Ready \ {NextBuffer}
      BY <1>18, <3>1 DEF DequeueTake, Ready
    <3>3. Cardinality(Ready') >= Cardinality(Ready) - 1 /\ Cardinality(Ready') \in Nat
      <4>1. CASE NextBuffer \in Ready
        <5>1. Cardinality(Ready') = Cardinality(Ready) - 1
          BY <4>1, <3>2, ReadyFinite, FS_RemoveElement DEF Inv
        <5>2. Cardinality(Ready') \in Nat
          BY <2>1, ReadyFinitePrime
        <5>3. QED BY <5>1, <5>2, ReadyFinite DEF Inv
      <4>2. CASE NextBuffer \notin Ready
        <5>1. Ready' = Ready BY <4>2, <3>2
        <5>2. QED BY <5>1, ReadyFinite DEF Inv
      <4>3. QED BY <4>1, <4>2
    <3>4. frames_ready' = frames_ready - 1 /\ Notified' = Notified - 1 /\ UNCHANGED res
      BY <1>18 DEF DequeueTake, Inv, MutexOK, TypeOK, Notified, OneIf, AppState
    <3>5. Notified \in Nat /\ frames_ready \in Nat /\ Cardinality(Ready) \in Nat
      BY ReadyFinite DEF Inv, TypeOK, Notified, OneIf
    <3>6. QED BY <3>3, <3>4, <3>5 DEF Inv, NotifyBounded
  <2>7. QED BY <2>1, <2>2, <2>3, <2>4, <2>5, <2>6 DEF Inv
<1>19. ASSUME NEW f \in Frames, Enqueue(f) PROVE Inv'
  <2>1. TypeOK'
    <3>1. oldest' \in Frames
      <4>1. oldest + 1 \in Nat BY DEF Inv, TypeOK
      <4>2. Next_frame(oldest) \in Frames BY <4>1, RingStep DEF Next_frame
      <4>3. QED BY <1>19, <4>2 DEF Enqueue, Inv, TypeOK
    <3>2. inflight' \in Seq(Frames)
      <4>1. inflight' \in {inflight, Append(inflight, f)} BY <1>19 DEF Enqueue
      <4>2. inflight \in Seq(Frames) /\ f \in Frames BY <1>19 DEF Inv, TypeOK
      <4>3. Append(inflight, f) \in Seq(Frames) BY <4>2
      <4>4. QED BY <4>1, <4>2, <4>3
    <3>4. result' \in Result BY <1>19 DEF Enqueue, Result
    <3>5. queue_broken' \in BOOLEAN
      BY <1>19 DEF Enqueue, Inv, TypeOK
    <3>3. status' \in [Frames -> Status] BY <1>19 DEF Enqueue, Inv, TypeOK, Status
    <3>6. QED BY <1>19, <3>1, <3>2, <3>3, <3>4, <3>5 DEF Enqueue, Inv, TypeOK
  <2>2. PhasesOK'
    BY <1>19 DEF Enqueue, Inv, PhasesOK, Resources
  <2>3. QuietOK'
    BY <1>19 DEF Enqueue, Inv, QuietOK, Quiet, PhasesOK, TypeOK, Resources
  <2>4. MutexOK'
    BY <1>19 DEF Enqueue, Inv, MutexOK, PhasesOK, TypeOK, HelperState, AppState
  <2>5. OwnersOK'
    <3>1. /\ f \in held /\ status[f] # "EMPTY"
          /\ status' = [status EXCEPT ![f] = "EMPTY"] /\ held' = held \ {f}
          /\ inflight' \in {inflight, Append(inflight, f)}
          /\ UNCHANGED helper
      BY <1>19 DEF Enqueue, Passed, Returnable
    <3>2. /\ status \in [Frames -> Status] /\ held \subseteq Frames
          /\ inflight \in Seq(Frames)
          /\ InCallback => helper.frame \in Frames
      BY DEF Inv, TypeOK, InCallback
    <3>3. CASE inflight' = inflight
      BY <3>1, <3>2, <3>3 DEF Inv, OwnersOK, InCallback
    <3>4. CASE inflight' = Append(inflight, f)
      <4>1. /\ DOMAIN inflight' = 1 .. Len(inflight) + 1 /\ inflight'[Len(inflight) + 1] = f
            /\ \A i \in DOMAIN inflight : inflight'[i] = inflight[i]
            /\ DOMAIN inflight = 1 .. Len(inflight) /\ Len(inflight) \in Nat
        BY <3>2, <3>4
      <4>2. \A i \in DOMAIN inflight : inflight[i] # f
        BY <3>1 DEF Inv, OwnersOK
      <4>3. \A i, j \in DOMAIN inflight' : inflight'[i] = inflight'[j] => i = j
        BY <4>1, <4>2 DEF Inv, OwnersOK
      <4>4. \A i \in DOMAIN inflight' : status'[inflight'[i]] = "EMPTY"
        BY <3>1, <3>2, <4>1 DEF Inv, OwnersOK, TypeOK
      <4>5. \A g \in held' : status'[g] # "EMPTY"
        BY <3>1, <3>2 DEF Inv, OwnersOK
      <4>6. InCallback' => /\ status'[helper'.frame] = "EMPTY"
                          /\ \A i \in DOMAIN inflight' : inflight'[i] # helper'.frame
        BY <3>1, <3>2, <4>1 DEF Inv, OwnersOK, InCallback
      <4>7. QED BY <4>3, <4>4, <4>5, <4>6 DEF OwnersOK
    <3>5. QED BY <3>1, <3>3, <3>4
  <2>6. NotifyBounded'
    <3>1. f \in held BY <1>19 DEF Enqueue, Passed, Returnable
    <3>2. Ready' = Ready
      BY <1>19, <3>1 DEF Enqueue, Ready, Inv, TypeOK
    <3>3. QED BY <1>19, <3>2 DEF Enqueue, Inv, NotifyBounded, Notified
  <2>7. QED BY <2>1, <2>2, <2>3, <2>4, <2>5, <2>6 DEF Inv
<1>20. ASSUME NEW f \in Frames, EnqueueRefused(f) PROVE Inv'
  <2>1. TypeOK'
    BY <1>20 DEF EnqueueRefused, Inv, TypeOK, NotifyBounded, Result
  <2>2. PhasesOK'
    BY <1>20 DEF EnqueueRefused, Inv, PhasesOK, Resources
  <2>3. QuietOK'
    BY <1>20 DEF EnqueueRefused, Inv, QuietOK, Quiet, PhasesOK, TypeOK, Resources
  <2>4. MutexOK'
    BY <1>20 DEF EnqueueRefused, Inv, MutexOK, PhasesOK, TypeOK, HelperState, AppState
  <2>5. OwnersOK'
    BY <1>20 DEF EnqueueRefused, Inv, OwnersOK, InCallback, PhasesOK, QuietOK, Quiet, TypeOK
  <2>6. NotifyBounded'
    BY <1>20
    DEF EnqueueRefused, Inv, NotifyBounded, Notified, OneIf, PhasesOK, QuietOK, Quiet,
        TypeOK, HelperState, AppState, Ready
  <2>7. QED BY <2>1, <2>2, <2>3, <2>4, <2>5, <2>6 DEF Inv
<1>21. ASSUME StopBegin PROVE Inv'
  <2>1. TypeOK'
    BY <1>21 DEF StopBegin, Inv, TypeOK, NotifyBounded, AppState, AppPC, Policies
  <2>2. PhasesOK'
    BY <1>21 DEF StopBegin, Inv, PhasesOK, Resources
  <2>3. QuietOK'
    BY <1>21 DEF StopBegin, Inv, QuietOK, Quiet, PhasesOK, TypeOK, Resources
  <2>4. MutexOK'
    BY <1>21 DEF StopBegin, Inv, MutexOK, PhasesOK, TypeOK, HelperState, AppState
  <2>5. OwnersOK'
    BY <1>21 DEF StopBegin, Inv, OwnersOK, InCallback, PhasesOK, QuietOK, Quiet, TypeOK
  <2>6. NotifyBounded'
    BY <1>21
    DEF StopBegin, Inv, NotifyBounded, Notified, OneIf, PhasesOK, QuietOK, Quiet, TypeOK,
        HelperState, AppState, Ready
  <2>7. QED BY <2>1, <2>2, <2>3, <2>4, <2>5, <2>6 DEF Inv
<1>22. ASSUME StopKill PROVE Inv'
  <2>1. TypeOK'
    BY <1>22 DEF StopKill, Inv, TypeOK, NotifyBounded, AppState, AppPC, Policies
  <2>2. PhasesOK'
    <3>1. /\ app'.pc \in {"join", "release"} /\ capture_is_set
          /\ UNCHANGED <<helper, capture_is_set, res>>
      BY <1>22 DEF StopKill, Inv, TypeOK, AppState, PhasesOK
    <3>2. app'.pc = "release" => "thread" \notin res
      BY <1>22 DEF StopKill, Inv, TypeOK, AppState
    <3>3. "thread" \notin res => HelperAt("none")
      BY DEF Inv, PhasesOK, Resources
    <3>4. QED BY <3>1, <3>2, <3>3 DEF PhasesOK, Inv
  <2>3. QuietOK'
    <3>1. app'.pc \in {"join", "release"}
      BY <1>22 DEF StopKill, Inv, TypeOK, AppState
    <3>2. UNCHANGED <<res, notify_pipe>> BY <1>22 DEF StopKill
    <3>3. QED BY <3>1, <3>2 DEF Inv, QuietOK
  <2>4. MutexOK'
    BY <1>22 DEF StopKill, Inv, MutexOK, PhasesOK, TypeOK, HelperState, AppState
  <2>5. OwnersOK'
    BY <1>22 DEF StopKill, Inv, OwnersOK, InCallback, PhasesOK, QuietOK, Quiet, TypeOK
  <2>6. NotifyBounded'
    BY <1>22
    DEF StopKill, Inv, NotifyBounded, Notified, OneIf, PhasesOK, QuietOK, Quiet, TypeOK,
        HelperState, AppState, Ready
  <2>7. QED BY <2>1, <2>2, <2>3, <2>4, <2>5, <2>6 DEF Inv
<1>23. ASSUME StopJoin PROVE Inv'
  <2>1. TypeOK'
    BY <1>23
    DEF StopJoin, Inv, TypeOK, NotifyBounded, AppState, AppPC, Policies, HelperState,
        HelperPC, Status
  <2>2. PhasesOK'
    BY <1>23 DEF StopJoin, Inv, PhasesOK, Resources
  <2>3. QuietOK'
    BY <1>23 DEF StopJoin, Inv, QuietOK, Quiet, PhasesOK, TypeOK, Resources
  <2>4. MutexOK'
    BY <1>23 DEF StopJoin, Inv, MutexOK, PhasesOK, TypeOK, HelperState, AppState
  <2>5. OwnersOK'
    BY <1>23 DEF StopJoin, Inv, OwnersOK, InCallback, PhasesOK, QuietOK, Quiet, TypeOK
  <2>6. NotifyBounded'
    BY <1>23
    DEF StopJoin, Inv, NotifyBounded, Notified, OneIf, PhasesOK, QuietOK, Quiet, TypeOK,
        HelperState, AppState, Ready
  <2>7. QED BY <2>1, <2>2, <2>3, <2>4, <2>5, <2>6 DEF Inv
<1>24. ASSUME StopRelease PROVE Inv'
  <2>1. TypeOK'
    <3>1. app' \in AppState BY <1>24 DEF StopRelease, Inv, TypeOK, AppState, AppPC
    <3>2. status' \in [Frames -> Status] /\ result' \in Result
      BY <1>24 DEF StopRelease, Status, Result
    <3>3. inflight' \in Seq(Frames) /\ res' \subseteq Resources /\ held' \subseteq Frames
      BY <1>24 DEF StopRelease
    <3>4. UNCHANGED <<current, frames_ready, queue_broken, mutex, kill_thread, helper,
                      iso_auto_started, oldest>>
      BY <1>24 DEF StopRelease
    <3>5. notify_pipe' = 0 /\ capture_is_set' = FALSE BY <1>24 DEF StopRelease
    <3>6. QED BY <3>1, <3>2, <3>3, <3>4, <3>5 DEF Inv, TypeOK
  <2>2. PhasesOK'
    BY <1>24 DEF StopRelease, Inv, PhasesOK, Resources
  <2>3. QuietOK'
    BY <1>24 DEF StopRelease, Inv, QuietOK, Quiet, PhasesOK, TypeOK, Resources
  <2>4. MutexOK'
    BY <1>24 DEF StopRelease, Inv, MutexOK, PhasesOK, TypeOK, HelperState, AppState
  <2>5. OwnersOK'
    BY <1>24 DEF StopRelease, Inv, OwnersOK, InCallback, PhasesOK, QuietOK, Quiet, TypeOK
  <2>6. NotifyBounded'
    BY <1>24
    DEF StopRelease, Inv, NotifyBounded, Notified, OneIf, PhasesOK, QuietOK, Quiet,
        TypeOK, HelperState, AppState, Ready
  <2>7. QED BY <2>1, <2>2, <2>3, <2>4, <2>5, <2>6 DEF Inv
<1>25. CASE UNCHANGED vars
  BY <1>25 DEF vars, Inv, TypeOK, PhasesOK, QuietOK, Quiet, MutexOK, OwnersOK, InCallback,
                NotifyBounded, Notified, Ready
<1>26. QED
  BY <1>1, <1>2, <1>3, <1>4, <1>5, <1>6, <1>7, <1>8, <1>9, <1>10, <1>11, <1>12, <1>13, <1>14,
     <1>15, <1>16, <1>17, <1>18, <1>19, <1>20, <1>21, <1>22, <1>23, <1>24, <1>25
  DEF Next, Helper, Setup, DequeueCall, DequeueRest, StopRest

\* Inv holds before the first setup.
LEMMA InvInit == Init => Inv
<1> USE NumFramesAssumption
<1> USE DEF AppAt, HelperAt, NoHelper, NoFrame
<1> SUFFICES ASSUME Init PROVE Inv
  OBVIOUS
<1>1. helper \in HelperState /\ app \in AppState /\ result \in Result
  BY DEF Init, Returned, HelperState, HelperPC, Status, AppState, AppPC, Policies, Result
<1>2. 0 \in Frames /\ "EMPTY" \in Status
  BY DEF Frames, Status
<1>3. inflight \in Seq(Frames) /\ status \in [Frames -> Status]
  BY <1>2 DEF Init
<1>4. helper.pc = "none"
  BY DEF Init
<1>5. TypeOK
  BY <1>1, <1>2, <1>3, <1>4 DEF Init, TypeOK
<1>6. PhasesOK /\ QuietOK
  BY DEF Init, PhasesOK, QuietOK, Quiet
<1>7. MutexOK /\ OwnersOK
  BY DEF Init, MutexOK, OwnersOK, InCallback
<1>8. NotifyBounded
  BY DEF Init, NotifyBounded
<1>9. QED BY <1>5, <1>6, <1>7, <1>8 DEF Inv

\* So Inv always holds.
LEMMA InvHolds == Spec => []Inv
  BY InvInit, InvStep, PTL DEF Spec

\* Type correctness: in particular frames_ready, which the code keeps in an int
\* and decrements without a test, never goes below zero.
THEOREM TypeCorrect == Spec => []TypeOK
<1>1. Inv => TypeOK BY DEF Inv
<1>2. QED BY InvHolds, <1>1, PTL

\* No frame buffer is ever written by a transfer while the application has it,
\* and none is submitted twice.
THEOREM BuffersExclusive == Spec => []NoSharedBuffer
<1>1. Inv => NoSharedBuffer
  BY DEF Inv, OwnersOK, NoSharedBuffer, DmaFrames, InFlight, InCallback
<1>2. QED BY InvHolds, <1>1, PTL

\* Bytes never outnumber counted frames, nor counted frames the filled ones.
THEOREM NotifyIsBounded == Spec => []NotifyBounded
<1>1. Inv => NotifyBounded BY DEF Inv
<1>2. QED BY InvHolds, <1>1, PTL

\* The pipe never holds more bytes than the ring has buffers.
THEOREM PipeNeverFull == Spec => [](notify_pipe <= NumFrames)
<1>1. Inv => notify_pipe <= NumFrames
  <2>1. SUFFICES ASSUME Inv PROVE notify_pipe <= NumFrames OBVIOUS
  <2>2. CASE "buffer" \in res
    BY <2>1, <2>2, ReadyFinite, NumFramesAssumption
    DEF Inv, TypeOK, NotifyBounded, Notified, OneIf
  <2>3. CASE "buffer" \notin res
    BY <2>1, <2>3, NumFramesAssumption DEF Inv, QuietOK
  <2>4. QED BY <2>2, <2>3
<1>2. QED BY InvHolds, <1>1, PTL

\* stop frees, closes and destroys only after the helper thread has ended.
THEOREM HelperIsSafe == Spec => []HelperHasResources
<1>1. Inv => HelperHasResources BY DEF Inv, PhasesOK, HelperHasResources
<1>2. QED BY InvHolds, <1>1, PTL


-----------------------------------------------------------------------------
(* The ring under an application that returns frames in order *)

\* The lemmas on distances, for this ring.
LEMMA Around ==
    /\ NumFrames \in Nat \ {0}
    /\ \A f \in Frames : Next_frame(f) \in Frames
    /\ \A n, f \in Frames :
          /\ Behind(NumFrames, n, f) \in 0 .. NumFrames - 1 /\ (Behind(NumFrames, n, f) = 0 <=> f = n)
          /\ \A g \in Frames : Behind(NumFrames, n, f) = Behind(NumFrames, n, g) => f = g
          /\ Behind(NumFrames, n, Next_frame(f))
                = IF Behind(NumFrames, n, f) = NumFrames - 1 THEN 0 ELSE Behind(NumFrames, n, f) + 1
          /\ Behind(NumFrames, Next_frame(n), f)
                = IF f = n THEN NumFrames - 1 ELSE Behind(NumFrames, n, f) - 1
<1> USE NumFramesAssumption DEF Frames, Next_frame
<1>1. NumFrames \in Nat \ {0} /\ \A f \in Frames : Next_frame(f) \in Frames
  BY NextValue
<1>2. ASSUME NEW n \in Frames, NEW f \in Frames
      PROVE  /\ Behind(NumFrames, n, f) \in 0 .. NumFrames - 1 /\ (Behind(NumFrames, n, f) = 0 <=> f = n)
             /\ \A g \in Frames : Behind(NumFrames, n, f) = Behind(NumFrames, n, g) => f = g
  BY BehindRange, BehindInjective
<1>3. ASSUME NEW n \in Frames, NEW f \in Frames
      PROVE  Behind(NumFrames, n, Next_frame(f))
                = IF Behind(NumFrames, n, f) = NumFrames - 1 THEN 0 ELSE Behind(NumFrames, n, f) + 1
  BY BehindNext
<1>4. ASSUME NEW n \in Frames, NEW f \in Frames
      PROVE  Behind(NumFrames, Next_frame(n), f)
                = IF f = n THEN NumFrames - 1 ELSE Behind(NumFrames, n, f) - 1
  BY BehindAdvanced
<1> QED
  BY <1>1, <1>2, <1>3, <1>4

\* How long dequeue has to wait for frame f.
Pos(f) == Behind(NumFrames, NextBuffer, f)

\* The application holds the last h frames of the ring; the oldest of them, or
\* the next frame if it holds none, is the one it returns next.
HoldsLast(h) ==
    /\ \A f \in Frames : f \in held <=> Pos(f) >= NumFrames - h
    /\ IF h = 0 THEN oldest = NextBuffer ELSE Pos(oldest) = NumFrames - h

\* The transfers are in flight in ring order, after the frame being filled.
DeviceInOrder ==
    /\ \A i, j \in DOMAIN inflight : i < j => Pos(inflight[i]) < Pos(inflight[j])
    /\ InCallback => \A i \in DOMAIN inflight : Pos(helper.frame) < Pos(inflight[i])

\* Going round the ring: the frames that wait, those with the camera, those the
\* application holds.
GroupsInOrder ==
    /\ \A f \in Ready, g \in DmaFrames : Pos(f) < Pos(g)
    /\ \A f \in DmaFrames, g \in held : Pos(f) < Pos(g)

\* A frame is lost only when a transfer could not be submitted, and dequeue does
\* not start then.
NoneLost ==
    /\ ~queue_broken => Frames = Ready \cup DmaFrames \cup held
    /\ app.pc \in {"read", "enter", "exit"} => ~queue_broken

\* What setup has prepared when it submits the transfers.
FreshRing ==
    /\ "buffer" \in res => current = -1 /\ ~queue_broken
    /\ "frames" \in res => oldest = 0
    /\ "transfers" \in res => inflight = [i \in 1 .. NumFrames |-> i - 1]

InRingOrder == /\ \E h \in 0 .. NumFrames : HoldsLast(h)
               /\ DeviceInOrder /\ GroupsInOrder /\ NoneLost

RingInv ==
    /\ AppAt("setup") => FreshRing
    /\ RingOn => InRingOrder
    /\ EveryFrameNotified

\* Steps that leave the ring alone.
LEMMA RingUntouched ==
    ASSUME InRingOrder,
           UNCHANGED <<status, current, queue_broken, inflight, held, oldest>>,
           InCallback' <=> InCallback, InCallback => helper'.frame = helper.frame,
           app'.pc \in {"read", "enter", "exit"} => ~queue_broken
    PROVE  InRingOrder'
<1>1. NextBuffer' = NextBuffer /\ Ready' = Ready
  BY DEF NextBuffer, Ready
<1>2. DmaFrames' = DmaFrames
  BY DEF DmaFrames, InFlight
<1>3. \A h : HoldsLast(h)' <=> HoldsLast(h)
  BY <1>1 DEF HoldsLast, Pos
<1>4. (\E h \in 0 .. NumFrames : HoldsLast(h))'
  BY <1>3 DEF InRingOrder
<1>5. DeviceInOrder'
  BY <1>1 DEF InRingOrder, DeviceInOrder, Pos
<1>6. GroupsInOrder'
  BY <1>1, <1>2 DEF InRingOrder, GroupsInOrder, Pos
<1>7. NoneLost'
  BY <1>1, <1>2 DEF InRingOrder, NoneLost
<1> QED
  BY <1>4, <1>5, <1>6, <1>7 DEF InRingOrder

\* setup ends: every transfer is in flight, the application holds nothing.
LEMMA RingLaunched ==
    ASSUME Inv, RingInv, SetupLaunch
    PROVE  InRingOrder'
<1>1. /\ current = -1 /\ ~queue_broken /\ oldest = 0
      /\ inflight = [i \in 1 .. NumFrames |-> i - 1]
  BY DEF SetupLaunch, RingInv, FreshRing, AcquiredBefore, Resources
<1>2. held = {} /\ Ready = {}
  BY DEF SetupLaunch, Inv, QuietOK, Quiet, Ready
<1>3. /\ UNCHANGED <<status, current, queue_broken, inflight, held, oldest>>
      /\ app'.pc = "idle" /\ ~InCallback'
  BY DEF SetupLaunch, capture, client, Inv, TypeOK, AppState, AppGoto, InCallback, HelperAt,
         NoHelper, PhasesOK
<1>4. NextBuffer = 0 /\ NextBuffer' = 0 /\ Ready' = {}
  BY <1>1, <1>2, <1>3 DEF NextBuffer, Ready
<1>5. \A f \in Frames : Behind(NumFrames, 0, f) = f
  BY DEF Frames, Behind
<1>6. InFlight = Frames /\ DmaFrames' = Frames
  <2>1. DOMAIN inflight = 1 .. NumFrames /\ \A i \in 1 .. NumFrames : inflight[i] = i - 1
    BY <1>1
  <2>2. \A i \in 1 .. NumFrames : i - 1 \in Frames
    BY NumFramesAssumption DEF Frames
  <2>3. \A f \in InFlight : f \in Frames
    BY <2>1, <2>2 DEF InFlight
  <2>4. \A f \in Frames : f \in InFlight
    <3>1. ASSUME NEW f \in Frames PROVE \E i \in DOMAIN inflight : inflight[i] = f
      <4>1. PICK i \in 1 .. NumFrames : i - 1 = f
        <5>1. f + 1 \in 1 .. NumFrames /\ (f + 1) - 1 = f
          BY NumFramesAssumption DEF Frames
        <5> QED
          BY <5>1, Zenon
      <4>2. inflight[i] = f /\ i \in DOMAIN inflight
        BY <2>1, <4>1, Zenon
      <4> QED
        BY <4>2
    <3> QED
      BY <3>1 DEF InFlight
  <2> QED
    BY <1>3, <2>3, <2>4 DEF DmaFrames, InFlight
<1>7. HoldsLast(0)'
  BY <1>1, <1>2, <1>3, <1>4, <1>5, NumFramesAssumption DEF HoldsLast, Pos, Frames
<1>8. 0 \in 0 .. NumFrames
  BY NumFramesAssumption
<1>9. DeviceInOrder'
  <2>1. \A i \in 1 .. NumFrames : inflight'[i] = i - 1 /\ i - 1 \in Frames
    BY <1>1, <1>3, NumFramesAssumption DEF Frames
  <2>2. DOMAIN inflight' = 1 .. NumFrames
    BY <1>1, <1>3
  <2>3. \A i \in 1 .. NumFrames : Behind(NumFrames, NextBuffer', inflight'[i]) = i - 1
    BY <1>4, <1>5, <2>1
  <2>4. \A i, j \in 1 .. NumFrames : i < j => i - 1 < j - 1
    BY NumFramesAssumption
  <2> QED
    BY <1>3, <2>2, <2>3, <2>4 DEF DeviceInOrder, Pos
<1>10. GroupsInOrder' /\ NoneLost'
  BY <1>1, <1>2, <1>3, <1>4, <1>6 DEF GroupsInOrder, NoneLost
<1> QED
  BY <1>7, <1>8, <1>9, <1>10 DEF InRingOrder

\* The oldest transfer is done: its frame stays with the camera's side.
LEMMA RingCallback ==
    ASSUME Inv, InRingOrder, CallbackBegin
    PROVE  InRingOrder'
<1>1. /\ inflight \in Seq(Frames) /\ inflight # <<>> /\ inflight' = Tail(inflight)
      /\ UNCHANGED <<status, current, queue_broken, held, oldest, app>>
      /\ helper'.frame = Head(inflight) /\ InCallback' /\ ~InCallback
  BY DEF CallbackBegin, Inv, TypeOK, HelperState, client, InCallback, HelperAt
<1>2. /\ Head(inflight) = inflight[1] /\ 1 \in DOMAIN inflight
      /\ \A i \in DOMAIN inflight : i \in 1 .. Len(inflight)
      /\ \A i \in DOMAIN Tail(inflight) :
            /\ i + 1 \in DOMAIN inflight /\ i \in Nat \ {0}
            /\ Tail(inflight)[i] = inflight[i + 1]
      /\ \A i \in DOMAIN inflight : i = 1 \/ (i - 1 \in DOMAIN Tail(inflight) /\ i - 1 + 1 = i)
  BY <1>1
<1>3. NextBuffer' = NextBuffer /\ Ready' = Ready
  BY <1>1 DEF NextBuffer, Ready
<1>4. DmaFrames' = DmaFrames
  <2>1. DmaFrames = {inflight[i] : i \in DOMAIN inflight}
    BY <1>1 DEF DmaFrames, InFlight
  <2>2. DmaFrames' = {Tail(inflight)[i] : i \in DOMAIN Tail(inflight)} \cup {inflight[1]}
    BY <1>1, <1>2 DEF DmaFrames, InFlight
  <2>3. \A f : f \in DmaFrames => f \in DmaFrames'
    BY <2>1, <2>2, <1>2
  <2>4. \A f : f \in DmaFrames' => f \in DmaFrames
    BY <2>1, <2>2, <1>2
  <2> QED
    BY <2>3, <2>4
<1>5. \A h : HoldsLast(h)' <=> HoldsLast(h)
  BY <1>1, <1>3 DEF HoldsLast, Pos
<1>6. (\E h \in 0 .. NumFrames : HoldsLast(h))'
  BY <1>5 DEF InRingOrder
<1>7. DeviceInOrder'
  BY <1>1, <1>2, <1>3 DEF InRingOrder, DeviceInOrder, Pos
<1>8. GroupsInOrder' /\ NoneLost'
  BY <1>1, <1>3, <1>4 DEF InRingOrder, GroupsInOrder, NoneLost, Pos
<1> QED
  BY <1>6, <1>7, <1>8 DEF InRingOrder

\* The frame of the callback joins those that wait: it is the last of them.
LEMMA RingFilled ==
    ASSUME Inv, InRingOrder, CallbackFill
    PROVE  /\ InRingOrder'
           /\ helper.frame \in Frames /\ helper.frame \notin Ready
           /\ Ready' = Ready \cup {helper.frame}
           /\ \A f \in Ready : Pos(f) < Pos(helper.frame)
<1> DEFINE g == helper.frame
<1>1. /\ InCallback /\ ~InCallback' /\ g \in Frames /\ helper.status # "EMPTY"
      /\ status' = [status EXCEPT ![g] = helper.status]
      /\ UNCHANGED <<current, queue_broken, inflight, held, oldest, app>>
  BY DEF CallbackFill, Inv, TypeOK, HelperState, HelperAt, HelperGoto, InCallback, client
<1>2. g \notin Ready /\ g \notin held /\ g \notin InFlight
  BY <1>1 DEF Inv, OwnersOK, Ready, InFlight
<1>3. NextBuffer' = NextBuffer /\ Ready' = Ready \cup {g}
  BY <1>1, <1>2 DEF NextBuffer, Ready, Inv, TypeOK
<1>4. DmaFrames = InFlight \cup {g} /\ DmaFrames' = InFlight
  BY <1>1 DEF DmaFrames, InFlight
<1>5. \A f \in InFlight : Pos(g) < Pos(f)
  BY <1>1 DEF InRingOrder, DeviceInOrder, InFlight
<1>6. \A h : HoldsLast(h)' <=> HoldsLast(h)
  BY <1>1, <1>3 DEF HoldsLast, Pos
<1>7. (\E h \in 0 .. NumFrames : HoldsLast(h))'
  BY <1>6 DEF InRingOrder
<1>8. DeviceInOrder'
  BY <1>1, <1>3 DEF InRingOrder, DeviceInOrder, Pos
<1>9. GroupsInOrder'
  BY <1>1, <1>3, <1>4, <1>5 DEF InRingOrder, GroupsInOrder, Pos
<1>10. NoneLost'
  BY <1>1, <1>3, <1>4 DEF InRingOrder, NoneLost
<1>11. \A f \in Ready : Pos(f) < Pos(g)
  BY <1>4 DEF InRingOrder, GroupsInOrder
<1> QED
  BY <1>1, <1>2, <1>3, <1>7, <1>8, <1>9, <1>10, <1>11 DEF InRingOrder

\* When a byte has been read, the next frame of the ring waits.
LEMMA NextIsReady ==
    ASSUME Inv, InRingOrder, EveryFrameNotified, AppAt("enter") \/ AppAt("exit")
    PROVE  NextBuffer \in Ready
<1>1. NextBuffer \in Frames /\ NumFrames \in Nat \ {0}
  BY NextBufferInFrames, NumFramesAssumption DEF Inv
<1>2. Pos(NextBuffer) = 0 /\ \A f \in Frames : Pos(f) \in 0 .. NumFrames - 1
  BY <1>1, Around DEF Pos
<1>3. Ready # {}
  <2>1. "buffer" \in res
    BY DEF Inv, PhasesOK, AppAt, Resources
  <2>2. notify_pipe \in Nat
    BY DEF Inv, TypeOK
  <2>3. Notified > 0
    BY <2>2 DEF Notified, OneIf
  <2>4. Cardinality(Ready) > 0
    BY <2>1, <2>3 DEF EveryFrameNotified
  <2> QED
    BY <2>4, FS_EmptySet
<1>4. Ready \subseteq Frames /\ Ready \cap held = {}
  BY DEF Ready
<1>5. NextBuffer \notin held
  <2>1. PICK h \in 0 .. NumFrames : HoldsLast(h)
    BY DEF InRingOrder
  <2>2. SUFFICES ASSUME NextBuffer \in held PROVE FALSE
    OBVIOUS
  <2>3. h = NumFrames
    BY <1>1, <1>2, <2>1, <2>2 DEF HoldsLast
  <2>4. \A f \in Frames : f \in held
    BY <1>1, <1>2, <2>1, <2>3 DEF HoldsLast
  <2> QED
    BY <1>3, <1>4, <2>4
<1>6. NextBuffer \notin DmaFrames
  BY <1>2, <1>3, <1>4 DEF InRingOrder, GroupsInOrder
<1>7. Frames = Ready \cup DmaFrames \cup held
  BY DEF InRingOrder, NoneLost, AppAt
<1> QED
  BY <1>1, <1>5, <1>6, <1>7

\* The next frame is handed out: the ring advances by one.
LEMMA RingAdvanced ==
    ASSUME Inv, InRingOrder, DequeueTake, NextBuffer \in Ready
    PROVE  /\ InRingOrder'
           /\ NextBuffer' = Next_frame(NextBuffer)
           /\ Ready' = Ready \ {NextBuffer}
<1>0. PICK n \in Frames : n = NextBuffer
  BY DEF Ready
<1>1. Next_frame(n) \in Frames /\ NumFrames \in Nat \ {0}
  BY Around
<1>2. /\ current' = n /\ held' = held \cup {n}
      /\ UNCHANGED <<status, queue_broken, inflight, helper, oldest>>
      /\ app'.pc = "idle"
  BY <1>0 DEF DequeueTake, Inv, TypeOK, AppState, AppGoto
<1>3. NextBuffer' = Next_frame(n)
  BY <1>0, <1>1, <1>2 DEF NextBuffer, Frames
<1>4. Ready' = Ready \ {n}
  BY <1>2 DEF Ready
<1>5. DmaFrames' = DmaFrames /\ DmaFrames \subseteq Frames
  BY <1>2 DEF DmaFrames, InFlight, InCallback, HelperAt, Inv, TypeOK
<1>6. /\ \A f \in Frames : Pos(f) \in 0 .. NumFrames - 1
      /\ \A f \in Frames : Behind(NumFrames, Next_frame(n), f) = IF f = n THEN NumFrames - 1 ELSE Pos(f) - 1
      /\ Pos(n) = 0
  BY <1>1, <1>0, Around DEF Pos
<1>7. n \notin DmaFrames /\ n \notin held
  <2>1. \A f \in DmaFrames : Pos(n) < Pos(f)
    BY <1>0 DEF InRingOrder, GroupsInOrder
  <2>2. n \in DmaFrames => FALSE
    BY <1>6, <2>1
  <2> QED
    BY <1>0, <2>2 DEF Ready
<1>8. \A f \in Frames : Pos(f)' = IF f = n THEN NumFrames - 1 ELSE Pos(f) - 1
  BY <1>3, <1>6 DEF Pos
<1>9. (\E h \in 0 .. NumFrames : HoldsLast(h))'
  <2>1. PICK h \in 0 .. NumFrames : HoldsLast(h)
    BY DEF InRingOrder
  <2>2. oldest \in Frames
    BY DEF Inv, TypeOK
  <2>3. h + 1 \in 0 .. NumFrames
    BY <1>1, <1>6, <1>7, <2>1 DEF HoldsLast
  <2>4. ASSUME NEW f \in Frames PROVE f \in held' <=> Pos(f)' >= NumFrames - (h + 1)
    BY <1>1, <1>2, <1>6, <1>8, <2>1 DEF HoldsLast
  <2>5. Pos(oldest)' = NumFrames - (h + 1)
    <3>1. CASE h = 0
      BY <1>0, <1>1, <1>2, <1>8, <2>1, <2>2, <3>1 DEF HoldsLast, Pos
    <3>2. CASE h # 0
      <4>1. Pos(oldest) = NumFrames - h /\ oldest \in held
        BY <1>1, <2>1, <2>2, <3>2 DEF HoldsLast
      <4>2. oldest # n /\ oldest' = oldest
        BY <1>2, <1>7, <4>1
      <4>3. Pos(oldest)' = Pos(oldest) - 1
        BY <1>8, <2>2, <4>2 DEF Pos
      <4> QED
        BY <1>1, <1>6, <2>2, <4>1, <4>3
    <3> QED
      BY <3>1, <3>2
  <2>6. HoldsLast(h + 1)'
    BY <2>3, <2>4, <2>5 DEF HoldsLast
  <2> QED
    BY <2>3, <2>6
<1>10. \A f \in Frames, g \in Frames : f # n /\ g # n => (Pos(f)' < Pos(g)' <=> Pos(f) < Pos(g))
  BY <1>6, <1>8
<1>11. inflight \in Seq(Frames) /\ (InCallback => helper.frame \in Frames)
  BY DEF Inv, TypeOK, InCallback, HelperAt
<1>12. \A i \in DOMAIN inflight : inflight[i] \in Frames /\ inflight[i] # n
  BY <1>7, <1>11 DEF DmaFrames, InFlight
<1>13. DeviceInOrder'
  <2>1. InCallback => helper.frame # n
    BY <1>7 DEF DmaFrames
  <2> QED
    BY <1>2, <1>10, <1>11, <1>12, <2>1 DEF InRingOrder, DeviceInOrder, InCallback, HelperAt, Pos
<1>14. GroupsInOrder'
  <2>1. Ready \subseteq Frames /\ held \subseteq Frames
    BY DEF Ready, Inv, TypeOK
  <2>2. \A f \in Ready', g \in DmaFrames' : (Pos(f) < Pos(g))'
    BY <1>4, <1>5, <1>7, <1>10, <2>1 DEF InRingOrder, GroupsInOrder
  <2>3. \A f \in DmaFrames' : \A g \in held' : (Pos(f) < Pos(g))'
    <3>1. ASSUME NEW f \in DmaFrames, NEW g \in held PROVE Pos(f)' < Pos(g)'
      BY <1>5, <1>7, <1>10, <2>1 DEF InRingOrder, GroupsInOrder
    <3>2. ASSUME NEW f \in DmaFrames PROVE Pos(f)' < Pos(n)'
      BY <1>1, <1>5, <1>6, <1>7, <1>8
    <3> QED
      BY <1>2, <1>5, <3>1, <3>2
  <2> QED
    BY <2>2, <2>3 DEF GroupsInOrder
<1>15. NoneLost'
  BY <1>0, <1>2, <1>4, <1>5 DEF InRingOrder, NoneLost
<1> QED
  BY <1>0, <1>3, <1>4, <1>9, <1>13, <1>14, <1>15 DEF InRingOrder

\* The frame held longest goes back to the camera's side, behind the transfers
\* in flight, or is lost.
LEMMA RingReturned ==
    ASSUME Inv, InRingOrder, Discipline = "ordered", NEW f \in Frames, Enqueue(f)
    PROVE  InRingOrder' /\ NextBuffer' = NextBuffer /\ Ready' = Ready
<1>1. /\ f \in held /\ f = oldest /\ status[f] # "EMPTY"
      /\ status' = [status EXCEPT ![f] = "EMPTY"] /\ held' = held \ {f}
      /\ oldest' = Next_frame(f)
      /\ \/ inflight' = inflight /\ queue_broken'
         \/ inflight' = Append(inflight, f) /\ queue_broken' = queue_broken
      /\ UNCHANGED <<current, helper, app>> /\ app.pc = "idle"
  BY DEF Enqueue, Passed, Returnable, Running, AppAt, threads
<1>2. PICK n \in Frames : n = NextBuffer
  BY NextBufferInFrames DEF Inv
<1>3. NextBuffer' = NextBuffer /\ Ready' = Ready
  BY <1>1 DEF NextBuffer, Ready, Inv, TypeOK
<1>4. /\ \A g \in Frames : Pos(g) \in 0 .. NumFrames - 1 /\ Pos(g)' = Pos(g)
      /\ \A g \in Frames : Pos(g) = Pos(f) => g = f
      /\ NumFrames \in Nat \ {0}
  BY <1>2, <1>3, Around DEF Pos
<1>5. PICK h \in 0 .. NumFrames : HoldsLast(h)
  BY DEF InRingOrder
<1>6. h # 0 /\ Pos(f) = NumFrames - h
  BY <1>1, <1>4, <1>5 DEF HoldsLast
<1>7. (\E k \in 0 .. NumFrames : HoldsLast(k))'
  <2>1. h - 1 \in 0 .. NumFrames
    BY <1>4, <1>6
  <2>2. ASSUME NEW g \in Frames PROVE g \in held' <=> Pos(g)' >= NumFrames - (h - 1)
    BY <1>1, <1>4, <1>5, <1>6 DEF HoldsLast
  <2>3. IF h - 1 = 0 THEN oldest' = NextBuffer' ELSE Pos(oldest)' = NumFrames - (h - 1)
    <3>1. oldest' \in Frames
            /\ Behind(NumFrames, n, oldest') = IF Pos(f) = NumFrames - 1 THEN 0 ELSE Pos(f) + 1
      <4>1. Pos(f) = Behind(NumFrames, n, f) /\ oldest' = Next_frame(f)
        BY <1>1, <1>2 DEF Pos
      <4> QED
        BY <4>1, Around
    <3>2. CASE h = 1
      BY <1>2, <1>3, <1>4, <1>6, <3>1, <3>2, Around
    <3>3. CASE h # 1
      BY <1>2, <1>3, <1>4, <1>6, <3>1, <3>3 DEF Pos
    <3> QED
      BY <3>2, <3>3
  <2>4. HoldsLast(h - 1)'
    BY <2>1, <2>2, <2>3 DEF HoldsLast
  <2> QED
    BY <2>1, <2>4
<1>8. /\ inflight \in Seq(Frames) /\ (InCallback => helper.frame \in Frames)
      /\ DmaFrames \subseteq Frames /\ Ready \subseteq Frames /\ held \subseteq Frames
      /\ InCallback' = InCallback /\ helper' = helper
  BY <1>1 DEF Inv, TypeOK, InCallback, HelperAt, DmaFrames, InFlight, Ready
<1>9. \A g \in DmaFrames : Pos(g) < Pos(f)
  BY <1>1 DEF InRingOrder, GroupsInOrder
<1>10. \A g \in Ready : Pos(g) < Pos(f)
  BY <1>4, <1>5, <1>6, <1>8 DEF HoldsLast, Ready
<1>11. CASE inflight' = inflight /\ queue_broken'
  <2>1. DmaFrames' = DmaFrames
    BY <1>8, <1>11 DEF DmaFrames, InFlight
  <2>2. DeviceInOrder'
    BY <1>3, <1>8, <1>11 DEF InRingOrder, DeviceInOrder, Pos
  <2>3. GroupsInOrder'
    BY <1>1, <1>3, <2>1 DEF InRingOrder, GroupsInOrder, Pos
  <2>4. NoneLost'
    BY <1>1, <1>11 DEF NoneLost
  <2> QED
    BY <1>3, <1>7, <2>2, <2>3, <2>4 DEF InRingOrder
<1>12. CASE inflight' = Append(inflight, f) /\ queue_broken' = queue_broken
  <2>1. /\ DOMAIN inflight' = 1 .. Len(inflight) + 1 /\ inflight'[Len(inflight) + 1] = f
        /\ \A i \in DOMAIN inflight : inflight'[i] = inflight[i]
        /\ DOMAIN inflight = 1 .. Len(inflight) /\ Len(inflight) \in Nat
    BY <1>8, <1>12
  <2>2. \A i \in DOMAIN inflight : inflight[i] \in DmaFrames
    BY DEF DmaFrames, InFlight
  <2>3. DmaFrames' = DmaFrames \cup {f}
    <3>1. InFlight' = InFlight \cup {f}
      <4>1. \A g \in InFlight' : g \in InFlight \/ g = f
        BY <2>1 DEF InFlight
      <4>2. \A g \in InFlight : g \in InFlight'
        BY <2>1 DEF InFlight
      <4>3. f \in InFlight'
        BY <2>1 DEF InFlight
      <4> QED
        BY <4>1, <4>2, <4>3
    <3> QED
      BY <1>8, <3>1 DEF DmaFrames
  <2>4. DeviceInOrder'
    <3>1. \A i, j \in DOMAIN inflight' : i < j => Pos(inflight'[i]) < Pos(inflight'[j])
      <4>1. ASSUME NEW i \in DOMAIN inflight', NEW j \in DOMAIN inflight', i < j
            PROVE  Pos(inflight'[i]) < Pos(inflight'[j])
        <5>1. i \in DOMAIN inflight
          BY <2>1, <4>1
        <5>2. CASE j \in DOMAIN inflight
          BY <2>1, <4>1, <5>1, <5>2 DEF InRingOrder, DeviceInOrder
        <5>3. CASE j = Len(inflight) + 1
          BY <1>9, <2>1, <2>2, <5>1, <5>3
        <5> QED
          BY <2>1, <5>2, <5>3
      <4> QED
        BY <4>1
    <3>2. InCallback => \A i \in DOMAIN inflight' : Pos(helper.frame) < Pos(inflight'[i])
      <4>1. InCallback => Pos(helper.frame) < Pos(f)
        BY <1>9 DEF DmaFrames
      <4>2. \A i \in DOMAIN inflight' : i \in DOMAIN inflight \/ i = Len(inflight) + 1
        BY <2>1
      <4> QED
        BY <2>1, <4>1, <4>2 DEF InRingOrder, DeviceInOrder
    <3> QED
      BY <1>3, <1>8, <3>1, <3>2 DEF DeviceInOrder, Pos
  <2>5. GroupsInOrder'
    <3>1. ASSUME NEW g \in Ready, NEW d \in DmaFrames \cup {f} PROVE Pos(g) < Pos(d)
      BY <1>10 DEF InRingOrder, GroupsInOrder
    <3>2. ASSUME NEW d \in DmaFrames \cup {f}, NEW g \in held, g # f PROVE Pos(d) < Pos(g)
      <4>1. Pos(g) \in Int /\ Pos(f) \in Int /\ Pos(g) # Pos(f) /\ Pos(g) >= Pos(f)
        BY <1>4, <1>5, <1>6, <1>8, <3>2 DEF HoldsLast
      <4> QED
        BY <4>1 DEF InRingOrder, GroupsInOrder
    <3> QED
      BY <1>1, <1>3, <2>3, <3>1, <3>2 DEF GroupsInOrder, Pos
  <2>6. NoneLost'
    BY <1>1, <1>3, <1>12, <2>3 DEF InRingOrder, NoneLost
  <2> QED
    BY <1>3, <1>7, <2>4, <2>5, <2>6 DEF InRingOrder
<1> QED
  BY <1>1, <1>3, <1>11, <1>12

\* A step that changes neither the bytes nor the frames counted.
LEMMA CountUntouched ==
    ASSUME EveryFrameNotified, UNCHANGED <<res, frames_ready>>,
           Notified' = Notified, Ready' = Ready
    PROVE  EveryFrameNotified'
  BY DEF EveryFrameNotified

\* What a step of setup before the last does: no thread runs yet.
LEMMA RingSetup ==
    ASSUME Inv, RingInv,
           SetupBegin \/ SetupSubmit \/ \E r \in Resources : SetupAcquire(r)
    PROVE  RingInv'
<1>1. HelperAt("none") /\ UNCHANGED <<helper, notify_pipe>> /\ app'.pc \in {"setup", "stop"}
  BY DEF SetupBegin, SetupSubmit, SetupAcquire, threads, Inv, PhasesOK, QuietOK, Resources,
         TypeOK, AppState, AppAt, AppGoto, HelperAt
<1>2. notify_pipe = 0 /\ held = {} /\ held' = {} /\ \A f \in Frames : status'[f] = "EMPTY"
  BY DEF SetupBegin, SetupSubmit, SetupAcquire, capture, client, Inv, QuietOK, Quiet, AppAt
<1>3. Ready' = {} /\ Notified' = 0
  BY <1>1, <1>2 DEF Ready, Notified, OneIf, AppAt, HelperAt
<1>4. "thread" \notin res'
  BY DEF SetupBegin, SetupSubmit, SetupAcquire, AcquiredBefore, Inv, QuietOK, Resources, AppAt
<1>5. "buffer" \in res' => frames_ready' = 0
  BY DEF SetupBegin, SetupSubmit, SetupAcquire, capture, Inv, QuietOK, AppAt
<1>6. EveryFrameNotified'
  BY <1>3, <1>5, FS_EmptySet DEF EveryFrameNotified
<1>7. FreshRing' \/ app'.pc = "stop"
  <2>1. CASE SetupBegin
    BY <2>1 DEF SetupBegin, Inv, QuietOK, FreshRing
  <2>2. CASE SetupSubmit
    <3>1. UNCHANGED <<current, queue_broken, oldest>>
      BY <2>2 DEF SetupSubmit, client
    <3>2. current = -1 /\ ~queue_broken /\ oldest = 0
      BY <2>2 DEF SetupSubmit, RingInv, FreshRing, AcquiredBefore, Resources
    <3>3. \/ inflight' = [i \in 1 .. NumFrames |-> i - 1]
          \/ app'.pc = "stop"
      BY <2>2 DEF SetupSubmit, AppGoto, Inv, TypeOK, AppState
    <3> QED
      BY <3>1, <3>2, <3>3 DEF FreshRing
  <2>3. ASSUME NEW r \in Resources, SetupAcquire(r) PROVE FreshRing' \/ app'.pc = "stop"
    <3>1. /\ FreshRing /\ res = AcquiredBefore(r) /\ r # "transfers"
          /\ inflight' = inflight
      BY <2>3 DEF SetupAcquire, RingInv
    <3>2. app'.pc = "stop" \/ res' = res \cup {r}
      BY <2>3 DEF SetupAcquire, AppGoto, Inv, TypeOK, AppState
    <3>3. CASE r = "buffer"
      BY <2>3, <3>1, <3>2, <3>3 DEF SetupAcquire, FreshRing, AcquiredBefore, Resources
    <3>4. CASE r = "frames"
      BY <2>3, <3>1, <3>2, <3>4 DEF SetupAcquire, FreshRing, AcquiredBefore, Resources
    <3>5. CASE r \notin {"buffer", "frames"}
      BY <2>3, <3>1, <3>2, <3>5 DEF SetupAcquire, FreshRing
    <3> QED
      BY <3>3, <3>4, <3>5
  <2> QED
    BY <2>1, <2>2, <2>3
<1>8. (AppAt("setup") => FreshRing)'
  BY <1>7 DEF AppAt
<1> QED
  BY <1>4, <1>6, <1>8 DEF RingInv, RingOn

\* The other steps, in which no thread acquires anything.
LEMMA RingInvStep ==
    Discipline = "ordered" /\ Inv /\ RingInv /\ [Next]_vars => RingInv'
<1> SUFFICES ASSUME Discipline = "ordered", Inv, RingInv, [Next]_vars PROVE RingInv'
  OBVIOUS
<1> USE DEF AppAt, AppGoto, HelperAt, HelperGoto, Running
<1>1. app \in AppState /\ helper \in HelperState /\ EveryFrameNotified /\ notify_pipe \in Nat
  BY DEF Inv, TypeOK, RingInv
<1>2. CASE SetupBegin \/ SetupSubmit \/ \E r \in Resources : SetupAcquire(r)
  BY <1>2, RingSetup
<1>3. CASE SetupLaunch
  <2>1. /\ Ready' = Ready /\ Notified' = Notified /\ frames_ready' = frames_ready
        /\ "buffer" \in res /\ app'.pc = "idle"
    BY <1>1, <1>3
    DEF SetupLaunch, capture, client, Ready, Notified, OneIf, AppState, NoHelper, Inv, PhasesOK,
        AcquiredBefore, Resources
  <2>2. EveryFrameNotified'
    BY <1>1, <2>1 DEF EveryFrameNotified
  <2> QED
    BY <1>3, <2>1, <2>2, RingLaunched DEF RingInv
<1>4. CASE CallbackBegin
  <2>1. /\ UNCHANGED <<res, frames_ready, app>> /\ Ready' = Ready /\ Notified' = Notified
        /\ RingOn /\ app.pc # "setup"
    BY <1>1, <1>4
    DEF CallbackBegin, session, client, Ready, Notified, OneIf, HelperState, Inv, PhasesOK, RingOn,
        Resources
  <2> QED
    BY <1>1, <1>4, <2>1, CountUntouched, RingCallback DEF RingInv
<1>5. CASE CallbackFill
  <2>1. /\ UNCHANGED <<res, app>> /\ frames_ready' = frames_ready + 1
        /\ Notified' = Notified + 1 /\ RingOn /\ app.pc # "setup"
    BY <1>1, <1>5
    DEF CallbackFill, session, client, Notified, OneIf, HelperState, Inv, MutexOK, PhasesOK, RingOn,
        Resources
  <2>2. InRingOrder'
    BY <1>5, <2>1, RingFilled DEF RingInv
  <2>3. Cardinality(Ready') = Cardinality(Ready) + 1
    BY <1>5, <2>1, RingFilled, ReadyFinite, FS_AddElement DEF RingInv, Inv
  <2>4. EveryFrameNotified'
    BY <1>1, <2>1, <2>3 DEF EveryFrameNotified
  <2> QED
    BY <2>1, <2>2, <2>4 DEF RingInv
<1>6. CASE CallbackLock \/ CallbackNotify \/ EventsReturn \/ CheckKill
  <2>1. /\ UNCHANGED <<status, current, queue_broken, inflight, held, oldest, res, frames_ready, app>>
        /\ InCallback' <=> InCallback
        /\ InCallback => helper'.frame = helper.frame
    BY <1>1, <1>6
    DEF CallbackLock, CallbackNotify, EventsReturn, CheckKill, capture, client, session, InCallback,
        HelperState
  <2>2. Ready' = Ready
    BY <2>1 DEF Ready
  <2>3. Notified' = Notified
    <3>1. CASE CallbackNotify
      <4>1. notify_pipe' = notify_pipe + 1 /\ helper.pc = "notify" /\ helper'.pc # "notify" /\ app' = app
        BY <1>1, <3>1 DEF CallbackNotify, HelperState
      <4> QED
        BY <1>1, <4>1 DEF Notified, OneIf
    <3>2. CASE CallbackLock \/ EventsReturn \/ CheckKill
      <4>1. notify_pipe' = notify_pipe /\ helper.pc # "notify" /\ helper'.pc # "notify" /\ app' = app
        BY <1>1, <3>2 DEF CallbackLock, EventsReturn, CheckKill, HelperState
      <4> QED
        BY <4>1 DEF Notified, OneIf
    <3> QED
      BY <1>6, <3>1, <3>2
  <2>4. RingOn /\ app.pc # "setup"
    BY <1>6 DEF CallbackLock, CallbackNotify, EventsReturn, CheckKill, Inv, PhasesOK, RingOn,
                Resources
  <2>5. app'.pc \in {"read", "enter", "exit"} => ~queue_broken
    BY <2>1, <2>4 DEF RingInv, InRingOrder, NoneLost
  <2>6. InRingOrder'
    BY <2>1, <2>4, <2>5, RingUntouched DEF RingInv
  <2> QED
    BY <1>1, <2>1, <2>2, <2>3, <2>4, <2>6, CountUntouched DEF RingInv
<1>7. CASE \/ DequeueCall \/ DequeueRead \/ DequeueInterrupted \/ DequeueLock
           \/ StopBegin \/ StopKill \/ \E f \in Frames : EnqueueRefused(f)
  <2>1. /\ UNCHANGED <<status, current, queue_broken, inflight, held, oldest, res, frames_ready, helper>>
        /\ app'.pc # "setup"
    BY <1>1, <1>7
    DEF DequeueCall, DequeueEmpty, DequeueBroken, DequeueBegin, DequeueRead, DequeueInterrupted,
        DequeueLock, StopBegin, StopKill, EnqueueRefused, capture, client, session, threads, AppState
  <2>2. Ready' = Ready
    BY <2>1 DEF Ready
  <2>3. Notified' = Notified
    <3>1. CASE DequeueRead
      <4>1. /\ notify_pipe' = notify_pipe - 1 /\ app.pc = "read" /\ app'.pc = "enter"
            /\ helper' = helper
        BY <1>1, <3>1 DEF DequeueRead, AppState
      <4> QED
        BY <1>1, <4>1 DEF Notified, OneIf
    <3>2. CASE DequeueLock
      <4>1. notify_pipe' = notify_pipe /\ app.pc = "enter" /\ app'.pc = "exit" /\ helper' = helper
        BY <1>1, <3>2 DEF DequeueLock, AppState
      <4> QED
        BY <4>1 DEF Notified, OneIf
    <3>3. CASE \/ DequeueCall \/ DequeueInterrupted \/ StopBegin \/ StopKill
               \/ \E f \in Frames : EnqueueRefused(f)
      <4>1. /\ notify_pipe' = notify_pipe /\ helper' = helper
            /\ app.pc \notin {"enter", "exit"} /\ app'.pc \notin {"enter", "exit"}
        BY <1>1, <3>3
        DEF DequeueCall, DequeueEmpty, DequeueBroken, DequeueBegin, DequeueInterrupted,
            StopBegin, StopKill, EnqueueRefused, threads, AppState
      <4> QED
        BY <4>1 DEF Notified, OneIf
    <3> QED
      BY <1>7, <3>1, <3>2, <3>3
  <2>4. RingOn => (app'.pc \in {"read", "enter", "exit"} => ~queue_broken)
    <3>1. \/ app'.pc \notin {"read", "enter", "exit"} \/ ~queue_broken
          \/ app.pc \in {"read", "enter", "exit"}
      BY <1>1, <1>7
      DEF DequeueCall, DequeueEmpty, DequeueBroken, DequeueBegin, DequeueRead, DequeueInterrupted,
          DequeueLock, StopBegin, StopKill, EnqueueRefused, AppState
    <3> QED
      BY <3>1 DEF RingInv, InRingOrder, NoneLost
  <2>5. RingOn => InRingOrder'
    BY <2>1, <2>4, RingUntouched DEF RingInv, InCallback
  <2> QED
    BY <1>1, <2>1, <2>2, <2>3, <2>5, CountUntouched DEF RingInv, RingOn
<1>8. ASSUME AppAt("exit") PROVE RingOn /\ "buffer" \in res /\ NextBuffer \in Ready
  BY <1>8, NextIsReady DEF RingInv, Inv, PhasesOK, RingOn, Resources
<1>9. CASE DequeueUnexpected
  BY <1>8, <1>9 DEF DequeueUnexpected, Ready
<1>10. CASE DequeueTake
  <2>1. /\ UNCHANGED res /\ frames_ready' = frames_ready - 1 /\ Notified' = Notified - 1
        /\ app'.pc = "idle"
    BY <1>1, <1>10 DEF DequeueTake, session, Notified, OneIf, AppState, Inv, MutexOK, TypeOK
  <2>2. InRingOrder' /\ Ready' = Ready \ {NextBuffer}
    BY <1>8, <1>10, RingAdvanced DEF RingInv, DequeueTake
  <2>3. Cardinality(Ready') = Cardinality(Ready) - 1
    BY <1>8, <1>10, <2>2, ReadyFinite, FS_RemoveElement DEF Inv, DequeueTake
  <2>4. EveryFrameNotified'
    BY <1>1, <2>1, <2>3 DEF EveryFrameNotified
  <2> QED
    BY <2>1, <2>2, <2>4 DEF RingInv
<1>11. ASSUME NEW f \in Frames, Enqueue(f) PROVE RingInv'
  <2>1. /\ UNCHANGED <<res, frames_ready>> /\ Notified' = Notified /\ app' = app
        /\ app.pc = "idle"
    BY <1>11 DEF Enqueue, session, threads, Notified
  <2>2. RingOn
    BY <1>11 DEF Enqueue, Inv, PhasesOK, RingOn, Resources
  <2>3. InRingOrder' /\ Ready' = Ready
    BY <1>11, <2>2, RingReturned DEF RingInv
  <2> QED
    BY <1>1, <2>1, <2>3, CountUntouched DEF RingInv
<1>12. CASE StopJoin
  <2>1. /\ "thread" \notin res' /\ frames_ready' = frames_ready /\ Ready' = Ready
        /\ "buffer" \in res' <=> "buffer" \in res
        /\ Notified' = Notified /\ app'.pc = "release"
    BY <1>1, <1>12
    DEF StopJoin, capture, client, Ready, Notified, OneIf, AppState, NoHelper
  <2>2. EveryFrameNotified'
    BY <1>1, <2>1 DEF EveryFrameNotified
  <2> QED
    BY <2>1, <2>2 DEF RingInv, RingOn
<1>13. CASE StopRelease
  BY <1>1, <1>13 DEF StopRelease, RingInv, RingOn, EveryFrameNotified, AppState
<1>14. CASE UNCHANGED vars
  <2>1. /\ UNCHANGED <<status, current, queue_broken, inflight, held, oldest, res, frames_ready, helper,
                        app, notify_pipe>>
    BY <1>14 DEF vars, capture, threads, session, client
  <2>2. Ready' = Ready /\ Notified' = Notified
    BY <2>1 DEF Ready, Notified
  <2>3. RingOn => InRingOrder'
    BY <2>1, RingUntouched DEF RingInv, InCallback, InRingOrder, NoneLost
  <2> QED
    BY <1>1, <2>1, <2>2, <2>3, CountUntouched DEF RingInv, RingOn, FreshRing
<1> QED
  BY <1>2, <1>3, <1>4, <1>5, <1>6, <1>7, <1>9, <1>10, <1>11, <1>12, <1>13, <1>14
  DEF Next, Helper, Setup, DequeueRest, StopRest

LEMMA RingInvHolds == Discipline = "ordered" => (Spec => []RingInv)
<1> SUFFICES ASSUME Discipline = "ordered" PROVE Spec => []RingInv
  OBVIOUS
<1>1. Init => RingInv
  BY DEF Init, RingInv, EveryFrameNotified, RingOn, AppAt
<1>2. Inv /\ RingInv /\ [Next]_vars => RingInv'
  BY RingInvStep
<1> QED
  BY <1>1, <1>2, InvHolds, PTL DEF Spec

\* If frames come back in the order they were taken, the bytes in the pipe, the
\* counter and the frames that wait are equally many, for any number of buffers.
THEOREM FramesAreNotified == Discipline = "ordered" => (Spec => []EveryFrameNotified)
<1>1. RingInv => EveryFrameNotified
  BY DEF RingInv
<1> QED
  BY <1>1, RingInvHolds, PTL

\* ... and the byte that dequeue has read stands for the next frame of the ring.
THEOREM NextFrameIsReady == Discipline = "ordered" => (Spec => []NextFrameReady)
<1>1. Inv /\ RingInv => NextFrameReady
  <2> SUFFICES ASSUME Inv, RingInv, AppAt("enter") \/ AppAt("exit") PROVE NextBuffer \in Ready
    BY DEF NextFrameReady
  <2>1. InRingOrder /\ EveryFrameNotified
    BY DEF RingInv, Inv, PhasesOK, RingOn, Resources, AppAt
  <2> QED
    BY <2>1, NextIsReady
<1> QED
  BY <1>1, RingInvHolds, InvHolds, PTL

\* Whatever the order, the status of a frame the application holds is not
\* touched until the frame is given back.
THEOREM HeldAreStable == Spec => HeldFramesStable
<1>1. Inv /\ [Next]_vars => [\A f \in held : f \in held' => status'[f] = status[f]]_vars
  <2> SUFFICES ASSUME Inv, Next, NEW f \in held, f \in held' PROVE status'[f] = status[f]
    OBVIOUS
  <2>1. status \in [Frames -> Status] /\ f \in Frames
    BY DEF Inv, TypeOK
  <2>2. ASSUME NEW r \in Resources, SetupAcquire(r) PROVE FALSE
    BY <2>2 DEF SetupAcquire, Inv, QuietOK, Quiet
  <2>3. CASE CallbackFill
    <3>1. helper.frame \notin held /\ status' = [status EXCEPT ![helper.frame] = helper.status]
      BY <2>3 DEF CallbackFill, Inv, OwnersOK, InCallback
    <3> QED
      BY <2>1, <3>1
  <2>4. ASSUME NEW g \in Frames, Enqueue(g) PROVE status'[f] = status[f]
    BY <2>1, <2>4 DEF Enqueue
  <2>5. CASE StopRelease
    BY <2>5 DEF StopRelease
  <2>6. CASE \/ SetupBegin \/ SetupSubmit \/ SetupLaunch \/ CallbackBegin \/ CallbackLock
             \/ CallbackNotify \/ EventsReturn \/ CheckKill \/ DequeueCall \/ DequeueRest
             \/ StopBegin \/ StopKill \/ StopJoin \/ \E g \in Frames : EnqueueRefused(g)
    BY <2>6
    DEF SetupBegin, SetupSubmit, SetupLaunch, CallbackBegin, CallbackLock, CallbackNotify,
        EventsReturn, CheckKill, DequeueCall, DequeueEmpty, DequeueBroken, DequeueBegin, DequeueRest,
        DequeueRead, DequeueInterrupted, DequeueLock, DequeueUnexpected, DequeueTake, StopBegin,
        StopKill, StopJoin, EnqueueRefused, capture
  <2> QED
    BY <2>2, <2>3, <2>4, <2>5, <2>6 DEF Next, Helper, Setup, StopRest
<1> QED
  BY <1>1, InvHolds, PTL DEF Spec, HeldFramesStable

-----------------------------------------------------------------------------
(* The ring implements FrameRing *)

LEMMA RingOrderIs == RingOrder = RingFrom(NumFrames, NextBuffer)
                     /\ RingOrder' = RingFrom(NumFrames, NextBuffer')
  BY DEF RingOrder, RingFrom

LEMMA RingStart ==
    ASSUME Inv, RingInv, SetupLaunch
    PROVE  Ring!Start
<1>1. /\ ~RingOn /\ RingOn'
  BY DEF SetupLaunch, RingOn, AcquiredBefore
<1>2. inflight' = [i \in 1 .. NumFrames |-> i - 1] /\ inflight' \in Seq(Frames)
  BY DEF SetupLaunch, capture, RingInv, FreshRing, AcquiredBefore, Resources, Inv, TypeOK
<1>3. ~InCallback' /\ held' = {} /\ Ready' = {}
  BY DEF SetupLaunch, capture, client, Inv, PhasesOK, QuietOK, Quiet, InCallback, HelperAt, NoHelper,
         Ready
<1>4. RingDevice' = [i \in 1 .. NumFrames |-> i - 1]
  BY <1>1, <1>2, <1>3 DEF RingDevice, BeingFilled
<1>5. RingReady' = <<>>
  <2>1. Places(RingOrder', Ready') = {}
    BY <1>3 DEF Places
  <2> QED
    BY <1>1, <2>1, NothingSelected DEF RingReady
<1> QED
  BY <1>1, <1>3, <1>4, <1>5 DEF Ring!Start, RingReady, RingUser, RingDevice

LEMMA RingFill ==
    ASSUME Inv, Inv', InRingOrder, RingOn, CallbackFill
    PROVE  Ring!Fill
<1> DEFINE g == helper.frame
<1>1. /\ g \in Frames /\ g \notin Ready /\ Ready' = Ready \cup {g}
      /\ \A f \in Ready : Pos(f) < Pos(g)
  BY RingFilled
<1>2. /\ InCallback /\ ~InCallback' /\ RingOn' /\ NextBuffer' = NextBuffer
      /\ UNCHANGED <<inflight, held>> /\ inflight \in Seq(Frames)
  BY DEF CallbackFill, session, client, RingOn, NextBuffer, InCallback, HelperAt, HelperGoto, Inv,
         TypeOK, HelperState
<1>3. /\ RingDevice = <<g>> \o inflight /\ RingDevice' = inflight
      /\ RingDevice # <<>> /\ Head(RingDevice) = g /\ Tail(RingDevice) = inflight
  BY <1>1, <1>2 DEF RingDevice, BeingFilled
<1>4. RingReady' = Append(RingReady, g)
  <2>1. /\ RingOrder \in Seq(Frames) /\ Len(RingOrder) = NumFrames
        /\ \A i \in 1 .. NumFrames : Pos(RingOrder[i]) = i - 1
        /\ RingOrder[Pos(g) + 1] = g
    BY <1>1, RingOrderIs, RingFromValue, NumFramesAssumption, NextBufferInFrames DEF Frames, Next_frame, Inv, Pos
  <2>2. RingOrder' = RingOrder
    BY <1>2 DEF RingOrder
  <2>3. PICK k \in 1 .. NumFrames : k = Pos(g) + 1
    BY <1>1, NextBufferInFrames, Around DEF Inv, Pos
  <2>4. Pos(g) \in Int
    BY <1>1, NextBufferInFrames, Around DEF Inv, Pos
  <2>5. Places(RingOrder, Ready') = Places(RingOrder, Ready) \cup {k}
    <3>1. DOMAIN RingOrder = 1 .. NumFrames /\ RingOrder[k] = g
      BY <2>1, <2>3
    <3>2. ASSUME NEW i \in 1 .. NumFrames, RingOrder[i] = g PROVE i = k
      BY <2>1, <2>3, <2>4, <3>2
    <3> QED
      BY <1>1, <3>1, <3>2 DEF Places
  <2>6. \A j \in Places(RingOrder, Ready) : j < k
    <3>1. ASSUME NEW j \in 1 .. NumFrames, RingOrder[j] \in Ready PROVE j < k
      <4>1. Pos(RingOrder[j]) < Pos(g) /\ Pos(RingOrder[j]) = j - 1
        BY <1>1, <2>1, <3>1
      <4> QED
        BY <2>3, <2>4, <4>1
    <3>2. DOMAIN RingOrder = 1 .. NumFrames
      BY <2>1
    <3> QED
      BY <3>1, <3>2 DEF Places
  <2>7. k \in 1 .. Len(RingOrder) /\ RingOrder[k] = g
    BY <2>1, <2>3
  <2>8. Selected(RingOrder, Ready') = Append(Selected(RingOrder, Ready), g)
    BY <2>1, <2>5, <2>6, <2>7, SelectedGrows
  <2> QED
    BY <1>2, <2>2, <2>8 DEF RingReady
<1>5. RingUser' = RingUser
  BY <1>2 DEF RingUser
<1> QED
  BY <1>2, <1>3, <1>4, <1>5 DEF Ring!Fill

LEMMA RingDeliver ==
    ASSUME Inv, Inv', InRingOrder, RingOn, DequeueTake, NextBuffer \in Ready
    PROVE  Ring!Deliver
<1>1. PICK n \in Frames : n = NextBuffer
  BY DEF Ready
<1>2. /\ NextBuffer' = Next_frame(n) /\ Ready' = Ready \ {n} /\ RingOn'
      /\ held' = held \cup {n} /\ UNCHANGED <<inflight, helper>>
  BY <1>1, RingAdvanced DEF DequeueTake, RingOn, session
<1> DEFINE s == RingOrder
<1> DEFINE t == Tail(s)
<1>3. /\ s \in Seq(Frames) /\ Len(s) = NumFrames
      /\ s # <<>> /\ Head(s) = n /\ RingOrder' = Append(t, n)
      /\ \A i \in 1 .. NumFrames - 1 : t[i] # n
  <2>1. s = RingFrom(NumFrames, n) /\ RingOrder' = RingFrom(NumFrames, (n + 1) % NumFrames)
    BY <1>1, <1>2, RingOrderIs DEF Next_frame
  <2>2. n \in 0 .. NumFrames - 1
    BY DEF Frames
  <2> QED
    BY <2>1, <2>2, RingFromNext, RingFromValue, NumFramesAssumption DEF Frames
<1>4. t \in Seq(Frames) /\ Len(t) = NumFrames - 1
  BY <1>3
<1> HIDE DEF s, t
<1>5. RingReady = Selected(s, Ready) /\ RingReady' = Selected(Append(t, n), Ready \ {n})
  BY <1>2, <1>3 DEF RingReady, s
<1>6. RingReady' = Selected(t, Ready)
  <2>1. Selected(Append(t, n), Ready \ {n}) = Selected(t, Ready \ {n})
    BY <1>4, SelectedOfAppend
  <2>2. DOMAIN t = 1 .. NumFrames - 1
    BY <1>4
  <2>3. Places(t, Ready \ {n}) = Places(t, Ready)
    BY <1>3, <2>2 DEF Places
  <2> QED
    BY <1>5, <2>1, <2>3 DEF Selected
<1>7. RingReady # <<>> /\ Head(RingReady) = n /\ RingReady' = Tail(RingReady)
  BY <1>1, <1>3, <1>5, <1>6, SelectedOfTail DEF t
<1>8. RingUser' = RingUser \cup {n} /\ RingDevice' = RingDevice
  BY <1>2 DEF RingUser, RingDevice, BeingFilled, InCallback, HelperAt
<1> QED
  BY <1>2, <1>7, <1>8 DEF Ring!Deliver

LEMMA RingReturn ==
    ASSUME Inv, InRingOrder, RingOn, Discipline = "ordered", NEW f \in Frames, Enqueue(f)
    PROVE  f \in RingUser /\ Ring!Return(f)
<1>1. /\ f \in held /\ held' = held \ {f} /\ RingOn' /\ UNCHANGED helper
      /\ inflight' \in {inflight, Append(inflight, f)}
  BY DEF Enqueue, Passed, Returnable, RingOn, session, threads
<1>2. NextBuffer' = NextBuffer /\ Ready' = Ready
  BY RingReturned
<1>3. RingReady' = RingReady
  BY <1>1, <1>2 DEF RingReady, RingOrder
<1>4. RingUser = held /\ RingUser' = held \ {f}
  BY <1>1 DEF RingUser
<1>5. inflight \in Seq(Frames) /\ BeingFilled \in Seq(Frames) /\ BeingFilled' = BeingFilled
  BY <1>1 DEF Inv, TypeOK, BeingFilled, InCallback, HelperAt
<1>6. RingDevice' \in {RingDevice, Append(RingDevice, f)}
  <2>1. BeingFilled \o Append(inflight, f) = Append(BeingFilled \o inflight, f)
    BY <1>5
  <2> QED
    BY <1>1, <1>5, <2>1 DEF RingDevice
<1> QED
  BY <1>1, <1>3, <1>4, <1>6 DEF Ring!Return

\* Every step of the two threads is a step of FrameRing, or changes nothing of
\* what it sees.
LEMMA RingStepImplements ==
    ASSUME Discipline = "ordered", Inv, Inv', RingInv, RingInv', [Next]_vars
    PROVE  [Ring!Next]_(Ring!vars)
<1> USE DEF AppAt, AppGoto, HelperAt, HelperGoto, Running
<1> DEFINE RingUnseen == /\ RingOn' = RingOn /\ RingDevice' = RingDevice
                         /\ RingReady' = RingReady /\ RingUser' = RingUser
<1>1. ASSUME RingUnseen PROVE UNCHANGED Ring!vars
  BY <1>1 DEF Ring!vars
<1>2. ASSUME ~RingOn, ~RingOn' PROVE RingUnseen
  <2>1. RingOn' = RingOn
    BY <1>2 DEF RingOn
  <2> QED
    BY <1>2, <2>1 DEF RingDevice, RingReady, RingUser
<1>3. ASSUME UNCHANGED <<res, status, current, inflight, held>>, BeingFilled' = BeingFilled
      PROVE  RingUnseen
  <2>1. RingOrder' = RingOrder /\ Ready' = Ready /\ RingOn' = RingOn
    BY <1>3 DEF RingOrder, NextBuffer, Ready, RingOn
  <2>2. RingDevice' = RingDevice
    BY <1>3, <2>1 DEF RingDevice
  <2>3. RingReady' = RingReady
    BY <2>1 DEF RingReady
  <2>4. RingUser' = RingUser
    BY <1>3, <2>1 DEF RingUser
  <2> QED
    BY <2>1, <2>2, <2>3, <2>4, Zenon
<1>4. CASE SetupBegin \/ SetupSubmit \/ \E r \in Resources : SetupAcquire(r)
  <2>1. ~RingOn /\ ~RingOn'
    BY <1>4 DEF SetupBegin, SetupSubmit, SetupAcquire, AcquiredBefore, Inv, QuietOK, Resources, RingOn
  <2> QED
    BY <1>1, <1>2, <2>1
<1>5. CASE SetupLaunch
  BY <1>5, RingStart DEF Ring!Next
<1>6. ASSUME \/ Helper \/ DequeueRest \/ DequeueCall \/ \E f \in Frames : Enqueue(f)
      PROVE  RingOn /\ InRingOrder /\ RingOn'
  <2>1. RingOn /\ res' = res
    BY <1>6
    DEF Helper, CallbackBegin, CallbackLock, CallbackFill, CallbackNotify, EventsReturn, CheckKill,
        DequeueRest, DequeueRead, DequeueInterrupted, DequeueLock, DequeueUnexpected, DequeueTake,
        DequeueCall, DequeueEmpty, DequeueBroken, DequeueBegin, Enqueue, session, Inv, PhasesOK,
        RingOn, Resources
  <2> QED
    BY <2>1 DEF RingInv, RingOn
<1>7. CASE CallbackBegin
  <2>1. /\ inflight \in Seq(Frames) /\ inflight # <<>> /\ inflight' = Tail(inflight)
        /\ BeingFilled = <<>> /\ BeingFilled' = <<Head(inflight)>>
        /\ UNCHANGED <<status, current, held>>
    BY <1>7 DEF CallbackBegin, client, BeingFilled, InCallback, Inv, TypeOK, HelperState
  <2>2. RingDevice' = RingDevice
    <3>1. <<>> \o inflight = inflight /\ <<Head(inflight)>> \o Tail(inflight) = inflight
      BY <2>1
    <3> QED
      BY <1>6, <1>7, <2>1, <3>1 DEF RingDevice, Helper
  <2>3. UNCHANGED <<RingReady, RingUser>>
    BY <1>6, <1>7, <2>1 DEF RingReady, RingUser, RingOrder, NextBuffer, Ready, Helper
  <2> QED
    BY <1>1, <1>6, <1>7, <2>2, <2>3 DEF Helper
<1>8. CASE CallbackFill
  BY <1>6, <1>8, RingFill DEF Ring!Next, Helper
<1>9. CASE CallbackLock \/ CallbackNotify \/ EventsReturn \/ CheckKill
  <2>1. UNCHANGED <<res, status, current, inflight, held>> /\ BeingFilled' = BeingFilled
    BY <1>9 DEF CallbackLock, CallbackNotify, EventsReturn, CheckKill, capture, client, session,
                BeingFilled, InCallback, Inv, TypeOK, HelperState
  <2> QED
    BY <1>1, <1>3, <2>1
<1>10. CASE \/ DequeueCall \/ DequeueRead \/ DequeueInterrupted \/ DequeueLock \/ DequeueUnexpected
            \/ StopBegin \/ StopKill \/ \E f \in Frames : EnqueueRefused(f)
  <2>1. UNCHANGED <<res, status, current, inflight, held, helper>>
    BY <1>10
    DEF DequeueCall, DequeueEmpty, DequeueBroken, DequeueBegin, DequeueRead, DequeueInterrupted,
        DequeueLock, DequeueUnexpected, StopBegin, StopKill, EnqueueRefused, capture, client, session,
        threads
  <2>2. BeingFilled' = BeingFilled
    BY <2>1 DEF BeingFilled, InCallback
  <2> QED
    BY <1>1, <1>3, <2>1, <2>2
<1>11. CASE DequeueTake
  <2>1. NextBuffer \in Ready
    BY <1>6, <1>11, NextIsReady DEF RingInv, DequeueTake, DequeueRest
  <2> QED
    BY <1>6, <1>11, <2>1, RingDeliver DEF Ring!Next, DequeueRest
<1>12. ASSUME NEW f \in Frames, Enqueue(f) PROVE Ring!Next
  BY <1>6, <1>12, RingReturn DEF Ring!Next
<1>13. CASE StopJoin \/ StopRelease
  <2>1. ~RingOn'
    BY <1>13 DEF StopJoin, StopRelease, RingOn
  <2>2. CASE RingOn
    BY <2>1, <2>2 DEF Ring!Next, Ring!Stop, RingDevice, RingReady, RingUser
  <2>3. CASE ~RingOn
    BY <1>1, <1>2, <2>1, <2>3
  <2> QED
    BY <2>2, <2>3
<1>14. CASE UNCHANGED vars
  <2>1. UNCHANGED <<res, status, current, inflight, held, helper>>
    BY <1>14 DEF vars, capture, threads, session, client
  <2>2. BeingFilled' = BeingFilled
    BY <2>1 DEF BeingFilled, InCallback
  <2> QED
    BY <1>1, <1>3, <2>1, <2>2
<1> QED
  BY <1>4, <1>5, <1>7, <1>8, <1>9, <1>10, <1>11, <1>12, <1>13, <1>14
  DEF Next, Helper, Setup, DequeueRest, StopRest

\* For an application that enqueues frames in the order it dequeued them, and
\* any number of buffers, the two threads implement FrameRing.
THEOREM RingImplemented == Discipline = "ordered" => (Spec => ImplementsRing)
<1> SUFFICES ASSUME Discipline = "ordered" PROVE Spec => ImplementsRing
  OBVIOUS
<1>1. Init => Ring!Init
  BY DEF Init, Ring!Init, RingOn, RingDevice, RingReady, RingUser
<1>2. Inv /\ Inv' /\ RingInv /\ RingInv' /\ [Next]_vars => [Ring!Next]_(Ring!vars)
  BY RingStepImplements
<1> QED
  BY <1>1, <1>2, InvHolds, RingInvHolds, PTL DEF Spec, ImplementsRing, Ring!Spec

=============================================================================

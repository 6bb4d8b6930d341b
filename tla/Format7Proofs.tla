---------------------------- MODULE Format7Proofs ----------------------------
(***************************************************************************)
(* Theorems about Format7, for any sensor, any colour codings and any      *)
(* regions that programs ask for.                                          *)
(*                                                                         *)
(* The invariant Inv adds to the types what the call knows of the camera   *)
(* when it has come to a label: the registers it has written so far still  *)
(* hold what was asked (a camera that settles changes none of them but a   *)
(* packet size of zero), and a handshake that ended without ErrorFlag_1    *)
(* has made the camera use them.                                           *)
(***************************************************************************)
EXTENDS Format7, TLAPS

SameRegion(r, s) == r.pos = s.pos /\ r.size = s.size /\ r.coding = s.coding

Shaking == {"shake_query", "shake_set", "shake_poll"}
\* The call is at one of the labels, or in the handshake before it.
At(labels) == pc \in labels \/ (pc \in Shaking /\ after \in labels)

WithPosition == {"packet_read", "packet_choose", "packet_write", "roi_set"}
WithMax == {"zero_write", "size_write", "pos_write"} \cup WithPosition
WithCoding == {"size_read", "pos_read", "max_read"} \cup WithMax

\* A region that a camera with the handshake refuses ends the call; others say
\* nothing, and use it only if it fits.
Told == HasHandshake \/ RoiFits

CameraInv ==
    /\ FitsSensor(effective)
    /\ ~HasHandshake => written = effective /\ ~setting /\ pc \notin {"shake_set", "shake_poll"}
    /\ (pc = "shake_poll" /\ ~setting /\ ~errFlag1) => SameRegion(effective, written)

CallInv ==
    /\ pc = "coding_write" => ask.coding \in Codings
    /\ At(WithCoding) => written.coding = ask.coding
    /\ At(WithMax) => ask.left >= 0 /\ ask.top >= 0
    /\ pc = "size_write" => written.pos = Unset
    /\ (pc = "pos_write" /\ Told) => written.size = RoiSize
    /\ (At(WithPosition) /\ Told) => written.pos = RoiPosition /\ written.size = RoiSize
    /\ pc = "packet_write" => ask.packet \in Nat
    /\ pc = "frame_packets" => frame.packet # 0

RoiInv ==
    (result = "roi_set" /\ pc = "idle") =>
        /\ ~setting
        /\ Told => /\ effective.pos = RoiPosition /\ effective.size = RoiSize
                   /\ effective.coding = ask.coding

Inv == F7TypeOK /\ CameraInv /\ CallInv /\ RoiInv

-----------------------------------------------------------------------------
(* The camera.                                                             *)

\* A packet size that is filled in leaves the region alone.
LEMMA SetsPacketKeeps ==
    ASSUME NEW r \in Registers
    PROVE  SetsPacket(r) \in Registers /\ SameRegion(SetsPacket(r), r)
BY CodingsAssumption DEF SetsPacket, Registers, SameRegion, UnitBytes

\* A camera uses what it is given if it fits, or goes on as before.
LEMMA Accepts ==
    ASSUME effective \in Registers, FitsSensor(effective), NEW r \in Registers
    PROVE  /\ Accept(r) \in Registers
           /\ FitsSensor(Accept(r))
           /\ FitsSensor(r) => SameRegion(Accept(r), r)
           /\ ~FitsSensor(r) => Accept(r) = effective
<1>1. CASE ~FitsSensor(r)
  BY <1>1 DEF Accept
<1>2. CASE FitsSensor(r)
  <2> DEFINE q == IF PacketAccepted(r) THEN r ELSE [r EXCEPT !.packet = effective.packet]
  <2>1. q \in Registers /\ SameRegion(q, r)
    BY DEF Registers, SameRegion
  <2>2. Accept(r) = SetsPacket(q)
    BY <1>2 DEF Accept
  <2>3. SetsPacket(q) \in Registers /\ SameRegion(SetsPacket(q), q)
    BY <2>1, SetsPacketKeeps
  <2>4. SameRegion(SetsPacket(q), r)
    BY <2>1, <2>3 DEF SameRegion
  <2>5. FitsSensor(SetsPacket(q))
    BY <1>2, <2>4 DEF FitsSensor, SameRegion
  <2> QED BY <1>2, <2>2, <2>3, <2>4, <2>5
<1> QED BY <1>1, <1>2

\* What a write does to a camera of either sort.
LEMMA Effects ==
    ASSUME F7TypeOK, CameraInv, NEW r \in Registers, Effect(r)
    PROVE  /\ written' \in Registers /\ effective' \in Registers
           /\ FitsSensor(effective')
           /\ HasHandshake => written' = r /\ effective' = effective
           /\ ~HasHandshake =>
                 /\ written' = effective'
                 /\ FitsSensor(r) => SameRegion(written', r)
                 /\ ~FitsSensor(r) => written' = written
<1>1. CASE HasHandshake
  BY <1>1 DEF Effect, F7TypeOK, CameraInv
<1>2. CASE ~HasHandshake
  BY <1>2, Accepts DEF Effect, F7TypeOK, CameraInv
<1> QED BY <1>1, <1>2

\* The registers a call writes.
LEMMA RegisterTypes ==
    ASSUME F7TypeOK
    PROVE  /\ \A p \in Int \X Int : [written EXCEPT !.pos = p] \in Registers
           /\ \A s \in Int \X Int : [written EXCEPT !.size = s] \in Registers
           /\ \A n \in Nat : [written EXCEPT !.packet = n] \in Registers
           /\ \A c \in Codings : [written EXCEPT !.coding = c] \in Registers
           /\ RoiPosition \in Int \X Int /\ RoiSize \in Int \X Int /\ Unset \in Int \X Int
BY DEF F7TypeOK, Registers, Arguments, RoiPosition, RoiSize, Unset

-----------------------------------------------------------------------------
(* Calls that end, and writes.                                             *)

CameraTypes == /\ written \in Registers /\ effective \in Registers
               /\ setting \in BOOLEAN /\ errFlag1 \in BOOLEAN
CameraSafe == /\ FitsSensor(effective)
              /\ ~HasHandshake => written = effective /\ ~setting

\* An idle program knows nothing but the outcome of its last call.
LEMMA Ends ==
    ASSUME Inv, NEW res \in Outcomes \ {"roi_set"}, Return(res), CameraTypes', CameraSafe'
    PROVE  Inv'
<1>1. /\ pc' = "idle" /\ result' = res /\ after' = "set" /\ kind' = kind
      /\ ask' = NoAsk /\ frame' = NoFrame
  BY DEF Return
<1>2. F7TypeOK'
  BY <1>1 DEF Inv, F7TypeOK, CameraTypes, NoAsk, NoFrame, Arguments, Frames, Unset, Labels, Outcomes, QUERY_FROM_CAMERA
<1>3. CameraInv'
  BY <1>1 DEF CameraSafe, CameraInv
<1>4. CallInv' /\ RoiInv'
  BY <1>1 DEF CallInv, RoiInv, At, Shaking, WithCoding, WithMax, WithPosition
<1> QED BY <1>2, <1>3, <1>4 DEF Inv

LEMMA Unchanged ==
    ASSUME Inv, UNCHANGED registers
    PROVE  CameraTypes' /\ (UNCHANGED kind => CameraSafe')
BY DEF Inv, F7TypeOK, CameraInv, CameraTypes, CameraSafe, registers, FitsSensor, HasHandshake

LEMMA ReadFailing ==
    ASSUME Inv, ReadFails
    PROVE  Inv'
<1>1. Return("failure") /\ UNCHANGED registers /\ UNCHANGED kind
  BY DEF ReadFails, Return
<1> QED BY <1>1, Unchanged, Ends DEF Outcomes

\* The state of the camera after a write, whether it has arrived or not.
LEMMA Writes ==
    ASSUME Inv, NEW r \in Registers, UNCHANGED kind, UNCHANGED <<setting, errFlag1>>,
           Effect(r) \/ UNCHANGED <<written, effective>>
    PROVE  CameraTypes' /\ CameraSafe'
<1>1. CASE Effect(r)
  BY <1>1, Effects DEF Inv, F7TypeOK, CameraInv, CameraTypes, CameraSafe, HasHandshake
<1>2. CASE UNCHANGED <<written, effective>>
  BY <1>2, Unchanged DEF registers
<1> QED BY <1>1, <1>2

LEMMA WriteFailing ==
    ASSUME Inv, NEW r \in Registers, WriteFails(r)
    PROVE  Inv'
<1>1. /\ Return("failure") /\ UNCHANGED kind /\ UNCHANGED <<setting, errFlag1>>
      /\ Effect(r) \/ UNCHANGED <<written, effective>>
  BY DEF WriteFails, Return
<1>2. CameraTypes' /\ CameraSafe'
  BY <1>1, Writes
<1> QED BY <1>1, <1>2, Ends DEF Outcomes

\* A call that goes on with its arguments and the camera as they are, to a label
\* at which no more is known.
LEMMA Moves ==
    ASSUME Inv, CameraTypes', CameraSafe', UNCHANGED <<kind, ask, frame, result>>,
           pc' \in Labels \ {"idle"}, after' \in {"size_read", "packet_read", "set", "roi_set"},
           CallInv',
           pc' \in {"shake_set", "shake_poll"} => HasHandshake,
           (pc' = "shake_poll" /\ ~setting' /\ ~errFlag1') => SameRegion(effective', written')
    PROVE  Inv'
<1>1. F7TypeOK'
  BY DEF Inv, F7TypeOK, CameraTypes
<1>2. CameraInv'
  BY DEF Inv, CameraInv, CameraSafe, SameRegion, HasHandshake
<1>3. RoiInv'
  BY DEF RoiInv
<1> QED BY <1>1, <1>2, <1>3 DEF Inv

-----------------------------------------------------------------------------
(* The handshake.                                                          *)

\* The handshake is over: on to the label that was to follow.
LEMMA ShakeEnds ==
    ASSUME Inv, pc \in {"shake_query", "shake_poll"}, Goto(after), UNCHANGED registers,
           HasHandshake => ~setting /\ SameRegion(effective, written)
    PROVE  Inv'
<1>1. CASE after = "set"
  <2>1. Return("set") /\ UNCHANGED kind
    BY <1>1 DEF Goto, Return
  <2> QED BY <2>1, Unchanged, Ends DEF Outcomes
<1>2. CASE after = "roi_set"
  <2>1. /\ pc' = "idle" /\ result' = "roi_set" /\ after' = "set"
        /\ ask' = ask /\ frame' = NoFrame /\ kind' = kind
    BY <1>2 DEF Goto, Return
  <2>2. CameraTypes' /\ CameraSafe'
    BY <2>1, Unchanged
  <2>3. F7TypeOK'
    BY <2>1, <2>2 DEF Inv, F7TypeOK, CameraTypes, Labels, Outcomes, NoFrame, Frames, Unset
  <2>4. CameraInv'
    BY <2>1, <2>2 DEF CameraInv, CameraSafe, HasHandshake
  <2>5. CallInv'
    BY <2>1 DEF CallInv, At, Shaking, WithCoding, WithMax, WithPosition
  <2>6. At(WithPosition) /\ At(WithCoding)
    BY <1>2 DEF At, Shaking, WithPosition, WithMax, WithCoding
  <2>7. /\ written.coding = ask.coding
        /\ Told => written.pos = RoiPosition /\ written.size = RoiSize
    BY <2>6 DEF Inv, CallInv
  <2>8. ~setting /\ SameRegion(effective, written)
    BY DEF Inv, CameraInv, SameRegion
  <2>9. RoiInv'
    <3>1. /\ UNCHANGED <<effective, setting>> /\ Told' = Told
          /\ RoiPosition' = RoiPosition /\ RoiSize' = RoiSize
      BY <2>1 DEF registers, Told, RoiFits, RoiPosition, RoiSize, HasHandshake
    <3> QED BY <2>1, <2>7, <2>8, <3>1 DEF RoiInv, SameRegion
  <2> QED BY <2>3, <2>4, <2>5, <2>9 DEF Inv
<1>3. CASE after \in {"size_read", "packet_read"}
  <2>1. pc' = after /\ UNCHANGED <<kind, after, ask, result, frame>>
    BY <1>3 DEF Goto
  <2>2. CameraTypes' /\ CameraSafe'
    BY <2>1, Unchanged
  <2>3. \A L \in {WithCoding, WithMax, WithPosition} : At(L)' => At(L)
    BY <1>3, <2>1 DEF At, Shaking
  <2>4. CallInv'
    <3>1. /\ UNCHANGED <<written, ask>> /\ Told' = Told
          /\ RoiPosition' = RoiPosition /\ RoiSize' = RoiSize
      BY <2>1 DEF registers, Told, RoiFits, RoiPosition, RoiSize, HasHandshake
    <3> QED BY <1>3, <2>1, <2>3, <3>1 DEF Inv, CallInv
  <2> QED BY <1>3, <2>1, <2>2, <2>4, Moves DEF Labels
<1> QED BY <1>1, <1>2, <1>3 DEF Inv, F7TypeOK

\* Within the handshake a call knows what it knew before it.
LEMMA ShakeMoves ==
    ASSUME Inv, CameraTypes', CameraSafe', UNCHANGED <<kind, written, after, ask, result, frame>>,
           pc \in Shaking, pc' \in {"shake_set", "shake_poll"}, HasHandshake,
           (pc' = "shake_poll" /\ ~setting' /\ ~errFlag1') => SameRegion(effective', written')
    PROVE  Inv'
<1>1. /\ Told' = Told /\ RoiPosition' = RoiPosition /\ RoiSize' = RoiSize
  BY DEF Told, RoiFits, RoiPosition, RoiSize, HasHandshake
<1>2. \A L \in {WithCoding, WithMax, WithPosition} : At(L)' => At(L)
  BY DEF At, Shaking, WithCoding, WithMax, WithPosition
<1>3. CallInv'
  BY <1>1, <1>2 DEF Inv, CallInv
<1> QED BY <1>3, Moves DEF Inv, F7TypeOK, Labels

LEMMA ShakeQueryStep ==
    ASSUME Inv, ShakeQuery
    PROVE  Inv'
<1>1. CASE HasHandshake /\ Goto("shake_set") /\ UNCHANGED registers
  <2>1. pc' = "shake_set" /\ UNCHANGED <<kind, written, after, ask, result, frame>>
    BY <1>1 DEF Goto, registers
  <2> QED BY <1>1, <2>1, Unchanged, ShakeMoves DEF ShakeQuery, Shaking
<1>2. CASE ~HasHandshake /\ Goto(after) /\ UNCHANGED registers
  BY <1>2, ShakeEnds DEF ShakeQuery
<1>3. CASE ReadFails
  BY <1>3, ReadFailing
<1> QED BY <1>1, <1>2, <1>3 DEF ShakeQuery

LEMMA ShakeSetStep ==
    ASSUME Inv, ShakeSet
    PROVE  Inv'
<1>1. /\ HasHandshake /\ pc \in Shaking /\ setting' \in BOOLEAN
      /\ UNCHANGED <<written, effective, errFlag1>>
  BY DEF ShakeSet, Inv, CameraInv, F7TypeOK, Shaking
<1>2. CameraTypes' /\ (UNCHANGED kind => CameraSafe')
  BY <1>1 DEF Inv, F7TypeOK, CameraInv, CameraTypes, CameraSafe, FitsSensor, HasHandshake
<1>3. CASE setting' = TRUE /\ Goto("shake_poll")
  <2>1. pc' = "shake_poll" /\ UNCHANGED <<kind, after, ask, result, frame>>
    BY <1>3 DEF Goto
  <2> QED BY <1>1, <1>2, <1>3, <2>1, ShakeMoves
<1>4. CASE Return("failure")
  BY <1>2, <1>4, Ends DEF Return, Outcomes
<1> QED BY <1>3, <1>4 DEF ShakeSet

LEMMA ShakePollStep ==
    ASSUME Inv, ShakePoll
    PROVE  Inv' 
<1>1. CASE ~setting /\ errFlag1 /\ Return("flag1") /\ UNCHANGED registers
  BY <1>1, Unchanged, Ends DEF Return, Outcomes
<1>2. CASE ~setting /\ ~errFlag1 /\ Goto(after) /\ UNCHANGED registers
  <2>1. SameRegion(effective, written)
    BY <1>2 DEF ShakePoll, Inv, CameraInv
  <2> QED BY <1>2, <2>1, ShakeEnds DEF ShakePoll
<1>3. CASE UNCHANGED vars
  BY <1>3 DEF vars, Inv, F7TypeOK, CameraInv, CallInv, RoiInv, At, Told, RoiFits, RoiPosition,
              RoiSize, HasHandshake, FitsSensor, SameRegion
<1>4. CASE ReadFails
  BY <1>4, ReadFailing
<1> QED BY <1>1, <1>2, <1>3, <1>4 DEF ShakePoll

\* The camera settles: whatever it does not refuse it uses from now on.
LEMMA SettlesStep ==
    ASSUME Inv, CameraSettles
    PROVE  Inv'
<1>1. /\ HasHandshake /\ written \in Registers /\ effective \in Registers /\ FitsSensor(effective)
      /\ UNCHANGED <<kind, pc, after, ask, result, frame>> /\ setting
  BY DEF CameraSettles, Inv, CameraInv, F7TypeOK
<1>2. written' \in Registers /\ SameRegion(written', written)
  BY <1>1, SetsPacketKeeps DEF CameraSettles, SameRegion
<1>3. /\ effective' \in Registers /\ FitsSensor(effective')
      /\ ~errFlag1' => SameRegion(effective', written)
  BY <1>1, Accepts DEF CameraSettles
<1>4. F7TypeOK'
  BY <1>1, <1>2, <1>3 DEF Inv, F7TypeOK, CameraSettles
<1>5. CameraInv'
  BY <1>1, <1>2, <1>3 DEF CameraInv, SameRegion, HasHandshake
<1>6. /\ Told' = Told /\ RoiPosition' = RoiPosition /\ RoiSize' = RoiSize
      /\ \A L \in {WithCoding, WithMax, WithPosition} : At(L)' = At(L)
  BY <1>1 DEF Told, RoiFits, RoiPosition, RoiSize, HasHandshake, At
<1>7. CallInv'
  BY <1>1, <1>2, <1>6 DEF Inv, CallInv, SameRegion
<1>8. RoiInv'
  BY <1>1 DEF Inv, RoiInv
<1> QED BY <1>4, <1>5, <1>7, <1>8 DEF Inv

-----------------------------------------------------------------------------
(* The setters of one register.                                            *)

\* A call begins.
LEMMA Starts ==
    ASSUME Inv, CameraTypes', CameraSafe',
           NEW label \in Labels \ {"idle", "shake_set", "shake_poll"},
           NEW args \in Arguments, NEW fr \in Frames, Started(label, args, fr), CallInv'
    PROVE  Inv'
<1>1. /\ pc' = label /\ ask' = args /\ frame' = fr /\ after' = "set"
      /\ result' = "none" /\ kind' = kind
  BY DEF Started
<1>2. F7TypeOK'
  BY <1>1 DEF Inv, F7TypeOK, CameraTypes, Outcomes
<1>3. CameraInv' /\ RoiInv'
  BY <1>1 DEF CameraInv, CameraSafe, RoiInv
<1> QED BY <1>2, <1>3 DEF Inv

LEMMA SetOneStep ==
    ASSUME Inv, NEW r \in Registers, SetOne(r)
    PROVE  Inv'
<1>1. CASE WriteFails(r)
  BY <1>1, WriteFailing
<1>2. CASE WriteOK(r) /\ Started("shake_query", NoAsk, NoFrame)
  <2>1. Effect(r) /\ UNCHANGED <<setting, errFlag1>>
    BY <1>2 DEF WriteOK
  <2>2. /\ UNCHANGED kind /\ pc' = "shake_query" /\ after' = "set"
        /\ NoAsk \in Arguments /\ NoFrame \in Frames
    BY <1>2 DEF Started, NoAsk, NoFrame, Arguments, Frames, Unset, QUERY_FROM_CAMERA
  <2>3. CameraTypes' /\ CameraSafe'
    BY <2>1, <2>2, Writes
  <2>4. CallInv'
    BY <2>2 DEF CallInv, At, Shaking, WithCoding, WithMax, WithPosition
  <2> QED BY <1>2, <2>2, <2>3, <2>4, Starts DEF Labels
<1> QED BY <1>1, <1>2 DEF SetOne

LEMMA SettersStep ==
    ASSUME Inv,
           \/ \E p \in AskedPositions : SetImagePosition(p)
           \/ \E s \in AskedSizes : SetImageSize(s)
           \/ \E n \in AskedPackets : SetPacketSize(n)
           \/ \E c \in Codings : SetColorCoding(c)
    PROVE  Inv'
<1>1. /\ AskedPositions \subseteq Int \X Int
      /\ AskedSizes \subseteq Int \X Int
      /\ AskedPackets \subseteq Nat
  BY AsksAssumption DEF AskedPositions, AskedSizes, AskedPackets, Arguments
<1>2. F7TypeOK
  BY DEF Inv
<1>3. ASSUME NEW p \in AskedPositions, SetImagePosition(p) PROVE Inv'
  <2>1. [written EXCEPT !.pos = p] \in Registers
    BY <1>1, <1>2, RegisterTypes
  <2> QED BY <1>3, <2>1, SetOneStep DEF SetImagePosition
<1>4. ASSUME NEW s \in AskedSizes, SetImageSize(s) PROVE Inv'
  <2>1. [written EXCEPT !.size = s] \in Registers
    BY <1>1, <1>2, RegisterTypes
  <2> QED BY <1>4, <2>1, SetOneStep DEF SetImageSize
<1>5. ASSUME NEW n \in AskedPackets, SetPacketSize(n) PROVE Inv'
  <2>1. [written EXCEPT !.packet = n] \in Registers
    BY <1>1, <1>2, RegisterTypes
  <2> QED BY <1>5, <2>1, SetOneStep DEF SetPacketSize
<1>6. ASSUME NEW c \in Codings, SetColorCoding(c) PROVE Inv'
  <2>1. [written EXCEPT !.coding = c] \in Registers
    BY <1>2, RegisterTypes
  <2> QED BY <1>6, <2>1, SetOneStep DEF SetColorCoding
<1> QED BY <1>3, <1>4, <1>5, <1>6

-----------------------------------------------------------------------------
(* dc1394_format7_set_roi()                                                *)

LEMMA RoiBeginStep ==
    ASSUME Inv, NEW a \in Asks, RoiBegin(a)
    PROVE  Inv'
<1>1. a \in Arguments /\ NoFrame \in Frames /\ UNCHANGED registers
  BY AsksAssumption DEF RoiBegin, NoFrame, Frames, Unset
<1>2. CASE a.coding = QUERY_FROM_CAMERA /\ Started("coding_read", a, NoFrame)
  <2>1. pc' = "coding_read" /\ UNCHANGED kind
    BY <1>2 DEF Started
  <2>2. CallInv'
    BY <2>1 DEF CallInv, At, Shaking, WithCoding, WithMax, WithPosition
  <2> QED BY <1>1, <1>2, <2>1, <2>2, Unchanged, Starts DEF Labels
<1>3. CASE a.coding \in Codings /\ Started("coding_write", a, NoFrame)
  <2>1. pc' = "coding_write" /\ ask' = a /\ UNCHANGED kind
    BY <1>3 DEF Started
  <2>2. CallInv'
    BY <1>3, <2>1 DEF CallInv, At, Shaking, WithCoding, WithMax, WithPosition
  <2> QED BY <1>1, <1>3, <2>1, <2>2, Unchanged, Starts DEF Labels
<1>4. CASE Return("invalid")
  BY <1>1, <1>4, Unchanged, Ends DEF Return, Outcomes
<1> QED BY <1>2, <1>3, <1>4 DEF RoiBegin

\* An argument gets its value; the camera is only read.
LEMMA Resolves ==
    ASSUME Inv, UNCHANGED registers, NEW label \in Labels \ ({"idle"} \cup Shaking),
           NEW new \in Arguments, Resolved(label, new), CallInv'
    PROVE  Inv'
<1>1. pc' = label /\ ask' = new /\ UNCHANGED <<kind, after, result, frame>>
  BY DEF Resolved
<1>2. CameraTypes' /\ CameraSafe'
  BY <1>1, Unchanged
<1>3. F7TypeOK'
  BY <1>1, <1>2 DEF Inv, F7TypeOK, CameraTypes
<1>4. CameraInv' /\ RoiInv'
  BY <1>1, <1>2 DEF CameraInv, CameraSafe, RoiInv, Shaking
<1> QED BY <1>3, <1>4 DEF Inv

\* A write that has arrived, and the call goes on at once or after a handshake.
LEMMA WritesAndMoves ==
    ASSUME Inv, NEW r \in Registers, WriteOK(r), UNCHANGED <<kind, ask, frame, result>>,
           pc' \in Labels \ {"idle", "shake_set", "shake_poll"},
           after' \in {"size_read", "packet_read", "set", "roi_set"}, CallInv'
    PROVE  Inv'
<1>1. CameraTypes' /\ CameraSafe'
  BY Writes DEF WriteOK
<1> QED BY <1>1, Moves

LEMMA CodingReadStep ==
    ASSUME Inv, CodingRead
    PROVE  Inv'
<1>1. CASE ReadFails
  BY <1>1, ReadFailing
<1>2. CASE Resolved("size_read", [ask EXCEPT !.coding = written.coding]) /\ UNCHANGED registers
  <2>1. [ask EXCEPT !.coding = written.coding] \in Arguments
    BY CodingsAssumption DEF Inv, F7TypeOK, Arguments, Registers
  <2>2. pc' = "size_read" /\ ask'.coding = written.coding /\ written' = written
    BY <1>2 DEF Resolved, registers, Inv, F7TypeOK, Arguments
  <2>3. CallInv'
    BY <2>2 DEF CallInv, At, Shaking, WithCoding, WithMax, WithPosition
  <2> QED BY <1>2, <2>1, <2>3, Resolves DEF Labels, Shaking
<1> QED BY <1>1, <1>2 DEF CodingRead

LEMMA CodingWriteStep ==
    ASSUME Inv, CodingWrite
    PROVE  Inv'
<1> DEFINE r == [written EXCEPT !.coding = ask.coding]
<1>1. r \in Registers /\ r.coding = ask.coding /\ r.pos = written.pos /\ r.size = written.size
  BY DEF CodingWrite, Inv, CallInv, F7TypeOK, Registers
<1>2. CASE WriteFails(r)
  BY <1>1, <1>2, WriteFailing
<1>3. CASE WriteOK(r) /\ GotoHandshake("size_read")
  <2>1. /\ pc' = "shake_query" /\ after' = "size_read" /\ UNCHANGED <<kind, ask, result, frame>>
        /\ Effect(r)
    BY <1>3 DEF GotoHandshake, WriteOK
  <2>2. ~HasHandshake => FitsSensor(r)
    BY <1>1 DEF Inv, CameraInv, FitsSensor
  <2>3. written'.coding = ask.coding
    BY <1>1, <2>1, <2>2, Effects DEF Inv, SameRegion
  <2>4. CallInv'
    BY <2>1, <2>3 DEF CallInv, At, Shaking, WithCoding, WithMax, WithPosition
  <2> QED BY <1>1, <1>3, <2>1, <2>4, WritesAndMoves DEF Labels
<1> QED BY <1>2, <1>3 DEF CodingWrite

LEMMA SizeReadStep ==
    ASSUME Inv, SizeRead
    PROVE  Inv'
<1>1. CASE ReadFails
  BY <1>1, ReadFailing
<1>2. ASSUME ~ReadFails
      PROVE  \E w, h \in Int : /\ Resolved("pos_read", [ask EXCEPT !.width = w, !.height = h])
                               /\ UNCHANGED registers
  <2> DEFINE Keep(v, d) == CASE v # QUERY_FROM_CAMERA -> v
                             [] written.size[d] > 0 -> written.size[d]
                             [] OTHER -> USE_MAX_AVAIL
  <2>1. Keep(ask.width, 1) \in Int /\ Keep(ask.height, 2) \in Int
    BY DEF Inv, F7TypeOK, Arguments, Registers, USE_MAX_AVAIL
  <2>2. /\ Resolved("pos_read", [ask EXCEPT !.width = Keep(ask.width, 1),
                                            !.height = Keep(ask.height, 2)])
        /\ UNCHANGED registers
    BY <1>2 DEF SizeRead
  <2> QED BY <2>1, <2>2
<1>3. ASSUME NEW w \in Int, NEW h \in Int, UNCHANGED registers,
             Resolved("pos_read", [ask EXCEPT !.width = w, !.height = h])
      PROVE  Inv'
  <2> DEFINE new == [ask EXCEPT !.width = w, !.height = h]
  <2>1. new \in Arguments /\ new.coding = ask.coding
    BY DEF Inv, F7TypeOK, Arguments
  <2>2. pc' = "pos_read" /\ ask' = new /\ written' = written
    BY <1>3 DEF Resolved, registers
  <2>3. At(WithCoding)
    BY DEF SizeRead, At, WithCoding
  <2>4. CallInv'
    BY <2>1, <2>2, <2>3 DEF Inv, CallInv, At, Shaking, WithCoding, WithMax, WithPosition
  <2> HIDE DEF new
  <2>5. Resolved("pos_read", new)
    BY <1>3 DEF new
  <2> QED BY <1>3, <2>1, <2>4, <2>5, Resolves DEF Labels, Shaking
<1> QED BY <1>1, <1>2, <1>3

LEMMA PositionReadStep ==
    ASSUME Inv, PositionRead
    PROVE  Inv'
<1>1. CASE ReadFails
  BY <1>1, ReadFailing
<1>2. ASSUME ~ReadFails
      PROVE  \E l, t \in Int : /\ Resolved("max_read", [ask EXCEPT !.left = l, !.top = t])
                               /\ UNCHANGED registers
  BY <1>2 DEF PositionRead, Inv, F7TypeOK, Arguments, Registers
<1>3. ASSUME NEW l \in Int, NEW t \in Int, UNCHANGED registers,
             Resolved("max_read", [ask EXCEPT !.left = l, !.top = t])
      PROVE  Inv'
  <2> DEFINE new == [ask EXCEPT !.left = l, !.top = t]
  <2>1. new \in Arguments /\ new.coding = ask.coding
    BY DEF Inv, F7TypeOK, Arguments
  <2>2. pc' = "max_read" /\ ask' = new /\ written' = written
    BY <1>3 DEF Resolved, registers
  <2>3. At(WithCoding)
    BY DEF PositionRead, At, WithCoding
  <2>4. CallInv'
    BY <2>1, <2>2, <2>3 DEF Inv, CallInv, At, Shaking, WithCoding, WithMax, WithPosition
  <2> HIDE DEF new
  <2>5. Resolved("max_read", new)
    BY <1>3 DEF new
  <2> QED BY <1>3, <2>1, <2>4, <2>5, Resolves DEF Labels, Shaking
<1> QED BY <1>1, <1>2, <1>3

LEMMA MaxReadStep ==
    ASSUME Inv, MaxRead
    PROVE  Inv'
<1>1. CASE ReadFails
  BY <1>1, ReadFailing
<1>2. CASE Return("invalid") /\ UNCHANGED registers
  BY <1>2, Unchanged, Ends DEF Return, Outcomes
<1>3. ASSUME ~ReadFails, ~(Return("invalid") /\ UNCHANGED registers)
      PROVE  /\ ask.left >= 0 /\ ask.top >= 0
             /\ \E w, h \in Int : /\ Resolved("zero_write", [ask EXCEPT !.width = w, !.height = h])
                                  /\ UNCHANGED registers
  <2> DEFINE Largest(v, pos, d) == IF v = USE_MAX_AVAIL THEN MaxSize[d] - pos ELSE v
  <2>1. Largest(ask.width, ask.left, 1) \in Int /\ Largest(ask.height, ask.top, 2) \in Int
    BY SizeAssumption DEF Inv, F7TypeOK, Arguments
  <2>2. /\ ~(ask.left < 0 \/ ask.top < 0)
        /\ Resolved("zero_write", [ask EXCEPT !.width = Largest(ask.width, ask.left, 1),
                                              !.height = Largest(ask.height, ask.top, 2)])
        /\ UNCHANGED registers
    BY <1>3 DEF MaxRead
  <2>3. ask.left >= 0 /\ ask.top >= 0
    BY <2>2 DEF Inv, F7TypeOK, Arguments
  <2> QED BY <2>1, <2>2, <2>3
<1>4. ASSUME ask.left >= 0 /\ ask.top >= 0, NEW w \in Int, NEW h \in Int, UNCHANGED registers,
             Resolved("zero_write", [ask EXCEPT !.width = w, !.height = h])
      PROVE  Inv'
  <2> DEFINE new == [ask EXCEPT !.width = w, !.height = h]
  <2>1. /\ new \in Arguments /\ new.coding = ask.coding
        /\ new.left = ask.left /\ new.top = ask.top
    BY DEF Inv, F7TypeOK, Arguments
  <2>2. pc' = "zero_write" /\ ask' = new /\ written' = written
    BY <1>4 DEF Resolved, registers
  <2>3. At(WithCoding)
    BY DEF MaxRead, At, WithCoding
  <2>4. CallInv'
    BY <1>4, <2>1, <2>2, <2>3 DEF Inv, CallInv, At, Shaking, WithCoding, WithMax, WithPosition
  <2> HIDE DEF new
  <2>5. Resolved("zero_write", new)
    BY <1>4 DEF new
  <2> QED BY <1>4, <2>1, <2>4, <2>5, Resolves DEF Labels, Shaking
<1> QED BY <1>1, <1>2, <1>3, <1>4

\* The region is written in three requests; a camera without the handshake takes
\* position zero and then the size, if position and size fit together.
LEMMA ZeroWriteStep ==
    ASSUME Inv, ZeroWrite
    PROVE  Inv'
<1> DEFINE r == [written EXCEPT !.pos = Unset]
<1>1. r \in Registers /\ r.coding = written.coding /\ r.pos = Unset /\ r.size = written.size
  BY RegisterTypes DEF Inv, F7TypeOK, Registers
<1>2. CASE WriteFails(r)
  BY <1>1, <1>2, WriteFailing
<1>3. CASE WriteOK(r) /\ Goto("size_write")
  <2>1. pc' = "size_write" /\ UNCHANGED <<kind, after, ask, result, frame>> /\ Effect(r)
    BY <1>3 DEF Goto, WriteOK
  <2>2. ~HasHandshake => FitsSensor(r)
    BY <1>1, SizeAssumption DEF Inv, F7TypeOK, Registers, CameraInv, FitsSensor, Unset, Dims
  <2>3. written'.pos = Unset /\ written'.coding = written.coding
    BY <1>1, <2>1, <2>2, Effects DEF Inv, SameRegion
  <2>4. At(WithCoding) /\ At(WithMax)
    BY DEF ZeroWrite, At, WithCoding, WithMax
  <2>5. CallInv'
    BY <2>1, <2>3, <2>4 DEF Inv, CallInv, At, Shaking, WithCoding, WithMax, WithPosition
  <2> QED BY <1>1, <1>3, <2>1, <2>5, WritesAndMoves DEF Labels, Inv, F7TypeOK
<1> QED BY <1>2, <1>3 DEF ZeroWrite

LEMMA RoiFitsAtZero ==
    ASSUME RoiFits, F7TypeOK, ask.left >= 0, ask.top >= 0,
           NEW r \in Registers, r.pos \in {Unset, RoiPosition}, r.size = RoiSize
    PROVE  FitsSensor(r)
BY SizeAssumption
   DEF RoiFits, RoiPosition, RoiSize, Unset, FitsSensor, Dims, F7TypeOK, Arguments, Registers

LEMMA SizeWriteStep ==
    ASSUME Inv, SizeWrite
    PROVE  Inv'
<1> DEFINE r == [written EXCEPT !.size = <<ask.width, ask.height>>]
<1>1. r \in Registers /\ r.coding = written.coding /\ r.pos = written.pos /\ r.size = RoiSize
  BY RegisterTypes DEF Inv, F7TypeOK, Registers, RoiSize
<1>2. CASE WriteFails(r)
  BY <1>1, <1>2, WriteFailing
<1>3. CASE WriteOK(r) /\ Goto("pos_write")
  <2>1. /\ pc' = "pos_write" /\ UNCHANGED <<kind, after, ask, result, frame>> /\ Effect(r)
        /\ Told' = Told /\ RoiSize' = RoiSize
    BY <1>3 DEF Goto, WriteOK, Told, RoiFits, RoiPosition, RoiSize, HasHandshake
  <2>2. At(WithCoding) /\ At(WithMax) /\ pc = "size_write"
    BY DEF SizeWrite, At, WithCoding, WithMax
  <2>3. RoiFits => FitsSensor(r)
    BY <1>1, <2>2, RoiFitsAtZero DEF Inv, CallInv
  <2>4. written'.coding = written.coding /\ (Told => written'.size = RoiSize)
    BY <1>1, <2>1, <2>3, Effects DEF Inv, SameRegion, Told
  <2>5. CallInv'
    BY <2>1, <2>2, <2>4 DEF Inv, CallInv, At, Shaking, WithCoding, WithMax, WithPosition
  <2> QED BY <1>1, <1>3, <2>1, <2>5, WritesAndMoves DEF Labels, Inv, F7TypeOK
<1> QED BY <1>2, <1>3 DEF SizeWrite

LEMMA PositionWriteStep ==
    ASSUME Inv, PositionWrite
    PROVE  Inv'
<1> DEFINE r == [written EXCEPT !.pos = <<ask.left, ask.top>>]
<1>1. r \in Registers /\ r.coding = written.coding /\ r.pos = RoiPosition /\ r.size = written.size
  BY RegisterTypes DEF Inv, F7TypeOK, Registers, RoiPosition
<1>2. CASE WriteFails(r)
  BY <1>1, <1>2, WriteFailing
<1>3. CASE WriteOK(r) /\ GotoHandshake("packet_read")
  <2>1. /\ pc' = "shake_query" /\ after' = "packet_read" /\ UNCHANGED <<kind, ask, result, frame>>
        /\ Effect(r) /\ Told' = Told /\ RoiSize' = RoiSize /\ RoiPosition' = RoiPosition
    BY <1>3 DEF GotoHandshake, WriteOK, Told, RoiFits, RoiPosition, RoiSize, HasHandshake
  <2>2. At(WithCoding) /\ At(WithMax) /\ pc = "pos_write"
    BY DEF PositionWrite, At, WithCoding, WithMax
  <2>3. RoiFits => FitsSensor(r)
    BY <1>1, <2>2, RoiFitsAtZero DEF Inv, CallInv, Told
  <2>4. /\ written'.coding = written.coding
        /\ Told => written'.pos = RoiPosition /\ written'.size = RoiSize
    BY <1>1, <2>1, <2>2, <2>3, Effects DEF Inv, CallInv, SameRegion, Told
  <2>5. CallInv'
    BY <2>1, <2>2, <2>4 DEF Inv, CallInv, At, Shaking, WithCoding, WithMax, WithPosition
  <2> QED BY <1>1, <1>3, <2>1, <2>5, WritesAndMoves DEF Labels
<1> QED BY <1>2, <1>3 DEF PositionWrite

LEMMA PacketReadStep ==
    ASSUME Inv, PacketRead
    PROVE  Inv'
<1>1. CASE ReadFails
  BY <1>1, ReadFailing
<1>2. CASE Return("failure") /\ UNCHANGED registers
  BY <1>2, Unchanged, Ends DEF Return, Outcomes
<1>3. At(WithCoding) /\ At(WithMax) /\ At(WithPosition)
  BY DEF PacketRead, At, WithCoding, WithMax, WithPosition
<1>4. ASSUME NEW n \in Int, UNCHANGED registers,
             Resolved("packet_choose", [ask EXCEPT !.packet = n])
      PROVE  Inv'
  <2> DEFINE new == [ask EXCEPT !.packet = n]
  <2>1. /\ new \in Arguments /\ new.coding = ask.coding
        /\ new.left = ask.left /\ new.top = ask.top
        /\ new.width = ask.width /\ new.height = ask.height
    BY DEF Inv, F7TypeOK, Arguments
  <2>2. pc' = "packet_choose" /\ ask' = new /\ written' = written /\ kind' = kind
    BY <1>4 DEF Resolved, registers
  <2>3. Told' = Told /\ RoiPosition' = RoiPosition /\ RoiSize' = RoiSize
    BY <2>1, <2>2 DEF Told, RoiFits, RoiPosition, RoiSize, HasHandshake
  <2>4. CallInv'
    BY <1>3, <2>1, <2>2, <2>3 DEF Inv, CallInv, At, Shaking, WithCoding, WithMax, WithPosition
  <2> HIDE DEF new
  <2>5. Resolved("packet_choose", new)
    BY <1>4 DEF new
  <2> QED BY <1>4, <2>1, <2>4, <2>5, Resolves DEF Labels, Shaking
<1>5. CASE Goto("packet_choose") /\ UNCHANGED registers
  <2>1. /\ pc' = "packet_choose" /\ UNCHANGED <<kind, after, ask, result, frame>>
    BY <1>5 DEF Goto
  <2>2. /\ Told' = Told /\ RoiPosition' = RoiPosition /\ RoiSize' = RoiSize
        /\ written' = written /\ CameraTypes' /\ CameraSafe'
    BY <1>5, <2>1, Unchanged DEF Told, RoiFits, RoiPosition, RoiSize, HasHandshake, registers
  <2>3. CallInv'
    BY <1>3, <2>1, <2>2 DEF Inv, CallInv, At, Shaking, WithCoding, WithMax, WithPosition
  <2> QED BY <2>1, <2>2, <2>3, Moves DEF Labels, Inv, F7TypeOK
<1>6. written.packet \in Int
  BY DEF Inv, F7TypeOK, Registers
<1> QED BY <1>1, <1>2, <1>4, <1>5, <1>6 DEF PacketRead

\* The region that the camera uses has an area.
LEMMA SizesOfRegion ==
    ASSUME Inv
    PROVE  /\ effective.coding \in Nat \ {0}
           /\ effective.size[1] \in Nat /\ effective.size[2] \in Nat
<1>1. effective.size[1] >= 0 /\ effective.size[2] >= 0
  BY DEF Inv, CameraInv, FitsSensor, Dims
<1>2. effective.size[1] \in Int /\ effective.size[2] \in Int /\ effective.coding \in Nat \ {0}
  BY CodingsAssumption DEF Inv, F7TypeOK, Registers
<1> QED BY <1>1, <1>2

\* A rounded size is no larger than what it was rounded from.
LEMMA Rounded ==
    ASSUME NEW n \in Int, NEW unit \in Nat \ {0}, NEW max \in Nat
    PROVE  RoundedPacket(n, unit, max) \in Nat
<1> DEFINE limited == IF n < 0 \/ n > max THEN max ELSE IF n < unit THEN unit ELSE n
<1>1. limited \in Nat
  OBVIOUS
<1>2. ASSUME NEW m \in Nat
      PROVE  m % unit \in Nat /\ m % unit <= m
  <2>1. m % unit \in 0 .. (unit - 1)
    OBVIOUS
  <2>2. CASE m < unit
    BY <2>1, <2>2
  <2>3. CASE m >= unit
    BY <2>1, <2>3
  <2> QED BY <2>1, <2>2, <2>3
<1>3. RoundedPacket(n, unit, max) = limited - (limited % unit)
  BY DEF RoundedPacket
<1> HIDE DEF limited
<1> QED BY <1>1, <1>2, <1>3

LEMMA PacketChooseStep ==
    ASSUME Inv, PacketChoose
    PROVE  Inv'
<1>1. CASE ReadFails
  BY <1>1, ReadFailing
<1>2. UnitBytes(effective) \in Nat \ {0} /\ MaxBytes(effective) \in Nat
  <2>1. effective.coding \in Nat \ {0} /\ effective.size[1] \in Nat
    BY SizesOfRegion
  <2> QED BY <2>1 DEF UnitBytes, MaxBytes
<1>3. RoundedPacket(ask.packet, UnitBytes(effective), MaxBytes(effective)) \in Nat
  BY <1>2, Rounded DEF Inv, F7TypeOK, Arguments
<1>4. ASSUME ~ReadFails
      PROVE  \E n \in Nat : /\ Resolved("packet_write", [ask EXCEPT !.packet = n])
                            /\ UNCHANGED registers
  <2> DEFINE max == MaxBytes(effective)
             Choices(recommended) ==
                CASE ask.packet = USE_RECOMMENDED -> IF recommended > 0 THEN recommended ELSE max
                  [] ask.packet = USE_MAX_AVAIL -> max
                  [] OTHER -> RoundedPacket(ask.packet, UnitBytes(effective), max)
  <2>1. /\ \E recommended \in {0, UnitBytes(effective)} :
              Resolved("packet_write", [ask EXCEPT !.packet = Choices(recommended)])
        /\ UNCHANGED registers
    BY <1>4 DEF PacketChoose
  <2>2. \A recommended \in {0, UnitBytes(effective)} : Choices(recommended) \in Nat
    BY <1>2, <1>3
  <2> QED BY <2>1, <2>2
<1>5. At(WithCoding) /\ At(WithMax) /\ At(WithPosition)
  BY DEF PacketChoose, At, WithCoding, WithMax, WithPosition
<1>6. ASSUME NEW n \in Nat, UNCHANGED registers,
             Resolved("packet_write", [ask EXCEPT !.packet = n])
      PROVE  Inv'
  <2> DEFINE new == [ask EXCEPT !.packet = n]
  <2>1. /\ new \in Arguments /\ new.coding = ask.coding /\ new.packet = n
        /\ new.left = ask.left /\ new.top = ask.top
        /\ new.width = ask.width /\ new.height = ask.height
    BY DEF Inv, F7TypeOK, Arguments
  <2>2. pc' = "packet_write" /\ ask' = new /\ written' = written /\ kind' = kind
    BY <1>6 DEF Resolved, registers
  <2>3. Told' = Told /\ RoiPosition' = RoiPosition /\ RoiSize' = RoiSize
    BY <2>1, <2>2 DEF Told, RoiFits, RoiPosition, RoiSize, HasHandshake
  <2>4. CallInv'
    BY <1>5, <2>1, <2>2, <2>3 DEF Inv, CallInv, At, Shaking, WithCoding, WithMax, WithPosition
  <2> HIDE DEF new
  <2>5. Resolved("packet_write", new)
    BY <1>6 DEF new
  <2> QED BY <1>6, <2>1, <2>4, <2>5, Resolves DEF Labels, Shaking
<1> QED BY <1>1, <1>4, <1>6

LEMMA PacketWriteStep ==
    ASSUME Inv, PacketWrite
    PROVE  Inv'
<1> DEFINE r == [written EXCEPT !.packet = ask.packet]
<1>1. ask.packet \in Nat /\ At(WithCoding) /\ At(WithMax) /\ At(WithPosition)
  BY DEF PacketWrite, Inv, CallInv, At, WithCoding, WithMax, WithPosition
<1>2. r \in Registers /\ SameRegion(r, written)
  BY <1>1, RegisterTypes DEF Inv, F7TypeOK, Registers, SameRegion
<1>3. CASE WriteFails(r)
  BY <1>2, <1>3, WriteFailing
<1>4. CASE WriteOK(r) /\ GotoHandshake("roi_set")
  <2>1. /\ pc' = "shake_query" /\ after' = "roi_set" /\ UNCHANGED <<kind, ask, result, frame>>
        /\ Effect(r) /\ Told' = Told /\ RoiSize' = RoiSize /\ RoiPosition' = RoiPosition
    BY <1>4 DEF GotoHandshake, WriteOK, Told, RoiFits, RoiPosition, RoiSize, HasHandshake
  <2>2. SameRegion(written', written)
    BY <1>2, <2>1, Effects DEF Inv, SameRegion
  <2>3. CallInv'
    BY <1>1, <2>1, <2>2 DEF Inv, CallInv, At, Shaking, WithCoding, WithMax, WithPosition, SameRegion
  <2> QED BY <1>2, <1>4, <2>1, <2>3, WritesAndMoves DEF Labels
<1> QED BY <1>3, <1>4 DEF PacketWrite

-----------------------------------------------------------------------------
(* capture_basic_setup()                                                   *)

\* What a frame is asked about changes neither the camera nor the call.
LEMMA FrameMoves ==
    ASSUME Inv, UNCHANGED registers, UNCHANGED <<kind, after, ask>>, frame' \in Frames,
           \/ pc' = "frame_packets" /\ result' = result /\ frame'.packet # 0
           \/ pc' = "frame_coding" /\ result' = result
           \/ pc' = "idle" /\ result' = "frame"
    PROVE  Inv'
<1>1. CameraTypes' /\ CameraSafe'
  BY Unchanged
<1>2. F7TypeOK'
  BY <1>1 DEF Inv, F7TypeOK, CameraTypes, Labels, Outcomes
<1>3. CameraInv' /\ CallInv' /\ RoiInv'
  BY <1>1 DEF CameraInv, CameraSafe, CallInv, RoiInv, At, Shaking, WithCoding, WithMax, WithPosition
<1> QED BY <1>2, <1>3 DEF Inv

LEMMA FrameBeginStep ==
    ASSUME Inv, FrameBegin
    PROVE  Inv'
<1> DEFINE fr == [NoFrame EXCEPT !.synced = InSync, !.size = written.size]
<1>1. \A b \in BOOLEAN, s \in Int \X Int : [NoFrame EXCEPT !.synced = b, !.size = s] \in Frames
  BY DEF NoFrame, Frames, Unset
<1>2. InSync \in BOOLEAN /\ written.size \in Int \X Int
  BY DEF InSync, Inv, F7TypeOK, Registers
<1>3. fr \in Frames /\ NoAsk \in Arguments
  <2>1. NoAsk \in Arguments
    BY DEF NoAsk, Arguments, QUERY_FROM_CAMERA
  <2> HIDE DEF InSync
  <2>2. fr \in Frames
    BY <1>1, <1>2
  <2> QED BY <2>1, <2>2
<1>4. /\ Started("frame_packet", NoAsk, fr) /\ pc' = "frame_packet" /\ UNCHANGED kind
      /\ UNCHANGED registers
  BY DEF FrameBegin, Started
<1>5. CallInv'
  BY <1>4 DEF CallInv, At, Shaking, WithCoding, WithMax, WithPosition
<1> HIDE DEF fr
<1> QED BY <1>3, <1>4, <1>5, Unchanged, Starts DEF Labels

LEMMA FrameSteps ==
    ASSUME Inv, FramePacket \/ FramePackets \/ FrameCoding
    PROVE  Inv'
<1>1. UNCHANGED registers
  BY DEF FramePacket, FramePackets, FrameCoding
<1>2. CASE Return("failure")
  BY <1>1, <1>2, Unchanged, Ends DEF Return, Outcomes
<1>3. CASE FramePacket /\ ~Return("failure")
  <2>1. /\ FrameStep("frame_packets", [frame EXCEPT !.packet = written.packet])
    BY <1>3 DEF FramePacket
  <2>2. /\ [frame EXCEPT !.packet = written.packet] \in Frames
        /\ [frame EXCEPT !.packet = written.packet].packet = written.packet
        /\ written.packet # 0
    BY <1>3 DEF FramePacket, Inv, F7TypeOK, Frames, Registers
  <2> QED BY <1>1, <2>1, <2>2, FrameMoves DEF FrameStep
<1>4. CASE FramePackets /\ ~Return("failure")
  <2>1. TotalBytes(effective) \in Nat /\ frame.packet \in Nat \ {0}
    <3>1. frame.packet \in Nat \ {0}
      BY <1>4 DEF FramePackets, Inv, CallInv, F7TypeOK, Frames
    <3> QED BY <3>1, SizesOfRegion DEF TotalBytes
  <2>2. \A total \in Nat, p \in Nat \ {0}, told \in Nat : PacketsPerFrame(told, total, p) \in Nat
    BY DEF PacketsPerFrame
  <2>3. PICK told \in {0, PacketsPerFrame(0, TotalBytes(effective), frame.packet)} :
          FrameStep("frame_coding",
                    [frame EXCEPT !.packets = PacketsPerFrame(told, TotalBytes(effective), frame.packet)])
    BY <1>4 DEF FramePackets
  <2> DEFINE n == PacketsPerFrame(told, TotalBytes(effective), frame.packet)
  <2>4. n \in Nat
    BY <2>1, <2>2, <2>3
  <2> HIDE DEF n
  <2>5. FrameStep("frame_coding", [frame EXCEPT !.packets = n])
    BY <2>3 DEF n
  <2>6. [frame EXCEPT !.packets = n] \in Frames
    BY <2>4 DEF Inv, F7TypeOK, Frames
  <2> QED BY <1>1, <2>5, <2>6, FrameMoves DEF FrameStep
<1>5. CASE FrameCoding /\ ~Return("failure")
  <2>1. /\ pc' = "idle" /\ result' = "frame" /\ UNCHANGED <<kind, after, ask>>
        /\ frame' = [frame EXCEPT !.coding = written.coding]
    BY <1>5 DEF FrameCoding
  <2>2. frame' \in Frames
    BY <2>1, CodingsAssumption DEF Inv, F7TypeOK, Frames, Registers
  <2> QED BY <1>1, <2>1, <2>2, FrameMoves
<1> QED BY <1>2, <1>3, <1>4, <1>5

-----------------------------------------------------------------------------
(* The theorems.                                                           *)

LEMMA InitInv == Init => Inv
<1> SUFFICES ASSUME Init PROVE Inv
  OBVIOUS
<1>1. PICK c \in Codings, s \in {Unset, MaxSize} :
        written = SetsPacket([coding |-> c, pos |-> Unset, size |-> s, packet |-> 0])
  BY DEF Init, Booted
<1> DEFINE r == [coding |-> c, pos |-> Unset, size |-> s, packet |-> 0]
<1>2. r \in Registers /\ FitsSensor(r)
  BY <1>1, SizeAssumption DEF Registers, FitsSensor, Dims, Unset
<1>3. written \in Registers /\ SameRegion(written, r)
  BY <1>1, <1>2, SetsPacketKeeps
<1> HIDE DEF r
<1>4. FitsSensor(written)
  BY <1>2, <1>3 DEF FitsSensor, SameRegion
<1>5. NoAsk \in Arguments /\ NoFrame \in Frames
  BY DEF NoAsk, NoFrame, Arguments, Frames, Unset, QUERY_FROM_CAMERA
<1>6. F7TypeOK
  BY <1>3, <1>5 DEF Init, F7TypeOK, Labels, Outcomes
<1>7. CameraInv /\ CallInv /\ RoiInv
  BY <1>4 DEF Init, CameraInv, CallInv, RoiInv, At, Shaking, WithCoding, WithMax, WithPosition
<1> QED BY <1>6, <1>7 DEF Inv

LEMMA NextInv == Inv /\ [Next]_vars => Inv'
<1> SUFFICES ASSUME Inv, [Next]_vars PROVE Inv'
  OBVIOUS
<1>1. CASE UNCHANGED vars
  BY <1>1 DEF vars, Inv, F7TypeOK, CameraInv, CallInv, RoiInv, At, Told, RoiFits, RoiPosition,
              RoiSize, HasHandshake, FitsSensor, SameRegion
<1>2. CASE CameraSettles
  BY <1>2, SettlesStep
<1>3. CASE Begin
  BY <1>3, RoiBeginStep, SettersStep, FrameBeginStep DEF Begin
<1>4. CASE Continue
  <2>1. CASE ShakeQuery \/ ShakeSet \/ ShakePoll
    BY <2>1, ShakeQueryStep, ShakeSetStep, ShakePollStep
  <2>2. CASE CodingRead \/ CodingWrite \/ SizeRead \/ PositionRead \/ MaxRead
    BY <2>2, CodingReadStep, CodingWriteStep, SizeReadStep, PositionReadStep, MaxReadStep
  <2>3. CASE ZeroWrite \/ SizeWrite \/ PositionWrite
    BY <2>3, ZeroWriteStep, SizeWriteStep, PositionWriteStep
  <2>4. CASE PacketRead \/ PacketChoose \/ PacketWrite
    BY <2>4, PacketReadStep, PacketChooseStep, PacketWriteStep
  <2>5. CASE FramePacket \/ FramePackets \/ FrameCoding
    BY <2>5, FrameSteps
  <2> QED BY <1>4, <2>1, <2>2, <2>3, <2>4, <2>5 DEF Continue
<1> QED BY <1>1, <1>2, <1>3, <1>4 DEF Next

THEOREM Invariance == Spec => []Inv
BY InitInv, NextInv, PTL DEF Spec

\* The variables of a call and the registers of the camera keep their types; in
\* particular set_roi never asks for a negative number of bytes per packet.
THEOREM F7TypeCorrect == Spec => []F7TypeOK
<1>1. Inv => F7TypeOK
  BY DEF Inv
<1> QED BY Invariance, <1>1, PTL

\* set_roi has set the region and the coding when it says so, for any sensor and
\* any arguments: SuccessMeansSet.
THEOREM RoiIsSet == Spec => []SuccessMeansSet
<1>1. Inv => SuccessMeansSet
  BY DEF Inv, RoiInv, SuccessMeansSet, Told
<1> QED BY Invariance, <1>1, PTL

\* A write of a possible region, wherever it gets lost.
LEMMA StaysPossible ==
    ASSUME Inv, FitsSensor(written), NEW r \in Registers, FitsSensor(r),
           WriteOK(r) \/ WriteFails(r)
    PROVE  FitsSensor(written')
<1>1. Effect(r) \/ written' = written
  BY DEF WriteOK, WriteFails
<1>2. CASE Effect(r)
  <2>1. FitsSensor(effective') /\ (HasHandshake => written' = r)
        /\ (~HasHandshake => written' = effective')
    BY <1>2, Effects DEF Inv
  <2> QED BY <2>1
<1> QED BY <1>1, <1>2

\* A region that fits is reached from one that fits only through regions that fit,
\* whatever fails: NoImpossibleState.
THEOREM RegionsPossible == Spec => NoImpossibleState
<1> DEFINE Possible == (pc \in {"zero_write", "size_write", "pos_write"} /\ RoiFits
                           /\ FitsSensor(written)) => FitsSensor(written')
<1>1. Inv /\ [Next]_vars => [Possible]_vars
  <2> SUFFICES ASSUME Inv, Next, pc \in {"zero_write", "size_write", "pos_write"},
                      RoiFits, FitsSensor(written)
               PROVE  FitsSensor(written')
    OBVIOUS
  <2>1. ZeroWrite \/ SizeWrite \/ PositionWrite \/ CameraSettles
    BY DEF Next, Begin, Continue, RoiBegin, SetImagePosition, SetImageSize, SetPacketSize,
           SetColorCoding, SetOne, FrameBegin, ShakeQuery, ShakeSet, ShakePoll, CodingRead,
           CodingWrite, SizeRead, PositionRead, MaxRead, PacketRead, PacketChoose, PacketWrite,
           FramePacket, FramePackets, FrameCoding
  <2>2. /\ written \in Registers /\ RoiPosition \in Int \X Int /\ RoiSize \in Int \X Int
        /\ Unset \in Int \X Int /\ F7TypeOK
    BY RegisterTypes DEF Inv, F7TypeOK
  <2>3. ask.left >= 0 /\ ask.top >= 0
    BY DEF Inv, CallInv, At, WithMax
  <2>4. CASE ZeroWrite
    <3> DEFINE r == [written EXCEPT !.pos = Unset]
    <3>1. r \in Registers /\ r.pos = Unset /\ r.size = written.size
      BY <2>2, RegisterTypes DEF Registers
    <3>2. FitsSensor(r)
      BY <2>2, <3>1, SizeAssumption DEF FitsSensor, Dims, Unset, Registers
    <3>3. WriteOK(r) \/ WriteFails(r)
      BY <2>4 DEF ZeroWrite
    <3> HIDE DEF r
    <3> QED BY <3>1, <3>2, <3>3, StaysPossible
  <2>5. CASE SizeWrite
    <3> DEFINE r == [written EXCEPT !.size = <<ask.width, ask.height>>]
    <3>1. r \in Registers /\ r.pos = Unset /\ r.size = RoiSize
      BY <2>2, <2>5, RegisterTypes DEF SizeWrite, Inv, CallInv, RoiSize, Registers
    <3>2. FitsSensor(r)
      BY <2>2, <2>3, <3>1, RoiFitsAtZero
    <3>3. WriteOK(r) \/ WriteFails(r)
      BY <2>5 DEF SizeWrite
    <3> HIDE DEF r
    <3> QED BY <3>1, <3>2, <3>3, StaysPossible
  <2>6. CASE PositionWrite
    <3> DEFINE r == [written EXCEPT !.pos = <<ask.left, ask.top>>]
    <3>1. r \in Registers /\ r.pos = RoiPosition /\ r.size = RoiSize
      BY <2>2, <2>6, RegisterTypes DEF PositionWrite, Inv, CallInv, Told, RoiPosition, Registers
    <3>2. FitsSensor(r)
      BY <2>2, <2>3, <3>1, RoiFitsAtZero
    <3>3. WriteOK(r) \/ WriteFails(r)
      BY <2>6 DEF PositionWrite
    <3> HIDE DEF r
    <3> QED BY <3>1, <3>2, <3>3, StaysPossible
  <2>7. CASE CameraSettles
    <3>1. SameRegion(written', written)
      BY <2>2, <2>7, SetsPacketKeeps DEF CameraSettles, SameRegion
    <3> QED BY <3>1 DEF FitsSensor, SameRegion
  <2> QED BY <2>1, <2>4, <2>5, <2>6, <2>7
<1> HIDE DEF Possible
<1>2. Spec => [][Possible]_vars
  BY Invariance, <1>1, PTL DEF Spec
<1> QED BY <1>2 DEF NoImpossibleState, Possible

-----------------------------------------------------------------------------
(* The frame of capture_basic_setup() holds the image.                     *)

Enough(n, total, p) == n * p >= total /\ (n - 1) * p < total

\* While a frame is asked about nothing changes that has agreed at first.
FrameInv ==
    /\ (pc \in {"frame_packet", "frame_packets", "frame_coding"} /\ frame.synced) =>
          InSync /\ frame.size = written.size
    /\ (pc = "frame_coding" /\ frame.synced) =>
          Enough(frame.packets, TotalBytes(effective), frame.packet)
    /\ (pc = "idle" /\ result = "frame" /\ frame.synced) =>
          Enough(frame.packets, frame.coding * frame.size[1] * frame.size[2], frame.packet)

\* The number of packets is rounded up.
LEMMA PacketsAreEnough ==
    ASSUME NEW total \in Nat, NEW p \in Nat \ {0}
    PROVE  Enough(PacketsPerFrame(0, total, p), total, p)
<1> DEFINE q == total \div p  r == total % p
<1>1. q \in Nat /\ r \in 0 .. (p - 1) /\ total = (q * p) + r
  OBVIOUS
<1> HIDE DEF q, r
<1>2. (q + 1) * p = (q * p) + p /\ (q - 1) * p = (q * p) - p /\ (q + 1) - 1 = q /\ q * p \in Nat
  BY <1>1
<1>3. PacketsPerFrame(0, total, p) = IF r # 0 THEN q + 1 ELSE q
  BY DEF PacketsPerFrame, q, r
<1>4. CASE r # 0
  <2>1. q * p < total /\ (q * p) + p > total
    BY <1>1, <1>2, <1>4
  <2> QED BY <1>2, <1>3, <1>4, <2>1 DEF Enough
<1>5. CASE r = 0
  <2>1. q * p = total /\ (q * p) - p < total
    BY <1>1, <1>2, <1>5
  <2> QED BY <1>2, <1>3, <1>5, <2>1 DEF Enough
<1> QED BY <1>4, <1>5

FrameActions == FrameBegin \/ FramePacket \/ FramePackets \/ FrameCoding

LEMMA FrameInvKept == Inv /\ FrameInv /\ [Next]_vars => FrameInv'
<1> SUFFICES ASSUME Inv, FrameInv, [Next]_vars PROVE FrameInv'
  OBVIOUS
<1>1. CASE UNCHANGED vars
  BY <1>1 DEF vars, FrameInv, InSync, TotalBytes
<1>2. CASE CameraSettles
  <2>1. setting /\ UNCHANGED <<pc, result, frame>>
    BY <1>2 DEF CameraSettles
  <2> QED BY <2>1 DEF FrameInv, InSync
<1>3. CASE FrameBegin
  BY <1>3 DEF FrameBegin, Started, FrameInv, InSync, registers, NoFrame
<1>4. CASE Return("failure")
  BY <1>4 DEF Return, FrameInv
<1>5. CASE FramePacket /\ ~Return("failure")
  <2>1. /\ pc' = "frame_packets" /\ UNCHANGED registers /\ pc = "frame_packet"
        /\ frame' = [frame EXCEPT !.packet = written.packet]
    BY <1>5 DEF FramePacket, FrameStep
  <2>2. frame'.synced = frame.synced /\ frame'.size = frame.size
    BY <2>1 DEF Inv, F7TypeOK, Frames
  <2> QED BY <2>1, <2>2 DEF FrameInv, InSync, registers
<1>6. CASE FramePackets /\ ~Return("failure")
  <2>1. TotalBytes(effective) \in Nat /\ frame.packet \in Nat \ {0}
    <3>1. frame.packet \in Nat \ {0}
      BY <1>6 DEF FramePackets, Inv, CallInv, F7TypeOK, Frames
    <3> QED BY <3>1, SizesOfRegion DEF TotalBytes
  <2> DEFINE right == PacketsPerFrame(0, TotalBytes(effective), frame.packet)
  <2>2. PICK told \in {0, right} :
          LET n == PacketsPerFrame(told, TotalBytes(effective), frame.packet)
          IN FrameStep("frame_coding", [frame EXCEPT !.packets = n])
    BY <1>6 DEF FramePackets
  <2>3. right \in Nat /\ (PacketsPerFrame(told, TotalBytes(effective), frame.packet) = right)
    BY <2>1, <2>2 DEF PacketsPerFrame
  <2>4. Enough(right, TotalBytes(effective), frame.packet)
    BY <2>1, PacketsAreEnough
  <2> HIDE DEF right
  <2>5. /\ pc' = "frame_coding" /\ UNCHANGED registers /\ pc = "frame_packets"
        /\ frame' = [frame EXCEPT !.packets = right]
    BY <1>6, <2>2, <2>3 DEF FramePackets, FrameStep
  <2>6. /\ frame'.synced = frame.synced /\ frame'.size = frame.size
        /\ frame'.packets = right /\ frame'.packet = frame.packet
    BY <2>5 DEF Inv, F7TypeOK, Frames
  <2>7. TotalBytes(effective)' = TotalBytes(effective)
    BY <2>5 DEF TotalBytes, registers
  <2> QED BY <2>4, <2>5, <2>6, <2>7 DEF FrameInv, InSync, registers
<1>7. CASE FrameCoding /\ ~Return("failure")
  <2>1. /\ pc' = "idle" /\ result' = "frame" /\ pc = "frame_coding"
        /\ frame' = [frame EXCEPT !.coding = written.coding]
    BY <1>7 DEF FrameCoding
  <2>2. /\ frame'.synced = frame.synced /\ frame'.size = frame.size
        /\ frame'.packets = frame.packets /\ frame'.packet = frame.packet
        /\ frame'.coding = written.coding
    BY <2>1 DEF Inv, F7TypeOK, Frames
  <2>3. frame.synced => TotalBytes(effective) = written.coding * frame.size[1] * frame.size[2]
    BY <2>1 DEF FrameInv, InSync, TotalBytes
  <2> QED BY <2>1, <2>2, <2>3 DEF FrameInv
<1>8. CASE Next /\ ~FrameActions /\ ~CameraSettles
  <2>1. /\ pc' \notin {"frame_packet", "frame_packets", "frame_coding"}
        /\ pc' # "idle" \/ result' # "frame" \/ UNCHANGED <<pc, result, frame>>
    BY <1>8 DEF Next, Begin, Continue, FrameActions, RoiBegin, SetImagePosition, SetImageSize,
           SetPacketSize, SetColorCoding, SetOne, ShakeQuery, ShakeSet, ShakePoll, CodingRead,
           CodingWrite, SizeRead, PositionRead, MaxRead, ZeroWrite, SizeWrite, PositionWrite,
           PacketRead, PacketChoose, PacketWrite, WriteOK, WriteFails, ReadFails, Return, Goto,
           GotoHandshake, Resolved, Started, vars, Inv, F7TypeOK
  <2> QED BY <2>1 DEF FrameInv
<1> QED BY <1>1, <1>2, <1>3, <1>4, <1>5, <1>6, <1>7, <1>8 DEF FrameActions

\* A frame that is set up while registers and camera agree holds the image, with
\* less than a packet to spare, for any size of images and packets: FrameHoldsImage.
THEOREM FramesHoldImages == Spec => []FrameHoldsImage
<1>1. Init => FrameInv
  BY DEF Init, FrameInv
<1>2. FrameInv => FrameHoldsImage
  BY DEF FrameInv, FrameHoldsImage, Enough
<1> QED BY Invariance, FrameInvKept, <1>1, <1>2, PTL DEF Spec

-----------------------------------------------------------------------------
(* The packet size.                                                        *)

\* A region that fits and is not empty; the camera takes n for it.
Sized == RoiFits /\ ask.width > 0 /\ ask.height > 0
Takes(n, r) == n % r.coding = 0 /\ n \in 1 .. 2 * r.coding * r.size[1]

PacketInv ==
    /\ (pc \in {"packet_read", "packet_choose", "packet_write"} /\ Told) =>
          SameRegion(effective, written) /\ ~setting
    /\ (pc = "packet_write" /\ Sized) => Takes(ask.packet, effective)
    /\ (At({"roi_set"}) /\ Sized) => written.packet = ask.packet /\ Takes(ask.packet, written)
    /\ (pc = "shake_poll" /\ after = "roi_set" /\ ~setting /\ ~errFlag1 /\ Sized)
          => effective = written
    /\ (result = "roi_set" /\ pc = "idle" /\ Sized) =>
          effective.packet = ask.packet /\ Takes(ask.packet, effective)

\* What the camera takes it keeps.
LEMMA AcceptsTaken ==
    ASSUME NEW r \in Registers, FitsSensor(r), Takes(r.packet, r)
    PROVE  SetsPacket(r) = r /\ Accept(r) = r
<1>1. PacketAccepted(r) /\ r.packet # 0
  BY DEF PacketAccepted, Takes, UnitBytes, MaxBytes
<1> QED BY <1>1 DEF Accept, SetsPacket

LEMMA Multiples ==
    ASSUME NEW c \in Nat \ {0}, NEW k \in Nat
    PROVE  (c * k) % c = 0
OBVIOUS

\* A size rounded to the camera's unit is one that it takes.
LEMMA RoundedTaken ==
    ASSUME NEW n \in Int, NEW c \in Nat \ {0}, NEW w \in Nat \ {0}
    PROVE  LET max == 2 * c * w
               m == RoundedPacket(n, c, max)
           IN m % c = 0 /\ m \in 1 .. max
<1> DEFINE max == 2 * c * w
           limited == IF n < 0 \/ n > max THEN max ELSE IF n < c THEN c ELSE n
<1>1. max \in Nat /\ max >= c
  OBVIOUS
<1>2. limited \in c .. max
  <2> HIDE DEF max
  <2> QED BY <1>1
<1>3. RoundedPacket(n, c, max) = limited - (limited % c)
  BY DEF RoundedPacket
<1> HIDE DEF limited, max
<1>4. limited % c \in 0 .. (c - 1) /\ limited = ((limited \div c) * c) + (limited % c)
      /\ limited \div c \in Nat
  BY <1>1, <1>2
<1> DEFINE k == limited \div c
<1>5. limited - (limited % c) = c * k
  BY <1>1, <1>2, <1>4
<1>6. (c * k) % c = 0
  BY <1>4, Multiples
<1>7. limited - (limited % c) \in 1 .. max
  BY <1>1, <1>2, <1>4
<1> QED BY <1>3, <1>5, <1>6, <1>7 DEF max

LEMMA UnitAndMaxTaken ==
    ASSUME NEW c \in Nat \ {0}, NEW w \in Nat \ {0}
    PROVE  /\ c % c = 0 /\ c \in 1 .. 2 * c * w
           /\ (2 * c * w) % c = 0 /\ 2 * c * w \in 1 .. 2 * c * w
<1>1. c % c = 0
  OBVIOUS
<1>2. 2 * c * w = c * (2 * w) /\ 2 * w \in Nat
  OBVIOUS
<1>3. (c * (2 * w)) % c = 0
  BY <1>2, Multiples
<1>4. 2 * c * w \in Nat /\ 2 * c * w >= c
  OBVIOUS
<1> QED BY <1>1, <1>2, <1>3, <1>4

LEMMA PacketSettles ==
    ASSUME Inv, PacketInv, CameraSettles
    PROVE  PacketInv'
<1>1. setting /\ UNCHANGED <<kind, pc, after, ask, result, frame>> /\ HasHandshake
  BY DEF CameraSettles, Inv, CameraInv
<1>2. Sized' = Sized /\ Told' = Told /\ At({"roi_set"})' = At({"roi_set"})
  BY <1>1 DEF Sized, Told, RoiFits, RoiPosition, RoiSize, HasHandshake, At
<1>3. Sized => Told
  BY DEF Sized, Told
<1>4. ASSUME At({"roi_set"}), Sized
      PROVE  written' = written /\ effective' = written
  <2>1. At(WithPosition) /\ At(WithMax)
    BY <1>4 DEF At, WithPosition, WithMax
  <2>2. /\ written.packet = ask.packet /\ Takes(written.packet, written)
        /\ written.pos = RoiPosition /\ written.size = RoiSize /\ written \in Registers
        /\ ask.left >= 0 /\ ask.top >= 0
    BY <1>3, <1>4, <2>1 DEF PacketInv, Inv, CallInv, F7TypeOK
  <2>3. FitsSensor(written)
    BY <1>4, <2>2, RoiFitsAtZero DEF Sized, Inv
  <2>4. SetsPacket(written) = written /\ Accept(written) = written
    BY <2>2, <2>3, AcceptsTaken
  <2> QED BY <2>4 DEF CameraSettles
<1>5. /\ ~(pc \in {"packet_read", "packet_choose", "packet_write"} /\ Told)
      /\ ~(result = "roi_set" /\ pc = "idle")
  BY <1>1 DEF PacketInv, Inv, RoiInv
<1>6. (pc = "shake_poll" /\ after = "roi_set") => At({"roi_set"})
  BY DEF At, Shaking
<1> QED BY <1>1, <1>2, <1>3, <1>4, <1>5, <1>6 DEF PacketInv

\* The end of the handshake after the position, or after the packet size.
LEMMA PacketShaken ==
    ASSUME Inv, PacketInv, pc \in {"shake_query", "shake_poll"}, Goto(after), UNCHANGED registers,
           HasHandshake => ~setting /\ SameRegion(effective, written),
           (HasHandshake /\ after = "roi_set" /\ Sized) => effective = written
    PROVE  PacketInv'
<1>1. CASE after = "set"
  BY <1>1 DEF Goto, Return, PacketInv, At, Shaking
<1>2. CASE after = "roi_set"
  <2>1. pc' = "idle" /\ ask' = ask /\ after' = "set" /\ effective' = effective
    BY <1>2 DEF Goto, Return, registers
  <2>2. At({"roi_set"}) /\ Sized' = Sized
    BY <1>2, <2>1 DEF At, Shaking, Sized, RoiFits, RoiPosition, RoiSize
  <2>3. Sized => effective = written
    BY <1>2 DEF Inv, CameraInv
  <2>4. Sized => effective.packet = ask.packet /\ Takes(ask.packet, effective)
    BY <2>2, <2>3 DEF PacketInv
  <2>5. (Sized => effective.packet = ask.packet /\ Takes(ask.packet, effective))'
    BY <2>1, <2>2, <2>4 DEF Takes
  <2> QED BY <2>1, <2>5 DEF PacketInv, At, Shaking
<1>3. CASE after \in {"size_read", "packet_read"}
  <2>1. pc' = after /\ UNCHANGED <<written, effective, setting>>
    BY <1>3 DEF Goto, registers
  <2>2. SameRegion(effective, written) /\ ~setting
    BY DEF Inv, CameraInv, SameRegion
  <2> QED BY <1>3, <2>1, <2>2 DEF PacketInv, At, Shaking, SameRegion
<1> QED BY <1>1, <1>2, <1>3 DEF Inv, F7TypeOK

LEMMA PacketShakes ==
    ASSUME Inv, PacketInv, ShakeQuery \/ ShakeSet \/ ShakePoll
    PROVE  PacketInv'
<1>1. CASE \E res \in {"failure", "flag1"} : Return(res)
  BY <1>1 DEF Return, PacketInv, At, Shaking
<1>2. CASE ShakeQuery /\ HasHandshake /\ Goto("shake_set") /\ UNCHANGED registers
  <2>1. /\ pc = "shake_query" /\ pc' = "shake_set"
        /\ UNCHANGED <<kind, after, ask, result, written, effective>>
    BY <1>2 DEF ShakeQuery, Goto, registers
  <2>2. Sized' = Sized /\ (At({"roi_set"})' => At({"roi_set"}))
    BY <2>1 DEF Sized, RoiFits, RoiPosition, RoiSize, At, Shaking
  <2> QED BY <2>1, <2>2 DEF PacketInv, Takes
<1>3. CASE ShakeQuery /\ ~HasHandshake /\ Goto(after) /\ UNCHANGED registers
  BY <1>3, PacketShaken DEF ShakeQuery
<1>4. CASE ShakeSet /\ setting' = TRUE /\ Goto("shake_poll")
  <2>1. /\ pc = "shake_set" /\ pc' = "shake_poll" /\ setting'
        /\ UNCHANGED <<kind, after, ask, result, written, effective>>
    BY <1>4 DEF ShakeSet, Goto
  <2>2. Sized' = Sized /\ (At({"roi_set"})' => At({"roi_set"}))
    BY <2>1 DEF Sized, RoiFits, RoiPosition, RoiSize, At, Shaking
  <2> QED BY <2>1, <2>2 DEF PacketInv, Takes
<1>5. CASE ShakePoll /\ ~setting /\ ~errFlag1 /\ Goto(after) /\ UNCHANGED registers
  <2>1. pc = "shake_poll" /\ SameRegion(effective, written)
    BY <1>5 DEF ShakePoll, Inv, CameraInv
  <2>2. (after = "roi_set" /\ Sized) => effective = written
    BY <1>5, <2>1 DEF PacketInv
  <2> QED BY <1>5, <2>1, <2>2, PacketShaken
<1>6. CASE UNCHANGED vars
  BY <1>6 DEF vars, PacketInv, At, Sized, Told, RoiFits, RoiPosition, RoiSize, HasHandshake,
              SameRegion, Takes
<1> QED BY <1>1, <1>2, <1>3, <1>4, <1>5, <1>6 DEF ShakeQuery, ShakeSet, ShakePoll, ReadFails

LEMMA PacketReads ==
    ASSUME Inv, PacketInv, PacketRead
    PROVE  PacketInv'
<1>1. CASE Return("failure")
  BY <1>1 DEF Return, PacketInv, At, Shaking
<1>2. CASE ~Return("failure")
  <2>1. /\ pc = "packet_read" /\ pc' = "packet_choose" /\ UNCHANGED <<kind, registers>>
        /\ ask' = [ask EXCEPT !.packet = written.packet] \/ ask' = ask
    BY <1>2 DEF PacketRead, ReadFails, Goto, Resolved
  <2>2. /\ ask'.left = ask.left /\ ask'.top = ask.top
        /\ ask'.width = ask.width /\ ask'.height = ask.height
    BY <2>1 DEF Inv, F7TypeOK, Arguments
  <2>3. Told' = Told
    BY <2>1, <2>2 DEF Told, RoiFits, RoiPosition, RoiSize, HasHandshake
  <2> QED BY <2>1, <2>3 DEF PacketInv, At, Shaking, SameRegion, registers
<1> QED BY <1>1, <1>2

LEMMA PacketChosen ==
    ASSUME Inv, PacketInv, PacketChoose
    PROVE  PacketInv'
<1>1. CASE Return("failure")
  BY <1>1 DEF Return, PacketInv, At, Shaking
<1>2. CASE ~Return("failure")
  <2> DEFINE max == MaxBytes(effective)
             Choices(recommended) ==
                CASE ask.packet = USE_RECOMMENDED -> IF recommended > 0 THEN recommended ELSE max
                  [] ask.packet = USE_MAX_AVAIL -> max
                  [] OTHER -> RoundedPacket(ask.packet, UnitBytes(effective), max)
  <2>1. /\ pc = "packet_choose" /\ pc' = "packet_write" /\ UNCHANGED <<kind, registers>>
        /\ \E recommended \in {0, UnitBytes(effective)} :
              ask' = [ask EXCEPT !.packet = Choices(recommended)]
    BY <1>2 DEF PacketChoose, ReadFails, Resolved
  <2>2. PICK recommended \in {0, UnitBytes(effective)} :
              ask' = [ask EXCEPT !.packet = Choices(recommended)]
    BY <2>1
  <2> DEFINE n == Choices(recommended)
  <2>3. At(WithPosition)
    BY <2>1 DEF At, WithPosition
  <2>4. ASSUME Sized PROVE Takes(n, effective)
    <3>1. /\ effective.size = RoiSize /\ effective.coding \in Nat \ {0} /\ ask.packet \in Int
      BY <2>1, <2>3, <2>4, CodingsAssumption
         DEF PacketInv, SameRegion, Inv, CallInv, Sized, Told, F7TypeOK, Registers, Arguments
    <3>2. effective.size[1] \in Nat \ {0}
      BY <2>4, <3>1 DEF Sized, RoiSize, Inv, F7TypeOK, Arguments
    <3>3. n \in {effective.coding, 2 * effective.coding * effective.size[1],
                 RoundedPacket(ask.packet, effective.coding,
                               2 * effective.coding * effective.size[1])}
      BY <2>2 DEF UnitBytes, MaxBytes
    <3> HIDE DEF n
    <3> QED BY <3>1, <3>2, <3>3, UnitAndMaxTaken, RoundedTaken DEF Takes
  <2> HIDE DEF n
  <2>5. ask' = [ask EXCEPT !.packet = n]
    BY <2>2 DEF n
  <2>6. /\ ask'.left = ask.left /\ ask'.top = ask.top /\ ask'.packet = n
        /\ ask'.width = ask.width /\ ask'.height = ask.height
    BY <2>5 DEF Inv, F7TypeOK, Arguments
  <2>7. Told' = Told /\ Sized' = Sized
    BY <2>1, <2>6 DEF Told, Sized, RoiFits, RoiPosition, RoiSize, HasHandshake
  <2>8. UNCHANGED <<written, effective, setting>>
    BY <2>1 DEF registers
  <2>9. (Sized => Takes(ask.packet, effective))'
    BY <2>4, <2>6, <2>7, <2>8 DEF Takes
  <2> QED BY <2>1, <2>7, <2>8, <2>9 DEF PacketInv, At, Shaking, SameRegion
<1> QED BY <1>1, <1>2

LEMMA PacketWritten ==
    ASSUME Inv, PacketInv, PacketWrite
    PROVE  PacketInv'
<1>1. CASE Return("failure")
  BY <1>1 DEF Return, PacketInv, At, Shaking
<1>2. CASE ~Return("failure")
  <2> DEFINE r == [written EXCEPT !.packet = ask.packet]
  <2>1. /\ pc = "packet_write" /\ pc' = "shake_query" /\ after' = "roi_set"
        /\ UNCHANGED <<kind, ask, result>> /\ Effect(r)
    BY <1>2 DEF PacketWrite, WriteFails, WriteOK, GotoHandshake
  <2>2. r \in Registers /\ SameRegion(r, written) /\ r.packet = ask.packet
    BY <2>1, RegisterTypes DEF Inv, CallInv, F7TypeOK, Registers, SameRegion
  <2>3. At(WithPosition) /\ At(WithMax)
    BY <2>1 DEF At, WithPosition, WithMax
  <2>4. ASSUME Sized PROVE written' = r /\ Takes(r.packet, r)
    <3>1. /\ SameRegion(effective, written) /\ Takes(ask.packet, effective)
          /\ written.pos = RoiPosition /\ written.size = RoiSize
          /\ ask.left >= 0 /\ ask.top >= 0
      BY <2>1, <2>3, <2>4 DEF PacketInv, Sized, Told, Inv, CallInv
    <3>2. FitsSensor(r)
      BY <2>2, <2>4, <3>1, RoiFitsAtZero DEF Sized, Inv, SameRegion
    <3>3. Takes(r.packet, r)
      BY <2>2, <3>1 DEF Takes, SameRegion
    <3> HIDE DEF r
    <3>4. Accept(r) = r
      BY <2>2, <3>2, <3>3, AcceptsTaken
    <3> QED BY <2>1, <3>3, <3>4 DEF Effect
  <2> HIDE DEF r
  <2>5. Sized' = Sized
    BY <2>1 DEF Sized, RoiFits, RoiPosition, RoiSize
  <2>6. (Sized => written.packet = ask.packet /\ Takes(ask.packet, written))'
    BY <2>1, <2>2, <2>4, <2>5 DEF Takes
  <2> QED BY <2>1, <2>6 DEF PacketInv
<1> QED BY <1>1, <1>2

LEMMA PacketInvKept == Inv /\ PacketInv /\ [Next]_vars => PacketInv'
<1> SUFFICES ASSUME Inv, PacketInv, [Next]_vars PROVE PacketInv'
  OBVIOUS
<1>1. CASE UNCHANGED vars
  BY <1>1 DEF vars, PacketInv, At, Sized, Told, RoiFits, RoiPosition, RoiSize, HasHandshake,
              SameRegion, Takes
<1> DEFINE Others ==
      \/ Begin
      \/ CodingRead \/ CodingWrite \/ SizeRead \/ PositionRead \/ MaxRead
      \/ ZeroWrite \/ SizeWrite \/ PositionWrite
      \/ FramePacket \/ FramePackets \/ FrameCoding
<1>2. CASE Others
  <2>1. /\ pc' \notin {"packet_read", "packet_choose", "packet_write", "roi_set"}
        /\ ~(pc' \in Shaking /\ after' = "roi_set")
        /\ ~(pc' = "idle" /\ result' = "roi_set")
    BY <1>2 DEF Begin, RoiBegin, SetImagePosition, SetImageSize,
           SetPacketSize, SetColorCoding, SetOne, CodingRead,
           CodingWrite, SizeRead, PositionRead, MaxRead, ZeroWrite, SizeWrite, PositionWrite,
           FrameBegin, FramePacket, FramePackets, FrameCoding, FrameStep,
           WriteOK, WriteFails, ReadFails, Return, Goto,
           GotoHandshake, Resolved, Started, Shaking
  <2> QED BY <2>1 DEF PacketInv, At, Shaking
<1>3. CASE Next /\ ~Others
  BY <1>3, PacketSettles, PacketShakes, PacketReads, PacketChosen, PacketWritten DEF Next, Continue
<1> QED BY <1>1, <1>2, <1>3

\* The packet size that set_roi has chosen is one that the camera takes, for any
\* region with an area: PacketSizeTaken.
THEOREM PacketSizesTaken == Spec => []PacketSizeTaken
<1>1. Init => PacketInv
  BY DEF Init, PacketInv, At, Shaking
<1>2. Inv /\ PacketInv => PacketSizeTaken
  <2> SUFFICES ASSUME Inv, PacketInv, result = "roi_set", pc = "idle", RoiFits,
                      TotalBytes(effective) > 0
               PROVE  effective.packet = ask.packet /\ PacketAccepted(effective)
    BY DEF PacketSizeTaken
  <2>1. effective.size = RoiSize
    BY DEF Inv, RoiInv, Told
  <2>2. effective.coding \in Nat /\ effective.size[1] \in Nat /\ effective.size[2] \in Nat
    BY SizesOfRegion
  <2>3. effective.size[1] # 0 /\ effective.size[2] # 0
    BY <2>2 DEF TotalBytes
  <2>4. Sized
    BY <2>1, <2>2, <2>3 DEF Sized, RoiSize
  <2> QED BY <2>4 DEF PacketInv, Takes, PacketAccepted, UnitBytes, MaxBytes
<1> QED BY Invariance, PacketInvKept, <1>1, <1>2, PTL DEF Spec

=============================================================================

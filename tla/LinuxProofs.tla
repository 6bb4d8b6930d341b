---------------------------- MODULE LinuxProofs -----------------------------
(***************************************************************************)
(* Proofs about LinuxCapture: for any cameras, any number of channels and  *)
(* any bandwidth, and any combinations of flags.                           *)
(***************************************************************************)
EXTENDS LinuxCapture, FiniteSetTheorems, TLAPS

-----------------------------------------------------------------------------
(* Programs that make the calls by hand *)

\* The community module's Min, on a set of two numbers.
LEMMA MinOfTwo ==
    ASSUME NEW a \in Int, NEW b \in Int
    PROVE  Min({a, b}) \in {a, b} /\ Min({a, b}) <= a /\ Min({a, b}) <= b
<1>1. \E x \in {a, b} : \A y \in {a, b} : x <= y
  <2>1. CASE a <= b BY <2>1
  <2>2. CASE ~(a <= b) BY <2>2
  <2>3. QED BY <2>1, <2>2
<1>2. Min({a, b}) \in {a, b} /\ \A y \in {a, b} : Min({a, b}) <= y
  BY <1>1 DEF Min
<1>3. QED BY <1>2

\* Bandwidth given back to the bus stays within the bus's total.
LEMMA AvailableInRange ==
    ASSUME IsoTypeOK, NEW units \in Nat
    PROVE  Available(units) \in 0 .. TotalBandwidth
<1> DEFINE total == irm.bandwidth + units
           low == Min({total, TotalBandwidth})
<1>1. total \in Nat /\ TotalBandwidth \in Nat
  BY IsoAssumption DEF IsoTypeOK
<1>2. low \in {total, TotalBandwidth} /\ low <= TotalBandwidth
  <2> HIDE DEF total
  <2>1. total \in Int /\ TotalBandwidth \in Int BY <1>1
  <2>2. QED BY <2>1, MinOfTwo
<1>3. low \in 0 .. TotalBandwidth
  <2> HIDE DEF total, low
  <2>1. QED BY <1>1, <1>2
<1>4. QED BY <1>3 DEF Available

\* The clamp keeps the running total a number.
LEMMA LessIsNat ==
    ASSUME NEW total \in Nat, NEW units \in Nat
    PROVE  LessBandwidth(total, units) \in Nat
BY DEF LessBandwidth

\* What a call of one camera does to the record of that camera and no other.
LEMMA ReleasesType ==
    ASSUME IsoTypeOK, NEW c \in Cameras, NEW chs \in SUBSET Channels, NEW units \in Nat,
           Releases(c, chs, units), UNCHANGED leftover
    PROVE  IsoTypeOK'
<1>1. Available(units) \in 0 .. TotalBandwidth BY AvailableInRange
<1>2. LessBandwidth(camera[c].bandwidth, units) \in Nat BY LessIsNat DEF IsoTypeOK
<1>3. QED BY <1>1, <1>2 DEF Releases, IsoTypeOK

\* A step keeps every variable in its type.
LEMMA TypeStep ==
    ASSUME NEW asked \in SUBSET Nat, NEW own, IsoTypeOK, [IsoCalls(asked, own)]_isoVars
    PROVE  IsoTypeOK'
<1>1. CASE UNCHANGED isoVars BY <1>1 DEF isoVars, IsoTypeOK
<1>2. ASSUME NEW c \in Cameras, CameraNew(c) PROVE IsoTypeOK'
  BY <1>2 DEF CameraNew, IsoTypeOK
<1>3. ASSUME NEW c \in Cameras, SetPersist(c) PROVE IsoTypeOK'
  BY <1>3 DEF SetPersist, IsoTypeOK
<1>4. ASSUME NEW c \in Cameras, AllocateChannel(c) PROVE IsoTypeOK'
  <2>1. PICK ch \in Channels : TakesChannel(c, ch) BY <1>4 DEF AllocateChannel
  <2>2. QED BY <1>4, <2>1 DEF AllocateChannel, TakesChannel, IsoTypeOK
<1>5. ASSUME NEW c \in Cameras, NEW units \in asked, AllocateBandwidth(c, units)
      PROVE IsoTypeOK'
  <2>1. units \in Nat OBVIOUS
  <2>2. irm.bandwidth - units \in 0 .. TotalBandwidth /\ camera[c].bandwidth + units \in Nat
    BY <1>5, <2>1, IsoAssumption DEF AllocateBandwidth, TakesBandwidth, IsoTypeOK
  <2>3. QED BY <1>5, <2>2 DEF AllocateBandwidth, TakesBandwidth, IsoTypeOK
<1>6. ASSUME NEW c \in Cameras, NEW ch \in Channels, ReleaseChannel(c, ch) PROVE IsoTypeOK'
  BY <1>6, ReleasesType DEF ReleaseChannel
<1>7. ASSUME NEW c \in Cameras, NEW units \in asked, ReleaseBandwidth(c, units)
      PROVE IsoTypeOK'
  BY <1>7, ReleasesType DEF ReleaseBandwidth
<1>8. ASSUME NEW c \in Cameras, ReleaseAll(c) PROVE IsoTypeOK'
  <2>1. PICK chs \in SUBSET (camera[c].channels \cap irm.channels),
             units \in {0, camera[c].bandwidth} : Releases(c, chs, units)
    BY <1>8 DEF ReleaseAll
  <2>2. chs \in SUBSET Channels /\ units \in Nat BY DEF IsoTypeOK
  <2>3. QED BY <1>8, <2>1, <2>2, ReleasesType DEF ReleaseAll
<1>9. ASSUME NEW c \in Cameras, CameraFree(c) PROVE IsoTypeOK'
  <2>1. PICK chs \in SUBSET (camera[c].channels \cap irm.channels),
             units \in {0, camera[c].bandwidth} :
          /\ irm' = [channels |-> irm.channels \ chs, bandwidth |-> Available(units)]
          /\ leftover' = [channels |-> leftover.channels \cup (camera[c].channels \ chs),
                          bandwidth |-> leftover.bandwidth + camera[c].bandwidth - units]
    BY <1>9 DEF CameraFree
  <2>2. units \in Nat /\ leftover.bandwidth + camera[c].bandwidth - units \in Nat
    BY DEF IsoTypeOK
  <2>3. Available(units) \in 0 .. TotalBandwidth BY <2>2, AvailableInRange
  <2>4. camera' = [camera EXCEPT ![c] = Closed] BY <1>9 DEF CameraFree
  <2>5. QED BY <2>1, <2>2, <2>3, <2>4 DEF IsoTypeOK, Closed
<1>10. QED BY <1>1, <1>2, <1>3, <1>4, <1>5, <1>6, <1>7, <1>8, <1>9 DEF IsoCalls

\* The two halves of the books: no channel has two owners, and every reserved
\* channel has one.  Neither is inductive alone: an owner is unique because the
\* bus hands out only what is free, and what is free is known from the owners.
ChannelsInv == IsoTypeOK /\ ChannelsExclusive /\ ChannelsAccounted

\* A call that leaves every set of channels alone.
LEMMA SameChannels ==
    ASSUME ChannelsInv, irm'.channels = irm.channels, UNCHANGED leftover,
           \A d \in Cameras : camera'[d].channels = camera[d].channels
    PROVE  ChannelsExclusive' /\ ChannelsAccounted'
<1>1. UNION {camera'[d].channels : d \in Cameras} = UNION {camera[d].channels : d \in Cameras}
  OBVIOUS
<1>2. QED BY <1>1 DEF ChannelsInv, ChannelsExclusive, ChannelsAccounted

\* A call by which a camera gives back channels of its own.
LEMMA GivesBack ==
    ASSUME ChannelsInv, NEW c \in Cameras, NEW chs \in SUBSET camera[c].channels,
           irm'.channels = irm.channels \ chs, UNCHANGED leftover,
           camera'[c].channels = camera[c].channels \ chs,
           \A d \in Cameras \ {c} : camera'[d].channels = camera[d].channels
    PROVE  ChannelsExclusive' /\ ChannelsAccounted'
<1>1. \A d \in Cameras \ {c} : chs \cap camera[d].channels = {}
  BY DEF ChannelsInv, ChannelsExclusive
<1>2. chs \cap leftover.channels = {} BY DEF ChannelsInv, ChannelsExclusive
<1>3. ChannelsExclusive' BY <1>1, <1>2 DEF ChannelsInv, ChannelsExclusive
<1>4. (UNION {camera'[d].channels : d \in Cameras})
        = (UNION {camera[d].channels : d \in Cameras}) \ chs
  BY <1>1
<1>5. ChannelsAccounted' BY <1>2, <1>4 DEF ChannelsInv, ChannelsAccounted
<1>6. QED BY <1>3, <1>5

\* A step of a program that releases only what is its own keeps the books.
LEMMA ChannelsStep ==
    ASSUME NEW asked \in SUBSET Nat, ChannelsInv, [IsoCalls(asked, TRUE)]_isoVars
    PROVE  ChannelsInv'
<1> SUFFICES ChannelsExclusive' /\ ChannelsAccounted'
  BY TypeStep DEF ChannelsInv
<1>a. IsoTypeOK BY DEF ChannelsInv
<1>1. CASE UNCHANGED isoVars BY <1>1, SameChannels DEF isoVars
<1>2. ASSUME NEW c \in Cameras, CameraNew(c) PROVE ChannelsExclusive' /\ ChannelsAccounted'
  <2>1. \A d \in Cameras : camera'[d].channels = camera[d].channels
    BY <1>a, <1>2 DEF CameraNew, IsoTypeOK
  <2>2. QED BY <1>2, <2>1, SameChannels DEF CameraNew
<1>3. ASSUME NEW c \in Cameras, SetPersist(c) PROVE ChannelsExclusive' /\ ChannelsAccounted'
  <2>1. \A d \in Cameras : camera'[d].channels = camera[d].channels
    BY <1>a, <1>3 DEF SetPersist, IsoTypeOK
  <2>2. QED BY <1>3, <2>1, SameChannels DEF SetPersist
<1>4. ASSUME NEW c \in Cameras, AllocateChannel(c)
      PROVE ChannelsExclusive' /\ ChannelsAccounted'
  <2>1. PICK ch \in Channels : TakesChannel(c, ch) BY <1>4 DEF AllocateChannel
  <2>2. ch \notin irm.channels BY <2>1 DEF TakesChannel, FreeChannels
  <2>3. /\ irm'.channels = irm.channels \cup {ch}
        /\ camera'[c].channels = camera[c].channels \cup {ch}
        /\ \A d \in Cameras \ {c} : camera'[d].channels = camera[d].channels
        /\ leftover' = leftover
    BY <1>a, <1>4, <2>1 DEF AllocateChannel, TakesChannel, IsoTypeOK
  <2>4. ch \notin leftover.channels /\ \A d \in Cameras : ch \notin camera[d].channels
    BY <2>2 DEF ChannelsInv, ChannelsAccounted
  <2>5. ChannelsExclusive' BY <2>3, <2>4 DEF ChannelsInv, ChannelsExclusive
  <2>6. (UNION {camera'[d].channels : d \in Cameras})
          = (UNION {camera[d].channels : d \in Cameras}) \cup {ch}
    BY <2>3
  <2>7. QED BY <2>3, <2>5, <2>6 DEF ChannelsInv, ChannelsAccounted
<1>5. ASSUME NEW c \in Cameras, NEW units \in asked, AllocateBandwidth(c, units)
      PROVE ChannelsExclusive' /\ ChannelsAccounted'
  <2>1. /\ irm'.channels = irm.channels
        /\ \A d \in Cameras : camera'[d].channels = camera[d].channels
    BY <1>a, <1>5 DEF AllocateBandwidth, TakesBandwidth, IsoTypeOK
  <2>2. QED BY <1>5, <2>1, SameChannels DEF AllocateBandwidth
<1>6. ASSUME NEW c \in Cameras, NEW chs \in SUBSET camera[c].channels, NEW units \in Nat,
             Releases(c, chs, units), UNCHANGED leftover
      PROVE ChannelsExclusive' /\ ChannelsAccounted'
  <2>1. /\ irm'.channels = irm.channels \ chs
        /\ camera'[c].channels = camera[c].channels \ chs
        /\ \A d \in Cameras \ {c} : camera'[d].channels = camera[d].channels
    BY <1>a, <1>6 DEF Releases, IsoTypeOK
  <2>2. QED BY <1>6, <2>1, GivesBack
<1>7. ASSUME NEW c \in Cameras, NEW ch \in camera[c].channels, ReleaseChannel(c, ch)
      PROVE ChannelsExclusive' /\ ChannelsAccounted'
  BY <1>6, <1>7 DEF ReleaseChannel
<1>8. ASSUME NEW c \in Cameras, NEW units \in asked, ReleaseBandwidth(c, units)
      PROVE ChannelsExclusive' /\ ChannelsAccounted'
  BY <1>6, <1>8 DEF ReleaseBandwidth
<1>9. ASSUME NEW c \in Cameras, ReleaseAll(c) PROVE ChannelsExclusive' /\ ChannelsAccounted'
  <2>1. camera[c].bandwidth \in Nat BY <1>a DEF IsoTypeOK
  <2>2. QED BY <1>6, <1>9, <2>1 DEF ReleaseAll
<1>10. ASSUME NEW c \in Cameras, CameraFree(c) PROVE ChannelsExclusive' /\ ChannelsAccounted'
  <2>1. PICK chs \in SUBSET (camera[c].channels \cap irm.channels) :
          /\ irm'.channels = irm.channels \ chs
          /\ leftover'.channels = leftover.channels \cup (camera[c].channels \ chs)
    BY <1>10 DEF CameraFree
  <2>2. /\ camera'[c].channels = {}
        /\ \A d \in Cameras \ {c} : camera'[d].channels = camera[d].channels
    BY <1>a, <1>10 DEF CameraFree, Closed, IsoTypeOK
  <2>3. /\ \A d \in Cameras \ {c} : camera[c].channels \cap camera[d].channels = {}
        /\ camera[c].channels \cap leftover.channels = {}
    BY DEF ChannelsInv, ChannelsExclusive
  <2>4. ChannelsExclusive' BY <2>1, <2>2, <2>3 DEF ChannelsInv, ChannelsExclusive
  <2>5. (UNION {camera'[d].channels : d \in Cameras}) \cup leftover'.channels
          = ((UNION {camera[d].channels : d \in Cameras}) \cup leftover.channels) \ chs
    BY <2>1, <2>2, <2>3
  <2>6. ChannelsAccounted' BY <2>1, <2>5 DEF ChannelsInv, ChannelsAccounted
  <2>7. QED BY <2>4, <2>6
<1>11. QED
  BY <1>1, <1>2, <1>3, <1>4, <1>5, <1>7, <1>8, <1>9, <1>10 DEF IsoCalls

\* When the account of one camera changes, the units of the others stay.
LEMMA OneAccountChanges ==
    ASSUME NEW f \in [Cameras -> Nat], NEW g \in [Cameras -> Nat], NEW c \in Cameras,
           \A d \in Cameras \ {c} : g[d] = f[d], IsFiniteSet(UnitsOf(f))
    PROVE  /\ IsFiniteSet(UnitsOf(g))
           /\ Cardinality(UnitsOf(g)) = Cardinality(UnitsOf(f)) - f[c] + g[c]
           /\ f[c] <= Cardinality(UnitsOf(f))
<1> DEFINE rest == UnitsOf(f) \ ({c} \X (1 .. f[c]))
<1>1. IsFiniteSet(rest) BY FS_Subset
<1>2. ASSUME NEW n \in Nat
      PROVE  IsFiniteSet({c} \X (1 .. n)) /\ Cardinality({c} \X (1 .. n)) = n
  <2>1. IsFiniteSet({c}) /\ Cardinality({c}) = 1 BY FS_Singleton
  <2>2. IsFiniteSet(1 .. n) /\ Cardinality(1 .. n) = n
    <3>1. 1 \in Int /\ n \in Int OBVIOUS
    <3>2. IsFiniteSet(1 .. n) /\ Cardinality(1 .. n) = IF 1 > n THEN 0 ELSE n - 1 + 1
      BY <3>1, FS_Interval
    <3>3. QED BY <3>2
  <2>3. /\ IsFiniteSet({c} \X (1 .. n))
        /\ Cardinality({c} \X (1 .. n)) = Cardinality({c}) * Cardinality(1 .. n)
    BY <2>1, <2>2, FS_Product
  <2>4. QED BY <2>1, <2>2, <2>3
<1>3. ASSUME NEW h \in [Cameras -> Nat], \A d \in Cameras \ {c} : h[d] = f[d]
      PROVE  UnitsOf(h) = rest \cup ({c} \X (1 .. h[c]))
  <2>1. ASSUME NEW x PROVE x \in UnitsOf(h) <=> x \in rest \cup ({c} \X (1 .. h[c]))
    <3>1. x \in UnitsOf(h) <=> \E d \in Cameras : x \in {d} \X (1 .. h[d]) BY DEF UnitsOf
    <3>2. x \in UnitsOf(f) <=> \E d \in Cameras : x \in {d} \X (1 .. f[d]) BY DEF UnitsOf
    <3>3. \A d, n : x \in {d} \X (1 .. n) => x[1] = d OBVIOUS
    <3>4. QED BY <1>3, <3>1, <3>2, <3>3
  <2>2. QED BY <2>1
<1>4. rest \cap ({c} \X (1 .. g[c])) = {} /\ rest \cap ({c} \X (1 .. f[c])) = {}
  <2>1. ASSUME NEW x \in rest PROVE x[1] # c
    <3>1. PICK d \in Cameras : x \in {d} \X (1 .. f[d]) BY DEF UnitsOf
    <3>2. d # c BY <3>1
    <3>3. QED BY <3>1, <3>2
  <2>2. QED BY <2>1
<1>5. ASSUME NEW h \in [Cameras -> Nat], \A d \in Cameras \ {c} : h[d] = f[d],
             rest \cap ({c} \X (1 .. h[c])) = {}
      PROVE  /\ IsFiniteSet(UnitsOf(h))
             /\ Cardinality(UnitsOf(h)) = Cardinality(rest) + h[c]
  <2> DEFINE own == {c} \X (1 .. h[c])
  <2>1. h[c] \in Nat OBVIOUS
  <2>2. IsFiniteSet(own) /\ Cardinality(own) = h[c] BY <1>2, <2>1
  <2>3. UnitsOf(h) = rest \cup own BY <1>3, <1>5
  <2>4. rest \cap own = {} BY <1>5
  <2> HIDE DEF rest, own
  <2>5. /\ IsFiniteSet(rest \cup own)
        /\ Cardinality(rest \cup own) = Cardinality(rest) + Cardinality(own) - Cardinality(rest \cap own)
    BY <1>1, <2>2, FS_Union
  <2>6. Cardinality(rest \cap own) = 0 BY <2>4, FS_EmptySet
  <2>7. Cardinality(rest) \in Nat BY <1>1, FS_CardinalityType
  <2>8. QED BY <2>1, <2>2, <2>3, <2>5, <2>6, <2>7
<1>6. /\ Cardinality(UnitsOf(f)) = Cardinality(rest) + f[c]
      /\ IsFiniteSet(UnitsOf(g)) /\ Cardinality(UnitsOf(g)) = Cardinality(rest) + g[c]
  BY <1>4, <1>5
<1>7. Cardinality(rest) \in Nat /\ f[c] \in Nat /\ g[c] \in Nat BY <1>1, FS_CardinalityType
<1> HIDE DEF rest
<1>8. QED BY <1>6, <1>7

\* The books of bandwidth: what a camera may give back is part of what is missing
\* at the IRM, so that no total is ever clamped.
Accounts == [c \in Cameras |-> camera[c].bandwidth]
BandwidthInv == IsoTypeOK /\ IsFiniteSet(Booked) /\ BandwidthAccounted

\* A call of camera c moves units between the bus, its account and what is left.
LEMMA Moves ==
    ASSUME BandwidthInv, NEW c \in Cameras, IsoTypeOK',
           \A d \in Cameras \ {c} : camera'[d].bandwidth = camera[d].bandwidth,
           (TotalBandwidth - irm'.bandwidth) - (TotalBandwidth - irm.bandwidth)
              = (leftover'.bandwidth - leftover.bandwidth)
                   + (camera'[c].bandwidth - camera[c].bandwidth)
    PROVE  IsFiniteSet(Booked)' /\ BandwidthAccounted'
<1> DEFINE g == [d \in Cameras |-> camera'[d].bandwidth]
<1>1. /\ Accounts \in [Cameras -> Nat] /\ g \in [Cameras -> Nat]
      /\ \A d \in Cameras : Accounts[d] = camera[d].bandwidth /\ g[d] = camera'[d].bandwidth
  BY DEF BandwidthInv, IsoTypeOK, Accounts
<1>2. Booked = UnitsOf(Accounts) /\ Booked' = UnitsOf(g) BY DEF Booked, Accounts, UnitsOf
<1>3. IsFiniteSet(UnitsOf(Accounts)) BY <1>2 DEF BandwidthInv
<1>4. \A d \in Cameras \ {c} : g[d] = Accounts[d] BY <1>1
<1> HIDE DEF g
<1>5. /\ IsFiniteSet(UnitsOf(g))
      /\ Cardinality(UnitsOf(g)) = Cardinality(UnitsOf(Accounts)) - Accounts[c] + g[c]
  BY <1>1, <1>3, <1>4, OneAccountChanges
<1>6. TotalBandwidth - irm.bandwidth = leftover.bandwidth + Cardinality(UnitsOf(Accounts))
  BY <1>2 DEF BandwidthInv, BandwidthAccounted
<1>7. Cardinality(UnitsOf(Accounts)) \in Nat /\ Cardinality(UnitsOf(g)) \in Nat
  BY <1>3, <1>5, FS_CardinalityType
<1>8. /\ irm.bandwidth \in Int /\ irm'.bandwidth \in Int /\ TotalBandwidth \in Int
      /\ leftover.bandwidth \in Int /\ leftover'.bandwidth \in Int
      /\ camera[c].bandwidth \in Int /\ camera'[c].bandwidth \in Int
  BY IsoAssumption DEF BandwidthInv, IsoTypeOK
<1>9. TotalBandwidth - irm'.bandwidth = leftover'.bandwidth + Cardinality(UnitsOf(g))
  BY <1>1, <1>5, <1>6, <1>7, <1>8
<1>10. IsFiniteSet(Booked') BY <1>2, <1>5
<1>11. BandwidthAccounted' BY <1>2, <1>9 DEF BandwidthAccounted
<1>12. QED BY <1>10, <1>11

\* What is in the account of a camera is missing at the bus.
LEMMA OwnIsMissing ==
    ASSUME BandwidthInv, NEW c \in Cameras
    PROVE  camera[c].bandwidth <= TotalBandwidth - irm.bandwidth
<1>1. Accounts \in [Cameras -> Nat] /\ Accounts[c] = camera[c].bandwidth
  BY DEF BandwidthInv, IsoTypeOK, Accounts
<1>2. Booked = UnitsOf(Accounts) /\ IsFiniteSet(UnitsOf(Accounts))
  BY DEF BandwidthInv, Booked, Accounts
<1>3. Accounts[c] <= Cardinality(UnitsOf(Accounts))
  BY <1>1, <1>2, OneAccountChanges
<1>4. TotalBandwidth - irm.bandwidth = leftover.bandwidth + Cardinality(UnitsOf(Accounts))
  BY <1>2 DEF BandwidthInv, BandwidthAccounted
<1>5. Cardinality(UnitsOf(Accounts)) \in Nat /\ leftover.bandwidth \in Nat
  BY <1>2, FS_CardinalityType DEF BandwidthInv, IsoTypeOK
<1>6. QED BY <1>1, <1>3, <1>4, <1>5

\* Units of its own that a camera gives back are available again, all of them.
LEMMA OwnComesBack ==
    ASSUME BandwidthInv, NEW c \in Cameras, NEW units \in 0 .. camera[c].bandwidth
    PROVE  /\ Available(units) = irm.bandwidth + units
           /\ LessBandwidth(camera[c].bandwidth, units) = camera[c].bandwidth - units
<1> DEFINE total == irm.bandwidth + units
           low == Min({total, TotalBandwidth})
<1>1. /\ irm.bandwidth \in Int /\ camera[c].bandwidth \in Nat /\ TotalBandwidth \in Int
      /\ units \in Int /\ units <= camera[c].bandwidth
  BY IsoAssumption DEF BandwidthInv, IsoTypeOK
<1>2. camera[c].bandwidth <= TotalBandwidth - irm.bandwidth BY OwnIsMissing
<1>3. total \in Int /\ total <= TotalBandwidth BY <1>1, <1>2
<1> HIDE DEF total
<1>4. low \in {total, TotalBandwidth} /\ low <= total /\ low <= TotalBandwidth
  BY <1>1, <1>3, MinOfTwo
<1> HIDE DEF low
<1>5. low = total BY <1>1, <1>3, <1>4
<1>6. LessBandwidth(camera[c].bandwidth, units) = camera[c].bandwidth - units
  BY <1>1 DEF LessBandwidth
<1>7. QED BY <1>5, <1>6 DEF Available, low, total

LEMMA ReleasesMove ==
    ASSUME BandwidthInv, NEW c \in Cameras, NEW units \in 0 .. camera[c].bandwidth,
           NEW chs, Releases(c, chs, units), UNCHANGED leftover, IsoTypeOK'
    PROVE  IsFiniteSet(Booked)' /\ BandwidthAccounted'
<1>1. IsoTypeOK BY DEF BandwidthInv
<1>2. /\ irm'.bandwidth = irm.bandwidth + units
      /\ camera'[c].bandwidth = camera[c].bandwidth - units
      /\ \A d \in Cameras \ {c} : camera'[d].bandwidth = camera[d].bandwidth
  BY <1>1, OwnComesBack DEF Releases, IsoTypeOK
<1>3. /\ irm.bandwidth \in Int /\ camera[c].bandwidth \in Int /\ TotalBandwidth \in Int
      /\ units \in Int /\ leftover.bandwidth \in Int /\ leftover'.bandwidth = leftover.bandwidth
  BY <1>1, IsoAssumption DEF IsoTypeOK
<1>4. (TotalBandwidth - irm'.bandwidth) - (TotalBandwidth - irm.bandwidth)
         = (leftover'.bandwidth - leftover.bandwidth) + (camera'[c].bandwidth - camera[c].bandwidth)
  BY <1>2, <1>3
<1>5. QED BY <1>2, <1>4, Moves

\* A step of a program that releases only what is its own keeps the books.
LEMMA BandwidthStep ==
    ASSUME NEW asked \in SUBSET Nat, BandwidthInv, [IsoCalls(asked, TRUE)]_isoVars
    PROVE  BandwidthInv'
<1> SUFFICES IsFiniteSet(Booked)' /\ BandwidthAccounted'
  BY TypeStep DEF BandwidthInv
<1>a. IsoTypeOK /\ IsoTypeOK' BY TypeStep DEF BandwidthInv
<1>b. /\ irm.bandwidth \in Int /\ leftover.bandwidth \in Int /\ TotalBandwidth \in Int
      /\ \A d \in Cameras : camera[d].bandwidth \in Nat
  BY <1>a, IsoAssumption DEF IsoTypeOK
<1>1. CASE \/ UNCHANGED isoVars
           \/ \E c \in Cameras : CameraNew(c) \/ SetPersist(c) \/ AllocateChannel(c)
  <2>1. /\ irm'.bandwidth = irm.bandwidth /\ leftover' = leftover
        /\ \A d \in Cameras : camera'[d].bandwidth = camera[d].bandwidth
    BY <1>a, <1>1 DEF isoVars, CameraNew, SetPersist, AllocateChannel, TakesChannel, IsoTypeOK
  <2>2. Booked' = Booked
    <3>1. [d \in Cameras |-> camera'[d].bandwidth] = [d \in Cameras |-> camera[d].bandwidth]
      BY <2>1
    <3>2. QED BY <3>1 DEF Booked, UnitsOf
  <2>3. QED BY <2>1, <2>2 DEF BandwidthInv, BandwidthAccounted
<1>2. ASSUME NEW c \in Cameras, NEW units \in asked, AllocateBandwidth(c, units)
      PROVE  IsFiniteSet(Booked)' /\ BandwidthAccounted'
  <2>1. /\ irm'.bandwidth = irm.bandwidth - units /\ leftover' = leftover /\ units \in Int
        /\ camera'[c].bandwidth = camera[c].bandwidth + units
        /\ \A d \in Cameras \ {c} : camera'[d].bandwidth = camera[d].bandwidth
    BY <1>a, <1>2 DEF AllocateBandwidth, TakesBandwidth, IsoTypeOK
  <2>2. (TotalBandwidth - irm'.bandwidth) - (TotalBandwidth - irm.bandwidth)
           = (leftover'.bandwidth - leftover.bandwidth) + (camera'[c].bandwidth - camera[c].bandwidth)
    BY <1>b, <2>1
  <2>3. QED BY <1>a, <2>1, <2>2, Moves
<1>3. ASSUME NEW c \in Cameras, NEW units \in asked, units <= camera[c].bandwidth,
             ReleaseBandwidth(c, units)
      PROVE  IsFiniteSet(Booked)' /\ BandwidthAccounted'
  <2>1. units \in 0 .. camera[c].bandwidth BY <1>b, <1>3
  <2>2. QED BY <1>a, <1>3, <2>1, ReleasesMove DEF ReleaseBandwidth
<1>4. ASSUME NEW c \in Cameras, NEW ch \in Channels, ReleaseChannel(c, ch)
      PROVE  IsFiniteSet(Booked)' /\ BandwidthAccounted'
  <2>1. 0 \in 0 .. camera[c].bandwidth BY <1>b
  <2>2. QED BY <1>a, <1>4, <2>1, ReleasesMove DEF ReleaseChannel
<1>5. ASSUME NEW c \in Cameras, ReleaseAll(c) PROVE IsFiniteSet(Booked)' /\ BandwidthAccounted'
  <2>1. PICK chs \in SUBSET (camera[c].channels \cap irm.channels),
             units \in {0, camera[c].bandwidth} : Releases(c, chs, units)
    BY <1>5 DEF ReleaseAll
  <2>2. units \in 0 .. camera[c].bandwidth BY <1>b
  <2>3. QED BY <1>a, <1>5, <2>1, <2>2, ReleasesMove DEF ReleaseAll
<1>6. ASSUME NEW c \in Cameras, CameraFree(c) PROVE IsFiniteSet(Booked)' /\ BandwidthAccounted'
  <2>1. PICK units \in {0, camera[c].bandwidth} :
          /\ irm'.bandwidth = Available(units)
          /\ leftover'.bandwidth = leftover.bandwidth + camera[c].bandwidth - units
    BY <1>6 DEF CameraFree
  <2>2. units \in 0 .. camera[c].bandwidth BY <1>b
  <2>3. irm'.bandwidth = irm.bandwidth + units BY <2>1, <2>2, OwnComesBack
  <2>4. /\ camera'[c].bandwidth = 0
        /\ \A d \in Cameras \ {c} : camera'[d].bandwidth = camera[d].bandwidth
    BY <1>a, <1>6 DEF CameraFree, Closed, IsoTypeOK
  <2>5. (TotalBandwidth - irm'.bandwidth) - (TotalBandwidth - irm.bandwidth)
           = (leftover'.bandwidth - leftover.bandwidth) + (camera'[c].bandwidth - camera[c].bandwidth)
    BY <1>b, <2>1, <2>2, <2>3, <2>4
  <2>6. QED BY <1>a, <2>4, <2>5, Moves
<1>7. QED BY <1>1, <1>2, <1>3, <1>4, <1>5, <1>6 DEF IsoCalls

\* The books start empty.
LEMMA ChannelsInit == IsoInit => ChannelsInv
BY IsoAssumption
DEF IsoInit, ChannelsInv, IsoTypeOK, ChannelsAccounted, ChannelsExclusive, Closed, Channels

\* No register and no account leaves its range, whatever programs release.
THEOREM IsoTypeCorrect ==
    ASSUME NEW asked \in SUBSET Nat, NEW own \in BOOLEAN
    PROVE  IsoInit /\ [][IsoCalls(asked, own)]_isoVars => []IsoTypeOK
<1>1. IsoInit => IsoTypeOK BY ChannelsInit DEF ChannelsInv
<1>2. IsoTypeOK /\ [IsoCalls(asked, own)]_isoVars => IsoTypeOK' BY TypeStep
<1>3. QED BY <1>1, <1>2, PTL

LEMMA BandwidthInit == IsoInit => BandwidthInv
<1> SUFFICES ASSUME IsoInit PROVE BandwidthInv
  OBVIOUS
<1>1. IsoTypeOK BY ChannelsInit DEF ChannelsInv
<1>2. \A c \in Cameras : camera[c].bandwidth = 0 BY DEF IsoInit, Closed
<1>3. Booked = {} BY <1>2 DEF Booked, UnitsOf
<1>4. IsFiniteSet(Booked) /\ Cardinality(Booked) = 0 BY <1>3, FS_EmptySet
<1>5. BandwidthAccounted BY <1>4, IsoAssumption DEF IsoInit, BandwidthAccounted
<1>6. QED BY <1>1, <1>4, <1>5 DEF BandwidthInv

\* If programs release only what is theirs, a channel is reserved for one camera
\* only (dc1394_iso_allocate_channel, dc1394_iso_release_channel).
THEOREM ChannelsStayExclusive ==
    ASSUME NEW asked \in SUBSET Nat
    PROVE  IsoInit /\ [][IsoCalls(asked, TRUE)]_isoVars => []ChannelsExclusive
<1>1. ChannelsInv /\ [IsoCalls(asked, TRUE)]_isoVars => ChannelsInv' BY ChannelsStep
<1>2. ChannelsInv => ChannelsExclusive BY DEF ChannelsInv
<1>3. QED BY <1>1, <1>2, ChannelsInit, PTL

\* And the IRM and the accounts that dc1394_iso_*() keeps agree on every channel
\* and every unit of bandwidth, whatever fails in a call that releases several.
THEOREM BooksBalance ==
    ASSUME NEW asked \in SUBSET Nat
    PROVE  IsoInit /\ [][IsoCalls(asked, TRUE)]_isoVars => []EverythingAccounted
<1>1. ChannelsInv /\ [IsoCalls(asked, TRUE)]_isoVars => ChannelsInv' BY ChannelsStep
<1>2. BandwidthInv /\ [IsoCalls(asked, TRUE)]_isoVars => BandwidthInv' BY BandwidthStep
<1>3. ChannelsInv /\ BandwidthInv => EverythingAccounted
  BY DEF ChannelsInv, BandwidthInv, EverythingAccounted
<1>4. QED BY <1>1, <1>2, <1>3, ChannelsInit, BandwidthInit, PTL

-----------------------------------------------------------------------------
(* The captures release only what is theirs *)

\* The capture of c still has the channel that craw[c] names.
Owns(c) == craw[c].is_set \/ pc[c] \in {"iso_off", "channel", "program", "bandwidth",
                                        "listen", "iso_on", "fail_channel", "stop_channel"}

Attached(c) ==
    /\ pc[c] # "idle" \/ craw[c].is_set => camera[c].open
    /\ craw[c].is_set => pc[c] \in {"idle", "iso_on"}
    /\ Owns(c) => craw[c].channel \in camera[c].channels \cup {NoChannel}

OwnInv == LinuxTypeOK /\ \A c \in Cameras : Attached(c)


\* The step of a program leaves the other cameras alone.
Apart(c) == \A d \in Cameras \ {c} :
    /\ pc'[d] = pc[d] /\ craw'[d] = craw[d] /\ reg'[d] = reg[d] /\ camera'[d] = camera[d]
    /\ d \in refused' <=> d \in refused

\* What a step changes is in the account of one camera, and it is one of the
\* calls that IsoPrograms describes.
Accounted(c) == Apart(c) /\ [IsoCalls(Units, TRUE)]_isoVars

\* A request of setup keeps the capture attached to its account, and is a call of
\* IsoPrograms or none.
LEMMA SetupSteps ==
    ASSUME OwnInv, NEW c \in Cameras, SetupStep(c)
    PROVE  Accounted(c) /\ Attached(c)'
<1> USE DEF OwnInv, LinuxTypeOK, IsoTypeOK, Attached, Owns, Accounted, Apart, At, Goto, Called,
        SetupReturns, isoVars
<1>1. CASE SetupIsoOff(c) BY <1>1 DEF SetupIsoOff
<1>2. CASE SetupChannel(c)
  <2>1. ASSUME NEW ch \in Channels, TakesChannel(c, ch),
               craw' = [craw EXCEPT ![c].channel = ch], Goto(c, "program")
        PROVE  Accounted(c) /\ Attached(c)'
    <3>1. pc[c] = "channel" /\ camera[c].open /\ UNCHANGED <<leftover, refused, reg>>
      BY <1>2 DEF SetupChannel
    <3>2. AllocateChannel(c)
      BY <2>1, <3>1 DEF TakesChannel, FreeChannels, Allowed, Channels, AllocateChannel
    <3>3. IsoCalls(Units, TRUE) BY <3>2 DEF IsoCalls
    <3>4. /\ camera'[c].channels = camera[c].channels \cup {ch} /\ camera'[c].open
          /\ \A d \in Cameras \ {c} : camera'[d] = camera[d]
      BY <2>1, <3>1 DEF TakesChannel
    <3>5. Apart(c) BY <2>1, <3>1, <3>4
    <3>6. pc'[c] = "program" /\ craw'[c].channel = ch /\ craw'[c].is_set = craw[c].is_set
      BY <2>1
    <3>7. Attached(c)' BY <3>1, <3>4, <3>6
    <3>8. QED BY <3>3, <3>5, <3>7
  <2>2. CASE UNCHANGED <<irm, camera, craw>> BY <1>2, <2>2 DEF SetupChannel
  <2>3. QED BY <1>2, <2>1, <2>2 DEF SetupChannel
<1>3. CASE SetupProgram(c) BY <1>3 DEF SetupProgram
<1>4. CASE SetupBandwidth(c)
  <2>1. ASSUME NEW units \in Units, TakesBandwidth(c, units),
               craw' = [craw EXCEPT ![c].bandwidth = units], Goto(c, "listen")
        PROVE  Accounted(c) /\ Attached(c)'
    <3>1. pc[c] = "bandwidth" /\ camera[c].open /\ UNCHANGED <<leftover, refused, reg>>
      BY <1>4 DEF SetupBandwidth
    <3>2. AllocateBandwidth(c, units)
      BY <2>1, <3>1 DEF TakesBandwidth, AllocateBandwidth
    <3>3. IsoCalls(Units, TRUE) BY <3>2 DEF IsoCalls
    <3>4. Apart(c) BY <2>1, <3>1 DEF TakesBandwidth
    <3>5. Attached(c)' BY <2>1, <3>1 DEF TakesBandwidth
    <3>6. QED BY <3>3, <3>4, <3>5
  <2>2. CASE UNCHANGED <<irm, camera, craw>> BY <1>4, <2>2 DEF SetupBandwidth
  <2>3. QED BY <1>4, <2>1, <2>2 DEF SetupBandwidth
<1>5. CASE SetupListen(c) BY <1>5 DEF SetupListen
<1>6. CASE SetupIsoOn(c) BY <1>6 DEF SetupIsoOn
<1>7. ASSUME NEW flags \in FlagSets, SetupBegin(c, flags) PROVE Accounted(c) /\ Attached(c)'
  BY <1>7 DEF SetupBegin
<1>8. QED BY <1>1, <1>2, <1>3, <1>4, <1>5, <1>6, <1>7 DEF SetupStep

\* So does a request of stop, or of the tail it shares with setup: what it gives
\* back is in the account of its own camera.
LEMMA StopSteps ==
    ASSUME OwnInv, NEW c \in Cameras, StopStep(c)
    PROVE  Accounted(c) /\ Attached(c)'
<1> USE DEF OwnInv, LinuxTypeOK, IsoTypeOK, Attached, Owns, Accounted, Apart, At, Goto, Called,
        Return, SetupReturns, isoVars
<1>1. CASE StopBegin(c) BY <1>1 DEF StopBegin
<1>2. CASE FreeChannel(c)
  <2>1. ASSUME craw[c].channel \in irm.channels, Releases(c, {craw[c].channel}, 0),
               UNCHANGED refused
        PROVE  Accounted(c) /\ Attached(c)'
    <3>1. craw[c].channel \in camera[c].channels /\ craw[c].channel \in Channels
      BY <1>2, <2>1 DEF FreeChannel, NoChannel, Channels
    <3>2. ReleaseChannel(c, craw[c].channel)
      BY <1>2, <2>1 DEF FreeChannel, Releases, LessBandwidth, Available, Min, ReleaseChannel
    <3>3. IsoCalls(Units, TRUE) BY <3>1, <3>2 DEF IsoCalls
    <3>4. Apart(c) BY <1>2, <2>1 DEF FreeChannel, Releases
    <3>5. Attached(c)' BY <1>2, <2>1 DEF FreeChannel, Releases
    <3>6. QED BY <3>3, <3>4, <3>5
  <2>2. ASSUME UNCHANGED <<irm, camera>>, refused' \in {refused, refused \cup {c}}
        PROVE  Accounted(c) /\ Attached(c)'
    BY <1>2, <2>2 DEF FreeChannel
  <2>3. QED BY <1>2, <2>1, <2>2 DEF FreeChannel, TriesRelease, NothingToRelease
<1>3. CASE FreeBandwidth(c)
  <2>1. ASSUME craw[c].bandwidth # 0, Releases(c, {}, craw[c].bandwidth), UNCHANGED refused
        PROVE  Accounted(c) /\ Attached(c)'
    <3>1. craw[c].bandwidth \in Units /\ craw[c].bandwidth <= camera[c].bandwidth
      BY <2>1
    <3>2. ReleaseBandwidth(c, craw[c].bandwidth)
      BY <1>3, <2>1 DEF FreeBandwidth, Releases, LessBandwidth, Available, Min, ReleaseBandwidth
    <3>3. IsoCalls(Units, TRUE) BY <3>1, <3>2 DEF IsoCalls
    <3>4. QED BY <1>3, <2>1, <3>3 DEF FreeBandwidth, Releases
  <2>2. ASSUME UNCHANGED <<irm, camera>>, refused' \in {refused, refused \cup {c}}
        PROVE  Accounted(c) /\ Attached(c)'
    BY <1>3, <2>2 DEF FreeBandwidth
  <2>3. QED BY <1>3, <2>1, <2>2 DEF FreeBandwidth, TriesRelease, NothingToRelease
<1>4. CASE StopIso(c)
  <2>1. Apart(c) BY <1>4 DEF StopIso
  <2>2. pc'[c] = "idle" /\ craw'[c].is_set = craw[c].is_set /\ UNCHANGED isoVars
    BY <1>4 DEF StopIso
  <2>3. Attached(c)' BY <1>4, <2>2 DEF StopIso
  <2>4. QED BY <2>1, <2>2, <2>3
<1>5. QED BY <1>1, <1>2, <1>3, <1>4 DEF StopStep

\* So does what the program does besides.
LEMMA OtherSteps ==
    ASSUME OwnInv, NEW c \in Cameras,
           \/ Open(c) \/ Free(c)
           \/ \E on \in BOOLEAN : SetTransmission(c, on)
    PROVE  Accounted(c) /\ Attached(c)'
<1> USE DEF OwnInv, LinuxTypeOK, IsoTypeOK, Attached, Owns, Accounted, Apart, At, Goto, Called,
        isoVars
<1>1. CASE Open(c)
  <2>1. IsoCalls(Units, TRUE) BY <1>1 DEF Open, IsoCalls
  <2>2. QED BY <1>1, <2>1 DEF Open, CameraNew
<1>2. CASE Free(c)
  <2>1. IsoCalls(Units, TRUE)
    BY <1>2 DEF Free, IsoCalls
  <2>2. QED BY <1>2, <2>1 DEF Free, CameraFree, Closed, Fresh
<1>3. ASSUME NEW on \in BOOLEAN, SetTransmission(c, on) PROVE Accounted(c) /\ Attached(c)'
  BY <1>3 DEF SetTransmission
<1>4. QED BY <1>1, <1>2, <1>3

\* What the camera has programmed is one of the bus's channels.
LEMMA ProgrammedIsChannel ==
    ASSUME NEW c \in Cameras, NEW ch \in Int
    PROVE  Programmed(c, ch) \in Channels
<1>1. /\ NumChannels \in Nat \ {0} /\ LegacyChannels \in Nat \ {0}
      /\ LegacyChannels <= NumChannels
  BY IsoAssumption DEF Channels
<1>2. ch % NumChannels \in 0 .. NumChannels - 1 BY <1>1
<1>3. ch % LegacyChannels \in 0 .. LegacyChannels - 1 BY <1>1
<1>4. QED BY <1>1, <1>2, <1>3 DEF Programmed, Channels

\* The parts of the type that are not the bus's.
ControlTypeOK ==
    /\ pc \in [Cameras -> Labels]
    /\ reg \in [Cameras -> [channel : Channels, iso_en : BOOLEAN]]
    /\ ret \in [Cameras -> {"SUCCESS", "FAILURE"}]
    /\ refused \subseteq Cameras

CrawType == [flags : SUBSET Flags, is_set : BOOLEAN,
             channel : Channels \cup {NoChannel}, bandwidth : Units \cup {0},
             iso_channel : Channels, auto_started : BOOLEAN]
CrawTypeOK == craw \in [Cameras -> CrawType]

Step(c) ==
    \/ SetupStep(c) \/ StopStep(c) \/ Open(c) \/ Free(c)
    \/ \E on \in BOOLEAN : SetTransmission(c, on)

\* A step keeps the program counters, registers and results in their types.
LEMMA ControlTypeStep ==
    ASSUME ControlTypeOK, CrawTypeOK, NEW c \in Cameras, Step(c)
    PROVE  ControlTypeOK'
<1> USE DEF ControlTypeOK, Labels, At, Goto, Called, Return, SetupReturns
<1>1. CASE SetupIsoOff(c) BY <1>1 DEF SetupIsoOff
<1>2. CASE SetupChannel(c) BY <1>2 DEF SetupChannel
<1>3. CASE SetupProgram(c)
  <2>1. craw[c].channel \in Int BY DEF CrawTypeOK, CrawType, Channels, NoChannel
  <2>2. Programmed(c, craw[c].channel) \in Channels BY <2>1, ProgrammedIsChannel
  <2>3. QED BY <1>3, <2>2 DEF SetupProgram
<1>4. CASE SetupBandwidth(c) BY <1>4 DEF SetupBandwidth
<1>5. CASE SetupListen(c) BY <1>5 DEF SetupListen
<1>6. CASE SetupIsoOn(c)
  <2>1. reg' = [reg EXCEPT ![c].iso_en = TRUE] \/ UNCHANGED reg BY <1>6 DEF SetupIsoOn
  <2>2. reg' \in [Cameras -> [channel : Channels, iso_en : BOOLEAN]] BY <2>1
  <2>3. QED BY <1>6, <2>2 DEF SetupIsoOn
<1>7. ASSUME NEW flags \in FlagSets, SetupBegin(c, flags) PROVE ControlTypeOK'
  BY <1>7 DEF SetupBegin
<1>8. CASE StopBegin(c) BY <1>8 DEF StopBegin
<1>9. CASE FreeChannel(c) BY <1>9 DEF FreeChannel, TriesRelease, NothingToRelease
<1>10. CASE FreeBandwidth(c) BY <1>10 DEF FreeBandwidth, TriesRelease, NothingToRelease
<1>11. CASE StopIso(c)
  <2>1. reg' = [reg EXCEPT ![c].iso_en = FALSE] \/ UNCHANGED reg BY <1>11 DEF StopIso
  <2>2. reg' \in [Cameras -> [channel : Channels, iso_en : BOOLEAN]] BY <2>1
  <2>3. QED BY <1>11, <2>2 DEF StopIso
<1>12. CASE Open(c) BY <1>12 DEF Open
<1>13. CASE Free(c) BY <1>13 DEF Free
<1>14. ASSUME NEW on \in BOOLEAN, SetTransmission(c, on) PROVE ControlTypeOK'
  BY <1>14 DEF SetTransmission
<1>15. QED
  BY <1>1, <1>2, <1>3, <1>4, <1>5, <1>6, <1>7, <1>8, <1>9, <1>10, <1>11, <1>12, <1>13, <1>14
  DEF Step, SetupStep, StopStep

\* A step keeps every platform_camera_t in its type.
LEMMA CrawTypeStep ==
    ASSUME ControlTypeOK, CrawTypeOK, NEW c \in Cameras, Step(c)
    PROVE  CrawTypeOK'
<1>1. ASSUME UNCHANGED craw PROVE CrawTypeOK' BY <1>1 DEF CrawTypeOK
<1>2. CASE SetupChannel(c)
  <2>1. \/ \E ch \in Channels : craw' = [craw EXCEPT ![c].channel = ch]
        \/ UNCHANGED craw
    BY <1>2 DEF SetupChannel
  <2>2. QED BY <1>1, <2>1 DEF CrawTypeOK, CrawType
<1>3. CASE SetupBandwidth(c)
  <2>1. \/ \E units \in Units : craw' = [craw EXCEPT ![c].bandwidth = units]
        \/ UNCHANGED craw
    BY <1>3 DEF SetupBandwidth
  <2>2. QED BY <1>1, <2>1 DEF CrawTypeOK, CrawType
<1>4. CASE SetupListen(c)
  <2>1. reg[c].channel \in Channels BY DEF ControlTypeOK
  <2>2. \/ craw' = [craw EXCEPT ![c].iso_channel = reg[c].channel, ![c].is_set = TRUE]
        \/ UNCHANGED craw
    BY <1>4 DEF SetupListen
  <2>3. QED BY <1>1, <2>1, <2>2 DEF CrawTypeOK, CrawType
<1>5. CASE SetupIsoOn(c) \/ StopIso(c)
  <2>1. \/ \E on \in BOOLEAN : craw' = [craw EXCEPT ![c].auto_started = on]
        \/ UNCHANGED craw
    BY <1>5 DEF SetupIsoOn, StopIso
  <2>2. QED BY <1>1, <2>1 DEF CrawTypeOK, CrawType
<1>6. ASSUME NEW flags \in FlagSets, SetupBegin(c, flags) PROVE CrawTypeOK'
  <2>1. craw' = [craw EXCEPT ![c].flags = flags, ![c].channel = NoChannel]
    BY <1>6 DEF SetupBegin
  <2>2. flags \in SUBSET Flags BY LinuxAssumption
  <2>3. QED BY <2>1, <2>2 DEF CrawTypeOK, CrawType
<1>7. CASE StopBegin(c)
  <2>1. \/ craw' = [craw EXCEPT ![c].is_set = FALSE]
        \/ UNCHANGED craw
    BY <1>7 DEF StopBegin
  <2>2. QED BY <1>1, <2>1 DEF CrawTypeOK, CrawType
<1>8. CASE FreeBandwidth(c)
  <2>1. craw' = [craw EXCEPT ![c].channel = NoChannel, ![c].bandwidth = 0]
    BY <1>8 DEF FreeBandwidth
  <2>2. QED BY <2>1 DEF CrawTypeOK, CrawType
<1>9. CASE Free(c)
  <2>1. Fresh \in CrawType BY IsoAssumption DEF Fresh, CrawType, Channels
  <2>2. craw' = [craw EXCEPT ![c] = Fresh] BY <1>9 DEF Free
  <2>3. QED BY <2>1, <2>2 DEF CrawTypeOK
<1>10. CASE SetupIsoOff(c) \/ SetupProgram(c) \/ FreeChannel(c) \/ Open(c)
  BY <1>1, <1>10 DEF SetupIsoOff, SetupProgram, FreeChannel, Open
<1>11. ASSUME NEW on \in BOOLEAN, SetTransmission(c, on) PROVE CrawTypeOK'
  BY <1>1, <1>11 DEF SetTransmission
<1>12. QED
  BY <1>2, <1>3, <1>4, <1>5, <1>6, <1>7, <1>8, <1>9, <1>10, <1>11
  DEF Step, SetupStep, StopStep

\* What the capture remembers it has is in the camera's account.
LEMMA CoveredStep ==
    ASSUME OwnInv, NEW c \in Cameras, Step(c)
    PROVE  craw'[c].bandwidth <= camera'[c].bandwidth
<1> USE DEF OwnInv, LinuxTypeOK, IsoTypeOK
<1>0. /\ craw[c].bandwidth \in Nat /\ camera[c].bandwidth \in Nat
      /\ craw[c].bandwidth <= camera[c].bandwidth
  <2>1. craw[c].bandwidth \in Units \cup {0} OBVIOUS
  <2>2. Units \cup {0} \subseteq Nat BY LinuxAssumption
  <2>3. QED BY <2>1, <2>2
<1>1. CASE SetupBandwidth(c)
  <2>1. ASSUME NEW units \in Units, TakesBandwidth(c, units),
               craw' = [craw EXCEPT ![c].bandwidth = units]
        PROVE  craw'[c].bandwidth <= camera'[c].bandwidth
    <3>1. craw'[c].bandwidth = units /\ camera'[c].bandwidth = camera[c].bandwidth + units
      BY <2>1 DEF TakesBandwidth
    <3>2. QED BY <1>0, <3>1, LinuxAssumption
  <2>2. QED BY <1>0, <1>1, <2>1 DEF SetupBandwidth
<1>2. CASE FreeChannel(c)
  <2>1. UNCHANGED craw BY <1>2 DEF FreeChannel
  <2>2. camera'[c].bandwidth = camera[c].bandwidth
    BY <1>0, <1>2 DEF FreeChannel, TriesRelease, NothingToRelease, Releases, LessBandwidth
  <2>3. QED BY <1>0, <2>1, <2>2
<1>3. CASE FreeBandwidth(c)
  <2>1. craw'[c].bandwidth = 0 BY <1>3 DEF FreeBandwidth
  <2>2. camera'[c].bandwidth \in Nat
    <3>1. ASSUME Releases(c, {}, craw[c].bandwidth) PROVE camera'[c].bandwidth \in Nat
      <4>1. camera'[c].bandwidth = LessBandwidth(camera[c].bandwidth, craw[c].bandwidth)
        BY <3>1 DEF Releases
      <4>2. QED BY <1>0, <4>1 DEF LessBandwidth
    <3>2. QED BY <1>0, <1>3, <3>1 DEF FreeBandwidth, TriesRelease, NothingToRelease
  <2>3. QED BY <2>1, <2>2
<1>4. CASE Free(c)
  BY <1>4 DEF Free, CameraFree, Closed, Fresh
<1>5. CASE SetupChannel(c)
  <2>1. craw'[c].bandwidth = craw[c].bandwidth BY <1>5 DEF SetupChannel
  <2>2. camera'[c].bandwidth = camera[c].bandwidth
    BY <1>5 DEF SetupChannel, TakesChannel
  <2>3. QED BY <1>0, <2>1, <2>2
<1>6. CASE Open(c)
  BY <1>0, <1>6 DEF Open, CameraNew
<1>7. ASSUME UNCHANGED camera, craw'[c].bandwidth = craw[c].bandwidth
      PROVE  craw'[c].bandwidth <= camera'[c].bandwidth
  BY <1>0, <1>7
<1>8. CASE SetupIsoOff(c) BY <1>7, <1>8 DEF SetupIsoOff
<1>9. CASE SetupProgram(c) BY <1>7, <1>9 DEF SetupProgram
<1>10. CASE SetupListen(c) BY <1>7, <1>10 DEF SetupListen
<1>11. CASE SetupIsoOn(c) BY <1>7, <1>11 DEF SetupIsoOn
<1>12. CASE StopBegin(c) BY <1>7, <1>12 DEF StopBegin
<1>13. CASE StopIso(c) BY <1>7, <1>13 DEF StopIso
<1>14. ASSUME NEW flags \in FlagSets, SetupBegin(c, flags)
       PROVE  craw'[c].bandwidth <= camera'[c].bandwidth
  BY <1>7, <1>14 DEF SetupBegin
<1>15. ASSUME NEW on \in BOOLEAN, SetTransmission(c, on)
       PROVE  craw'[c].bandwidth <= camera'[c].bandwidth
  BY <1>7, <1>15 DEF SetTransmission
<1>16. QED
  BY <1>1, <1>2, <1>3, <1>4, <1>5, <1>6, <1>8, <1>9, <1>10, <1>11, <1>12, <1>13, <1>14, <1>15
  DEF Step, SetupStep, StopStep
-----------------------------------------------------------------------------
(* The refinement *)

\* Before anything is opened nothing is remembered.
LEMMA OwnInvInit == Init => OwnInv
<1> SUFFICES ASSUME Init PROVE OwnInv OBVIOUS
<1>1. IsoTypeOK BY IsoAssumption DEF Init, IsoInit, IsoTypeOK, Closed, Channels
<1>2. Fresh \in CrawType BY IsoAssumption DEF Fresh, CrawType, Channels
<1>3. CrawTypeOK BY <1>2 DEF Init, CrawTypeOK
<1>4. ControlTypeOK BY IsoAssumption DEF Init, ControlTypeOK, Labels, Channels
<1>5. \A c \in Cameras : craw[c].bandwidth <= camera[c].bandwidth
  BY DEF Init, IsoInit, Fresh, Closed
<1>6. \A c \in Cameras : Attached(c)
  BY DEF Init, IsoInit, Attached, Owns, Fresh, Closed
<1>7. QED
  BY <1>1, <1>3, <1>4, <1>5, <1>6
  DEF OwnInv, LinuxTypeOK, ControlTypeOK, CrawTypeOK, CrawType

\* The three lemmas above, for any step.
LEMMA StepIsAccounted ==
    ASSUME OwnInv, NEW c \in Cameras, Step(c)
    PROVE  Accounted(c) /\ Attached(c)'
BY SetupSteps, StopSteps, OtherSteps DEF Step

\* The invariant is inductive, and a step is one of IsoPrograms or none.
LEMMA OwnInvStep == OwnInv /\ [Next]_linuxVars => OwnInv' /\ [IsoCalls(Units, TRUE)]_isoVars
<1> SUFFICES ASSUME OwnInv, [Next]_linuxVars PROVE OwnInv' /\ [IsoCalls(Units, TRUE)]_isoVars
  OBVIOUS
<1>1. CASE UNCHANGED linuxVars
  BY <1>1 DEF linuxVars, isoVars, OwnInv, LinuxTypeOK, IsoTypeOK, Attached, Owns
<1>2. ASSUME NEW c \in Cameras, Step(c) PROVE OwnInv' /\ [IsoCalls(Units, TRUE)]_isoVars
  <2>1. Accounted(c) /\ Attached(c)' BY <1>2, StepIsAccounted
  <2>2. IsoTypeOK'
    <3>1. IsoTypeOK /\ Units \in SUBSET Nat BY LinuxAssumption DEF OwnInv, LinuxTypeOK
    <3>2. [IsoCalls(Units, TRUE)]_isoVars BY <2>1 DEF Accounted
    <3>3. QED BY <3>1, <3>2, TypeStep
  <2>3. ControlTypeOK /\ CrawTypeOK
    BY DEF OwnInv, LinuxTypeOK, ControlTypeOK, CrawTypeOK, CrawType
  <2>4. ControlTypeOK' /\ CrawTypeOK' BY <1>2, <2>3, ControlTypeStep, CrawTypeStep
  <2>5. \A d \in Cameras : craw'[d].bandwidth <= camera'[d].bandwidth
    BY <1>2, <2>1, CoveredStep DEF Accounted, Apart, OwnInv, LinuxTypeOK
  <2>6. \A d \in Cameras : Attached(d)'
    BY <2>1 DEF Accounted, Apart, Attached, Owns, OwnInv
  <2>7. QED
    BY <2>1, <2>2, <2>4, <2>5, <2>6
    DEF Accounted, OwnInv, LinuxTypeOK, ControlTypeOK, CrawTypeOK, CrawType
<1>3. QED BY <1>1, <1>2 DEF Next, Step

\* The two instances of the abstract specification are the same.
LEMMA SameSteps == [IsoCalls(Units, TRUE)]_isoVars => [Iso!Next]_isoVars
<1>1. \A c \in Cameras : CameraNew(c) <=> Iso!CameraNew(c)
  BY DEF CameraNew, Iso!CameraNew
<1>2. \A c \in Cameras : SetPersist(c) <=> Iso!SetPersist(c)
  BY DEF SetPersist, Iso!SetPersist
<1>3. \A c \in Cameras : AllocateChannel(c) <=> Iso!AllocateChannel(c)
  BY DEF AllocateChannel, TakesChannel, FreeChannels, Allowed, Channels,
         Iso!AllocateChannel, Iso!TakesChannel, Iso!FreeChannels, Iso!Allowed, Iso!Channels
<1>4. \A u : Available(u) = Iso!Available(u)
  BY DEF Available, Min, Iso!Available, Iso!Min
<1>5. \A c, chs, u : Releases(c, chs, u) <=> Iso!Releases(c, chs, u)
  BY <1>4 DEF Releases, Iso!Releases, LessBandwidth, Iso!LessBandwidth
<1>6. \A c \in Cameras : ReleaseAll(c) <=> Iso!ReleaseAll(c)
  BY <1>5 DEF ReleaseAll, Iso!ReleaseAll
<1>7. \A c \in Cameras : CameraFree(c) <=> Iso!CameraFree(c)
  BY <1>4 DEF CameraFree, Iso!CameraFree, Closed, Iso!Closed
<1>8. \A c \in Cameras, u \in Units :
         /\ AllocateBandwidth(c, u) <=> Iso!AllocateBandwidth(c, u)
         /\ ReleaseBandwidth(c, u) <=> Iso!ReleaseBandwidth(c, u)
  BY <1>5 DEF AllocateBandwidth, Iso!AllocateBandwidth, TakesBandwidth, Iso!TakesBandwidth,
              ReleaseBandwidth, Iso!ReleaseBandwidth
<1>9. \A c, ch : ReleaseChannel(c, ch) <=> Iso!ReleaseChannel(c, ch)
  BY <1>5 DEF ReleaseChannel, Iso!ReleaseChannel
<1>10. QED
  BY <1>1, <1>2, <1>3, <1>6, <1>7, <1>8, <1>9
  DEF IsoCalls, Iso!Next, Iso!IsoCalls, Channels, Iso!Channels

\* Every variable keeps its type, and what a capture remembers is in the books.
THEOREM LinuxTypeCorrect == Spec => []LinuxTypeOK
<1>1. OwnInv => LinuxTypeOK BY DEF OwnInv
<1>2. QED BY <1>1, OwnInvInit, OwnInvStep, PTL DEF Spec

\* The captures use the bus as programs do that release only what they have
\* allocated themselves.
THEOREM LinuxImplementsIso == Spec => ImplementsIso
<1>1. Init => Iso!IsoInit
  BY DEF Init, IsoInit, Closed, Iso!IsoInit, Iso!Closed
<1>2. OwnInv /\ [Next]_linuxVars => [Iso!Next]_Iso!isoVars
  BY OwnInvStep, SameSteps DEF isoVars, Iso!isoVars
<1>3. QED BY <1>1, <1>2, OwnInvInit, OwnInvStep, PTL DEF Spec, ImplementsIso, Iso!Spec
-----------------------------------------------------------------------------
(* What a capture has allocated *)

\* What the capture of c has allocated, as long as the bus has taken back all
\* that it was given.
Exact(c) ==
    /\ camera[c].bandwidth = craw[c].bandwidth
    /\ camera[c].channels = IF Owns(c) THEN {craw[c].channel} \ {NoChannel} ELSE {}
    /\ pc[c] \in {"iso_off", "channel"} => craw[c].channel = NoChannel
    /\ pc[c] = "iso_on" => craw[c].is_set
    /\ /\ ~craw[c].is_set
       /\ pc[c] \in {"idle", "iso_off", "channel", "program", "bandwidth", "stop_iso"}
       => craw[c].bandwidth = 0

\* An account is exact only if the IRM has what the account says: a channel
\* that is not in use there is not given back, and stays in the account.
ExactInv ==
    /\ OwnInv
    /\ ChannelsInv
    /\ \A c \in Cameras : c \notin refused => Exact(c)

\* Setup adds to the account exactly what it remembers.
LEMMA ExactSetupSteps ==
    ASSUME ExactInv, NEW c \in Cameras, SetupStep(c)
    PROVE  c \notin refused' => Exact(c)'
<1> DEFINE Goal == c \notin refused' => Exact(c)'
<1>0. /\ pc \in [Cameras -> Labels] /\ CrawTypeOK /\ IsoTypeOK
      /\ Attached(c) /\ (c \notin refused => Exact(c))
  BY DEF ExactInv, OwnInv, LinuxTypeOK, CrawTypeOK, CrawType
<1>1. CASE SetupIsoOff(c)
  <2>1. craw' = craw /\ camera' = camera /\ pc[c] = "iso_off" /\ refused' = refused
        /\ pc'[c] \in {"channel", "idle"}
    BY <1>0, <1>1 DEF SetupIsoOff, At, Goto, SetupReturns
  <2>2. ~craw[c].is_set BY <1>0, <2>1 DEF Attached
  <2>3. QED BY <1>0, <2>1, <2>2 DEF Exact, Owns
<1>2. CASE SetupChannel(c)
  <2>1. pc[c] = "channel" /\ refused' = refused /\ ~craw[c].is_set
    BY <1>0, <1>2 DEF SetupChannel, At, Attached
  <2>2. ASSUME NEW ch \in Channels, TakesChannel(c, ch),
               craw' = [craw EXCEPT ![c].channel = ch], Goto(c, "program")
        PROVE  Goal
    <3>1. /\ camera'[c].channels = camera[c].channels \cup {ch}
          /\ camera'[c].bandwidth = camera[c].bandwidth
      BY <1>0, <2>2 DEF TakesChannel, IsoTypeOK
    <3>2. /\ craw'[c].channel = ch /\ craw'[c].bandwidth = craw[c].bandwidth
          /\ craw'[c].is_set = craw[c].is_set
      BY <1>0, <2>2 DEF CrawTypeOK, CrawType
    <3>3. pc'[c] = "program" BY <1>0, <2>2 DEF Goto
    <3>4. ch # NoChannel BY DEF Channels, NoChannel
    <3>5. QED BY <1>0, <2>1, <3>1, <3>2, <3>3, <3>4 DEF Exact, Owns
  <2>3. CASE UNCHANGED <<irm, camera, craw>> /\ pc'[c] \in {"bandwidth", "fail_channel"}
    BY <1>0, <2>1, <2>3 DEF Exact, Owns
  <2>4. QED BY <1>0, <1>2, <2>2, <2>3 DEF SetupChannel, Goto
<1>3. CASE SetupProgram(c)
  <2>1. craw' = craw /\ camera' = camera /\ pc[c] = "program" /\ refused' = refused
        /\ pc'[c] \in {"bandwidth", "fail_channel"}
    BY <1>0, <1>3 DEF SetupProgram, At, Goto
  <2>2. QED BY <1>0, <2>1 DEF Exact, Owns
<1>4. CASE SetupBandwidth(c)
  <2>1. pc[c] = "bandwidth" /\ refused' = refused /\ ~craw[c].is_set
    BY <1>0, <1>4 DEF SetupBandwidth, At, Attached
  <2>2. ASSUME NEW units \in Units, TakesBandwidth(c, units),
               craw' = [craw EXCEPT ![c].bandwidth = units], Goto(c, "listen")
        PROVE  Goal
    <3>1. /\ camera'[c].channels = camera[c].channels
          /\ camera'[c].bandwidth = camera[c].bandwidth + units
      BY <1>0, <2>2 DEF TakesBandwidth, IsoTypeOK
    <3>2. /\ craw'[c].channel = craw[c].channel /\ craw'[c].bandwidth = units
          /\ craw'[c].is_set = craw[c].is_set
      BY <1>0, <2>2 DEF CrawTypeOK, CrawType
    <3>3. pc'[c] = "listen" BY <1>0, <2>2 DEF Goto
    <3>4. c \notin refused => camera[c].bandwidth = 0 BY <1>0, <2>1 DEF Exact
    <3>5. c \notin refused => camera'[c].bandwidth = units
      BY <3>1, <3>4, LinuxAssumption
    <3>6. QED BY <1>0, <2>1, <3>1, <3>2, <3>3, <3>5 DEF Exact, Owns
  <2>3. CASE UNCHANGED <<irm, camera, craw>> /\ pc'[c] \in {"listen", "fail_channel"}
    BY <1>0, <2>1, <2>3 DEF Exact, Owns
  <2>4. QED BY <1>0, <1>4, <2>2, <2>3 DEF SetupBandwidth, Goto
<1>5. CASE SetupListen(c)
  <2>1. pc[c] = "listen" /\ refused' = refused /\ camera' = camera
    BY <1>0, <1>5 DEF SetupListen, At
  <2>2. craw'[c].channel = craw[c].channel /\ craw'[c].bandwidth = craw[c].bandwidth
    BY <1>0, <1>5 DEF SetupListen, CrawTypeOK, CrawType
  <2>3. \/ craw'[c].is_set /\ pc'[c] \in {"iso_on", "idle"}
        \/ craw'[c].is_set = craw[c].is_set /\ pc'[c] = "fail_channel"
    BY <1>0, <1>5 DEF SetupListen, CrawTypeOK, CrawType, Goto, SetupReturns
  <2>4. QED BY <1>0, <2>1, <2>2, <2>3 DEF Exact, Owns
<1>6. CASE SetupIsoOn(c)
  <2>1. pc[c] = "iso_on" /\ refused' = refused /\ camera' = camera /\ pc'[c] = "idle"
    BY <1>0, <1>6 DEF SetupIsoOn, At, SetupReturns
  <2>2. /\ craw'[c].channel = craw[c].channel /\ craw'[c].bandwidth = craw[c].bandwidth
        /\ craw'[c].is_set = craw[c].is_set
    BY <1>0, <1>6 DEF SetupIsoOn, CrawTypeOK, CrawType
  <2>3. QED BY <1>0, <2>1, <2>2 DEF Exact, Owns
<1>7. ASSUME NEW flags \in FlagSets, SetupBegin(c, flags) PROVE Goal
  <2>1. pc[c] = "idle" /\ refused' = refused /\ camera' = camera /\ ~craw[c].is_set
        /\ pc'[c] \in {"channel", "iso_off"}
    BY <1>0, <1>7 DEF SetupBegin, At, Called
  <2>2. /\ craw'[c].channel = NoChannel /\ craw'[c].bandwidth = craw[c].bandwidth
        /\ craw'[c].is_set = craw[c].is_set
    BY <1>0, <1>7 DEF SetupBegin, CrawTypeOK, CrawType
  <2>3. QED BY <1>0, <2>1, <2>2 DEF Exact, Owns
<1>8. QED BY <1>1, <1>2, <1>3, <1>4, <1>5, <1>6, <1>7 DEF SetupStep
\* A release takes all that is remembered from the account, or is refused.
LEMMA ExactStopSteps ==
    ASSUME ExactInv, NEW c \in Cameras, StopStep(c)
    PROVE  c \notin refused' => Exact(c)'
<1> DEFINE Goal == c \notin refused' => Exact(c)'
<1>0. /\ pc \in [Cameras -> Labels] /\ CrawTypeOK /\ IsoTypeOK
      /\ Attached(c) /\ (c \notin refused => Exact(c))
  BY DEF ExactInv, OwnInv, LinuxTypeOK, CrawTypeOK, CrawType
<1>1. camera[c].channels \subseteq irm.channels
  BY DEF ExactInv, ChannelsInv, ChannelsExclusive
<1>2. CASE StopBegin(c)
  <2>1. pc[c] = "idle" /\ refused' = refused /\ camera' = camera /\ craw[c].is_set
    BY <1>0, <1>2 DEF StopBegin, At
  <2>2. craw'[c].channel = craw[c].channel /\ craw'[c].bandwidth = craw[c].bandwidth
    BY <1>0, <1>2 DEF StopBegin, CrawTypeOK, CrawType
  <2>3. \/ ~craw'[c].is_set /\ pc'[c] = "stop_channel"
        \/ craw'[c].is_set /\ pc'[c] = "idle"
    BY <1>0, <1>2, <2>1 DEF StopBegin, CrawTypeOK, CrawType, Called
  <2>4. QED BY <1>0, <2>1, <2>2, <2>3 DEF Exact, Owns
<1>3. CASE FreeChannel(c)
  <2>1. /\ pc[c] \in {"fail_channel", "stop_channel"} /\ craw' = craw
        /\ pc'[c] \in {"fail_bandwidth", "stop_bandwidth"}
    BY <1>0, <1>3 DEF FreeChannel, Goto
  <2>2. ~craw[c].is_set BY <1>0, <2>1 DEF Attached
  <2>3. ASSUME c \notin refused' PROVE Exact(c)'
    <3>1. c \notin refused BY <1>3, <2>3 DEF FreeChannel, TriesRelease, NothingToRelease
    <3>2. camera'[c].channels = {} /\ camera'[c].bandwidth = camera[c].bandwidth
      <4>1. CASE craw[c].channel \in irm.channels
        <5>1. Releases(c, {craw[c].channel}, 0)
          BY <1>3, <2>3, <4>1 DEF FreeChannel, TriesRelease
        <5>2. /\ camera'[c].channels = camera[c].channels \ {craw[c].channel}
              /\ camera'[c].bandwidth = LessBandwidth(camera[c].bandwidth, 0)
          BY <1>0, <5>1 DEF Releases, IsoTypeOK
        <5>3. camera[c].bandwidth \in Nat BY <1>0 DEF IsoTypeOK
        <5>4. camera[c].channels \subseteq {craw[c].channel} BY <1>0, <3>1 DEF Exact
        <5>5. QED BY <5>2, <5>3, <5>4 DEF LessBandwidth
      <4>2. CASE craw[c].channel \notin irm.channels
        <5>1. camera[c].channels = {} BY <1>0, <1>1, <3>1, <4>2 DEF Exact
        <5>2. QED BY <1>3, <4>2, <5>1 DEF FreeChannel, NothingToRelease
      <4>3. QED BY <4>1, <4>2
    <3>3. QED BY <1>0, <2>1, <2>2, <3>1, <3>2 DEF Exact, Owns
  <2>4. QED BY <2>3
<1>4. CASE FreeBandwidth(c)
  <2>1. /\ pc[c] \in {"fail_bandwidth", "stop_bandwidth"}
        /\ pc'[c] \in {"idle", "stop_iso"}
    BY <1>0, <1>4 DEF FreeBandwidth, Goto, Return, SetupReturns
  <2>2. ~craw[c].is_set BY <1>0, <2>1 DEF Attached
  <2>3. /\ craw'[c].bandwidth = 0 /\ craw'[c].channel = NoChannel
        /\ craw'[c].is_set = craw[c].is_set
    BY <1>0, <1>4 DEF FreeBandwidth, CrawTypeOK, CrawType
  <2>4. ASSUME c \notin refused' PROVE Exact(c)'
    <3>1. c \notin refused BY <1>4, <2>4 DEF FreeBandwidth, TriesRelease, NothingToRelease
    <3>2. camera[c].channels = {} /\ camera[c].bandwidth = craw[c].bandwidth
      BY <1>0, <2>1, <2>2, <3>1 DEF Exact, Owns
    <3>3. camera[c].bandwidth \in Nat BY <1>0 DEF IsoTypeOK
    <3>4. camera'[c].channels = {} /\ camera'[c].bandwidth = 0
      <4>1. CASE craw[c].bandwidth = 0
        BY <1>4, <3>2, <4>1 DEF FreeBandwidth, NothingToRelease
      <4>2. CASE craw[c].bandwidth # 0
        <5>1. Releases(c, {}, craw[c].bandwidth)
          BY <1>4, <2>4, <4>2 DEF FreeBandwidth, TriesRelease
        <5>2. /\ camera'[c].channels = camera[c].channels
              /\ camera'[c].bandwidth = LessBandwidth(camera[c].bandwidth, craw[c].bandwidth)
          BY <1>0, <5>1 DEF Releases, IsoTypeOK
        <5>3. QED BY <3>2, <3>3, <5>2 DEF LessBandwidth
      <4>3. QED BY <4>1, <4>2
    <3>5. QED BY <2>1, <2>2, <2>3, <3>4 DEF Exact, Owns
  <2>5. QED BY <2>4
<1>5. CASE StopIso(c)
  <2>1. pc[c] = "stop_iso" /\ refused' = refused /\ camera' = camera /\ pc'[c] = "idle"
    BY <1>0, <1>5 DEF StopIso, At, Return, Goto
  <2>2. /\ craw'[c].channel = craw[c].channel /\ craw'[c].bandwidth = craw[c].bandwidth
        /\ craw'[c].is_set = craw[c].is_set
    BY <1>0, <1>5 DEF StopIso, CrawTypeOK, CrawType
  <2>3. ~craw[c].is_set BY <1>0, <2>1 DEF Attached
  <2>4. QED BY <1>0, <2>1, <2>2, <2>3 DEF Exact, Owns
<1>6. QED BY <1>2, <1>3, <1>4, <1>5 DEF StopStep

\* Opening, freeing and starting by hand keep the account exact.
LEMMA ExactOtherSteps ==
    ASSUME ExactInv, NEW c \in Cameras,
           \/ Open(c) \/ Free(c)
           \/ \E on \in BOOLEAN : SetTransmission(c, on)
    PROVE  c \notin refused' => Exact(c)'
<1> DEFINE Goal == c \notin refused' => Exact(c)'
<1>0. /\ pc \in [Cameras -> Labels] /\ CrawTypeOK /\ IsoTypeOK
      /\ Attached(c) /\ (c \notin refused => Exact(c))
  BY DEF ExactInv, OwnInv, LinuxTypeOK, CrawTypeOK, CrawType
<1>1. CASE Open(c)
  <2>1. /\ camera'[c].channels = camera[c].channels
        /\ camera'[c].bandwidth = camera[c].bandwidth
    BY <1>0, <1>1 DEF Open, CameraNew, IsoTypeOK
  <2>2. QED BY <1>0, <1>1, <2>1 DEF Open, Exact, Owns
<1>2. CASE Free(c)
  <2>1. camera'[c].channels = {} /\ camera'[c].bandwidth = 0
    BY <1>0, <1>2 DEF Free, CameraFree, Closed, IsoTypeOK
  <2>2. craw'[c] = Fresh /\ pc'[c] = "idle"
    BY <1>0, <1>2 DEF Free, CrawTypeOK, Called
  <2>3. QED BY <2>1, <2>2 DEF Fresh, Exact, Owns
<1>3. ASSUME NEW on \in BOOLEAN, SetTransmission(c, on) PROVE Goal
  <2>1. UNCHANGED <<camera, craw, refused>> /\ pc'[c] = pc[c]
    BY <1>0, <1>3 DEF SetTransmission, At, Called
  <2>2. QED BY <1>0, <2>1 DEF Exact, Owns
<1>4. QED BY <1>1, <1>2, <1>3
\* The books of the abstract specification hold of the captures.
LEMMA BooksInit == Init => ChannelsInv
BY ChannelsInit DEF Init

\* A step that is accounted for keeps its books.
LEMMA BooksStep == ChannelsInv /\ [IsoCalls(Units, TRUE)]_isoVars => ChannelsInv'
<1>1. Units \in SUBSET Nat BY LinuxAssumption
<1>2. QED BY <1>1, ChannelsStep

\* Before anything is opened every account is empty.
LEMMA ExactInit == Init => ExactInv
<1> SUFFICES ASSUME Init PROVE \A c \in Cameras : Exact(c)
  BY OwnInvInit, BooksInit DEF ExactInv
<1>1. QED BY DEF Init, IsoInit, Closed, Fresh, Exact, Owns

\* A step of any program keeps every account exact.
LEMMA ExactStep == ExactInv /\ [Next]_linuxVars => ExactInv'
<1> SUFFICES ASSUME ExactInv, [Next]_linuxVars
             PROVE  \A d \in Cameras : d \notin refused' => Exact(d)'
  BY OwnInvStep, BooksStep DEF ExactInv
<1>1. CASE UNCHANGED linuxVars
  BY <1>1 DEF linuxVars, isoVars, ExactInv, Exact, Owns
<1>2. ASSUME NEW c \in Cameras, Step(c)
      PROVE  \A d \in Cameras : d \notin refused' => Exact(d)'
  <2>1. c \notin refused' => Exact(c)'
    BY <1>2, ExactSetupSteps, ExactStopSteps, ExactOtherSteps DEF Step
  <2>2. Apart(c) BY <1>2, StepIsAccounted DEF ExactInv, Accounted
  <2>3. ASSUME NEW d \in Cameras \ {c}, d \notin refused' PROVE Exact(d)'
    <3>1. d \notin refused /\ Exact(d) BY <2>2, <2>3 DEF Apart, ExactInv
    <3>2. QED BY <2>2, <3>1 DEF Apart, Exact, Owns
  <2>4. QED BY <2>1, <2>3
<1>3. QED BY <1>1, <1>2 DEF Next, Step

\* A camera without a capture has nothing allocated that the bus would take back,
\* whichever request of setup failed.
THEOREM StoppedHoldsNothing == Spec => []NothingHeldWhenStopped
<1>1. ExactInv => NothingHeldWhenStopped
  BY DEF ExactInv, Exact, Owns, NothingHeldWhenStopped
<1>2. QED BY <1>1, ExactInit, ExactStep, PTL DEF Spec

-----------------------------------------------------------------------------
(* The channel of a capture *)

\* A capture that asked for a channel listens on it.  The bus gives a channel
\* that the camera can use, and the camera can be programmed to it.
Tuned(c) == "CHANNEL_ALLOC" \in craw[c].flags =>
    /\ pc[c] = "program" => craw[c].channel \in Allowed(c)
    /\ pc[c] \in {"bandwidth", "listen"} => reg[c].channel = craw[c].channel
    /\ pc[c] \in {"program", "bandwidth", "listen"} \/ craw[c].is_set
         => craw[c].channel # NoChannel
    /\ craw[c].is_set => craw[c].iso_channel = craw[c].channel

NoneCapable == \A c \in Cameras : Mode[c] # "capable"

TunedInv ==
    /\ OwnInv
    /\ ChannelsInv
    /\ \A c \in Cameras : Tuned(c)

\* No bit of a channel that was given is lost in the register.
LEMMA ProgrammedIsGiven ==
    ASSUME NoneCapable, NEW c \in Cameras, NEW ch \in Allowed(c)
    PROVE  Programmed(c, ch) = ch
<1>1. NumChannels \in Nat \ {0} /\ LegacyChannels \in Nat \ {0} BY IsoAssumption
<1>2. CASE Mode[c] = "1394b"
  <2>1. ch \in 0 .. NumChannels - 1 BY <1>2 DEF Allowed, Channels
  <2>2. ch % NumChannels = ch BY <1>1, <2>1
  <2>3. QED BY <1>2, <2>2 DEF Programmed
<1>3. CASE Mode[c] = "legacy"
  <2>1. ch \in 0 .. LegacyChannels - 1 BY <1>3 DEF Allowed
  <2>2. ch % LegacyChannels = ch BY <1>1, <2>1
  <2>3. QED BY <1>3, <2>2 DEF Programmed
<1>4. QED BY <1>2, <1>3, IsoAssumption DEF NoneCapable

\* A step of the camera's program keeps its capture on its channel.
LEMMA TunedSteps ==
    ASSUME NoneCapable, TunedInv, NEW c \in Cameras, Step(c)
    PROVE  Tuned(c)'
<1>0. /\ pc \in [Cameras -> Labels] /\ CrawTypeOK /\ ControlTypeOK /\ Attached(c) /\ Tuned(c)
  BY DEF TunedInv, OwnInv, LinuxTypeOK, CrawTypeOK, CrawType, ControlTypeOK
<1>1. CASE SetupChannel(c)
  <2>1. pc[c] = "channel" /\ ~craw[c].is_set
    BY <1>0, <1>1 DEF SetupChannel, At, Attached
  <2>2. ASSUME NEW ch \in Channels, TakesChannel(c, ch),
               craw' = [craw EXCEPT ![c].channel = ch], Goto(c, "program")
        PROVE  Tuned(c)'
    <3>1. craw'[c].channel = ch /\ craw'[c].is_set = craw[c].is_set
      BY <1>0, <2>2 DEF CrawTypeOK, CrawType
    <3>2. pc'[c] = "program" BY <1>0, <2>2 DEF Goto
    <3>3. ch # NoChannel BY DEF Channels, NoChannel
    <3>4. ch \in Allowed(c) BY <2>2 DEF TakesChannel, FreeChannels
    <3>5. Allowed(c)' = Allowed(c) BY DEF Allowed
    <3>6. QED BY <2>1, <3>1, <3>2, <3>3, <3>4, <3>5 DEF Tuned
  <2>3. CASE craw' = craw /\ pc'[c] = "fail_channel"
    BY <1>0, <2>1, <2>3 DEF Tuned
  <2>4. CASE craw' = craw /\ "CHANNEL_ALLOC" \notin craw[c].flags
    BY <2>4 DEF Tuned
  <2>5. QED BY <1>0, <1>1, <2>2, <2>3, <2>4 DEF SetupChannel, Goto
<1>2. CASE SetupProgram(c)
  <2>1. pc[c] = "program" /\ craw' = craw /\ ~craw[c].is_set
    BY <1>0, <1>2 DEF SetupProgram, At, Attached
  <2>2. CASE /\ reg' = [reg EXCEPT ![c].channel = Programmed(c, craw[c].channel)]
             /\ Goto(c, "bandwidth")
    <3>1. reg'[c].channel = Programmed(c, craw[c].channel) /\ pc'[c] = "bandwidth"
      BY <1>0, <2>2 DEF ControlTypeOK, Goto
    <3>2. "CHANNEL_ALLOC" \in craw[c].flags => Programmed(c, craw[c].channel) = craw[c].channel
      BY <1>0, <2>1, ProgrammedIsGiven DEF Tuned
    <3>3. QED BY <1>0, <2>1, <3>1, <3>2 DEF Tuned
  <2>3. CASE pc'[c] = "fail_channel" BY <1>0, <2>1, <2>3 DEF Tuned
  <2>4. QED BY <1>0, <1>2, <2>2, <2>3 DEF SetupProgram, Goto
<1>3. CASE SetupBandwidth(c)
  <2>1. /\ pc[c] = "bandwidth" /\ reg' = reg /\ ~craw[c].is_set
        /\ pc'[c] \in {"listen", "fail_channel"}
    BY <1>0, <1>3 DEF SetupBandwidth, At, Attached, Goto
  <2>2. /\ craw'[c].channel = craw[c].channel /\ craw'[c].is_set = craw[c].is_set
        /\ craw'[c].flags = craw[c].flags
    BY <1>0, <1>3 DEF SetupBandwidth, CrawTypeOK, CrawType
  <2>3. QED BY <1>0, <2>1, <2>2 DEF Tuned
<1>4. CASE SetupListen(c)
  <2>1. pc[c] = "listen" /\ reg' = reg /\ ~craw[c].is_set
    BY <1>0, <1>4 DEF SetupListen, At, Attached
  <2>2. craw'[c].channel = craw[c].channel /\ craw'[c].flags = craw[c].flags
    BY <1>0, <1>4 DEF SetupListen, CrawTypeOK, CrawType
  <2>3. \/ /\ craw'[c].is_set /\ craw'[c].iso_channel = reg[c].channel
           /\ pc'[c] \in {"iso_on", "idle"}
        \/ ~craw'[c].is_set /\ pc'[c] = "fail_channel"
    BY <1>0, <1>4, <2>1 DEF SetupListen, CrawTypeOK, CrawType, Goto, SetupReturns
  <2>4. QED BY <1>0, <2>1, <2>2, <2>3 DEF Tuned
<1>5. ASSUME NEW flags \in FlagSets, SetupBegin(c, flags) PROVE Tuned(c)'
  <2>1. ~craw[c].is_set /\ pc'[c] \in {"channel", "iso_off"}
    BY <1>0, <1>5 DEF SetupBegin, Called
  <2>2. craw'[c].is_set = craw[c].is_set
    BY <1>0, <1>5 DEF SetupBegin, CrawTypeOK, CrawType
  <2>3. QED BY <2>1, <2>2 DEF Tuned
<1>6. CASE SetupIsoOn(c) \/ StopIso(c)
  <2>1. pc'[c] = "idle" BY <1>0, <1>6 DEF SetupIsoOn, StopIso, SetupReturns, Return, Goto
  <2>2. /\ craw'[c].channel = craw[c].channel /\ craw'[c].is_set = craw[c].is_set
        /\ craw'[c].flags = craw[c].flags /\ craw'[c].iso_channel = craw[c].iso_channel
    BY <1>0, <1>6 DEF SetupIsoOn, StopIso, CrawTypeOK, CrawType
  <2>3. QED BY <1>0, <2>1, <2>2 DEF Tuned
<1>7. ASSUME ~craw'[c].is_set, pc'[c] \notin {"program", "bandwidth", "listen"}
      PROVE  Tuned(c)'
  BY <1>7 DEF Tuned
<1>8. CASE StopBegin(c)
  <2>1. \/ ~craw'[c].is_set /\ pc'[c] = "stop_channel"
        \/ craw' = craw /\ pc'[c] = "idle"
    BY <1>0, <1>8 DEF StopBegin, CrawTypeOK, CrawType, Called
  <2>2. QED BY <1>0, <2>1 DEF Tuned
<1>9. CASE FreeChannel(c)
  <2>1. pc'[c] \in {"fail_bandwidth", "stop_bandwidth"} /\ ~craw'[c].is_set
    BY <1>0, <1>9 DEF FreeChannel, Goto, Attached
  <2>2. QED BY <1>7, <2>1
<1>10. CASE FreeBandwidth(c)
  <2>1. pc'[c] \in {"idle", "stop_iso"} /\ ~craw[c].is_set
    BY <1>0, <1>10 DEF FreeBandwidth, Goto, Return, SetupReturns, Attached
  <2>2. craw'[c].is_set = craw[c].is_set
    BY <1>0, <1>10 DEF FreeBandwidth, CrawTypeOK, CrawType
  <2>3. QED BY <1>7, <2>1, <2>2
<1>11. CASE SetupIsoOff(c)
  <2>1. pc'[c] \in {"channel", "idle"} /\ craw' = craw /\ ~craw[c].is_set
    BY <1>0, <1>11 DEF SetupIsoOff, At, Goto, SetupReturns, Attached
  <2>2. QED BY <1>7, <2>1
<1>12. CASE Open(c) BY <1>0, <1>12 DEF Open, Tuned, CameraNew, Allowed
<1>13. CASE Free(c)
  <2>1. craw'[c] = Fresh /\ pc'[c] = "idle"
    BY <1>0, <1>13 DEF Free, CrawTypeOK, Called
  <2>2. QED BY <2>1 DEF Fresh, Tuned
<1>14. ASSUME NEW on \in BOOLEAN, SetTransmission(c, on) PROVE Tuned(c)'
  <2>1. craw' = craw /\ pc'[c] = "idle" BY <1>0, <1>14 DEF SetTransmission, At, Called
  <2>2. QED BY <1>0, <2>1 DEF Tuned
<1>15. QED
  BY <1>1, <1>2, <1>3, <1>4, <1>5, <1>6, <1>8, <1>9, <1>10, <1>11, <1>12, <1>13, <1>14
  DEF Step, SetupStep, StopStep

\* Before anything is opened there is no capture.
LEMMA TunedInit == Init => TunedInv
<1> SUFFICES ASSUME Init PROVE \A c \in Cameras : Tuned(c)
  BY OwnInvInit, BooksInit DEF TunedInv
<1>1. QED BY DEF Init, Fresh, Tuned

\* A step of any program keeps every capture on its channel.
LEMMA TunedStep == NoneCapable /\ TunedInv /\ [Next]_linuxVars => TunedInv'
<1> SUFFICES ASSUME NoneCapable, TunedInv, [Next]_linuxVars
             PROVE  \A d \in Cameras : Tuned(d)'
  BY OwnInvStep, BooksStep DEF TunedInv
<1>1. CASE UNCHANGED linuxVars
  BY <1>1 DEF linuxVars, isoVars, TunedInv, Tuned, Allowed
<1>2. ASSUME NEW c \in Cameras, Step(c) PROVE \A d \in Cameras : Tuned(d)'
  <2>1. Tuned(c)' BY <1>2, TunedSteps
  <2>2. Apart(c) BY <1>2, StepIsAccounted DEF TunedInv, Accounted
  <2>3. ASSUME NEW d \in Cameras \ {c} PROVE Tuned(d)'
    BY <2>2, <2>3 DEF Apart, TunedInv, Tuned, Allowed
  <2>4. QED BY <2>1, <2>3
<1>3. QED BY <1>1, <1>2 DEF Next, Step

\* Two captures that asked for a channel never listen on the same one, if every
\* camera can be programmed to all channels that are tried for it.
THEOREM CapturesStayApart == NoneCapable /\ Spec => []CapturesApart
<1>1. TunedInv => CapturesApart
  <2> SUFFICES ASSUME TunedInv, NEW c \in Cameras, NEW d \in Cameras,
                      c # d, Allocates(c), Allocates(d)
               PROVE  craw[c].iso_channel # craw[d].iso_channel
    BY DEF CapturesApart
  <2>1. /\ craw[c].iso_channel \in camera[c].channels
        /\ craw[d].iso_channel \in camera[d].channels
    BY DEF TunedInv, OwnInv, Tuned, Allocates, Attached, Owns
  <2>2. camera[c].channels \cap camera[d].channels = {}
    BY DEF TunedInv, ChannelsInv, ChannelsExclusive
  <2>3. QED BY <2>1, <2>2
<1>2. CASE NoneCapable
  <2>1. TunedInv /\ [Next]_linuxVars => TunedInv' BY <1>2, TunedStep
  <2>2. QED BY <1>1, <2>1, TunedInit, PTL DEF Spec
<1>3. QED BY <1>2
=============================================================================

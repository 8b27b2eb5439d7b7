------------------------- MODULE FrameFeed_proofs -------------------------
(***************************************************************************)
(* What the nodes and Tracking promise of the samples and of the depth, for *)
(* every skew between the streams, period and limit of the buffers.        *)
(*                                                                         *)
(* Depth: an evicted entry d was strictly farther from an image than the   *)
(* entry f that is now the front, so the image was past the middle between *)
(* d and f, and later images are further past it.                          *)
(*                                                                         *)
(* Samples: the buffer and the queue are in order, the queue before the    *)
(* buffer, and a sample the node kept is in one of them or too old for     *)
(* every later interval (FeedInv).  What PreintegrateIMU collects is then  *)
(* in order, so the sum of its steps telescopes: from the second sample,   *)
(* or the previous frame if that is earlier, to the frame.                 *)
(***************************************************************************)
EXTENDS FrameFeed, Selection_proofs

(* The stamps of the window are strictly increasing; none is in the future. *)
Sorted ==
  /\ depthWindow \in Seq(Time) /\ lastStamp \in [Streams -> Time \cup {NoTime}]
  /\ depths \subseteq Time /\ Len(depthWindow) <= MaxDepth
  /\ \A i, j \in DOMAIN depthWindow : i < j => depthWindow[i] < depthWindow[j]
  /\ \A i \in DOMAIN depthWindow : depthWindow[i] <= lastStamp["depth"]

(* What came and is not in the window is older than its front, and the last *)
(* image was not closer to it than to the front.                            *)
Evicted(d) ==
  /\ depthWindow # << >>
  /\ d < depthWindow[1]
  /\ d + depthWindow[1] <= 2 * lastStamp["rgb"]

EvictedIsFarther ==
  \A d \in depths : (\E i \in DOMAIN depthWindow : depthWindow[i] = d) \/ Evicted(d)

DepthInv == Sorted /\ EvictedIsFarther /\ ClosestDepthIsMatched

LEMMA TimeIsInt == Time \subseteq Int /\ NoTime \in Int /\ \A t \in Time : t > NoTime
BY FeedAssumption DEF Time, NoTime

LEMMA InitDepth == Init => DepthInv
<1>. SUFFICES ASSUME Init  PROVE DepthInv
  OBVIOUS
<1>1. << >> \in Seq(Time) /\ Len(<< >>) = 0 /\ DOMAIN (<< >>) = {}
  BY EmptySeq
<1>2. Sorted
  BY <1>1, FeedAssumption DEF Init, Sorted
<1>3. EvictedIsFarther /\ ClosestDepthIsMatched
  BY DEF Init, EvictedIsFarther, ClosestDepthIsMatched, NoMatch
<1>. QED  BY <1>2, <1>3 DEF DepthInv

-----------------------------------------------------------------------------
(* Steps that leave the window and its history alone. *)
LEMMA WindowKept ==
  ASSUME DepthInv, UNCHANGED <<depthWindow, depths>>, match' = NoMatch,
         lastStamp' \in [Streams -> Time \cup {NoTime}],
         \A s \in Streams : lastStamp'[s] >= lastStamp[s]
  PROVE  DepthInv'
<1>1. /\ lastStamp["depth"] \in Int /\ lastStamp'["depth"] \in Int
      /\ lastStamp["rgb"] \in Int /\ lastStamp'["rgb"] \in Int
      /\ lastStamp'["depth"] >= lastStamp["depth"] /\ lastStamp'["rgb"] >= lastStamp["rgb"]
  BY TimeIsInt DEF DepthInv, Sorted, Streams
<1>2. \A i \in DOMAIN depthWindow : depthWindow[i] \in Int
  <2>1. depthWindow \in [1..Len(depthWindow) -> Time]
    BY LenProperties DEF DepthInv, Sorted
  <2>. QED  BY <2>1, TimeIsInt
<1>3. Sorted'
  BY <1>1, <1>2 DEF DepthInv, Sorted
<1>4. \A d \in depths : d \in Int
  BY TimeIsInt DEF DepthInv, Sorted
<1>5. depthWindow # << >> => depthWindow[1] \in Int
  BY <1>2, EmptySeq, LenProperties DEF DepthInv, Sorted
<1>6. EvictedIsFarther'
  BY <1>1, <1>4, <1>5 DEF DepthInv, EvictedIsFarther, Evicted
<1>7. ClosestDepthIsMatched'
  BY DEF ClosestDepthIsMatched, NoMatch
<1>. QED  BY <1>3, <1>6, <1>7 DEF DepthInv

LEMMA DeliveredIsLater ==
  ASSUME DepthInv, NEW stream \in Streams, NEW t \in Time, Delivered(stream, t)
  PROVE  /\ lastStamp' \in [Streams -> Time \cup {NoTime}]
         /\ \A s \in Streams : lastStamp'[s] >= lastStamp[s]
         /\ lastStamp[stream] < t /\ lastStamp'[stream] = t
         /\ \A s \in Streams : s # stream => lastStamp'[s] = lastStamp[s]
<1>1. \A s \in Streams : lastStamp[s] \in Int
  BY TimeIsInt DEF DepthInv, Sorted
<1>2. t \in Int
  BY TimeIsInt
<1>. QED  BY <1>1, <1>2 DEF Delivered, DepthInv, Sorted

LEMMA HandleImuDepth == ASSUME DepthInv, NEW t \in Time, HandleImu(t) PROVE DepthInv'
<1>1. Delivered("imu", t) /\ UNCHANGED <<depthWindow, depths>> /\ match' = NoMatch
  BY DEF HandleImu, NothingMatched
<1>2. "imu" \in Streams
  BY DEF Streams
<1>. QED  BY <1>1, <1>2, DeliveredIsLater, WindowKept

LEMMA HandleSyncedImagesDepth ==
  ASSUME DepthInv, NEW t \in Time, HandleSyncedImages(t) PROVE DepthInv'
<1>1. Delivered("rgb", t) /\ UNCHANGED <<depthWindow, depths>> /\ match' = NoMatch
  BY DEF HandleSyncedImages, NothingMatched
<1>2. "rgb" \in Streams
  BY DEF Streams
<1>. QED  BY <1>1, <1>2, DeliveredIsLater, WindowKept

(* A new entry at the back; at the limit the front goes, and with it all the *)
(* history that is older.                                                    *)
LEMMA HandleDepthDepth == ASSUME DepthInv, NEW t \in Time, HandleDepth(t) PROVE DepthInv'
<1>. DEFINE n == Len(depthWindow)
<1>1. /\ Delivered("depth", t) /\ depthWindow' = PushBounded(depthWindow, t, MaxDepth) /\ match' = NoMatch
      /\ depths' = {d \in depths : \A s \in DroppedByLimit(depthWindow, MaxDepth) : d > s} \cup {t}
  BY DEF HandleDepth, NothingMatched
<1>2. /\ lastStamp' \in [Streams -> Time \cup {NoTime}]
      /\ lastStamp["depth"] < t /\ lastStamp'["depth"] = t /\ lastStamp'["rgb"] = lastStamp["rgb"]
      /\ lastStamp["depth"] \in Int /\ lastStamp["rgb"] \in Int /\ t \in Int
  <2>1. "depth" \in Streams /\ "rgb" \in Streams
    BY DEF Streams
  <2>. QED  BY <1>1, <2>1, DeliveredIsLater, TimeIsInt DEF DepthInv, Sorted
<1>3. /\ depthWindow \in Seq(Time) /\ n \in Nat /\ DOMAIN depthWindow = 1..n /\ n <= MaxDepth
      /\ \A i \in 1..n : depthWindow[i] \in Int
      /\ \A i, j \in 1..n : i < j => depthWindow[i] < depthWindow[j]
      /\ \A i \in 1..n : depthWindow[i] <= lastStamp["depth"]
      /\ depthWindow # << >> => n # 0
      /\ depths \subseteq Time /\ \A d \in depths : d \in Int
  <2>1. depthWindow \in Seq(Time) /\ depths \subseteq Time
    BY DEF DepthInv, Sorted
  <2>2. depthWindow \in [1..Len(depthWindow) -> Time] /\ n \in Nat /\ DOMAIN depthWindow = 1..n
    BY <2>1, LenProperties
  <2>. QED  BY <2>1, <2>2, TimeIsInt, EmptySeq DEF DepthInv, Sorted
<1>4. depths' \subseteq Time /\ ClosestDepthIsMatched'
  BY <1>1, <1>3 DEF ClosestDepthIsMatched, NoMatch
<1>5. CASE n # MaxDepth
  <2>1. depthWindow' = Append(depthWindow, t) /\ depths' = depths \cup {t}
    BY <1>1, <1>5 DEF PushBounded, DroppedByLimit
  <2>2. /\ depthWindow' \in Seq(Time) /\ Len(depthWindow') = n + 1 /\ DOMAIN depthWindow' = 1..(n + 1)
        /\ \A i \in 1..n : depthWindow'[i] = depthWindow[i]
        /\ depthWindow'[n + 1] = t /\ depthWindow' # << >>
    BY <2>1, <1>3, AppendProperties, LenProperties
  <2>. HIDE DEF n
  <2>3. \A i \in 1..(n + 1) : i \in 1..n \/ i = n + 1
    BY <1>3
  <2>4. Sorted'
    <3>1. \A i, j \in 1..(n + 1) : i < j => depthWindow'[i] < depthWindow'[j]
      <4>. SUFFICES ASSUME NEW i \in 1..(n + 1), NEW j \in 1..(n + 1), i < j
                    PROVE  depthWindow'[i] < depthWindow'[j]
        OBVIOUS
      <4>1. i \in 1..n
        BY <1>3
      <4>2. CASE j \in 1..n
        BY <1>3, <2>2, <4>1, <4>2
      <4>3. CASE j = n + 1
        <5>1. depthWindow'[i] = depthWindow[i] /\ depthWindow'[j] = t
          BY <2>2, <4>1, <4>3
        <5>2. depthWindow[i] \in Int /\ depthWindow[i] <= lastStamp["depth"]
          BY <1>3, <4>1
        <5>. QED  BY <1>2, <5>1, <5>2
      <4>. QED  BY <2>3, <4>2, <4>3
    <3>2. \A i \in 1..(n + 1) : depthWindow'[i] <= t
      BY <1>2, <1>3, <2>2, <2>3
    <3>3. n + 1 <= MaxDepth
      BY <1>3, <1>5, FeedAssumption
    <3>. QED  BY <1>2, <1>4, <2>2, <3>1, <3>2, <3>3 DEF Sorted
  <2>5. EvictedIsFarther'
    <3>1. SUFFICES ASSUME NEW d \in depths'
                   PROVE  (\E i \in 1..(n + 1) : depthWindow'[i] = d) \/ Evicted(d)'
      BY <2>2 DEF EvictedIsFarther
    <3>2. CASE d = t
      BY <3>2, <2>2, <1>3
    <3>3. CASE \E i \in 1..n : depthWindow[i] = d
      BY <3>3, <2>2, <1>3
    <3>4. CASE d # t /\ ~ \E i \in 1..n : depthWindow[i] = d
      <4>1. Evicted(d)
        BY <3>1, <3>4, <2>1, <1>3 DEF DepthInv, EvictedIsFarther
      <4>2. depthWindow'[1] = depthWindow[1]
        BY <4>1, <2>2, <1>3 DEF Evicted
      <4>. QED  BY <4>1, <4>2, <2>2, <1>2 DEF Evicted
    <3>. QED  BY <3>2, <3>3, <3>4
  <2>. QED  BY <1>4, <2>4, <2>5 DEF DepthInv
<1>6. CASE n = MaxDepth
  <2>1. depthWindow # << >>
    BY <1>6, FeedAssumption, EmptySeq
  <2>2. depthWindow' = Append(Tail(depthWindow), t)
    BY <1>1, <1>6 DEF PushBounded
  <2>3. depths' = {d \in depths : d > depthWindow[1]} \cup {t}
    BY <1>1, <1>6, <2>1 DEF DroppedByLimit
  <2>4. /\ Tail(depthWindow) \in Seq(Time) /\ Len(Tail(depthWindow)) = n - 1
        /\ \A i \in 1..(n - 1) : Tail(depthWindow)[i] = depthWindow[i + 1]
    BY <1>3, <2>1, HeadTailProperties
  <2>5. /\ depthWindow' \in Seq(Time) /\ Len(depthWindow') = n
        /\ \A i \in 1..(n - 1) : depthWindow'[i] = depthWindow[i + 1]
        /\ depthWindow'[n] = t /\ depthWindow' # << >> /\ n - 1 \in Nat
    <3>1. n - 1 \in Nat /\ (n - 1) + 1 = n
      BY <1>6, FeedAssumption
    <3>. QED  BY <2>2, <2>4, <3>1, AppendProperties
  <2>6. DOMAIN depthWindow' = 1..n
    BY <2>5, LenProperties
  <2>. HIDE DEF n
  <2>7. \A i \in 1..n : (i \in 1..(n - 1) /\ i + 1 \in 1..n) \/ i = n
    BY <1>3, <2>5
  <2>8. Sorted'
    <3>1. \A i, j \in 1..n : i < j => depthWindow'[i] < depthWindow'[j]
      <4>1. SUFFICES ASSUME NEW i \in 1..n, NEW j \in 1..n, i < j
                     PROVE  depthWindow'[i] < depthWindow'[j]
        OBVIOUS
      <4>2. i \in 1..(n - 1) /\ i + 1 \in 1..n /\ depthWindow'[i] = depthWindow[i + 1]
        BY <1>3, <2>5, <2>7, <4>1
      <4>3. CASE j = n
        BY <1>2, <1>3, <2>5, <4>2, <4>3
      <4>4. CASE j # n
        <5>1. j + 1 \in 1..n /\ depthWindow'[j] = depthWindow[j + 1] /\ i + 1 < j + 1
          BY <1>3, <2>5, <2>7, <4>1, <4>4
        <5>. QED  BY <1>3, <4>2, <5>1
      <4>. QED  BY <4>3, <4>4
    <3>2. \A i \in 1..n : depthWindow'[i] <= t
      BY <1>2, <1>3, <2>5, <2>7
    <3>. QED  BY <1>2, <1>3, <1>4, <2>5, <2>6, <3>1, <3>2 DEF Sorted
  <2>9. EvictedIsFarther'
    <3>1. SUFFICES ASSUME NEW d \in depths'
                   PROVE  \E i \in 1..n : depthWindow'[i] = d
      BY <2>6 DEF EvictedIsFarther
    <3>2. CASE d = t
      BY <3>2, <2>5, <1>3
    <3>3. CASE d # t
      <4>1. d \in depths /\ d > depthWindow[1]
        BY <2>3, <3>3
      <4>2. 1 \in 1..n /\ depthWindow[1] \in Int /\ d \in Int
        BY <1>3, <2>5, <4>1
      <4>3. PICK i \in 1..n : depthWindow[i] = d
        BY <1>3, <4>1, <4>2 DEF DepthInv, EvictedIsFarther, Evicted
      <4>4. i - 1 \in 1..(n - 1) /\ i - 1 \in 1..n /\ (i - 1) + 1 = i
        BY <1>3, <4>1, <4>2, <4>3
      <4>. QED  BY <2>5, <4>3, <4>4
    <3>. QED  BY <3>2, <3>3
  <2>. QED  BY <1>4, <2>8, <2>9 DEF DepthInv
<1>. QED  BY <1>5, <1>6

(* An image takes the first of the closest entries, and those before it go. *)
LEMMA HandleRgbDepth == ASSUME DepthInv, NEW t \in Time, HandleRgb(t) PROVE DepthInv'
<1>. DEFINE n == Len(depthWindow)
<1>1. Delivered("rgb", t) /\ depths' = depths /\ (SkipFrame \/ ProcessFrame(t))
  BY DEF HandleRgb
<1>2. /\ lastStamp' \in [Streams -> Time \cup {NoTime}] /\ \A s \in Streams : lastStamp'[s] >= lastStamp[s]
      /\ lastStamp["rgb"] < t /\ lastStamp'["rgb"] = t /\ lastStamp'["depth"] = lastStamp["depth"]
      /\ lastStamp["depth"] \in Int /\ lastStamp["rgb"] \in Int /\ t \in Int
  <2>1. "depth" \in Streams /\ "rgb" \in Streams
    BY DEF Streams
  <2>. QED  BY <1>1, <2>1, DeliveredIsLater, TimeIsInt DEF DepthInv, Sorted
<1>3. CASE SkipFrame
  <2>1. UNCHANGED <<depthWindow, depths>> /\ match' = NoMatch
    BY <1>1, <1>3 DEF SkipFrame, NothingMatched
  <2>. QED  BY <1>2, <2>1, WindowKept
<1>4. CASE ProcessFrame(t)
  <2>1. /\ depthWindow \in Seq(Time) /\ n \in Nat /\ DOMAIN depthWindow = 1..n /\ n <= MaxDepth
        /\ \A i \in 1..n : depthWindow[i] \in Int /\ depthWindow[i] \in Time
        /\ \A i, j \in 1..n : i < j => depthWindow[i] < depthWindow[j]
        /\ \A i \in 1..n : depthWindow[i] <= lastStamp["depth"]
        /\ depths \subseteq Time /\ \A d \in depths : d \in Int
    <3>1. depthWindow \in Seq(Time) /\ depths \subseteq Time
      BY DEF DepthInv, Sorted
    <3>2. depthWindow \in [1..Len(depthWindow) -> Time] /\ n \in Nat /\ DOMAIN depthWindow = 1..n
      BY <3>1, LenProperties
    <3>. QED  BY <3>1, <3>2, TimeIsInt DEF DepthInv, Sorted
  <2>2. PICK b \in 1..n :
          /\ IsBestDepthIdx(depthWindow, t, b)
          /\ depthWindow' = SubSeq(depthWindow, b, n)
          /\ match' = [time |-> t, depth |-> depthWindow[b], window |-> depths]
    BY <1>4, <2>1 DEF ProcessFrame, EvictStaleDepth
  <2>3. /\ \A e \in 1..n : Distance(depthWindow[b], t) <= Distance(depthWindow[e], t)
        /\ \A e \in 1..(b - 1) : Distance(depthWindow[b], t) < Distance(depthWindow[e], t)
    BY <2>1, <2>2 DEF IsBestDepthIdx
  <2>. HIDE DEF n
  <2>4. /\ depthWindow' \in Seq(Time) /\ Len(depthWindow') = n - b + 1
        /\ DOMAIN depthWindow' = 1..(n - b + 1) /\ n - b + 1 \in Nat \ {0}
        /\ \A i \in 1..(n - b + 1) : depthWindow'[i] = depthWindow[b + i - 1]
        /\ \A i \in 1..(n - b + 1) : b + i - 1 \in 1..n
    <3>1. /\ depthWindow' \in Seq(Time) /\ Len(depthWindow') = n - b + 1
          /\ \A i \in 1..(n - b + 1) : depthWindow'[i] = depthWindow[b + i - 1]
      BY <2>1, <2>2, SubSeqProperties
    <3>2. DOMAIN depthWindow' = 1..Len(depthWindow')
      BY <3>1, LenProperties
    <3>3. n - b + 1 \in Nat \ {0} /\ \A i \in 1..(n - b + 1) : b + i - 1 \in 1..n
      BY <2>1
    <3>. QED  BY <3>1, <3>2, <3>3
  <2>5. depthWindow' # << >> /\ depthWindow'[1] = depthWindow[b]
    BY <2>4, EmptySeq
  <2>6. Sorted'
    <3>1. \A i, j \in 1..(n - b + 1) : i < j => depthWindow'[i] < depthWindow'[j]
      <4>1. SUFFICES ASSUME NEW i \in 1..(n - b + 1), NEW j \in 1..(n - b + 1), i < j
                     PROVE  depthWindow'[i] < depthWindow'[j]
        OBVIOUS
      <4>2. b + i - 1 < b + j - 1
        BY <2>1, <2>4, <4>1
      <4>. QED  BY <2>1, <2>4, <4>1, <4>2
    <3>2. \A i \in 1..(n - b + 1) : depthWindow'[i] <= lastStamp["depth"]
      BY <2>1, <2>4
    <3>3. n - b + 1 <= MaxDepth
      BY <2>1, FeedAssumption
    <3>. QED  BY <1>1, <1>2, <2>1, <2>4, <3>1, <3>2, <3>3 DEF Sorted
  <2>7. \A d \in depths : \/ \E i \in 1..n : depthWindow[i] = d
                          \/ d < depthWindow[1] /\ d + depthWindow[1] <= 2 * lastStamp["rgb"]
    BY <2>1 DEF DepthInv, EvictedIsFarther, Evicted
  <2>8. 1 \in 1..n /\ depthWindow[1] \in Int /\ depthWindow[b] \in Int /\ depthWindow[1] <= depthWindow[b]
    <3>1. b = 1 \/ 1 < b
      BY <2>1
    <3>. QED  BY <2>1, <3>1
  <2>9. 1 < b => depthWindow[1] + depthWindow[b] <= 2 * t
    <3>1. SUFFICES ASSUME 1 < b  PROVE depthWindow[1] + depthWindow[b] <= 2 * t
      OBVIOUS
    <3>2. 1 \in 1..(b - 1) /\ depthWindow[1] < depthWindow[b]
      BY <2>1, <2>8, <3>1
    <3>. QED  BY <1>2, <2>3, <2>8, <3>2 DEF Distance
  <2>10. EvictedIsFarther'
    <3>1. SUFFICES ASSUME NEW d \in depths
                   PROVE  (\E i \in 1..(n - b + 1) : depthWindow'[i] = d) \/ Evicted(d)'
      BY <1>1, <2>4 DEF EvictedIsFarther
    <3>2. ASSUME NEW i \in 1..n, depthWindow[i] = d, i >= b
          PROVE  \E j \in 1..(n - b + 1) : depthWindow'[j] = d
      <4>1. i - b + 1 \in 1..(n - b + 1) /\ b + (i - b + 1) - 1 = i
        BY <2>1, <3>2
      <4>. QED  BY <2>4, <3>2, <4>1
    <3>3. ASSUME NEW i \in 1..n, depthWindow[i] = d, i < b
          PROVE  Evicted(d)'
      <4>1. d < depthWindow[b] /\ d \in Int /\ i \in 1..(b - 1)
        BY <2>1, <3>3
      <4>2. Distance(depthWindow[b], t) < Distance(d, t)
        BY <2>3, <3>3, <4>1
      <4>3. d + depthWindow[b] <= 2 * t
        BY <1>2, <2>8, <4>1, <4>2 DEF Distance
      <4>. QED  BY <1>2, <2>5, <4>1, <4>3 DEF Evicted
    <3>4. ASSUME d < depthWindow[1], d + depthWindow[1] <= 2 * lastStamp["rgb"]
          PROVE  Evicted(d)'
      <4>1. d \in Int /\ d < depthWindow[b]
        BY <2>1, <2>8, <3>4
      <4>2. d + depthWindow[b] <= 2 * t
        <5>1. CASE b = 1
          BY <1>2, <2>8, <3>4, <4>1, <5>1
        <5>2. CASE 1 < b
          BY <1>2, <2>8, <2>9, <3>4, <4>1, <5>2
        <5>. QED  BY <2>1, <5>1, <5>2
      <4>. QED  BY <1>2, <2>5, <4>1, <4>2 DEF Evicted
    <3>5. \A i \in 1..n : i >= b \/ i < b
      BY <2>1
    <3>. QED  BY <2>7, <3>1, <3>2, <3>3, <3>4, <3>5
  <2>11. ClosestDepthIsMatched'
    <3>1. SUFFICES ASSUME NEW d \in depths
                   PROVE  Distance(depthWindow[b], t) <= Distance(d, t)
      BY <2>2 DEF ClosestDepthIsMatched, Distance
    <3>2. ASSUME NEW i \in 1..n, depthWindow[i] = d
          PROVE  Distance(depthWindow[b], t) <= Distance(d, t)
      BY <2>3, <3>2
    <3>3. ASSUME d < depthWindow[1], d + depthWindow[1] <= 2 * lastStamp["rgb"]
          PROVE  Distance(depthWindow[b], t) <= Distance(d, t)
      <4>1. d \in Int
        BY <2>1
      <4>2. Distance(depthWindow[1], t) <= Distance(d, t)
        BY <1>2, <2>8, <3>3, <4>1 DEF Distance
      <4>3. Distance(depthWindow[b], t) <= Distance(depthWindow[1], t)
        BY <2>3, <2>8
      <4>. QED  BY <1>2, <2>8, <4>1, <4>2, <4>3 DEF Distance
    <3>. QED  BY <2>7, <3>1, <3>2, <3>3
  <2>. QED  BY <2>6, <2>10, <2>11 DEF DepthInv
<1>. QED  BY <1>1, <1>3, <1>4

LEMMA NextDepth == ASSUME DepthInv, [Next]_vars PROVE DepthInv'
<1>1. CASE Next
  BY <1>1, HandleImuDepth, HandleDepthDepth, HandleSyncedImagesDepth, HandleRgbDepth DEF Next
<1>2. CASE UNCHANGED vars
  BY <1>2 DEF vars, DepthInv, Sorted, EvictedIsFarther, Evicted, ClosestDepthIsMatched, Distance
<1>. QED  BY <1>1, <1>2

(* However far the streams run ahead of one another and whatever the window *)
(* holds, the depth entry matched with an image is the closest of all that  *)
(* came since the last one the limit dropped: the eviction in the bag loop  *)
(* (oaslam_offline_vio_node.cpp:370) never removes one that is needed.      *)
THEOREM EvictionIsSafe == Spec => []ClosestDepthIsMatched
<1>1. DepthInv => ClosestDepthIsMatched
  BY DEF DepthInv
<1>. QED  BY <1>1, InitDepth, NextDepth, PTL DEF Spec

-----------------------------------------------------------------------------
(* A list of samples is in the order of their stamps; two may be the same. *)
InOrder(q) == \A i, j \in 1 .. Len(q) : i < j => q[i] <= q[j]

LEMMA SamplesAreNumbers ==
  ASSUME NEW q \in Seq(Time)
  PROVE  /\ q \in Seq(Int) /\ Len(q) \in Nat /\ DOMAIN q = 1 .. Len(q)
         /\ \A i \in 1 .. Len(q) : q[i] \in Time /\ q[i] \in Int
         /\ ToSet(q) = {q[i] : i \in 1 .. Len(q)}
<1>1. Len(q) \in Nat /\ DOMAIN q = 1 .. Len(q) /\ \A i \in 1 .. Len(q) : q[i] \in Time
  BY LenProperties, ElementOfSeq
<1>2. q \in Seq(Int)
  BY TimeIsInt, SeqMonotonic
<1>. QED  BY <1>1, <1>2, TimeIsInt DEF ToSet

LEMMA FirstOf ==
  ASSUME NEW n \in Nat, NEW S, \E i \in 1 .. n : i \in S
  PROVE  \E i \in 1 .. n : i \in S /\ \A j \in 1 .. (i - 1) : j \notin S
<1>. DEFINE T == {i \in 1 .. n : i \in S}
<1>1. T \in SUBSET Nat /\ T # {}
  OBVIOUS
<1>2. PICK i \in T : \A j \in T : i <= j
  BY <1>1, LeastNumber, Zenon
<1>3. \A j \in 1 .. (i - 1) : j \notin S
  BY <1>2
<1>. QED  BY <1>2, <1>3

(* A piece of a list that is in order, and two lists one after the other. *)
LEMMA PieceOf ==
  ASSUME NEW q \in Seq(Time), InOrder(q), NEW a \in 1 .. Len(q) + 1, NEW b \in 0 .. Len(q)
  PROVE  /\ SubSeq(q, a, b) \in Seq(Time) /\ InOrder(SubSeq(q, a, b))
         /\ Len(SubSeq(q, a, b)) <= Len(q)
         /\ ToSet(SubSeq(q, a, b)) = {q[i] : i \in a .. b}
<1>. DEFINE p == SubSeq(q, a, b)
<1>1. Len(q) \in Nat /\ \A i \in 1 .. Len(q) : q[i] \in Time /\ q[i] \in Int
  BY SamplesAreNumbers
<1>2. a \in Int /\ b \in Int /\ \A i \in a .. b : q[i] \in Time
  BY <1>1
<1>3. /\ p \in Seq(Time) /\ Len(p) = IF a <= b THEN b - a + 1 ELSE 0
      /\ \A i \in 1 .. b - a + 1 : p[i] = q[a + i - 1]
  BY <1>2, SubSeqProperties
<1>. HIDE DEF p
<1>4. /\ Len(p) <= Len(q) /\ Len(p) \in Nat
      /\ \A i \in 1 .. Len(p) : p[i] = q[a + i - 1] /\ a + i - 1 \in a .. b /\ a + i - 1 \in 1 .. Len(q)
  BY <1>1, <1>3
<1>5. InOrder(p)
  <2>. SUFFICES ASSUME NEW i \in 1 .. Len(p), NEW j \in 1 .. Len(p), i < j  PROVE p[i] <= p[j]
    BY DEF InOrder
  <2>1. a + i - 1 < a + j - 1
    BY <1>2, <1>4
  <2>. QED  BY <1>4, <2>1 DEF InOrder
<1>6. ToSet(p) = {p[i] : i \in 1 .. Len(p)}
  BY <1>3, SamplesAreNumbers
<1>7. \A k \in a .. b : k - a + 1 \in 1 .. Len(p) /\ a + (k - a + 1) - 1 = k
  BY <1>1, <1>3
<1>8. \A k \in a .. b : \E i \in 1 .. Len(p) : q[k] = p[i]
  <2>. SUFFICES ASSUME NEW k \in a .. b  PROVE \E i \in 1 .. Len(p) : q[k] = p[i]
    OBVIOUS
  <2>1. p[k - a + 1] = q[k]
    BY <1>4, <1>7
  <2>. QED  BY <1>7, <2>1
<1>9. ToSet(p) = {q[i] : i \in a .. b}
  <2>1. \A x \in ToSet(p) : x \in {q[i] : i \in a .. b}
    BY <1>4, <1>6
  <2>2. \A x \in {q[i] : i \in a .. b} : x \in ToSet(p)
    BY <1>6, <1>8
  <2>. QED  BY <2>1, <2>2
<1>. QED  BY <1>3, <1>4, <1>5, <1>9 DEF p

LEMMA JoinOf ==
  ASSUME NEW p \in Seq(Time), NEW q \in Seq(Time), InOrder(p), InOrder(q),
         \A x \in ToSet(p), y \in ToSet(q) : x <= y
  PROVE  p \o q \in Seq(Time) /\ InOrder(p \o q) /\ ToSet(p \o q) = ToSet(p) \cup ToSet(q)
<1>. DEFINE m == Len(p)
            n == Len(q)
            c == p \o q
<1>1. /\ m \in Nat /\ n \in Nat
      /\ ToSet(p) = {p[i] : i \in 1 .. m} /\ ToSet(q) = {q[i] : i \in 1 .. n}
      /\ \A i \in 1 .. m : p[i] \in Int
      /\ \A i \in 1 .. n : q[i] \in Int
  BY SamplesAreNumbers
<1>2. /\ c \in Seq(Time) /\ Len(c) = m + n
      /\ \A i \in 1 .. m + n : c[i] = IF i <= m THEN p[i] ELSE q[i - m]
  BY ConcatProperties
<1>3. ToSet(c) = {c[i] : i \in 1 .. m + n}
  BY <1>2, SamplesAreNumbers
<1>. HIDE DEF c, m, n
<1>4. \A i \in 1 .. m + n : (i \in 1 .. m /\ c[i] = p[i]) \/ (i - m \in 1 .. n /\ c[i] = q[i - m])
  BY <1>1, <1>2
<1>5. /\ \A i \in 1 .. m : i \in 1 .. m + n /\ c[i] = p[i]
      /\ \A i \in 1 .. n : m + i \in 1 .. m + n /\ c[m + i] = q[i]
  <2>1. \A i \in 1 .. n : m + i \in 1 .. m + n /\ ~(m + i <= m) /\ (m + i) - m = i
    BY <1>1
  <2>2. \A i \in 1 .. m : i \in 1 .. m + n /\ i <= m
    BY <1>1
  <2>. QED  BY <1>2, <2>1, <2>2
<1>6. InOrder(c)
  <2>. SUFFICES ASSUME NEW i \in 1 .. m + n, NEW j \in 1 .. m + n, i < j  PROVE c[i] <= c[j]
    BY <1>2 DEF InOrder
  <2>1. CASE j \in 1 .. m /\ c[j] = p[j]
    <3>1. i \in 1 .. m
      BY <1>1, <2>1
    <3>. QED  BY <1>5, <2>1, <3>1 DEF InOrder, m
  <2>2. CASE j - m \in 1 .. n /\ c[j] = q[j - m]
    <3>1. CASE i \in 1 .. m /\ c[i] = p[i]
      <4>1. c[i] \in ToSet(p) /\ c[j] \in ToSet(q)
        BY <1>1, <2>2, <3>1
      <4>. QED  BY <4>1
    <3>2. CASE i - m \in 1 .. n /\ c[i] = q[i - m]
      <4>1. i - m < j - m
        BY <1>1
      <4>. QED  BY <2>2, <3>2, <4>1 DEF InOrder, n
    <3>. QED  BY <1>4, <3>1, <3>2
  <2>. QED  BY <1>4, <2>1, <2>2
<1>7. ToSet(c) = ToSet(p) \cup ToSet(q)
  <2>1. \A x \in ToSet(c) : x \in ToSet(p) \cup ToSet(q)
    BY <1>1, <1>3, <1>4
  <2>2. \A x \in ToSet(p) \cup ToSet(q) : x \in ToSet(c)
    BY <1>1, <1>3, <1>5
  <2>. QED  BY <2>1, <2>2
<1>. QED  BY <1>2, <1>6, <1>7 DEF c

-----------------------------------------------------------------------------
(* Both nodes cut their buffer at the image: the frame gets what is before,   *)
(* the buffer keeps what is after, and one sample may go both ways.           *)
Cut(q, t, d) ==
  \E n \in 0 .. Len(q) : \E k \in 1 .. Len(q) + 1 :
     /\ k \in {n, n + 1}
     /\ d.frame = SubSeq(q, 1, n) /\ d.left = SubSeq(q, k, Len(q))
     /\ \A i \in n + 1 .. Len(q) : q[i] >= t

LEMMA DrainUntilCuts ==
  ASSUME NEW q \in Seq(Time), InOrder(q), NEW t \in Time  PROVE Cut(q, t, DrainUntil(q, t))
<1>. DEFINE l == Len(q)
            late == {i \in 1 .. l : q[i] > t}
            first == CHOOSE i \in DOMAIN q : q[i] > t /\ \A j \in 1 .. (i - 1) : q[j] <= t
            n == IF \E i \in DOMAIN q : q[i] > t THEN first - 1 ELSE l
<1>1. l \in Nat /\ DOMAIN q = 1 .. l /\ (\A i \in 1 .. l : q[i] \in Int) /\ t \in Int
  BY SamplesAreNumbers, TimeIsInt
<1>2. /\ DrainUntil(q, t).frame = SubSeq(q, 1, n)
      /\ DrainUntil(q, t).left = SubSeq(q, n + 1, l)
  BY Zenon DEF DrainUntil
<1>. HIDE DEF l
<1>3. late # {} => first \in 1 .. l /\ q[first] > t
  <2>. SUFFICES ASSUME late # {}  PROVE first \in 1 .. l /\ q[first] > t
    OBVIOUS
  <2>1. \E i \in 1 .. l : i \in late
    OBVIOUS
  <2>2. PICK i \in 1 .. l : i \in late /\ \A j \in 1 .. (i - 1) : j \notin late
    <3>. HIDE DEF late
    <3>. QED  BY <1>1, <2>1, FirstOf, Zenon
  <2>3. \A j \in 1 .. (i - 1) : q[j] <= t
    BY <1>1, <2>2
  <2>4. \E i1 \in DOMAIN q : q[i1] > t /\ \A j \in 1 .. (i1 - 1) : q[j] <= t
    BY <1>1, <2>2, <2>3
  <2>. QED  BY <1>1, <2>4, Zenon
<1>4. (late # {} => n = first - 1) /\ (late = {} => n = l)
  <2>. HIDE DEF first
  <2>. QED  BY <1>1
<1>. HIDE DEF n, first
<1>5. n \in 0 .. l /\ \A i \in n + 1 .. l : q[i] >= t
  <2>1. CASE late = {}
    BY <1>1, <1>4, <2>1
  <2>2. CASE late # {}
    <3>1. \A i \in first .. l : q[i] >= t
      <4>. SUFFICES ASSUME NEW i \in first .. l  PROVE q[i] >= t
        OBVIOUS
      <4>1. i \in 1 .. l /\ (i = first \/ first < i)
        BY <1>1, <1>3, <2>2
      <4>. QED  BY <1>1, <1>3, <2>2, <4>1 DEF InOrder, l
    <3>. QED  BY <1>1, <1>3, <1>4, <2>2, <3>1
  <2>. QED  BY <2>1, <2>2
<1>6. n + 1 \in 1 .. l + 1 /\ n + 1 \in {n, n + 1}
  BY <1>1, <1>5
<1>. QED  BY <1>2, <1>5, <1>6, Zenon DEF Cut, l

LEMMA DrainKeepingBoundaryCuts ==
  ASSUME NEW q \in Seq(Time), InOrder(q), NEW t \in Time  PROVE Cut(q, t, DrainKeepingBoundary(q, t))
<1>. DEFINE l == Len(q)
            stop == {i \in 1 .. l : q[i] >= t \/ i = l}
            b == CHOOSE i \in DOMAIN q : (q[i] >= t \/ i = l) /\ \A j \in 1 .. (i - 1) : q[j] < t
<1>1. l \in Nat /\ DOMAIN q = 1 .. l /\ (\A i \in 1 .. l : q[i] \in Int) /\ t \in Int
  BY SamplesAreNumbers, TimeIsInt
<1>2. CASE q = << >>
  <2>1. l = 0 /\ SubSeq(q, 1, 0) = << >> /\ SubSeq(q, 1, l) = << >>
    BY <1>2, EmptySeq, SubSeqEmpty
  <2>2. DrainKeepingBoundary(q, t) = [frame |-> << >>, left |-> << >>]
    BY <1>2 DEF DrainKeepingBoundary
  <2>3. 0 \in 0 .. l /\ 1 \in 1 .. l + 1 /\ 1 \in {0, 0 + 1} /\ \A i \in 0 + 1 .. l : q[i] >= t
    BY <2>1
  <2>4. /\ DrainKeepingBoundary(q, t).frame = SubSeq(q, 1, 0)
        /\ DrainKeepingBoundary(q, t).left = SubSeq(q, 1, l)
    BY <2>1, <2>2
  <2>. QED  BY <2>3, <2>4, Zenon DEF Cut
<1>3. CASE q # << >>
  <2>1. l # 0
    BY <1>3, EmptySeq
  <2>2. /\ DrainKeepingBoundary(q, t).frame = SubSeq(q, 1, b)
        /\ DrainKeepingBoundary(q, t).left = SubSeq(q, b, l)
    BY <1>3, Zenon DEF DrainKeepingBoundary
  <2>. HIDE DEF l
  <2>3. b \in 1 .. l /\ (q[b] >= t \/ b = l)
    <3>1. \E i \in 1 .. l : i \in stop
      BY <1>1, <2>1
    <3>2. PICK i \in 1 .. l : i \in stop /\ \A j \in 1 .. (i - 1) : j \notin stop
      <4>. HIDE DEF stop
      <4>. QED  BY <1>1, <3>1, FirstOf, Zenon
    <3>3. \A j \in 1 .. (i - 1) : q[j] < t
      BY <1>1, <3>2
    <3>4. \E i1 \in DOMAIN q : (q[i1] >= t \/ i1 = l) /\ \A j \in 1 .. (i1 - 1) : q[j] < t
      BY <1>1, <3>2, <3>3
    <3>. QED  BY <1>1, <3>4, Zenon
  <2>. HIDE DEF b
  <2>4. \A i \in b + 1 .. l : q[i] >= t
    <3>. SUFFICES ASSUME NEW i \in b + 1 .. l  PROVE q[i] >= t
      OBVIOUS
    <3>1. i \in 1 .. l /\ b < i /\ q[b] >= t
      BY <1>1, <2>3
    <3>2. q[b] <= q[i]
      BY <2>3, <3>1, Zenon DEF InOrder, l
    <3>. QED  BY <1>1, <2>3, <3>1, <3>2
  <2>5. b \in 0 .. l /\ b \in 1 .. l + 1 /\ b \in {b, b + 1}
    BY <1>1, <2>3
  <2>. QED  BY <2>2, <2>4, <2>5, Zenon DEF Cut, l
<1>. QED  BY <1>2, <1>3

LEMMA CutGives ==
  ASSUME NEW q \in Seq(Time), InOrder(q), NEW t \in Time, NEW d, Cut(q, t, d)
  PROVE  /\ d.frame \in Seq(Time) /\ InOrder(d.frame)
         /\ d.left \in Seq(Time) /\ InOrder(d.left) /\ Len(d.left) <= Len(q)
         /\ \A x \in ToSet(d.frame), y \in ToSet(d.left) : x <= y
         /\ ToSet(q) = ToSet(d.frame) \cup ToSet(d.left)
         /\ \A x \in ToSet(q) : x < t => x \in ToSet(d.frame)
<1>. DEFINE l == Len(q)
<1>1. l \in Nat /\ (\A i \in 1 .. l : q[i] \in Int) /\ t \in Int /\ ToSet(q) = {q[i] : i \in 1 .. l}
  BY SamplesAreNumbers, TimeIsInt
<1>2. PICK n \in 0 .. l, k \in 1 .. l + 1 :
        /\ k \in {n, n + 1}
        /\ d.frame = SubSeq(q, 1, n) /\ d.left = SubSeq(q, k, l)
        /\ \A i \in n + 1 .. l : q[i] >= t
  BY DEF Cut
<1>3. 1 \in 1 .. l + 1 /\ l \in 0 .. l
  BY <1>1
<1>4. /\ d.frame \in Seq(Time) /\ InOrder(d.frame) /\ ToSet(d.frame) = {q[i] : i \in 1 .. n}
      /\ d.left \in Seq(Time) /\ InOrder(d.left) /\ Len(d.left) <= l /\ ToSet(d.left) = {q[i] : i \in k .. l}
  BY <1>2, <1>3, PieceOf
<1>. HIDE DEF l
<1>5. \A i \in 1 .. n, j \in k .. l : q[i] <= q[j]
  <2>. SUFFICES ASSUME NEW i \in 1 .. n, NEW j \in k .. l  PROVE q[i] <= q[j]
    OBVIOUS
  <2>1. i \in 1 .. l /\ j \in 1 .. l /\ (i < j \/ i = j)
    BY <1>1, <1>2
  <2>. QED  BY <1>1, <2>1 DEF InOrder, l
<1>6. \A i \in 1 .. l : i \in 1 .. n \/ i \in n + 1 .. l
  BY <1>1, <1>2
<1>7. (\A i \in 1 .. n : i \in 1 .. l) /\ \A i \in k .. l : i \in 1 .. l
  BY <1>1, <1>2
<1>8. \A i \in n + 1 .. l : i \in k .. l
  BY <1>1, <1>2
<1>9. ToSet(q) = ToSet(d.frame) \cup ToSet(d.left)
  BY <1>1, <1>4, <1>6, <1>7, <1>8
<1>10. \A x \in ToSet(q) : x < t => x \in ToSet(d.frame)
  BY <1>1, <1>2, <1>4, <1>6
<1>11. \A x \in ToSet(d.frame), y \in ToSet(d.left) : x <= y
  BY <1>4, <1>5
<1>. QED  BY <1>4, <1>9, <1>10, <1>11 DEF l

LEMMA ImuIsCut ==
  ASSUME imuBuffer \in Seq(Time), InOrder(imuBuffer), NEW t \in Time
  PROVE  Cut(imuBuffer, t, ImuForFrame(t))
BY DrainUntilCuts, DrainKeepingBoundaryCuts DEF ImuForFrame

-----------------------------------------------------------------------------
(* The loop of PreintegrateIMU. *)
LEMMA BoundaryIs ==
  ASSUME NEW q \in Seq(Time), InOrder(q), NEW cur \in Time
  PROVE  /\ Boundary(q, cur) \in 1 .. Len(q) + 1
         /\ \A j \in 1 .. Boundary(q, cur) - 1 : q[j] < cur - Period
         /\ Boundary(q, cur) <= Len(q) => q[Boundary(q, cur)] >= cur - Period
<1>. DEFINE l == Len(q)
            late == {i \in 1 .. l : q[i] >= cur - Period}
            first == CHOOSE i \in DOMAIN q : q[i] >= cur - Period /\ \A j \in 1 .. (i - 1) : q[j] < cur - Period
            b == IF \E i \in DOMAIN q : q[i] >= cur - Period THEN first ELSE l + 1
<1>1. l \in Nat /\ DOMAIN q = 1 .. l /\ (\A i \in 1 .. l : q[i] \in Int) /\ cur \in Int /\ Period \in Int
  BY SamplesAreNumbers, TimeIsInt, FeedAssumption
<1>2. Boundary(q, cur) = b
  BY Zenon DEF Boundary
<1>. HIDE DEF l
<1>3. late # {} => first \in 1 .. l /\ q[first] >= cur - Period /\ \A j \in 1 .. (first - 1) : q[j] < cur - Period
  <2>. SUFFICES ASSUME late # {}
                PROVE  first \in 1 .. l /\ q[first] >= cur - Period /\ \A j \in 1 .. (first - 1) : q[j] < cur - Period
    OBVIOUS
  <2>1. \E i \in 1 .. l : i \in late
    OBVIOUS
  <2>2. PICK i \in 1 .. l : i \in late /\ \A j \in 1 .. (i - 1) : j \notin late
    <3>. HIDE DEF late
    <3>. QED  BY <1>1, <2>1, FirstOf, Zenon
  <2>3. \A j \in 1 .. (i - 1) : q[j] < cur - Period
    BY <1>1, <2>2
  <2>4. \E i1 \in DOMAIN q : q[i1] >= cur - Period /\ \A j \in 1 .. (i1 - 1) : q[j] < cur - Period
    BY <1>1, <2>2, <2>3
  <2>. QED  BY <1>1, <2>4, Zenon
<1>4. (late # {} => b = first) /\ (late = {} => b = l + 1)
  <2>. HIDE DEF first
  <2>. QED  BY <1>1
<1>5. late = {} => \A j \in 1 .. l : q[j] < cur - Period
  BY <1>1
<1>. HIDE DEF b, first, late
<1>6. b \in 1 .. l + 1 /\ (b <= l => q[b] >= cur - Period)
  BY <1>1, <1>3, <1>4
<1>7. \A j \in 1 .. b - 1 : q[j] < cur - Period
  <2>1. CASE late = {}
    <3>1. (l + 1) - 1 = l
      BY <1>1
    <3>. QED  BY <1>4, <1>5, <2>1, <3>1
  <2>2. CASE late # {}
    BY <1>3, <1>4, <2>2
  <2>. QED  BY <2>1, <2>2
<1>. QED  BY <1>2, <1>6, <1>7 DEF l

LEMMA SingletonOf ==
  ASSUME NEW t \in Time
  PROVE  << t >> \in Seq(Time) /\ Len(<< t >>) = 1 /\ << t >>[1] = t
         /\ InOrder(<< t >>) /\ ToSet(<< t >>) = {t}
<1>1. << t >> \in Seq(Time) /\ Len(<< t >>) = 1 /\ << t >>[1] = t
  OBVIOUS
<1>2. \A i \in 1 .. 1 : i = 1
  OBVIOUS
<1>3. ToSet(<< t >>) = {<< t >>[i] : i \in 1 .. 1}
  BY <1>1, SamplesAreNumbers
<1>4. ToSet(<< t >>) = {t}
  BY <1>1, <1>2, <1>3
<1>5. InOrder(<< t >>)
  <2>1. \A i, j \in 1 .. 1 : ~(i < j)
    BY <1>2
  <2>. QED  BY <1>1, <2>1 DEF InOrder
<1>. QED  BY <1>1, <1>4, <1>5

LEMMA EmptyOf == << >> \in Seq(Time) /\ Len(<< >>) = 0 /\ InOrder(<< >>) /\ ToSet(<< >>) = {}
<1>1. << >> \in Seq(Time) /\ Len(<< >>) = 0
  BY EmptySeq
<1>2. 1 .. 0 = {}
  OBVIOUS
<1>3. ToSet(<< >>) = {}
  BY DEF ToSet
<1>. QED  BY <1>1, <1>2, <1>3 DEF InOrder

LEMMA KeptOf ==
  ASSUME NEW p \in Seq(Time), NEW S, NEW kept, kept = Keep(p, S)
  PROVE  /\ kept \in Seq(Time)
         /\ \A i \in 1 .. Len(kept) : kept[i] \in S /\ \E j \in 1 .. Len(p) : kept[i] = p[j]
         /\ \A j \in 1 .. Len(p) : p[j] \in S => \E i \in 1 .. Len(kept) : kept[i] = p[j]
         /\ InOrder(p) => InOrder(kept)
<1>. DEFINE k == Keep(p, S)
<1>0. k \in Seq(Time)
  BY KeepProperties
<1>1. \A i \in 1 .. Len(k) : k[i] \in S /\ \E j \in 1 .. Len(p) : k[i] = p[j]
  BY KeepProperties
<1>4. ASSUME NEW j \in 1 .. Len(p), p[j] \in S  PROVE \E i \in 1 .. Len(k) : k[i] = p[j]
  BY <1>4, KeepMissesNone
<1>2. p \in Seq(Int)
  BY SamplesAreNumbers
<1>3. InOrder(p) => InOrder(Keep(p, S))
  BY <1>2, KeepSorted, Zenon DEF InOrder
<1>. QED  BY <1>0, <1>1, <1>3, <1>4, Zenon

LEMMA ConcatOf ==
  ASSUME NEW p \in Seq(Time), NEW q \in Seq(Time), NEW c, c = p \o q
  PROVE  /\ Len(c) = Len(p) + Len(q)
         /\ \A i \in 1 .. Len(p) + Len(q) : c[i] = IF i <= Len(p) THEN p[i] ELSE q[i - Len(p)]
BY ConcatProperties

(* What is collected: everything of the queue that is recent enough and       *)
(* before the boundary, in order; only the last one may be past it.           *)
LEMMA CollectedIs ==
  ASSUME NEW q \in Seq(Time), InOrder(q), NEW prev \in Time, NEW cur \in Time
  PROVE  LET m == ImuFromLastFrame(q, prev, cur)
         IN  /\ m \in Seq(Time) /\ InOrder(m)
             /\ \A i \in 1 .. Len(m) : m[i] >= prev - Period
             /\ \A i \in 1 .. Len(m) : i < Len(m) => m[i] < cur - Period
             /\ \A s \in ToSet(q) : prev - Period <= s /\ s < cur - Period => s \in ToSet(m)
<1>. DEFINE b == Boundary(q, cur)
            l == Len(q)
            recent == {s \in Time : s >= prev - Period}
            p == SubSeq(q, 1, b - 1)
            kept == Keep(p, recent)
            end == IF b <= Len(q) /\ q[b] \in recent THEN << q[b] >> ELSE << >>
            m == kept \o end
<1>1. /\ l \in Nat /\ ToSet(q) = {q[i] : i \in 1 .. l} /\ prev \in Int /\ cur \in Int /\ Period \in Int
      /\ \A i \in 1 .. l : q[i] \in Time /\ q[i] \in Int
  BY SamplesAreNumbers, TimeIsInt, FeedAssumption
<1>2. /\ b \in 1 .. l + 1 /\ b - 1 \in 0 .. l
      /\ \A j \in 1 .. b - 1 : q[j] < cur - Period
      /\ b <= l => q[b] >= cur - Period
  <2>. HIDE DEF b
  <2>1. /\ b \in 1 .. l + 1 /\ \A j \in 1 .. b - 1 : q[j] < cur - Period
        /\ b <= l => q[b] >= cur - Period
    BY BoundaryIs DEF b
  <2>. QED  BY <1>1, <2>1
<1>3. ImuFromLastFrame(q, prev, cur) = m
  BY Zenon DEF ImuFromLastFrame
<1>. HIDE DEF b
<1>4. /\ p \in Seq(Time) /\ InOrder(p) /\ ToSet(p) = {q[i] : i \in 1 .. b - 1}
  <2>1. 1 \in 1 .. Len(q) + 1
    BY <1>1
  <2>. QED  BY <1>2, <2>1, PieceOf
<1>. HIDE DEF p
<1>5. /\ Len(p) \in Nat /\ ToSet(p) = {p[j] : j \in 1 .. Len(p)} /\ p \in Seq(Int)
  BY <1>4, SamplesAreNumbers
<1>. HIDE DEF recent
<1>. HIDE DEF kept
<1>6. /\ kept \in Seq(Time) /\ InOrder(kept)
      /\ \A i \in 1 .. Len(kept) : kept[i] \in recent /\ \E j \in 1 .. Len(p) : kept[i] = p[j]
      /\ \A j \in 1 .. Len(p) : p[j] \in recent => \E i \in 1 .. Len(kept) : kept[i] = p[j]
  <2>1. kept = Keep(p, recent)
    BY DEF kept
  <2>. QED  BY <1>4, <2>1, KeptOf
<1>8. Len(kept) \in Nat /\ ToSet(kept) = {kept[i] : i \in 1 .. Len(kept)}
  BY <1>6, SamplesAreNumbers
<1>9. \A i \in 1 .. Len(kept) : kept[i] >= prev - Period /\ kept[i] < cur - Period
  <2>. SUFFICES ASSUME NEW i \in 1 .. Len(kept)  PROVE kept[i] >= prev - Period /\ kept[i] < cur - Period
    OBVIOUS
  <2>1. kept[i] \in ToSet(p) /\ kept[i] \in recent
    BY <1>5, <1>6
  <2>2. PICK j \in 1 .. b - 1 : kept[i] = q[j]
    BY <1>4, <2>1
  <2>. QED  BY <1>2, <2>1, <2>2 DEF recent
<1>10. \A s \in ToSet(q) : prev - Period <= s /\ s < cur - Period => s \in ToSet(kept)
  <2>. SUFFICES ASSUME NEW i \in 1 .. l, prev - Period <= q[i], q[i] < cur - Period
                PROVE  q[i] \in ToSet(kept)
    BY <1>1
  <2>1. i \in 1 .. b - 1
    <3>. SUFFICES ASSUME i >= b  PROVE FALSE
      BY <1>1, <1>2
    <3>1. b \in 1 .. l /\ q[b] >= cur - Period /\ (b = i \/ b < i)
      BY <1>1, <1>2
    <3>2. q[b] <= q[i]
      BY <1>1, <3>1 DEF InOrder
    <3>. QED  BY <1>1, <3>1, <3>2
  <2>2. q[i] \in ToSet(p) /\ q[i] \in recent
    BY <1>1, <1>4, <2>1 DEF recent
  <2>3. PICK j \in 1 .. Len(p) : q[i] = p[j]
    BY <1>5, <2>2
  <2>. QED  BY <1>6, <1>8, <2>2, <2>3
<1>11. CASE b <= l /\ q[b] \in recent
  <2>1. end = << q[b] >>
    BY <1>11
  <2>2. b \in 1 .. l /\ q[b] \in Time
    BY <1>1, <1>2, <1>11
  <2>. HIDE DEF end, l
  <2>3. end \in Seq(Time) /\ Len(end) = 1 /\ end[1] = q[b] /\ InOrder(end) /\ ToSet(end) = {q[b]}
    BY <2>1, <2>2, SingletonOf
  <2>4. \A x \in ToSet(kept), y \in ToSet(end) : x <= y
    <3>1. \A i \in 1 .. Len(kept) : kept[i] \in Int
      BY <1>6, SamplesAreNumbers
    <3>. QED  BY <1>1, <1>2, <1>8, <1>9, <1>11, <2>2, <2>3, <3>1
  <2>5. /\ m \in Seq(Time) /\ InOrder(m) /\ ToSet(m) = ToSet(kept) \cup ToSet(end)
        /\ Len(m) = Len(kept) + 1
        /\ \A i \in 1 .. Len(kept) + 1 : m[i] = IF i <= Len(kept) THEN kept[i] ELSE end[i - Len(kept)]
    <3>1. m \in Seq(Time) /\ InOrder(m) /\ ToSet(m) = ToSet(kept) \cup ToSet(end)
      BY <1>6, <2>3, <2>4, JoinOf
    <3>2. m = kept \o end
      OBVIOUS
    <3>. HIDE DEF m
    <3>0. kept \in Seq(Time) /\ end \in Seq(Time)
      BY <1>6, <2>3
    <3>3. /\ Len(m) = Len(kept) + Len(end)
          /\ \A i \in 1 .. Len(kept) + Len(end) : m[i] = IF i <= Len(kept) THEN kept[i] ELSE end[i - Len(kept)]
      BY <3>0, <3>2, ConcatOf
    <3>. QED  BY <2>3, <3>1, <3>3
  <2>. HIDE DEF m
  <2>6. \A i \in 1 .. Len(m) : \/ i \in 1 .. Len(kept) /\ m[i] = kept[i]
                               \/ i = Len(m) /\ m[i] = q[b]
    BY <1>8, <2>3, <2>5
  <2>7. \A i \in 1 .. Len(m) : m[i] >= prev - Period
    BY <1>9, <1>11, <2>6 DEF recent
  <2>8. \A i \in 1 .. Len(m) : i < Len(m) => m[i] < cur - Period
    BY <1>8, <1>9, <2>5, <2>6
  <2>. QED  BY <1>3, <1>10, <2>5, <2>7, <2>8
<1>12. CASE ~(b <= l /\ q[b] \in recent)
  <2>1. end = << >>
    BY <1>12
  <2>2. m = kept
    BY <1>6, <2>1, ConcatEmptySeq
  <2>. HIDE DEF m
  <2>. QED  BY <1>3, <1>6, <1>9, <1>10, <2>2
<1>. QED  BY <1>11, <1>12

-----------------------------------------------------------------------------
(* The sum of the steps. *)
LEMMA StepIs ==
  ASSUME NEW m \in Seq(Time), NEW prev \in Time, NEW cur \in Time, prev < cur, NEW i \in 1 .. Len(m)
  PROVE  TimeOfStep(m, i, prev, cur) =
           LET n == Len(m) - 1
               step == CASE i = 1 /\ i < n -> m[2] - prev
                         [] i > 1 /\ i < n -> m[i + 1] - m[i]
                         [] i > 1 /\ i = n -> cur - m[i]
                         [] OTHER -> cur - prev
           IN  IF i <= n /\ step > 0 THEN step ELSE 0
<1>1. Len(m) \in Nat
  BY SamplesAreNumbers
<1>2. i \in 1 .. Len(m) - 1 \/ i = Len(m)
  BY <1>1
<1>3. CASE i \in 1 .. Len(m) - 1
  <2>. DEFINE n == Len(m) - 1
              step == CASE i = 1 /\ i < n -> m[2] - prev
                        [] i > 1 /\ i < n -> m[i + 1] - m[i]
                        [] i > 1 /\ i = n -> cur - m[i]
                        [] OTHER -> cur - prev
  <2>1. n \in Int /\ i \in 1 .. n /\ i < Len(m) /\ i <= n
    BY <1>1, <1>3
  <2>. HIDE DEF n
  <2>0. TStep(m, i, prev, cur) = CASE i = 1 /\ i < n -> m[2] - prev
                                   [] i > 1 /\ i < n -> m[i + 1] - m[i]
                                   [] i > 1 /\ i = n -> cur - m[i]
                                   [] i = 1 /\ i = n -> cur - prev
    BY Zenon DEF TStep, n
  <2>2. TStep(m, i, prev, cur) = step
    BY <2>0, <2>1
  <2>. HIDE DEF step
  <2>3. TimeOfStep(m, i, prev, cur) = IF i <= n /\ step > 0 THEN step ELSE 0
    BY <2>1, <2>2, Zenon DEF TimeOfStep
  <2>. QED  BY <2>3, Zenon DEF n, step
<1>4. CASE i = Len(m)
  <2>1. ~(i < Len(m)) /\ ~(i <= Len(m) - 1)
    BY <1>1, <1>4
  <2>2. TimeOfStep(m, i, prev, cur) = 0
    BY <2>1, Zenon DEF TimeOfStep
  <2>. QED  BY <2>1, <2>2, Zenon
<1>. QED  BY <1>2, <1>3, <1>4

LEMMA TimeOfStepIsInt ==
  ASSUME NEW m \in Seq(Time), NEW prev \in Time, NEW cur \in Time, prev < cur, NEW i \in 1 .. Len(m)
  PROVE  TimeOfStep(m, i, prev, cur) \in Int
<1>1. /\ Len(m) \in Nat /\ prev \in Int /\ cur \in Int
      /\ \A j \in 1 .. Len(m) : m[j] \in Int
  BY SamplesAreNumbers, TimeIsInt
<1>. DEFINE n == Len(m) - 1
            step == CASE i = 1 /\ i < n -> m[2] - prev
                      [] i > 1 /\ i < n -> m[i + 1] - m[i]
                      [] i > 1 /\ i = n -> cur - m[i]
                      [] OTHER -> cur - prev
<1>2. TimeOfStep(m, i, prev, cur) = IF i <= n /\ step > 0 THEN step ELSE 0
  BY StepIs
<1>3. i <= n => step \in Int
  <2>. SUFFICES ASSUME i <= n  PROVE step \in Int
    OBVIOUS
  <2>1. i \in 1 .. Len(m) /\ i + 1 \in 1 .. Len(m) /\ 2 \in 1 .. Len(m)
    BY <1>1
  <2>. HIDE DEF n
  <2>2. /\ m[i] \in Int /\ m[i + 1] \in Int /\ m[2] \in Int
    BY <1>1, <2>1
  <2>3. m[2] - prev \in Int /\ m[i + 1] - m[i] \in Int /\ cur - m[i] \in Int /\ cur - prev \in Int
    BY <1>1, <2>2
  <2>. QED  BY <2>3
<1>. HIDE DEF step, n
<1>. QED  BY <1>2, <1>3

(* What has been integrated after each step. *)
Sums(m, prev, cur) ==
  {sum \in [1 .. Len(m) -> Int] :
     \A i \in 1 .. Len(m) :
       sum[i] = (IF i = 1 THEN 0 ELSE sum[i - 1]) + TimeOfStep(m, i, prev, cur)}

LEMMA IntegratedTimeUnfolds ==
  ASSUME NEW m \in Seq(Time), m # << >>, NEW prev \in Time, NEW cur \in Time, prev < cur
  PROVE  \E sum \in Sums(m, prev, cur) : IntegratedTime(m, prev, cur) = sum[Len(m)]
<1>. DEFINE n == Len(m)
            time(i) == TimeOfStep(m, i, prev, cur)
            prior(g, i) == IF i = 1 THEN 0 ELSE g[i - 1]
            body(g) == [i \in 1 .. n |-> prior(g, i) + time(i)]
            sum == CHOOSE g : g = body(g)
            step == [i \in 1 .. n |-> [v \in Int |-> v + time(i)]]
<1>1. n \in Nat /\ n # 0
  BY LenProperties, EmptySeq
<1>2. \A i \in 1 .. n : time(i) \in Int
  BY TimeOfStepIsInt
<1>3. IntegratedTime(m, prev, cur) = sum[n]
  BY DEF IntegratedTime
<1>. HIDE DEF time
<1>4. step \in [1 .. n -> [Int -> Int]] /\ 0 \in Int
  BY <1>2
<1>5. PICK f \in [1 .. n -> Int] : \A i \in 1 .. n : f[i] = step[i][prior(f, i)]
  <2>. HIDE DEF n, step
  <2>1. Unfolding(n, Int, 0, step) # {}
    BY <1>1, <1>4, Recursion, Zenon
  <2>. QED  BY <2>1 DEF Unfolding
<1>6. \A i \in 1 .. n : prior(f, i) \in Int
  <2>. HIDE DEF n
  <2>1. \A i \in 1 .. n : i # 1 => i - 1 \in 1 .. n
    BY <1>1
  <2>. QED  BY <1>5, <2>1
<1>7. \A i \in 1 .. n : f[i] = prior(f, i) + time(i)
  <2>. HIDE DEF n, prior
  <2>. QED  BY <1>5, <1>6
<1>8. f = body(f)
  <2>1. f = [i \in 1 .. n |-> f[i]]
    BY <1>5
  <2>. HIDE DEF prior
  <2>. QED  BY <1>7, <2>1, Zenon
<1>9. sum = body(sum)
  <2>. HIDE DEF body
  <2>. QED  BY <1>8
<1>10. ASSUME NEW g, g = body(g)  PROVE g = f
  <2>. DEFINE Same == {i \in 1 .. n : g[i] = f[i]}
  <2>. HIDE DEF n
  <2>1. \A i \in 1 .. n : g[i] = prior(g, i) + time(i)
    BY <1>10, Zenon
  <2>2. n # 0 => 1 \in Same
    <3>1. n # 0 => 1 \in 1 .. n
      BY <1>1
    <3>2. prior(g, 1) = prior(f, 1)
      OBVIOUS
    <3>. HIDE DEF prior
    <3>3. ASSUME 1 \in 1 .. n  PROVE g[1] = f[1]
      <4>1. f[1] = prior(f, 1) + time(1)
        BY <1>7, <3>3, Zenon
      <4>2. g[1] = prior(g, 1) + time(1)
        BY <2>1, <3>3, Zenon
      <4>. QED  BY <3>2, <4>1, <4>2
    <3>. QED  BY <3>1, <3>3
  <2>3. ASSUME NEW i \in 1 .. n - 1, i \in Same  PROVE i + 1 \in Same
    <3>1. i + 1 \in 1 .. n /\ i + 1 # 1 /\ (i + 1) - 1 = i
      BY <1>1
    <3>2. prior(g, i + 1) = prior(f, i + 1)
      BY <2>3, <3>1
    <3>. HIDE DEF prior
    <3>. QED  BY <1>7, <2>1, <3>1, <3>2, Zenon
  <2>. HIDE DEF Same
  <2>4. \A i \in 1 .. n - 1 : i \in Same => i + 1 \in Same
    BY <2>3
  <2>5. 1 .. n \subseteq Same
    BY <1>1, <2>2, <2>4, Induction, Zenon
  <2>6. f = [i \in 1 .. n |-> f[i]] /\ g = [i \in 1 .. n |-> g[i]]
    BY <1>5, <1>10
  <2>. QED  BY <2>5, <2>6, Zenon DEF Same
<1>11. sum = f
  <2>. HIDE DEF body
  <2>. QED  BY <1>9, <1>10
<1>12. f \in Sums(m, prev, cur)
  BY <1>5, <1>7, Zenon DEF Sums, time
<1>. QED  BY <1>3, <1>11, <1>12, Zenon

(* What a list of collected samples integrates to. *)
LEMMA SpanIs ==
  ASSUME NEW m \in Seq(Time), InOrder(m), NEW prev \in Time, NEW cur \in Time, prev < cur,
         \A i \in 1 .. Len(m) : m[i] >= prev - Period,
         \A i \in 1 .. Len(m) : i < Len(m) => m[i] < cur - Period
  PROVE  LET span == IntegratedTime(m, prev, cur)
         IN  span = 0 \/ span - (cur - prev) \in 0 .. Period
<1>. DEFINE n == Len(m) - 1
            time(i) == TimeOfStep(m, i, prev, cur)
            span == IntegratedTime(m, prev, cur)
<1>1. /\ Len(m) \in Nat /\ prev \in Int /\ cur \in Int /\ Period \in Nat \ {0}
      /\ \A j \in 1 .. Len(m) : m[j] \in Int
  BY SamplesAreNumbers, TimeIsInt, FeedAssumption
<1>2. \A i \in 1 .. Len(m) :
        time(i) = LET step == CASE i = 1 /\ i < n -> m[2] - prev
                                [] i > 1 /\ i < n -> m[i + 1] - m[i]
                                [] i > 1 /\ i = n -> cur - m[i]
                                [] OTHER -> cur - prev
                  IN  IF i <= n /\ step > 0 THEN step ELSE 0
  BY StepIs
<1>. HIDE DEF time
<1>3. CASE m = << >>
  BY <1>3 DEF IntegratedTime
<1>4. CASE m # << >>
  <2>1. PICK sum \in Sums(m, prev, cur) : span = sum[Len(m)]
    BY <1>4, IntegratedTimeUnfolds
  <2>2. \A i \in 1 .. n + 1 : /\ sum[i] \in Int
                              /\ sum[i] = (IF i = 1 THEN 0 ELSE sum[i - 1]) + time(i)
    <3>1. n + 1 = Len(m)
      BY <1>1
    <3>. QED  BY <3>1 DEF Sums, time
  <2>3. n \in Nat /\ Len(m) = n + 1
    BY <1>1, <1>4, EmptySeq
  <2>. HIDE DEF n, span
  <2>4. CASE n = 0
    <3>1. sum[1] = 0 + time(1) /\ time(1) = 0
      BY <1>2, <2>2, <2>3, <2>4
    <3>. QED  BY <2>1, <2>3, <2>4, <3>1 DEF span
  <2>5. CASE n = 1
    <3>1. time(1) = cur - prev /\ time(2) = 0
      BY <1>1, <1>2, <2>3, <2>5
    <3>2. sum[1] = 0 + time(1) /\ sum[2] = sum[1] + time(2)
      BY <2>2, <2>5
    <3>. QED  BY <1>1, <2>1, <2>3, <2>5, <3>1, <3>2 DEF span
  <2>6. CASE n > 1
    <3>. DEFINE c == IF m[2] > prev THEN m[2] - prev ELSE 0
                Good == {i \in 1 .. n - 1 : sum[i] = c + m[i + 1] - m[2]}
    <3>1. /\ 1 \in 1 .. n - 1 /\ 2 \in 1 .. n + 1 /\ n \in 1 .. n + 1 /\ n + 1 \in 1 .. n + 1
          /\ n - 1 \in 1 .. n - 1 /\ (n - 1) + 1 = n /\ (n + 1) - 1 = n /\ n # 1 /\ n + 1 # 1
      BY <2>3, <2>6
    <3>2. /\ m[2] \in Int /\ m[n] \in Int /\ m[n] < cur - Period /\ m[2] >= prev - Period
      BY <1>1, <2>3, <2>6, <3>1
    <3>3. time(1) = c
      <4>1. 1 \in 1 .. Len(m) /\ 1 < n /\ 1 <= n
        BY <2>3, <2>6
      <4>2. time(1) = IF m[2] - prev > 0 THEN m[2] - prev ELSE 0
        BY <1>2, <4>1
      <4>. QED  BY <1>1, <3>2, <4>2
    <3>4. \A i \in 1 .. n - 1 : i # 1 => time(i) = m[i + 1] - m[i]
      <4>. SUFFICES ASSUME NEW i \in 1 .. n - 1, i # 1  PROVE time(i) = m[i + 1] - m[i]
        OBVIOUS
      <4>1. i \in 1 .. Len(m) /\ i + 1 \in 1 .. Len(m) /\ i < i + 1 /\ i > 1 /\ i < n /\ i <= n
        BY <2>3
      <4>2. m[i] \in Int /\ m[i + 1] \in Int /\ m[i] <= m[i + 1]
        BY <1>1, <4>1 DEF InOrder
      <4>. QED  BY <1>2, <4>1, <4>2
    <3>5. time(n) = cur - m[n]
      <4>1. n \in 1 .. Len(m) /\ n > 1 /\ n <= n /\ ~(n < n)
        BY <2>3, <2>6
      <4>2. time(n) = IF cur - m[n] > 0 THEN cur - m[n] ELSE 0
        BY <1>2, <4>1
      <4>. QED  BY <1>1, <3>2, <4>2
    <3>6. time(n + 1) = 0
      BY <1>1, <1>2, <2>3, <2>6, <3>1
    <3>7. 1 \in Good
      <4>1. sum[1] = 0 + time(1)
        BY <2>2, <2>3
      <4>. HIDE DEF c
      <4>2. c \in Int
        BY <1>1, <3>2 DEF c
      <4>. QED  BY <3>1, <3>2, <3>3, <4>1, <4>2
    <3>8. ASSUME NEW i \in 1 .. n - 1 - 1, i \in Good  PROVE i + 1 \in Good
      <4>1. /\ i + 1 \in 1 .. n - 1 /\ i + 1 \in 1 .. n + 1 /\ i + 1 # 1 /\ (i + 1) - 1 = i
            /\ (i + 1) + 1 \in 1 .. Len(m) /\ i + 1 \in 1 .. Len(m)
        BY <2>3
      <4>2. sum[i + 1] = sum[i] + time(i + 1) /\ time(i + 1) = m[(i + 1) + 1] - m[i + 1]
        BY <2>2, <3>4, <4>1
      <4>3. m[i + 1] \in Int /\ m[(i + 1) + 1] \in Int
        BY <1>1, <4>1
      <4>4. c \in Int
        BY <1>1, <3>2
      <4>. HIDE DEF c
      <4>5. sum[i] = c + m[i + 1] - m[2]
        BY <3>8
      <4>6. sum[i + 1] = c + m[(i + 1) + 1] - m[2]
        <5>1. sum[i + 1] = (c + m[i + 1] - m[2]) + (m[(i + 1) + 1] - m[i + 1])
          BY <4>2, <4>5
        <5>2. (c + m[i + 1] - m[2]) + (m[(i + 1) + 1] - m[i + 1]) = c + m[(i + 1) + 1] - m[2]
          BY <3>2, <4>3, <4>4
        <5>. QED  BY <5>1, <5>2
      <4>. QED  BY <4>1, <4>6
    <3>9. n - 1 \in Good
      <4>. HIDE DEF Good
      <4>1. n - 1 \in Nat /\ \A i \in 1 .. (n - 1) - 1 : i \in Good => i + 1 \in Good
        BY <3>1, <3>8, <2>3
      <4>2. 1 .. n - 1 \subseteq Good
        BY <3>7, <4>1, Induction, Zenon
      <4>. QED  BY <3>1, <4>2
    <3>10. sum[n - 1] = c + m[n] - m[2]
      BY <3>1, <3>9
    <3>11. sum[n] = sum[n - 1] + time(n) /\ sum[n + 1] = sum[n] + time(n + 1)
      BY <2>2, <3>1
    <3>. c \in Int
      BY <1>1, <3>2
    <3>12. span = c + cur - m[2]
      <4>. HIDE DEF c
      <4>1. sum[n] = c + cur - m[2]
        BY <1>1, <3>2, <3>5, <3>10, <3>11
      <4>2. sum[n + 1] = sum[n] + 0
        BY <3>6, <3>11
      <4>3. sum[n + 1] = c + cur - m[2]
        BY <1>1, <3>2, <4>1, <4>2
      <4>. QED  BY <2>1, <2>3, <4>3
    <3>13. (c + cur - m[2]) - (cur - prev) \in 0 .. Period
      <4>1. m[2] > prev => c = m[2] - prev
        OBVIOUS
      <4>2. ~(m[2] > prev) => c = 0
        OBVIOUS
      <4>. HIDE DEF c
      <4>3. CASE m[2] > prev
        BY <1>1, <3>2, <4>1, <4>3
      <4>4. CASE ~(m[2] > prev)
        <5>1. (c + cur - m[2]) - (cur - prev) = prev - m[2]
          BY <1>1, <3>2, <4>2, <4>4
        <5>2. prev - m[2] \in 0 .. Period
          BY <1>1, <3>2, <4>4
        <5>. QED  BY <5>1, <5>2
      <4>. QED  BY <4>3, <4>4
    <3>14. span - (cur - prev) \in 0 .. Period
      BY <3>12, <3>13
    <3>. QED  BY <3>14, Zenon DEF span
  <2>. QED  BY <2>3, <2>4, <2>5, <2>6
<1>. QED  BY <1>3, <1>4

-----------------------------------------------------------------------------
(* The samples: those of the queue come before those of the buffer, and no    *)
(* stream is behind what it has delivered.                                    *)
Kinds ==
  /\ node \in {"online", "offline"}
  /\ imuBuffer \in Seq(Time) /\ Len(imuBuffer) <= MaxImu
  /\ mlQueueImuData \in Seq(Time)
  /\ mLastFrame \in Time \cup {NoTime}
  /\ mbCreatedMap \in BOOLEAN /\ resetRequested \in BOOLEAN
  /\ arrived \subseteq Time

Ordered ==
  /\ InOrder(imuBuffer) /\ InOrder(mlQueueImuData)
  /\ \A x \in ToSet(mlQueueImuData), y \in ToSet(imuBuffer) : x <= y
  /\ \A x \in ToSet(imuBuffer) \cup ToSet(mlQueueImuData) : x <= lastStamp["imu"]
  /\ mLastFrame <= lastStamp["rgb"]

(* A sample of the history is still held, or no later interval needs it: it   *)
(* is too old for the one that starts at the last frame, or at the image that *)
(* created the map.                                                           *)
InNeed(s) ==
  \/ s \in ToSet(mlQueueImuData) \cup ToSet(imuBuffer)
  \/ mLastFrame # NoTime /\ s < mLastFrame - Period
  \/ mLastFrame = NoTime /\ mbCreatedMap /\ s < lastStamp["rgb"] - Period

Held == \A s \in arrived : InNeed(s)

FeedInv == DepthInv /\ Kinds /\ Ordered /\ Held /\ SpanCoversFrame /\ FrameUsesItsSamples

LEMMA InitFeed == Init => FeedInv
<1>. SUFFICES ASSUME Init  PROVE FeedInv
  OBVIOUS
<1>1. DepthInv
  BY InitDepth
<1>2. /\ node \in {"online", "offline"} /\ imuBuffer = << >> /\ mlQueueImuData = << >>
      /\ mLastFrame = NoTime /\ arrived = {} /\ integrated = NoSpan
      /\ lastStamp = [s \in Streams |-> NoTime]
  BY DEF Init
<1>3. mbCreatedMap \in BOOLEAN /\ resetRequested \in BOOLEAN
  BY Zenon DEF Init
<1>4. << >> \in Seq(Time) /\ Len(<< >>) = 0 /\ InOrder(<< >>) /\ ToSet(<< >>) = {}
  BY EmptyOf
<1>5. Kinds
  BY <1>2, <1>3, <1>4, FeedAssumption DEF Kinds
<1>6. Ordered
  BY <1>2, <1>4, TimeIsInt DEF Ordered, Streams
<1>7. Held
  BY <1>2 DEF Held
<1>8. SpanCoversFrame /\ FrameUsesItsSamples
  BY <1>2 DEF SpanCoversFrame, FrameUsesItsSamples, NoSpan
<1>. QED  BY <1>1, <1>5, <1>6, <1>7, <1>8 DEF FeedInv

(* A sample enters at the back of a buffer; at the limit the front is dropped. *)
LEMMA PushBoundedIs ==
  ASSUME NEW q \in Seq(Time), InOrder(q), NEW t \in Time, \A x \in ToSet(q) : x <= t,
         NEW limit \in Nat \ {0}, Len(q) <= limit
  PROVE  LET p == PushBounded(q, t, limit)
         IN  /\ p \in Seq(Time) /\ InOrder(p) /\ Len(p) <= limit
             /\ t \in ToSet(p) /\ ToSet(p) \subseteq ToSet(q) \cup {t}
             /\ ToSet(q) \subseteq ToSet(p) \cup DroppedByLimit(q, limit)
<1>. DEFINE p == PushBounded(q, t, limit)
            rest == IF Len(q) = limit THEN Tail(q) ELSE q
<1>1. Len(q) \in Nat /\ ToSet(q) = {q[i] : i \in 1 .. Len(q)}
  BY SamplesAreNumbers
<1>2. /\ rest \in Seq(Time) /\ InOrder(rest) /\ Len(rest) + 1 <= limit
      /\ ToSet(rest) \subseteq ToSet(q)
      /\ ToSet(q) \subseteq ToSet(rest) \cup DroppedByLimit(q, limit)
  <2>1. CASE Len(q) = limit
    <3>1. q # << >> /\ rest = Tail(q)
      BY <2>1, EmptySeq
    <3>2. rest = SubSeq(q, 2, Len(q)) /\ Len(rest) = Len(q) - 1 /\ Head(q) = q[1]
      BY <3>1, TailIsSubSeq, HeadTailProperties
    <3>3. 2 \in 1 .. Len(q) + 1 /\ Len(q) \in 0 .. Len(q)
      BY <1>1, <2>1
    <3>. HIDE DEF rest
    <3>4. rest \in Seq(Time) /\ InOrder(rest) /\ ToSet(rest) = {q[i] : i \in 2 .. Len(q)}
      BY <3>2, <3>3, PieceOf
    <3>5. \A i \in 1 .. Len(q) : i = 1 \/ i \in 2 .. Len(q)
      BY <1>1
    <3>6. \A i \in 2 .. Len(q) : i \in 1 .. Len(q)
      BY <1>1
    <3>7. DroppedByLimit(q, limit) = {q[1]}
      BY <2>1, <3>2 DEF DroppedByLimit
    <3>8. Len(rest) + 1 <= limit
      BY <1>1, <2>1, <3>2
    <3>. QED  BY <1>1, <3>4, <3>5, <3>6, <3>7, <3>8
  <2>2. CASE Len(q) # limit
    <3>1. rest = q
      BY <2>2
    <3>. HIDE DEF rest
    <3>. QED  BY <1>1, <2>2, <3>1
  <2>. QED  BY <2>1, <2>2
<1>3. p = Append(rest, t)
  BY DEF PushBounded
<1>. DEFINE last == << t >>
<1>4. p = rest \o last
  <2>. HIDE DEF rest, p
  <2>. QED  BY <1>2, <1>3, AppendIsConcat
<1>5. last \in Seq(Time) /\ InOrder(last) /\ ToSet(last) = {t}
  BY SingletonOf
<1>. HIDE DEF rest, p, last
<1>6. p \in Seq(Time) /\ InOrder(p) /\ ToSet(p) = ToSet(rest) \cup {t}
  <2>1. \A x \in ToSet(rest), y \in ToSet(last) : x <= y
    BY <1>2, <1>5
  <2>2. /\ rest \o last \in Seq(Time) /\ InOrder(rest \o last)
        /\ ToSet(rest \o last) = ToSet(rest) \cup ToSet(last)
    BY <1>2, <1>5, <2>1, JoinOf
  <2>. QED  BY <1>4, <1>5, <2>2
<1>7. Len(p) = Len(rest) + 1
  BY <1>2, <1>3, AppendProperties
<1>. QED  BY <1>2, <1>6, <1>7 DEF p

(* A step that moves no sample. *)
LEMMA SamplesKept ==
  ASSUME FeedInv, DepthInv', UNCHANGED <<node, imuBuffer, mlQueueImuData, mLastFrame, mbCreatedMap,
                                         resetRequested, arrived>>,
         lastStamp'["imu"] >= lastStamp["imu"], lastStamp'["rgb"] >= lastStamp["rgb"],
         integrated' = NoSpan
  PROVE  FeedInv'
<1>1. Kinds'
  BY DEF FeedInv, Kinds
<1>2. /\ lastStamp["imu"] \in Int /\ lastStamp["rgb"] \in Int
      /\ lastStamp'["imu"] \in Int /\ lastStamp'["rgb"] \in Int
  BY TimeIsInt DEF FeedInv, DepthInv, Sorted, Streams
<1>3. /\ \A x \in ToSet(imuBuffer) \cup ToSet(mlQueueImuData) : x \in Int
      /\ \A s \in arrived : s \in Int
      /\ mLastFrame \in Int /\ Period \in Int
  BY SamplesAreNumbers, TimeIsInt, FeedAssumption DEF FeedInv, Kinds
<1>4. Ordered'
  BY <1>2, <1>3 DEF FeedInv, Ordered
<1>5. Held'
  <2>. SUFFICES ASSUME NEW s \in arrived  PROVE InNeed(s)'
    BY DEF Held
  <2>1. InNeed(s)
    BY DEF FeedInv, Held
  <2>. QED  BY <1>2, <1>3, <2>1 DEF InNeed
<1>6. SpanCoversFrame' /\ FrameUsesItsSamples'
  BY DEF SpanCoversFrame, FrameUsesItsSamples, NoSpan
<1>. QED  BY <1>1, <1>4, <1>5, <1>6 DEF FeedInv

LEMMA HandleImuFeed == ASSUME FeedInv, NEW t \in Time, HandleImu(t) PROVE FeedInv'
<1>1. DepthInv'
  BY HandleImuDepth DEF FeedInv
<1>2. /\ Delivered("imu", t)
      /\ imuBuffer' = PushBounded(imuBuffer, t, MaxImu)
      /\ arrived' = (arrived \ DroppedByLimit(imuBuffer, MaxImu)) \cup {t}
      /\ integrated' = NoSpan
      /\ UNCHANGED <<node, mlQueueImuData, mLastFrame, mbCreatedMap, resetRequested>>
  BY DEF HandleImu, NothingIntegrated
<1>3. /\ lastStamp["imu"] < t /\ lastStamp'["imu"] = t /\ lastStamp'["rgb"] = lastStamp["rgb"]
      /\ lastStamp["imu"] \in Int /\ lastStamp["rgb"] \in Int /\ t \in Int
  <2>1. "imu" \in Streams /\ "rgb" \in Streams
    BY DEF Streams
  <2>. QED  BY <1>2, <2>1, DeliveredIsLater, TimeIsInt DEF FeedInv, DepthInv, Sorted
<1>4. /\ imuBuffer \in Seq(Time) /\ mlQueueImuData \in Seq(Time) /\ InOrder(imuBuffer)
      /\ Len(imuBuffer) <= MaxImu
      /\ \A x \in ToSet(imuBuffer) \cup ToSet(mlQueueImuData) : x <= lastStamp["imu"]
      /\ \A x \in ToSet(mlQueueImuData), y \in ToSet(imuBuffer) : x <= y
      /\ arrived \subseteq Time
  BY DEF FeedInv, Kinds, Ordered
<1>5. \A x \in ToSet(imuBuffer) \cup ToSet(mlQueueImuData) : x \in Int /\ x <= t
  <2>1. \A x \in ToSet(imuBuffer) \cup ToSet(mlQueueImuData) : x \in Int
    BY <1>4, SamplesAreNumbers
  <2>. QED  BY <1>3, <1>4, <2>1
<1>6. /\ imuBuffer' \in Seq(Time) /\ InOrder(imuBuffer') /\ Len(imuBuffer') <= MaxImu
      /\ t \in ToSet(imuBuffer') /\ ToSet(imuBuffer') \subseteq ToSet(imuBuffer) \cup {t}
      /\ ToSet(imuBuffer) \subseteq ToSet(imuBuffer') \cup DroppedByLimit(imuBuffer, MaxImu)
  <2>1. MaxImu \in Nat \ {0}
    BY FeedAssumption
  <2>. QED  BY <1>2, <1>4, <1>5, <2>1, PushBoundedIs
<1>7. Kinds'
  BY <1>2, <1>4, <1>6 DEF FeedInv, Kinds
<1>8. Ordered'
  <2>1. \A x \in ToSet(mlQueueImuData), y \in ToSet(imuBuffer') : x <= y
    BY <1>4, <1>5, <1>6
  <2>2. \A x \in ToSet(imuBuffer') \cup ToSet(mlQueueImuData) : x <= t
    BY <1>3, <1>5, <1>6
  <2>. QED  BY <1>2, <1>3, <1>6, <2>1, <2>2 DEF FeedInv, Ordered
<1>9. Held'
  <2>. SUFFICES ASSUME NEW s \in arrived'  PROVE InNeed(s)'
    BY DEF Held
  <2>1. CASE s = t
    BY <1>6, <2>1 DEF InNeed
  <2>2. CASE s \in arrived /\ s \notin DroppedByLimit(imuBuffer, MaxImu)
    <3>1. InNeed(s)
      BY <2>2 DEF FeedInv, Held
    <3>. QED  BY <1>2, <1>3, <1>6, <2>2, <3>1 DEF InNeed
  <2>. QED  BY <1>2, <2>1, <2>2
<1>10. SpanCoversFrame' /\ FrameUsesItsSamples'
  BY <1>2 DEF SpanCoversFrame, FrameUsesItsSamples, NoSpan
<1>. QED  BY <1>1, <1>7, <1>8, <1>9, <1>10 DEF FeedInv

LEMMA HandleDepthFeed == ASSUME FeedInv, NEW t \in Time, HandleDepth(t) PROVE FeedInv'
<1>1. DepthInv'
  BY HandleDepthDepth DEF FeedInv
<1>2. /\ Delivered("depth", t) /\ integrated' = NoSpan
      /\ UNCHANGED <<node, imuBuffer, mlQueueImuData, mLastFrame, mbCreatedMap, resetRequested, arrived>>
  BY DEF HandleDepth, NothingIntegrated
<1>3. lastStamp'["imu"] >= lastStamp["imu"] /\ lastStamp'["rgb"] >= lastStamp["rgb"]
  <2>1. "imu" \in Streams /\ "rgb" \in Streams /\ "depth" \in Streams
    BY DEF Streams
  <2>. QED  BY <1>2, <2>1, DeliveredIsLater DEF FeedInv
<1>. QED  BY <1>1, <1>2, <1>3, SamplesKept

(* The queue when the samples of a frame have been added, after the reset     *)
(* that was asked.                                                            *)
Queued(d) == (IF resetRequested THEN << >> ELSE mlQueueImuData) \o d.frame

LEMMA QueuedIs ==
  ASSUME FeedInv, NEW t \in Time, NEW d, Cut(imuBuffer, t, d)
  PROVE  /\ Queued(d) \in Seq(Time) /\ InOrder(Queued(d))
         /\ d.left \in Seq(Time) /\ InOrder(d.left) /\ Len(d.left) <= MaxImu
         /\ \A x \in ToSet(Queued(d)), y \in ToSet(d.left) : x <= y
         /\ \A x \in ToSet(Queued(d)) \cup ToSet(d.left) : x <= lastStamp["imu"]
         /\ ~resetRequested =>
              \A s \in ToSet(mlQueueImuData) \cup ToSet(imuBuffer) :
                 /\ s \in ToSet(Queued(d)) \cup ToSet(d.left)
                 /\ s < t => s \in ToSet(Queued(d))
<1>. DEFINE base == IF resetRequested THEN << >> ELSE mlQueueImuData
            frame == d.frame
            left == d.left
            q == base \o frame
<1>1. /\ imuBuffer \in Seq(Time) /\ mlQueueImuData \in Seq(Time)
      /\ InOrder(imuBuffer) /\ InOrder(mlQueueImuData) /\ Len(imuBuffer) <= MaxImu
      /\ \A x \in ToSet(mlQueueImuData), y \in ToSet(imuBuffer) : x <= y
      /\ \A x \in ToSet(imuBuffer) \cup ToSet(mlQueueImuData) : x <= lastStamp["imu"]
      /\ resetRequested \in BOOLEAN
  BY DEF FeedInv, Kinds, Ordered
<1>2. /\ frame \in Seq(Time) /\ InOrder(frame)
      /\ left \in Seq(Time) /\ InOrder(left) /\ Len(left) <= Len(imuBuffer)
      /\ \A x \in ToSet(frame), y \in ToSet(left) : x <= y
      /\ ToSet(imuBuffer) = ToSet(frame) \cup ToSet(left)
      /\ \A x \in ToSet(imuBuffer) : x < t => x \in ToSet(frame)
  BY <1>1, CutGives
<1>3. /\ base \in Seq(Time) /\ InOrder(base) /\ ToSet(base) \subseteq ToSet(mlQueueImuData)
      /\ ~resetRequested => base = mlQueueImuData
  BY <1>1, EmptyOf
<1>4. Queued(d) = q
  BY Zenon DEF Queued
<1>. HIDE DEF base, frame, left
<1>5. q \in Seq(Time) /\ InOrder(q) /\ ToSet(q) = ToSet(base) \cup ToSet(frame)
  <2>1. \A x \in ToSet(base), y \in ToSet(frame) : x <= y
    BY <1>1, <1>2, <1>3
  <2>. QED  BY <1>2, <1>3, <2>1, JoinOf
<1>. HIDE DEF q
<1>6. Len(left) <= MaxImu
  BY <1>1, <1>2, SamplesAreNumbers, FeedAssumption
<1>7. \A x \in ToSet(q), y \in ToSet(left) : x <= y
  BY <1>1, <1>2, <1>3, <1>5
<1>8. \A x \in ToSet(q) \cup ToSet(left) : x <= lastStamp["imu"]
  BY <1>1, <1>2, <1>3, <1>5
<1>9. ~resetRequested =>
        \A s \in ToSet(mlQueueImuData) \cup ToSet(imuBuffer) :
          s \in ToSet(q) \cup ToSet(left) /\ (s < t => s \in ToSet(q))
  BY <1>1, <1>2, <1>3, <1>5
<1>. QED  BY <1>2, <1>4, <1>5, <1>6, <1>7, <1>8, <1>9 DEF left

(* What stays in the queue: its end. *)
LEMMA RemainderIs ==
  ASSUME NEW q \in Seq(Time), InOrder(q), NEW cur \in Time, NEW n \in Boundary(q, cur) .. Len(q) + 1
  PROVE  LET left == SubSeq(q, n, Len(q))
         IN  /\ left \in Seq(Time) /\ InOrder(left) /\ ToSet(left) \subseteq ToSet(q)
             /\ n = Boundary(q, cur) => \A s \in ToSet(q) : s \in ToSet(left) \/ s < cur - Period
<1>. DEFINE left == SubSeq(q, n, Len(q))
            b == Boundary(q, cur)
<1>1. Len(q) \in Nat /\ ToSet(q) = {q[i] : i \in 1 .. Len(q)}
  BY SamplesAreNumbers
<1>2. b \in 1 .. Len(q) + 1 /\ \A j \in 1 .. b - 1 : q[j] < cur - Period
  BY BoundaryIs
<1>3. n \in b .. Len(q) + 1
  OBVIOUS
<1>. HIDE DEF b
<1>4. n \in 1 .. Len(q) + 1 /\ Len(q) \in 0 .. Len(q)
  BY <1>1, <1>2, <1>3
<1>5. left \in Seq(Time) /\ InOrder(left) /\ ToSet(left) = {q[i] : i \in n .. Len(q)}
  BY <1>4, PieceOf
<1>. HIDE DEF left
<1>6. ToSet(left) \subseteq ToSet(q)
  <2>1. \A i \in n .. Len(q) : i \in 1 .. Len(q)
    BY <1>1, <1>4
  <2>. QED  BY <1>1, <1>5, <2>1
<1>7. n = b => \A s \in ToSet(q) : s \in ToSet(left) \/ s < cur - Period
  <2>1. n = b => \A i \in 1 .. Len(q) : i \in n .. Len(q) \/ i \in 1 .. b - 1
    BY <1>1, <1>2
  <2>. QED  BY <1>1, <1>2, <1>5, <2>1
<1>. QED  BY <1>5, <1>6, <1>7 DEF left, b

(* The integration of a frame uses all the queue holds for it and covers the  *)
(* interval.                                                                  *)
LEMMA IntegrationIs ==
  ASSUME NEW q \in Seq(Time), InOrder(q), NEW prev \in Time, NEW cur \in Time, prev < cur,
         NEW had \in SUBSET Time,
         \A s \in had : prev - Period <= s /\ s < cur - Period => s \in ToSet(q),
         integrated' = [prev |-> prev, cur |-> cur,
                        span |-> IntegratedTime(ImuFromLastFrame(q, prev, cur), prev, cur),
                        used |-> ToSet(ImuFromLastFrame(q, prev, cur)), had |-> had]
  PROVE  SpanCoversFrame' /\ FrameUsesItsSamples'
<1>. DEFINE m == ImuFromLastFrame(q, prev, cur)
            span == IntegratedTime(m, prev, cur)
<1>1. /\ m \in Seq(Time) /\ InOrder(m)
      /\ \A i \in 1 .. Len(m) : m[i] >= prev - Period
      /\ \A i \in 1 .. Len(m) : i < Len(m) => m[i] < cur - Period
      /\ \A s \in ToSet(q) : prev - Period <= s /\ s < cur - Period => s \in ToSet(m)
  BY CollectedIs
<1>2. /\ integrated'.prev = prev /\ integrated'.cur = cur /\ integrated'.span = span
      /\ integrated'.used = ToSet(m) /\ integrated'.had = had
  BY Zenon
<1>. HIDE DEF m
<1>3. span = 0 \/ span - (cur - prev) \in 0 .. Period
  BY <1>1, SpanIs
<1>. HIDE DEF span
<1>4. SpanCoversFrame'
  BY <1>2, <1>3 DEF SpanCoversFrame
<1>5. FrameUsesItsSamples'
  <2>1. \A s \in had : prev - Period <= s /\ s < cur - Period => s \in ToSet(m)
    BY <1>1
  <2>. HIDE DEF m
  <2>. QED  BY <1>2, <2>1 DEF FrameUsesItsSamples
<1>. QED  BY <1>4, <1>5

(* What TrackRGBD does to the queue and to the frames, as cases. *)
Former == IF resetRequested THEN NoTime ELSE mLastFrame
Starts == Former = NoTime /\ (resetRequested \/ ~mbCreatedMap)

LEMMA TrackRGBDCases ==
  ASSUME NEW d, NEW t \in Time, TrackRGBD(d.frame, t)
  PROVE  /\ \/ mlQueueImuData' = Queued(d) /\ integrated' = NoSpan
            \/ /\ ~mbCreatedMap /\ Former = NoTime /\ integrated' = NoSpan
               /\ \E n \in Boundary(Queued(d), t) .. Len(Queued(d)) + 1 :
                    mlQueueImuData' = SubSeq(Queued(d), n, Len(Queued(d)))
            \/ /\ ~mbCreatedMap /\ Former # NoTime
               /\ mlQueueImuData' = SubSeq(Queued(d), Boundary(Queued(d), t), Len(Queued(d)))
               /\ LET m == ImuFromLastFrame(Queued(d), Former, t)
                  IN  integrated' = [prev |-> Former, cur |-> t, span |-> IntegratedTime(m, Former, t),
                                     used |-> ToSet(m), had |-> arrived]
               /\ mLastFrame' = t \/ CreateMapInAtlas
         /\ \/ mLastFrame' = Former /\ resetRequested' = TRUE /\ mbCreatedMap' = mbCreatedMap
               /\ mlQueueImuData' = Queued(d)
            \/ Former # NoTime /\ CreateMapInAtlas
            \/ mLastFrame' = t /\ mbCreatedMap' = FALSE /\ resetRequested' \in BOOLEAN
         /\ arrived' = IF Starts THEN ToSet(mlQueueImuData') \cup ToSet(imuBuffer')
                                 ELSE {s \in arrived : s >= mLastFrame' - Period}
<1>. DEFINE q == Queued(d)
            last == Former
            Kept == mlQueueImuData' = q /\ NothingIntegrated
            Track == mLastFrame' = t /\ mbCreatedMap' = FALSE /\ resetRequested' \in BOOLEAN
            Create == last # NoTime /\ CreateMapInAtlas
            Fail == mLastFrame' = last /\ resetRequested' = TRUE /\ mbCreatedMap' = mbCreatedMap
<1>1. /\ \/ Kept /\ (Fail \/ Create)
         \/ (IF mbCreatedMap THEN Kept ELSE PreintegrateIMU(q, last, t)) /\ (Track \/ Create)
      /\ arrived' = IF Starts THEN ToSet(mlQueueImuData') \cup ToSet(imuBuffer')
                              ELSE {s \in arrived : s >= mLastFrame' - Period}
  BY Zenon DEF TrackRGBD, Queued, Former, Starts
<1>. HIDE DEF q, last
<1>2. PreintegrateIMU(q, last, t) =>
        \/ /\ last = NoTime /\ integrated' = NoSpan
           /\ \E n \in Boundary(q, t) .. Len(q) + 1 : mlQueueImuData' = SubSeq(q, n, Len(q))
        \/ /\ last # NoTime
           /\ mlQueueImuData' = SubSeq(q, Boundary(q, t), Len(q))
           /\ LET m == ImuFromLastFrame(q, last, t)
              IN  integrated' = [prev |-> last, cur |-> t, span |-> IntegratedTime(m, last, t),
                                 used |-> ToSet(m), had |-> arrived]
  <2>1. CASE last = NoTime
    BY <2>1, Zenon DEF PreintegrateIMU, NothingIntegrated
  <2>2. CASE last # NoTime
    BY <2>2, Zenon DEF PreintegrateIMU, LeftInQueue
  <2>. QED  BY <2>1, <2>2
<1>3. Kept => mlQueueImuData' = q /\ integrated' = NoSpan
  BY DEF NothingIntegrated
<1>. HIDE DEF Kept
<1>4. \/ mlQueueImuData' = q /\ integrated' = NoSpan
      \/ ~mbCreatedMap /\ PreintegrateIMU(q, last, t) /\ (mLastFrame' = t \/ CreateMapInAtlas)
  <2>1. CASE Kept
    BY <1>3, <2>1, Zenon
  <2>2. CASE ~Kept
    BY <1>1, <2>2, Zenon
  <2>. QED  BY <2>1, <2>2
<1>5. \/ Fail /\ mlQueueImuData' = q
      \/ Create
      \/ Track
  BY <1>1, <1>3, Zenon
<1>6. \/ mlQueueImuData' = q /\ integrated' = NoSpan
      \/ /\ ~mbCreatedMap /\ last = NoTime /\ integrated' = NoSpan
         /\ \E n \in Boundary(q, t) .. Len(q) + 1 : mlQueueImuData' = SubSeq(q, n, Len(q))
      \/ /\ ~mbCreatedMap /\ last # NoTime
         /\ mlQueueImuData' = SubSeq(q, Boundary(q, t), Len(q))
         /\ LET m == ImuFromLastFrame(q, last, t)
            IN  integrated' = [prev |-> last, cur |-> t, span |-> IntegratedTime(m, last, t),
                               used |-> ToSet(m), had |-> arrived]
         /\ mLastFrame' = t \/ CreateMapInAtlas
  BY <1>2, <1>4, Zenon
<1>. QED  BY <1>1, <1>5, <1>6, Zenon DEF q, last

LEMMA TrackRGBDFeed ==
  ASSUME FeedInv, DepthInv', NEW t \in Time, lastStamp["rgb"] < t, lastStamp'["rgb"] = t,
         lastStamp'["imu"] = lastStamp["imu"], node' = node,
         NEW d, Cut(imuBuffer, t, d), imuBuffer' = d.left, TrackRGBD(d.frame, t)
  PROVE  FeedInv'
<1>. DEFINE q == Queued(d)
            left == d.left
<1>1. /\ q \in Seq(Time) /\ InOrder(q)
      /\ left \in Seq(Time) /\ InOrder(left) /\ Len(left) <= MaxImu
      /\ \A x \in ToSet(q), y \in ToSet(left) : x <= y
      /\ \A x \in ToSet(q) \cup ToSet(left) : x <= lastStamp["imu"]
      /\ ~resetRequested =>
           \A s \in ToSet(mlQueueImuData) \cup ToSet(imuBuffer) :
              s \in ToSet(q) \cup ToSet(left) /\ (s < t => s \in ToSet(q))
  BY QueuedIs
<1>2. imuBuffer' = left
  OBVIOUS
<1>3. /\ \/ mlQueueImuData' = q /\ integrated' = NoSpan
         \/ /\ ~mbCreatedMap /\ Former = NoTime /\ integrated' = NoSpan
            /\ \E n \in Boundary(q, t) .. Len(q) + 1 : mlQueueImuData' = SubSeq(q, n, Len(q))
         \/ /\ ~mbCreatedMap /\ Former # NoTime
            /\ mlQueueImuData' = SubSeq(q, Boundary(q, t), Len(q))
            /\ LET m == ImuFromLastFrame(q, Former, t)
               IN  integrated' = [prev |-> Former, cur |-> t, span |-> IntegratedTime(m, Former, t),
                                  used |-> ToSet(m), had |-> arrived]
            /\ mLastFrame' = t \/ CreateMapInAtlas
      /\ \/ mLastFrame' = Former /\ resetRequested' = TRUE /\ mbCreatedMap' = mbCreatedMap
            /\ mlQueueImuData' = q
         \/ Former # NoTime /\ CreateMapInAtlas
         \/ mLastFrame' = t /\ mbCreatedMap' = FALSE /\ resetRequested' \in BOOLEAN
      /\ arrived' = IF Starts THEN ToSet(mlQueueImuData') \cup ToSet(imuBuffer')
                              ELSE {s \in arrived : s >= mLastFrame' - Period}
  BY TrackRGBDCases, Zenon
<1>. HIDE DEF q, left
<1>4. /\ mLastFrame \in Time \cup {NoTime} /\ Former \in Time \cup {NoTime}
      /\ mLastFrame \in Int /\ Former \in Int /\ NoTime \in Int /\ NoTime < t
      /\ lastStamp["rgb"] \in Int /\ t \in Int /\ Period \in Int
      /\ mLastFrame <= lastStamp["rgb"] /\ Former < t
      /\ arrived \subseteq Time /\ \A s \in arrived : s \in Int
      /\ mbCreatedMap \in BOOLEAN
  <2>1. /\ mLastFrame \in Time \cup {NoTime} /\ arrived \subseteq Time /\ mbCreatedMap \in BOOLEAN
        /\ mLastFrame <= lastStamp["rgb"]
    BY DEF FeedInv, Kinds, Ordered
  <2>2. lastStamp["rgb"] \in Int
    BY TimeIsInt DEF FeedInv, DepthInv, Sorted, Streams
  <2>3. NoTime < t /\ NoTime \in Int /\ t \in Int
    BY TimeIsInt
  <2>4. Former = NoTime \/ Former = mLastFrame
    BY DEF Former
  <2>. QED  BY <2>1, <2>2, <2>3, <2>4, TimeIsInt, FeedAssumption
<1>5. \/ mLastFrame' = Former /\ mbCreatedMap' = mbCreatedMap
      \/ Former # NoTime /\ mLastFrame' = NoTime /\ mbCreatedMap' = TRUE
      \/ mLastFrame' = t
  BY <1>3 DEF CreateMapInAtlas
(* The queue is an end of q. *)
<1>6. \/ mlQueueImuData' = q
      \/ \E n \in Boundary(q, t) .. Len(q) + 1 :
           mlQueueImuData' = SubSeq(q, n, Len(q)) /\ (~Starts => n = Boundary(q, t))
  <2>1. Boundary(q, t) \in Boundary(q, t) .. Len(q) + 1
    <3>1. Boundary(q, t) \in 1 .. Len(q) + 1
      BY <1>1, BoundaryIs
    <3>. QED  BY <3>1
  <2>2. ~mbCreatedMap /\ Former = NoTime => Starts
    BY DEF Starts
  <2>. QED  BY <1>3, <2>1, <2>2, Zenon
<1>7. /\ mlQueueImuData' \in Seq(Time) /\ InOrder(mlQueueImuData')
      /\ ToSet(mlQueueImuData') \subseteq ToSet(q)
      /\ mlQueueImuData' # q => (~Starts => \A s \in ToSet(q) : s \in ToSet(mlQueueImuData') \/ s < t - Period)
  <2>1. CASE mlQueueImuData' = q
    BY <1>1, <2>1
  <2>2. ASSUME NEW n \in Boundary(q, t) .. Len(q) + 1,
               mlQueueImuData' = SubSeq(q, n, Len(q)), ~Starts => n = Boundary(q, t)
        PROVE  /\ mlQueueImuData' \in Seq(Time) /\ InOrder(mlQueueImuData')
               /\ ToSet(mlQueueImuData') \subseteq ToSet(q)
               /\ ~Starts => \A s \in ToSet(q) : s \in ToSet(mlQueueImuData') \/ s < t - Period
    <3>1. LET end == SubSeq(q, n, Len(q))
          IN  /\ end \in Seq(Time) /\ InOrder(end) /\ ToSet(end) \subseteq ToSet(q)
              /\ n = Boundary(q, t) => \A s \in ToSet(q) : s \in ToSet(end) \/ s < t - Period
      BY <1>1, <2>2, RemainderIs
    <3>. QED  BY <2>2, <3>1, Zenon
  <2>. QED  BY <1>6, <2>1, <2>2, Zenon
<1>8. Kinds'
  <2>1. mbCreatedMap' \in BOOLEAN /\ resetRequested' \in BOOLEAN
    <3>1. CASE mLastFrame' = Former /\ resetRequested' = TRUE /\ mbCreatedMap' = mbCreatedMap
      BY <1>4, <3>1, Zenon
    <3>2. CASE CreateMapInAtlas
      BY <3>2, Zenon DEF CreateMapInAtlas
    <3>3. CASE mLastFrame' = t /\ mbCreatedMap' = FALSE /\ resetRequested' \in BOOLEAN
      BY <3>3, Zenon
    <3>. QED  BY <1>3, <3>1, <3>2, <3>3, Zenon
  <2>2. arrived' \subseteq Time
    <3>1. ToSet(q) \subseteq Time /\ ToSet(left) \subseteq Time
      <4>. \A p \in Seq(Time) : ToSet(p) \subseteq Time
        <5>. SUFFICES ASSUME NEW p \in Seq(Time)  PROVE ToSet(p) \subseteq Time
          OBVIOUS
        <5>. QED  BY SamplesAreNumbers
      <4>. QED  BY <1>1
    <3>2. ToSet(mlQueueImuData') \subseteq Time /\ ToSet(imuBuffer') \subseteq Time
      BY <1>2, <1>7, <3>1
    <3>. QED  BY <1>3, <1>4, <3>2
  <2>3. mLastFrame' \in Time \cup {NoTime}
    BY <1>4, <1>5
  <2>4. node' \in {"online", "offline"}
    BY DEF FeedInv, Kinds
  <2>. QED  BY <1>1, <1>2, <1>7, <2>1, <2>2, <2>3, <2>4 DEF Kinds
<1>9. Ordered'
  <2>1. mLastFrame' <= lastStamp'["rgb"]
    BY <1>4, <1>5
  <2>. QED  BY <1>1, <1>2, <1>7, <2>1 DEF Ordered
<1>10. Held'
  <2>. SUFFICES ASSUME NEW s \in arrived'  PROVE InNeed(s)'
    BY DEF Held
  <2>1. CASE Starts
    BY <1>3, <2>1 DEF InNeed
  <2>2. CASE ~Starts
    <3>1. s \in arrived /\ s \in Int
      BY <1>3, <1>4, <2>2
    <3>2. InNeed(s)
      BY <3>1 DEF FeedInv, Held
    <3>3. ~resetRequested /\ Former = mLastFrame /\ (Former = NoTime => mbCreatedMap)
      <4>1. CASE Former = NoTime
        <5>1. ~resetRequested /\ mbCreatedMap
          BY <2>2, <4>1, Zenon DEF Starts
        <5>. QED  BY <5>1 DEF Former
      <4>2. CASE Former # NoTime
        BY <4>2 DEF Former
      <4>. QED  BY <4>1, <4>2
    (* Too old for every interval that starts at or after this image. *)
    <3>4. ASSUME s < t - Period, mLastFrame' = t \/ (mLastFrame' = NoTime /\ mbCreatedMap' = TRUE)
          PROVE  InNeed(s)'
      BY <1>4, <3>4 DEF InNeed
    <3>5. CASE s \in ToSet(mlQueueImuData) \cup ToSet(imuBuffer)
      <4>1. s \in ToSet(q) \cup ToSet(left)
        BY <1>1, <3>3, <3>5
      <4>2. CASE s \in ToSet(mlQueueImuData') \cup ToSet(left)
        BY <1>2, <4>2 DEF InNeed
      <4>3. CASE s \in ToSet(q) /\ s \notin ToSet(mlQueueImuData')
        <5>1. mlQueueImuData' # q
          BY <4>3
        <5>2. s < t - Period
          BY <1>7, <2>2, <4>3, <5>1
        <5>3. mLastFrame' = t \/ CreateMapInAtlas
          BY <1>3, <5>1, Zenon
        <5>4. mLastFrame' = t \/ (mLastFrame' = NoTime /\ mbCreatedMap' = TRUE)
          BY <5>3 DEF CreateMapInAtlas
        <5>. QED  BY <3>4, <5>2, <5>4
      <4>. QED  BY <4>1, <4>2, <4>3
    <3>6. CASE mLastFrame # NoTime /\ s < mLastFrame - Period
      <4>1. s < t - Period
        BY <1>4, <3>1, <3>6
      <4>2. CASE mLastFrame' = Former
        BY <3>3, <3>6, <4>2 DEF InNeed
      <4>. QED  BY <1>5, <3>4, <4>1, <4>2
    <3>7. CASE mLastFrame = NoTime /\ mbCreatedMap /\ s < lastStamp["rgb"] - Period
      <4>1. s < t - Period
        BY <1>4, <3>1, <3>7
      <4>2. Former = NoTime /\ mbCreatedMap = TRUE
        BY <1>4, <3>3, <3>7
      <4>. QED  BY <1>5, <3>4, <4>1, <4>2
    <3>. QED  BY <3>2, <3>5, <3>6, <3>7 DEF InNeed
  <2>. QED  BY <2>1, <2>2
<1>11. SpanCoversFrame' /\ FrameUsesItsSamples'
  <2>1. CASE integrated' = NoSpan
    BY <2>1 DEF SpanCoversFrame, FrameUsesItsSamples, NoSpan
  <2>2. CASE /\ Former # NoTime
             /\ integrated' = [prev |-> Former, cur |-> t,
                               span |-> IntegratedTime(ImuFromLastFrame(q, Former, t), Former, t),
                               used |-> ToSet(ImuFromLastFrame(q, Former, t)), had |-> arrived]
    <3>1. Former \in Time /\ Former < t /\ arrived \in SUBSET Time
      BY <1>4, <2>2
    <3>2. Former = mLastFrame /\ ~resetRequested
      BY <2>2 DEF Former
    <3>3. \A s \in arrived : Former - Period <= s /\ s < t - Period => s \in ToSet(q)
      <4>. SUFFICES ASSUME NEW s \in arrived, Former - Period <= s, s < t - Period
                    PROVE  s \in ToSet(q)
        OBVIOUS
      <4>1. InNeed(s) /\ s \in Int /\ s < t
        BY <1>4, FeedAssumption DEF FeedInv, Held
      <4>2. s \in ToSet(mlQueueImuData) \cup ToSet(imuBuffer)
        BY <1>4, <2>2, <3>2, <4>1 DEF InNeed
      <4>. QED  BY <1>1, <3>2, <4>1, <4>2
    <3>. QED  BY <1>1, <2>2, <3>1, <3>3, IntegrationIs, Zenon
  <2>. QED  BY <1>3, <2>1, <2>2, Zenon
<1>. QED  BY <1>8, <1>9, <1>10, <1>11 DEF FeedInv

LEMMA ImageFeed ==
  ASSUME FeedInv, DepthInv', NEW t \in Time, Delivered("rgb", t), node' = node
  PROVE  /\ /\ UNCHANGED <<imuBuffer, mlQueueImuData, mLastFrame, mbCreatedMap, resetRequested, arrived>>
            /\ integrated' = NoSpan
            => FeedInv'
         /\ LET drained == ImuForFrame(t)
            IN  imuBuffer' = drained.left /\ TrackRGBD(drained.frame, t)
            => FeedInv'
<1>1. /\ lastStamp["rgb"] < t /\ lastStamp'["rgb"] = t
      /\ lastStamp'["imu"] = lastStamp["imu"]
      /\ lastStamp["imu"] \in Int /\ lastStamp["rgb"] \in Int /\ t \in Int
  <2>1. "imu" \in Streams /\ "rgb" \in Streams
    BY DEF Streams
  <2>. QED  BY <2>1, DeliveredIsLater, TimeIsInt DEF FeedInv, DepthInv, Sorted
<1>2. lastStamp'["rgb"] >= lastStamp["rgb"] /\ lastStamp'["imu"] >= lastStamp["imu"]
  BY <1>1
<1>3. Cut(imuBuffer, t, ImuForFrame(t))
  BY ImuIsCut DEF FeedInv, Kinds, Ordered
<1>. QED  BY <1>1, <1>2, <1>3, SamplesKept, TrackRGBDFeed, Zenon

LEMMA NextFeed == ASSUME FeedInv, [Next]_vars PROVE FeedInv'
<1>1. DepthInv'
  BY NextDepth DEF FeedInv
<1>2. ASSUME NEW t \in Time, HandleSyncedImages(t)  PROVE FeedInv'
  <2>1. Delivered("rgb", t) /\ node' = node
    BY <1>2 DEF HandleSyncedImages
  <2>2. \/ /\ UNCHANGED <<imuBuffer, mlQueueImuData, mLastFrame, mbCreatedMap, resetRequested, arrived>>
           /\ integrated' = NoSpan
        \/ LET drained == ImuForFrame(t)
           IN  imuBuffer' = drained.left /\ TrackRGBD(drained.frame, t)
    BY <1>2, Zenon DEF HandleSyncedImages, NothingIntegrated
  <2>. QED  BY <1>1, <2>1, <2>2, ImageFeed, Zenon
<1>3. ASSUME NEW t \in Time, HandleRgb(t)  PROVE FeedInv'
  <2>1. Delivered("rgb", t) /\ node' = node
    BY <1>3 DEF HandleRgb
  <2>2. \/ /\ UNCHANGED <<imuBuffer, mlQueueImuData, mLastFrame, mbCreatedMap, resetRequested, arrived>>
           /\ integrated' = NoSpan
        \/ LET drained == ImuForFrame(t)
           IN  imuBuffer' = drained.left /\ TrackRGBD(drained.frame, t)
    BY <1>3, Zenon DEF HandleRgb, SkipFrame, ProcessFrame, NothingIntegrated
  <2>. QED  BY <1>1, <2>1, <2>2, ImageFeed, Zenon
<1>4. CASE UNCHANGED vars
  <2>1. UNCHANGED <<node, imuBuffer, mlQueueImuData, mLastFrame, mbCreatedMap, resetRequested,
                    lastStamp, arrived, integrated>>
    BY <1>4 DEF vars
  <2>2. Kinds' /\ Ordered' /\ Held'
    BY <2>1 DEF FeedInv, Kinds, Ordered, Held, InNeed
  <2>3. SpanCoversFrame' /\ FrameUsesItsSamples'
    BY <2>1 DEF FeedInv, SpanCoversFrame, FrameUsesItsSamples
  <2>. QED  BY <1>1, <2>2, <2>3 DEF FeedInv
<1>. QED  BY <1>2, <1>3, <1>4, HandleImuFeed, HandleDepthFeed DEF Next

LEMMA FeedInvariant == Spec => []FeedInv
BY InitFeed, NextFeed, PTL DEF Spec

(* Every buffer of the nodes and the queue of Tracking hold stamps within     *)
(* their limits, whatever the skew of the streams.                            *)
THEOREM TypeCorrect == Spec => []TypeOK
<1>1. FeedInv => TypeOK
  BY DEF FeedInv, DepthInv, Sorted, Kinds, TypeOK
<1>. QED  BY <1>1, FeedInvariant, PTL

(* For every period, skew and limit, and every way samples are lost, delayed  *)
(* or passed twice, what PreintegrateIMU integrates for a frame is nothing or *)
(* covers the time since the previous frame with less than a period more.     *)
THEOREM SpanIsCovered == Spec => []SpanCoversFrame
<1>1. FeedInv => SpanCoversFrame
  BY DEF FeedInv
<1>. QED  BY <1>1, FeedInvariant, PTL

(* No sample a node kept is lost between its buffer and the frame that needs  *)
(* it.                                                                        *)
THEOREM SamplesAreUsed == Spec => []FrameUsesItsSamples
<1>1. FeedInv => FrameUsesItsSamples
  BY DEF FeedInv
<1>. QED  BY <1>1, FeedInvariant, PTL
=============================================================================

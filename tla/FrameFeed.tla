----------------------------- MODULE FrameFeed -----------------------------
(***************************************************************************)
(* How inertial samples and depth images reach a frame.  A node buffers    *)
(* what its callbacks or its bag deliver; an RGB image takes the samples   *)
(* and the depth it needs from these buffers, hands them to System::       *)
(* TrackRGBD, and Tracking::PreintegrateIMU integrates what its own queue  *)
(* holds between the previous frame and this one.  There are two nodes:    *)
(*                                                                         *)
(*   "online"   oaslam_vio_node.cpp: the IMU callback fills an ImuBuffer,  *)
(*              a synchronised RGB and depth pair drains it up to its time *)
(*   "offline"  oaslam_offline_vio_node.cpp: one loop reads the bag in     *)
(*              storage order, matches the closest depth, and keeps the    *)
(*              last sample it passes for the next frame                   *)
(*                                                                         *)
(* A sample and a depth image are their time stamps, in ticks.  Samples    *)
(* and images come in the order of their stamps, each stream on its own:   *)
(* a stream may run ahead of another one or behind it.  Samples that never *)
(* come (lost, or dropped because they are not finite) are the gaps.       *)
(***************************************************************************)
EXTENDS SequencesExt, Selection

CONSTANTS
  Period,      \* mImuPer, the nominal time between two samples, in ticks
  MaxTime,     \* bound: the last stamp of a run
  MaxSkew,     \* bound: how far a stream may be behind another one
  MaxImu,      \* the limit of the node's IMU buffer (2000, kMaxImuBufferSize)
  MaxDepth     \* kMaxDepthWindowSize

ASSUME FeedAssumption == /\ Period \in Nat \ {0}
                         /\ MaxTime \in Nat /\ MaxSkew \in Nat
                         /\ MaxImu \in Nat \ {0}
                         /\ MaxDepth \in Nat \ {0}

Time == 0..MaxTime
NoTime == -1
NoMatch == [time |-> NoTime, depth |-> NoTime, window |-> {}]
NoSpan == [prev |-> NoTime, cur |-> NoTime, span |-> 0, used |-> {}, had |-> {}]

VARIABLES
  node,            \* which of the two nodes runs
  imuBuffer,       \* imu_buffer_ of the online node, imu_buffer of the offline one
  depthWindow,     \* depth_window of the offline node
  mlQueueImuData,  \* the samples Tracking holds
  mLastFrame,      \* mLastFrame.mTimeStamp; NoTime for a default-constructed frame
  mbCreatedMap,    \* a map was created by the last frame: the next one does not integrate
  resetRequested,  \* mbResetActiveMap of System
  lastStamp,       \* the last stamp each stream has delivered
  arrived,         \* history: the samples the node kept, less those its limit dropped
  depths,          \* history: the depth images the node kept, less those its limit dropped
                   \* and those older than one so dropped
  match,           \* the depth match of this step: image, depth, and what there was to match
  integrated       \* the integration of this step: interval, time integrated, samples used and held

vars == <<node, imuBuffer, depthWindow, mlQueueImuData, mLastFrame, mbCreatedMap,
          resetRequested, lastStamp, arrived, depths, match, integrated>>

Streams == {"imu", "depth", "rgb"}

TypeOK ==
  /\ node \in {"online", "offline"}
  /\ imuBuffer \in Seq(Time) /\ Len(imuBuffer) <= MaxImu
  /\ depthWindow \in Seq(Time) /\ Len(depthWindow) <= MaxDepth
  /\ mlQueueImuData \in Seq(Time)
  /\ mLastFrame \in Time \cup {NoTime}
  /\ mbCreatedMap \in BOOLEAN /\ resetRequested \in BOOLEAN
  /\ lastStamp \in [Streams -> Time \cup {NoTime}]
  /\ arrived \subseteq Time /\ depths \subseteq Time

Init ==
  /\ node \in {"online", "offline"}
  /\ imuBuffer = << >> /\ depthWindow = << >> /\ mlQueueImuData = << >>
  /\ mLastFrame = NoTime /\ mbCreatedMap = FALSE /\ resetRequested = FALSE
  /\ lastStamp = [s \in Streams |-> NoTime]
  /\ arrived = {} /\ depths = {}
  /\ match = NoMatch /\ integrated = NoSpan

Delivered(stream, t) == /\ t > lastStamp[stream]
                        /\ \A s \in Streams : t + MaxSkew >= lastStamp[s]
                        /\ lastStamp' = [lastStamp EXCEPT ![stream] = t]

(* push_back, then pop_front while the limit is exceeded. *)
\* Mutant of PushBounded: the buffer has no limit.
PushUnbounded(q, t, limit) == Append(q, t)
PushBounded(q, t, limit) == IF Len(q) = limit THEN Append(Tail(q), t) ELSE Append(q, t)
DroppedByLimit(q, limit) == IF Len(q) = limit THEN {Head(q)} ELSE {}

NothingMatched == match' = NoMatch
NothingIntegrated == integrated' = NoSpan

-----------------------------------------------------------------------------
(* The IMU callback and the IMU branch of the bag loop. *)
HandleImu(t) ==
  /\ Delivered("imu", t)
  /\ imuBuffer' = PushBounded(imuBuffer, t, MaxImu)
  /\ arrived' = (arrived \ DroppedByLimit(imuBuffer, MaxImu)) \cup {t}
  /\ NothingMatched /\ NothingIntegrated
  /\ UNCHANGED <<node, depthWindow, mlQueueImuData, mLastFrame, mbCreatedMap,
                 resetRequested, depths>>

(* The depth branch of the bag loop. *)
HandleDepth(t) ==
  /\ node = "offline"
  /\ Delivered("depth", t)
  /\ depthWindow' = PushBounded(depthWindow, t, MaxDepth)
  /\ depths' = {d \in depths : \A s \in DroppedByLimit(depthWindow, MaxDepth) : d > s} \cup {t}
  /\ NothingMatched /\ NothingIntegrated
  /\ UNCHANGED <<node, imuBuffer, mlQueueImuData, mLastFrame, mbCreatedMap,
                 resetRequested, arrived>>

Distance(a, b) == IF a >= b THEN a - b ELSE b - a

(* The first index of the window at the smallest distance from the image. *)
IsBestDepthIdx(window, t, d) ==
  /\ \A e \in DOMAIN window : Distance(window[d], t) <= Distance(window[e], t)
  /\ \A e \in 1..(d - 1) : Distance(window[d], t) < Distance(window[e], t)

(* Entries older than the matched one leave the window. *)
\* Mutant of EvictStaleDepth: the matched entry leaves too.
EvictMatchedToo(window, best) == SubSeq(window, best + 1, Len(window))
EvictStaleDepth(window, best) == SubSeq(window, best, Len(window))

-----------------------------------------------------------------------------
(* What the node takes from its buffer for an image at t, and what is left:    *)
(* ImuBuffer::drainUntil takes every sample up to t; the bag loop takes those  *)
(* before t while more than one is left, then passes the front and keeps it.   *)
DrainUntil(q, t) ==
  LET n == IF \E i \in DOMAIN q : q[i] > t
           THEN (CHOOSE i \in DOMAIN q : q[i] > t /\ \A j \in 1..(i - 1) : q[j] <= t) - 1
           ELSE Len(q)
  IN  [frame |-> SubSeq(q, 1, n), left |-> SubSeq(q, n + 1, Len(q))]

DrainKeepingBoundary(q, t) ==
  IF q = << >> THEN [frame |-> << >>, left |-> << >>]
  ELSE LET b == CHOOSE i \in DOMAIN q : /\ q[i] >= t \/ i = Len(q)
                                        /\ \A j \in 1..(i - 1) : q[j] < t
       IN  [frame |-> SubSeq(q, 1, b), left |-> SubSeq(q, b, Len(q))]

ImuForFrame(t) == IF node = "online" THEN DrainUntil(imuBuffer, t)
                                     ELSE DrainKeepingBoundary(imuBuffer, t)

-----------------------------------------------------------------------------
(* The loop of PreintegrateIMU over its queue: samples older than the          *)
(* previous frame by more than a period are dropped, those before the frame    *)
(* less a period are collected, and the first other one is collected but kept. *)
Boundary(q, cur) ==
  IF \E i \in DOMAIN q : q[i] >= cur - Period
  THEN CHOOSE i \in DOMAIN q : q[i] >= cur - Period /\ \A j \in 1..(i - 1) : q[j] < cur - Period
  ELSE Len(q) + 1

\* Mutant of ImuFromLastFrame: no sample is too old.
ImuUpToFrame(q, prev, cur) ==
  SubSeq(q, 1, IF Boundary(q, cur) <= Len(q) THEN Boundary(q, cur) ELSE Len(q))
ImuFromLastFrame(q, prev, cur) ==
  LET b == Boundary(q, cur)
      recent == {s \in Time : s >= prev - Period}
  IN  Keep(SubSeq(q, 1, b - 1), recent)
        \o IF b <= Len(q) /\ q[b] \in recent THEN <<q[b]>> ELSE << >>

\* Mutant of LeftInQueue: the boundary sample is popped.
LeftAfterBoundary(q, cur) == SubSeq(q, Boundary(q, cur) + 1, Len(q))
LeftInQueue(q, cur) == SubSeq(q, Boundary(q, cur), Len(q))

(* tstep of step i out of n = size - 1, the samples m, and the time integrated *)
(* over all steps: steps that are not positive are skipped.                    *)
TStep(m, i, prev, cur) ==
  LET n == Len(m) - 1
  IN  CASE i = 1 /\ i < n -> m[2] - prev
        [] i > 1 /\ i < n -> m[i + 1] - m[i]
        [] i > 1 /\ i = n -> cur - m[i]
        [] i = 1 /\ i = n -> cur - prev

TimeOfStep(m, i, prev, cur) ==
  IF i < Len(m) /\ TStep(m, i, prev, cur) > 0 THEN TStep(m, i, prev, cur) ELSE 0

IntegratedTime(m, prev, cur) ==
  LET sum[i \in 1 .. Len(m)] ==
        (IF i = 1 THEN 0 ELSE sum[i - 1]) + TimeOfStep(m, i, prev, cur)
  IN  IF m = << >> THEN 0 ELSE sum[Len(m)]

(* Tracking::PreintegrateIMU with samples q queued.  The time stamp of a frame *)
(* made by the default constructor is never set: where the interval starts is  *)
(* then arbitrary, no span is recorded, and samples after the frame may go.    *)
PreintegrateIMU(q, prev, cur) ==
  IF prev = NoTime
  THEN /\ \E n \in Boundary(q, cur)..(Len(q) + 1) : mlQueueImuData' = SubSeq(q, n, Len(q))
       /\ NothingIntegrated
  ELSE LET m == ImuFromLastFrame(q, prev, cur)
       IN  /\ mlQueueImuData' = LeftInQueue(q, cur)
           /\ integrated' = [prev |-> prev, cur |-> cur,
                             span |-> IntegratedTime(m, prev, cur),
                             used |-> ToSet(m), had |-> arrived]

CreateMapInAtlas == /\ mLastFrame' = NoTime
                    /\ mbCreatedMap' = TRUE
                    /\ resetRequested' = FALSE

(* System::TrackRGBD: the reset that was asked is done first, then the samples *)
(* are queued, then Track runs.  Track may return before it integrates, having *)
(* asked for a reset (bad IMU, a jump before the map is mature) or created a   *)
(* map (a jump in a mature one).  Otherwise it integrates, unless the frame    *)
(* before created a map; then it creates a map (lost), or the frame becomes    *)
(* mLastFrame, and it may have asked for a reset.  The history starts again    *)
(* with what is still held when a reset, or a frame without a previous one,    *)
(* has dropped samples, and forgets those no later interval can contain.       *)
TrackRGBD(samples, cur) ==
  LET q == (IF resetRequested THEN << >> ELSE mlQueueImuData) \o samples
      last == IF resetRequested THEN NoTime ELSE mLastFrame
  IN  /\ \/ /\ mlQueueImuData' = q
            /\ NothingIntegrated
            /\ \/ /\ mLastFrame' = last
                  /\ resetRequested' = TRUE
                  /\ UNCHANGED mbCreatedMap
               \/ last # NoTime /\ CreateMapInAtlas
         \/ /\ IF mbCreatedMap
               THEN mlQueueImuData' = q /\ NothingIntegrated
               ELSE PreintegrateIMU(q, last, cur)
            /\ \/ mLastFrame' = cur /\ mbCreatedMap' = FALSE /\ resetRequested' \in BOOLEAN
               \/ last # NoTime /\ CreateMapInAtlas
      /\ arrived' = IF last = NoTime /\ (resetRequested \/ ~mbCreatedMap)
                    THEN ToSet(mlQueueImuData') \cup ToSet(imuBuffer')
                    ELSE {s \in arrived : s >= mLastFrame' - Period}

-----------------------------------------------------------------------------
(* HandleSyncedImages of the online node: a failed conversion drops the image  *)
(* before the buffer is drained.                                               *)
HandleSyncedImages(t) ==
  /\ node = "online"
  /\ Delivered("rgb", t)
  /\ \/ LET drained == ImuForFrame(t)
        IN  imuBuffer' = drained.left /\ TrackRGBD(drained.frame, t)
     \/ /\ NothingIntegrated
        /\ UNCHANGED <<imuBuffer, mlQueueImuData, mLastFrame, mbCreatedMap, resetRequested,
                       arrived>>
  /\ NothingMatched
  /\ UNCHANGED <<node, depthWindow, depths>>

(* The RGB branch of the bag loop.  Without a depth image, or when one of the  *)
(* two cannot be used, the frame is skipped and nothing leaves the buffers.    *)
SkipFrame ==
  /\ NothingMatched /\ NothingIntegrated
  /\ UNCHANGED <<imuBuffer, depthWindow, mlQueueImuData, mLastFrame, mbCreatedMap,
                 resetRequested, arrived>>

ProcessFrame(t) ==
  /\ \E best \in DOMAIN depthWindow :
       /\ IsBestDepthIdx(depthWindow, t, best)
       /\ depthWindow' = EvictStaleDepth(depthWindow, best)
       /\ match' = [time |-> t, depth |-> depthWindow[best], window |-> depths]
  /\ LET drained == ImuForFrame(t)
     IN  imuBuffer' = drained.left /\ TrackRGBD(drained.frame, t)

HandleRgb(t) ==
  /\ node = "offline"
  /\ Delivered("rgb", t)
  /\ SkipFrame \/ ProcessFrame(t)
  /\ UNCHANGED <<node, depths>>

Next == \E t \in Time : \/ HandleImu(t) \/ HandleDepth(t)
                        \/ HandleSyncedImages(t) \/ HandleRgb(t)

Spec == Init /\ [][Next]_vars

-----------------------------------------------------------------------------
(* The time integrated for a frame is nothing at all, when fewer than two      *)
(* samples are at hand, or covers the interval since the previous frame and    *)
(* exceeds it by less than a sampling period, however the samples were         *)
(* delayed, lost or passed twice: the sum of steps of PreintegrateIMU          *)
(* (Tracking.cc:1842-1908) over the queue the nodes fill.                      *)
SpanCoversFrame ==
  LET excess == integrated.span - (integrated.cur - integrated.prev)
  IN  integrated.span = 0 \/ excess \in 0..Period

(* No sample is lost on its way: each one a node kept, within a period of the  *)
(* interval's start and not within a period of its end, is integrated for the  *)
(* frame.  drainUntil, the loop that keeps the boundary sample, and the queue  *)
(* of Tracking agree on where an interval begins and ends.                     *)
FrameUsesItsSamples ==
  {s \in integrated.had : integrated.prev - Period <= s /\ s < integrated.cur - Period}
     \subseteq integrated.used

(* "Depth entries older than the matched one will never be a better match for  *)
(* any future RGB" (oaslam_offline_vio_node.cpp:370): the depth matched with   *)
(* an image is the closest of all that came since the last one the window's    *)
(* limit dropped, although earlier matches evicted entries.                    *)
ClosestDepthIsMatched ==
  \A d \in match.window : Distance(match.depth, match.time) <= Distance(d, match.time)

(* A node that collects "all IMU measurements between the previous frame and   *)
(* the current frame" (oaslam_offline_vio_node.cpp:384) makes the integration  *)
(* cover that interval when it covers anything.                                *)
SpanIsTheInterval ==
  node = "offline" => integrated.span \in {0, integrated.cur - integrated.prev}

=============================================================================

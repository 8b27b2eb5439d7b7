----------------------------- MODULE MapPoints -----------------------------
(***************************************************************************)
(* Which map point each feature of a keyframe shows, and which keyframes   *)
(* each map point is observed in.                                          *)
(*                                                                         *)
(* The two sides are kept by different objects under different mutexes     *)
(* (MapPoint::mObservations, KeyFrame::mvpMapPoints) and changed by three  *)
(* threads.  Every function below is one call under one lock; a function   *)
(* that goes on with other calls leaves them in its thread's list "calls", *)
(* where the calls of other threads come in between.                       *)
(*                                                                         *)
(* Each observation has one index (one camera, with depth at some          *)
(* features).  Matching, triangulation and optimisation are choices among  *)
(* the outcomes their code allows.  The handshake by which local mapping   *)
(* stops for loop closing is in SlamThreads; here it is one step.          *)
(***************************************************************************)
EXTENDS Integers, Sequences, FiniteSets, Functions

CONSTANTS
  MaxKeyFrames, MaxPoints,  \* bounds, as is
  MaxLoops,                 \* how many loops are corrected
  Features,                 \* indices of the features of a keyframe
  DepthFeatures,            \* those with mvuRight >= 0
  ThObs,                    \* 3: more observations make a point redundant
  MinKeyFrames              \* 12: no loops are detected in smaller maps

ASSUME MapPointsAssumption ==
  /\ MaxKeyFrames \in Nat /\ MaxPoints \in Nat /\ ThObs \in Nat /\ MinKeyFrames \in Nat /\ MaxLoops \in Nat
  /\ Features \subseteq Nat /\ IsFiniteSet(Features) /\ DepthFeatures \subseteq Features

KeyFrames == 1..MaxKeyFrames
Points == 1..MaxPoints
Threads == {"mapping", "looping"}
None == 0          \* NULL
NoMatch == [idx |-> 0, mp |-> None]
NoMatches == [i \in Features |-> None]

VARIABLES
  mObservations, nObs, mpRefKF, mbBad, mpReplaced,  \* of the map points; mbBad is a set
  mspMapPoints, mspKeyFrames,                       \* of the map
  mvpMapPoints, badKFs, mbNotErase, mbToBeErased,   \* of the keyframes; three sets
  erasedLate,                                       \* history: those loop closing made up for
  points, keyFrames,                                \* how many have been made
  calls,                                            \* what each thread has yet to call
  mMutexMapUpdate,                                  \* the thread that holds it, or "free"
  tracker, frame,                                   \* Tracking: where it is, mvpMapPoints of the frame
  mlNewKeyFrames, mapper, mpCurrentKF, mlpRecentAddedMapPoints,     \* local mapping
  mlpLoopKeyFrameQueue, looper, mpLoopKF, matched, vpReplacePoints  \* loop closing

pointVars == <<mObservations, nObs, mpRefKF, mbBad, mpReplaced>>
keyFrameVars == <<badKFs, mbNotErase, mbToBeErased, erasedLate>>
mapVars == <<mspMapPoints, mspKeyFrames>>
madeVars == <<points, keyFrames>>
trackVars == <<tracker, frame>>
lmVars == <<mapper, mpCurrentKF>>
lcVars == <<mlpLoopKeyFrameQueue, looper, mpLoopKF, matched, vpReplacePoints>>
vars == <<pointVars, mapVars, mvpMapPoints, keyFrameVars, madeVars, calls, mMutexMapUpdate, trackVars,
          mlNewKeyFrames, lmVars, mlpRecentAddedMapPoints, lcVars>>

Good == (1..points) \ mbBad
Live == mspKeyFrames \ badKFs
Observers(p) == DOMAIN mObservations[p]
Matches(k) == {mvpMapPoints[k][i] : i \in Features} \ {None}
ObservedAt(f, k, i) == [o \in DOMAIN f \union {k} |-> IF o = k THEN i ELSE f[o]]   \* mObservations[k] = i
Weight(i) == IF i \in DepthFeatures THEN 2 ELSE 1
ObservedWeight(p) == Cardinality(Observers(p)) + Cardinality({k \in Observers(p) : mObservations[p][k] \in DepthFeatures})
Orders(S) == Bijection(1..Cardinality(S), S)         \* a std::map of pointers: any order
Ascending(S) == {s \in Orders(S) : \A m, n \in DOMAIN s : m < n => s[m] < s[n]}   \* a loop over indices

-----------------------------------------------------------------------------
(* The calls. *)

AddObservationOf(p, k, i) == [do |-> "AddObservation", mp |-> p, kf |-> k, idx |-> i]
EraseObservationOf(p, k) == [do |-> "EraseObservation", mp |-> p, kf |-> k]
SetBadFlagOf(p) == [do |-> "SetBadFlag", mp |-> p]
ReplaceBy(p, q) == [do |-> "Replace", mp |-> p, by |-> q]
MoveObservation(q, k, i) == [do |-> "MoveObservation", mp |-> q, kf |-> k, idx |-> i]
SetMatch(k, i, p) == [do |-> "SetMatch", mp |-> p, kf |-> k, idx |-> i]
EraseMatch(k, p) == [do |-> "EraseMatch", mp |-> p, kf |-> k]
Forget(k, i) == [do |-> "Forget", kf |-> k, idx |-> i]
MarkBad(k) == [do |-> "MarkBad", kf |-> k]
Associate(p, k, i) == [do |-> "Associate", mp |-> p, kf |-> k, idx |-> i]
AddToMap(p) == [do |-> "AddToMap", mp |-> p]
EraseFromMap(p) == [do |-> "EraseFromMap", mp |-> p]
InsertInMap(k) == [do |-> "InsertInMap", kf |-> k]
Unlock == [do |-> "Unlock"]

MakeObserved(p, k, i) == <<AddObservationOf(p, k, i), SetMatch(k, i, p)>>
EraseKeyFrame(k, is) == [n \in 1..Len(is) |-> Forget(k, is[n])] \o <<MarkBad(k)>>

Idle(t) == calls[t] = <<>>
Calls(t, name) == calls[t] # <<>> /\ Head(calls[t]).do = name
Return(t, further) == calls' = [calls EXCEPT ![t] = further \o Tail(@)]
Call(t, list) == calls' = [calls EXCEPT ![t] = list]

(* What a call leaves alone. *)
OnlyPoints == UNCHANGED <<mapVars, mvpMapPoints, keyFrameVars, madeVars, mMutexMapUpdate, trackVars,
                          mlNewKeyFrames, lmVars, mlpRecentAddedMapPoints, lcVars>>
ButPoints == UNCHANGED <<pointVars, madeVars, trackVars, lmVars, lcVars>>

\* Mutant of AddObservation: a feature with depth counts once.
AddObservationOnce(t) ==
  /\ Calls(t, "AddObservation")
  /\ LET c == Head(calls[t]) IN
     /\ mObservations' = [mObservations EXCEPT ![c.mp] = ObservedAt(@, c.kf, c.idx)]
     /\ nObs' = [nObs EXCEPT ![c.mp] = @ + 1]
     /\ Return(t, <<>>)
  /\ UNCHANGED <<mpRefKF, mbBad, mpReplaced>> /\ OnlyPoints

AddObservation(t) ==
  /\ Calls(t, "AddObservation")
  /\ LET c == Head(calls[t]) IN
     /\ mObservations' = [mObservations EXCEPT ![c.mp] = ObservedAt(@, c.kf, c.idx)]
     /\ nObs' = [nObs EXCEPT ![c.mp] = @ + Weight(c.idx)]
     /\ Return(t, <<>>)
  /\ UNCHANGED <<mpRefKF, mbBad, mpReplaced>> /\ OnlyPoints

\* Mutant of EraseObservation: the reference keyframe stays.
EraseObservationKeepsReference(t) ==
  /\ Calls(t, "EraseObservation")
  /\ LET p == Head(calls[t]).mp
         k == Head(calls[t]).kf
         left == Observers(p) \ {k}
     IN IF k \notin Observers(p)
        THEN Return(t, <<>>) /\ UNCHANGED <<mObservations, nObs, mpRefKF>>
        ELSE /\ mObservations' = [mObservations EXCEPT ![p] = [o \in left |-> @[o]]]
             /\ nObs' = [nObs EXCEPT ![p] = @ - Weight(mObservations[p][k])]
             /\ UNCHANGED mpRefKF
             /\ Return(t, IF nObs'[p] <= 2 THEN <<SetBadFlagOf(p)>> ELSE <<>>)
  /\ UNCHANGED <<mbBad, mpReplaced>> /\ OnlyPoints

(* An empty mObservations leaves mpRefKF to whatever lies behind end(). *)
EraseObservation(t) ==
  /\ Calls(t, "EraseObservation")
  /\ LET p == Head(calls[t]).mp
         k == Head(calls[t]).kf
         left == Observers(p) \ {k}
     IN IF k \notin Observers(p)
        THEN Return(t, <<>>) /\ UNCHANGED <<mObservations, nObs, mpRefKF>>
        ELSE /\ mObservations' = [mObservations EXCEPT ![p] = [o \in left |-> @[o]]]
             /\ nObs' = [nObs EXCEPT ![p] = @ - Weight(mObservations[p][k])]
             /\ \E first \in IF left = {} THEN {None} ELSE left :
                   mpRefKF' = [mpRefKF EXCEPT ![p] = IF @ = k THEN first ELSE @]
             /\ Return(t, IF nObs'[p] <= 2 THEN <<SetBadFlagOf(p)>> ELSE <<>>)
  /\ UNCHANGED <<mbBad, mpReplaced>> /\ OnlyPoints

(* The observations are taken under the lock and undone after it. *)
TakeObservations(p) ==
  /\ mbBad' = mbBad \union {p}
  /\ mObservations' = [mObservations EXCEPT ![p] = <<>>]

SetBadFlag(t) ==
  /\ Calls(t, "SetBadFlag")
  /\ LET p == Head(calls[t]).mp IN
     /\ TakeObservations(p)
     /\ \E ks \in Orders(Observers(p)) :
           Return(t, Append([n \in 1..Len(ks) |-> SetMatch(ks[n], mObservations[p][ks[n]], None)], EraseFromMap(p)))
  /\ UNCHANGED <<nObs, mpRefKF, mpReplaced>> /\ OnlyPoints

\* Mutant of Replace: the replaced point stays in the map.
ReplaceKeepsPoint(t) ==
  /\ Calls(t, "Replace")
  /\ LET p == Head(calls[t]).mp
         q == Head(calls[t]).by
     IN IF p = q
        THEN Return(t, <<>>) /\ UNCHANGED <<mObservations, mbBad, mpReplaced>>
        ELSE /\ TakeObservations(p)
             /\ mpReplaced' = [mpReplaced EXCEPT ![p] = q]
             /\ \E ks \in Orders(Observers(p)) :
                   Return(t, [n \in 1..Len(ks) |-> MoveObservation(q, ks[n], mObservations[p][ks[n]])])
  /\ UNCHANGED <<nObs, mpRefKF>> /\ OnlyPoints

Replace(t) ==
  /\ Calls(t, "Replace")
  /\ LET p == Head(calls[t]).mp
         q == Head(calls[t]).by
     IN IF p = q
        THEN Return(t, <<>>) /\ UNCHANGED <<mObservations, mbBad, mpReplaced>>
        ELSE /\ TakeObservations(p)
             /\ mpReplaced' = [mpReplaced EXCEPT ![p] = q]
             /\ \E ks \in Orders(Observers(p)) :
                   Return(t, Append([n \in 1..Len(ks) |-> MoveObservation(q, ks[n], mObservations[p][ks[n]])], EraseFromMap(p)))
  /\ UNCHANGED <<nObs, mpRefKF>> /\ OnlyPoints

(* The loop of Replace: IsInKeyFrame, then the keyframe's slot, then the point. *)
MoveOne(t) ==
  /\ Calls(t, "MoveObservation")
  /\ LET c == Head(calls[t]) IN
     Return(t, IF c.kf \in Observers(c.mp) THEN <<SetMatch(c.kf, c.idx, None)>>
               ELSE <<SetMatch(c.kf, c.idx, c.mp), AddObservationOf(c.mp, c.kf, c.idx)>>)
  /\ UNCHANGED pointVars /\ OnlyPoints

(* AddMapPoint, ReplaceMapPointMatch and EraseMapPointMatch by index. *)
SetMapPointMatch(t) ==
  /\ Calls(t, "SetMatch")
  /\ LET c == Head(calls[t]) IN mvpMapPoints' = [mvpMapPoints EXCEPT ![c.kf][c.idx] = c.mp]
  /\ Return(t, <<>>)
  /\ ButPoints /\ UNCHANGED <<mapVars, keyFrameVars, mMutexMapUpdate, mlNewKeyFrames, mlpRecentAddedMapPoints>>

EraseMapPointMatch(t) ==
  /\ Calls(t, "EraseMatch")
  /\ LET c == Head(calls[t]) IN
     Return(t, IF c.kf \in Observers(c.mp) THEN <<SetMatch(c.kf, mObservations[c.mp][c.kf], None)>> ELSE <<>>)
  /\ UNCHANGED pointVars /\ OnlyPoints

(* KeyFrame::SetBadFlag: one turn of its loop over mvpMapPoints, and its end. *)
ForgetMatch(t) ==
  /\ Calls(t, "Forget")
  /\ LET k == Head(calls[t]).kf
         p == mvpMapPoints[k][Head(calls[t]).idx]
     IN Return(t, IF p = None THEN <<>> ELSE <<EraseObservationOf(p, k)>>)
  /\ UNCHANGED pointVars /\ OnlyPoints

MarkKeyFrameBad(t) ==
  /\ Calls(t, "MarkBad")
  /\ badKFs' = badKFs \union {Head(calls[t]).kf}
  /\ mspKeyFrames' = mspKeyFrames \ {Head(calls[t]).kf}
  /\ Return(t, <<>>)
  /\ ButPoints
  /\ UNCHANGED <<mspMapPoints, mvpMapPoints, mbNotErase, mbToBeErased, erasedLate, mMutexMapUpdate, mlNewKeyFrames,
               mlpRecentAddedMapPoints>>

(* ProcessNewKeyFrame: one turn of its loop over the matches of the keyframe. *)
AssociateMapPoint(t) ==
  /\ Calls(t, "Associate")
  /\ LET c == Head(calls[t])
         new == c.mp \in Good /\ c.kf \notin Observers(c.mp)
     IN /\ Return(t, IF new THEN <<AddObservationOf(c.mp, c.kf, c.idx)>> ELSE <<>>)
        /\ mlpRecentAddedMapPoints' = mlpRecentAddedMapPoints \union (IF new THEN {} ELSE {c.mp} \intersect Good)
  /\ ButPoints /\ UNCHANGED <<mapVars, mvpMapPoints, keyFrameVars, mMutexMapUpdate, mlNewKeyFrames>>

(* Map::AddMapPoint and EraseMapPoint, Atlas::AddKeyFrame. *)
UpdateMap(t) ==
  /\ \/ /\ Calls(t, "AddToMap")
        /\ mspMapPoints' = mspMapPoints \union {Head(calls[t]).mp} /\ UNCHANGED mspKeyFrames
     \/ /\ Calls(t, "EraseFromMap")
        /\ mspMapPoints' = mspMapPoints \ {Head(calls[t]).mp} /\ UNCHANGED mspKeyFrames
     \/ /\ Calls(t, "InsertInMap")
        /\ mspKeyFrames' = mspKeyFrames \union {Head(calls[t]).kf} /\ UNCHANGED mspMapPoints
  /\ Return(t, <<>>)
  /\ ButPoints /\ UNCHANGED <<mvpMapPoints, keyFrameVars, mMutexMapUpdate, mlNewKeyFrames, mlpRecentAddedMapPoints>>

UnlockMapUpdate(t) ==
  /\ Calls(t, "Unlock")
  /\ mMutexMapUpdate' = "free"
  /\ Return(t, <<>>)
  /\ ButPoints /\ UNCHANGED <<mapVars, mvpMapPoints, keyFrameVars, mlNewKeyFrames, mlpRecentAddedMapPoints>>

RunCall(t) ==
  \/ AddObservation(t) \/ EraseObservation(t) \/ SetBadFlag(t) \/ Replace(t) \/ MoveOne(t)
  \/ SetMapPointMatch(t) \/ EraseMapPointMatch(t) \/ ForgetMatch(t) \/ MarkKeyFrameBad(t)
  \/ AssociateMapPoint(t) \/ UpdateMap(t) \/ UnlockMapUpdate(t)

-----------------------------------------------------------------------------
(* Tracking: Track holds mMutexMapUpdate from the first read to the keyframe. *)

TrackRest == <<mapVars, keyFrameVars, mlNewKeyFrames, lmVars, mlpRecentAddedMapPoints, lcVars>>

CheckReplacedInLastFrame ==
  /\ tracker = "idle" /\ mMutexMapUpdate = "free" /\ keyFrames < MaxKeyFrames   \* bound
  /\ mMutexMapUpdate' = "tracking" /\ tracker' = "match"
  /\ frame' = [i \in Features |-> IF frame[i] # None /\ mpReplaced[frame[i]] # None THEN mpReplaced[frame[i]] ELSE frame[i]]
  /\ UNCHANGED <<pointVars, mvpMapPoints, madeVars, calls, TrackRest>>

(* The motion model matches each match of the last frame to one feature of *)
(* the new frame; SearchLocalPoints drops bad points and adds points of    *)
(* the local keyframes the frame does not have.                            *)
MatchedFrame(cur) ==
  \A p \in Good :
    LET n == Cardinality({i \in Features : cur[i] = p})
        last == Cardinality({i \in Features : frame[i] = p})
    IN n > 0 => n <= last \/ (n = 1 /\ \E k \in 1..keyFrames : p \in Matches(k))

TrackLocalMap ==
  /\ tracker = "match"
  /\ \E cur \in [Features -> Good \union {None}] : MatchedFrame(cur) /\ frame' = cur
  /\ tracker' = "matched"
  /\ UNCHANGED <<pointVars, mvpMapPoints, madeVars, calls, mMutexMapUpdate, TrackRest>>

EndFrame ==
  /\ tracker = "matched"
  /\ tracker' = "idle" /\ mMutexMapUpdate' = "free"
  /\ UNCHANGED <<pointVars, mvpMapPoints, madeVars, calls, frame, TrackRest>>

(* StereoInitialization too, when nothing is matched.  A match may have    *)
(* become bad by now.  Features with depth and without observed match may  *)
(* get a point of their own.  Nobody else knows the new objects before     *)
(* InsertKeyFrame, so that one step stands for the calls that make them.   *)
CreateNewKeyFrame ==
  /\ tracker = "matched" /\ keyFrames < MaxKeyFrames
  /\ \E S \in SUBSET {i \in DepthFeatures : frame[i] = None \/ nObs[frame[i]] < 1} : \E is \in Ascending(S) :
        LET k == keyFrames + 1
            new == (points + 1)..(points + Len(is))
            idx(p) == is[p - points]
        IN /\ points + Len(is) <= MaxPoints
           /\ keyFrames' = k /\ points' = points + Len(is)
           /\ mpRefKF' = [p \in Points |-> IF p \in new THEN k ELSE mpRefKF[p]]
           /\ mObservations' = [p \in Points |-> IF p \in new THEN [o \in {k} |-> idx(p)] ELSE mObservations[p]]
           /\ nObs' = [p \in Points |-> IF p \in new THEN Weight(idx(p)) ELSE nObs[p]]
           /\ mvpMapPoints' = [mvpMapPoints EXCEPT ![k] =
                                  [i \in Features |-> IF i \in S THEN CHOOSE p \in new : idx(p) = i ELSE frame[i]]]
           /\ frame' = IF k < MaxKeyFrames THEN mvpMapPoints'[k] ELSE NoMatches   \* bound: no frame follows
           /\ mspMapPoints' = mspMapPoints \union new
           /\ mlNewKeyFrames' = Append(mlNewKeyFrames, k)
  /\ tracker' = "idle" /\ mMutexMapUpdate' = "free"
  /\ UNCHANGED <<mbBad, mpReplaced, mspKeyFrames, keyFrameVars, calls, lmVars, mlpRecentAddedMapPoints, lcVars>>

-----------------------------------------------------------------------------
(* Local mapping. *)

MappingRest == <<mvpMapPoints, keyFrameVars, mapVars, trackVars, lcVars>>

ProcessNewKeyFrame ==
  /\ mapper = "idle" /\ mlNewKeyFrames # <<>>
  /\ LET k == Head(mlNewKeyFrames) IN
     /\ mpCurrentKF' = k
     /\ \E is \in Ascending({i \in Features : mvpMapPoints[k][i] # None}) :
           Call("mapping", Append([n \in 1..Len(is) |-> Associate(mvpMapPoints[k][is[n]], k, is[n])], InsertInMap(k)))
  /\ mlNewKeyFrames' = Tail(mlNewKeyFrames) /\ mapper' = "cull"
  /\ UNCHANGED <<pointVars, madeVars, mMutexMapUpdate, mlpRecentAddedMapPoints, MappingRest>>

(* A found ratio that is too low, or too few observations for its age,     *)
(* makes a recent point bad; an old or bad one leaves the list.            *)
MapPointCulling ==
  /\ mapper = "cull" /\ Idle("mapping")
  /\ \E p \in mlpRecentAddedMapPoints :
        /\ mlpRecentAddedMapPoints' = mlpRecentAddedMapPoints \ {p}
        /\ \/ p \in Good /\ Call("mapping", <<SetBadFlagOf(p)>>)
           \/ UNCHANGED calls
  /\ UNCHANGED <<pointVars, madeVars, mMutexMapUpdate, mlNewKeyFrames, lmVars, MappingRest>>

CreateNewMapPoints ==
  /\ mapper \in {"cull", "create"} /\ Idle("mapping") /\ points < MaxPoints
  /\ mapper' = "create"
  /\ \E k \in Live \ {mpCurrentKF}, i \in Features, j \in Features :
        /\ mvpMapPoints[mpCurrentKF][i] = None /\ mvpMapPoints[k][j] = None
        /\ LET p == points + 1 IN
           /\ points' = p
           /\ mpRefKF' = [mpRefKF EXCEPT ![p] = mpCurrentKF]
           /\ Call("mapping", <<AddObservationOf(p, mpCurrentKF, i), AddObservationOf(p, k, j),
                                SetMatch(mpCurrentKF, i, p), SetMatch(k, j, p), AddToMap(p)>>)
           /\ mlpRecentAddedMapPoints' = mlpRecentAddedMapPoints \union {p}
  /\ UNCHANGED <<mObservations, nObs, mbBad, mpReplaced, keyFrames, mMutexMapUpdate, mlNewKeyFrames, mpCurrentKF, MappingRest>>

(* ORBmatcher::Fuse for one point of the current keyframe in a neighbour,  *)
(* or of a neighbour in the current keyframe.                              *)
FuseCalls(p, k, i) ==
  LET r == mvpMapPoints[k][i] IN
  IF r = None THEN MakeObserved(p, k, i)
  ELSE IF r \in mbBad THEN <<>>
  ELSE IF nObs[r] > nObs[p] THEN <<ReplaceBy(p, r)>> ELSE <<ReplaceBy(r, p)>>

SearchInNeighbors ==
  /\ mapper = "fuse" /\ Idle("mapping")
  /\ \E k \in Live \union {mpCurrentKF}, from \in Live \union {mpCurrentKF}, i \in Features :
        /\ k # from /\ mpCurrentKF \in {k, from}
        /\ \E p \in Matches(from) \intersect Good :
              k \notin Observers(p) /\ Call("mapping", FuseCalls(p, k, i))
  /\ UNCHANGED <<pointVars, madeVars, mMutexMapUpdate, mlNewKeyFrames, mlpRecentAddedMapPoints, lmVars, MappingRest>>

\* Mutant of LocalBundleAdjustment: only the keyframe's side is erased.
LocalBundleAdjustmentHalf ==
  /\ mapper = "ba" /\ Idle("mapping") /\ mMutexMapUpdate = "free" /\ Cardinality(mspKeyFrames) > 2
  /\ \E p \in Good : \E k \in Observers(p) \ badKFs :
        Call("mapping", <<EraseMatch(k, p), Unlock>>)
  /\ mMutexMapUpdate' = "mapping"
  /\ UNCHANGED <<pointVars, madeVars, mlNewKeyFrames, mlpRecentAddedMapPoints, lmVars, MappingRest>>

(* Outliers of the local bundle adjustment, under mMutexMapUpdate. *)
LocalBundleAdjustment ==
  /\ mapper = "ba" /\ Idle("mapping") /\ mMutexMapUpdate = "free" /\ Cardinality(mspKeyFrames) > 2
  /\ \E p \in Good : \E k \in Observers(p) \ badKFs :
        Call("mapping", <<EraseMatch(k, p), EraseObservationOf(p, k), Unlock>>)
  /\ mMutexMapUpdate' = "mapping"
  /\ UNCHANGED <<pointVars, madeVars, mlNewKeyFrames, mlpRecentAddedMapPoints, lmVars, MappingRest>>

(* A keyframe is redundant only if it has points with more than ThObs      *)
(* observations, in more than ThObs other keyframes.                       *)
KeyFrameCulling ==
  /\ mapper \in {"ba", "cullkf"} /\ Idle("mapping")
  /\ mapper' = "cullkf"
  /\ \E k \in Live \ {1, mpCurrentKF} :
        /\ \E p \in Matches(k) \intersect Good : nObs[p] > ThObs /\ Cardinality(Observers(p) \ {k}) > ThObs
        /\ IF k \in mbNotErase
           THEN mbToBeErased' = mbToBeErased \union {k} /\ UNCHANGED calls
           ELSE (\E is \in Ascending(Features) : Call("mapping", EraseKeyFrame(k, is))) /\ UNCHANGED mbToBeErased
  /\ UNCHANGED <<pointVars, mapVars, mvpMapPoints, badKFs, mbNotErase, erasedLate, madeVars, mMutexMapUpdate,
                 mlNewKeyFrames, mlpRecentAddedMapPoints, mpCurrentKF, trackVars, lcVars>>

(* Run looks for waiting keyframes before it fuses and before it optimises *)
(* (there for a request to stop too), and hands over to loop closing.      *)
NextTask ==
  /\ Idle("mapping")
  /\ \/ mapper \in {"cull", "create"} /\ mapper' = IF mlNewKeyFrames = <<>> THEN "fuse" ELSE "idle"
     \/ mapper = "fuse" /\ mapper' = IF mlNewKeyFrames = <<>> /\ looper # "waitStop" THEN "ba" ELSE "idle"
     \/ mapper \in {"ba", "cullkf"} /\ mapper' = "idle"
  /\ mlpLoopKeyFrameQueue' = IF mapper' = "idle" THEN Append(mlpLoopKeyFrameQueue, mpCurrentKF) ELSE mlpLoopKeyFrameQueue
  /\ UNCHANGED <<pointVars, mapVars, mvpMapPoints, keyFrameVars, madeVars, calls, mMutexMapUpdate, trackVars, mlNewKeyFrames,
                 mpCurrentKF, mlpRecentAddedMapPoints, looper, mpLoopKF, matched, vpReplacePoints>>

-----------------------------------------------------------------------------
(* Loop closing. *)

LoopingRest == <<mvpMapPoints, madeVars, trackVars, mlNewKeyFrames, mlpRecentAddedMapPoints, mpCurrentKF>>

TakeKeyFrame ==
  /\ looper = "idle" /\ mlpLoopKeyFrameQueue # <<>> /\ Idle("looping")
  /\ mpLoopKF' = Head(mlpLoopKeyFrameQueue)
  /\ mlpLoopKeyFrameQueue' = Tail(mlpLoopKeyFrameQueue)
  /\ mbNotErase' = mbNotErase \union {mpLoopKF'}
  /\ looper' = "detect"
  /\ UNCHANGED <<pointVars, mapVars, badKFs, mbToBeErased, erasedLate, calls, mMutexMapUpdate, mapper, matched, vpReplacePoints, LoopingRest>>

\* Mutant of NotDetected: the erasure stays put off when it has been made.
NotDetectedPutsOff ==
  /\ looper = "detect"
  /\ mbNotErase' = mbNotErase \ {mpLoopKF} /\ UNCHANGED mbToBeErased
  /\ erasedLate' = erasedLate \union ({mpLoopKF} \intersect mbToBeErased)
  /\ \E is \in Ascending(Features) :
        Call("looping", IF mpLoopKF \in mbToBeErased THEN EraseKeyFrame(mpLoopKF, is) ELSE <<>>)
  /\ looper' = "idle" /\ mpLoopKF' = None
  /\ UNCHANGED <<pointVars, mapVars, badKFs, mMutexMapUpdate, mapper, mlpLoopKeyFrameQueue, matched, vpReplacePoints, LoopingRest>>

(* SetErase makes up for the erasure that was put off. *)
NotDetected ==
  /\ looper = "detect"
  /\ mbNotErase' = mbNotErase \ {mpLoopKF} /\ mbToBeErased' = mbToBeErased \ {mpLoopKF}
  /\ erasedLate' = erasedLate \union ({mpLoopKF} \intersect mbToBeErased)
  /\ \E is \in Ascending(Features) :
        Call("looping", IF mpLoopKF \in mbToBeErased THEN EraseKeyFrame(mpLoopKF, is) ELSE <<>>)
  /\ looper' = "idle" /\ mpLoopKF' = None
  /\ UNCHANGED <<pointVars, mapVars, badKFs, mMutexMapUpdate, mapper, mlpLoopKeyFrameQueue, matched, vpReplacePoints, LoopingRest>>

(* A loop: a feature of the keyframe matches a point good at this time. *)
Detected ==
  /\ looper = "detect" /\ Cardinality(mspKeyFrames) >= MinKeyFrames
  /\ Cardinality(mbNotErase) <= MaxLoops   \* bound
  /\ \E i \in Features, k \in Live \ {mpLoopKF} : \E p \in Matches(k) \intersect Good : matched' = [idx |-> i, mp |-> p]
  /\ looper' = "waitStop"
  /\ UNCHANGED <<pointVars, mapVars, keyFrameVars, calls, mMutexMapUpdate, mapper, mlpLoopKeyFrameQueue, mpLoopKF, vpReplacePoints, LoopingRest>>

(* Local mapping has stopped: the match replaces what the feature shows. *)
CorrectLoop ==
  /\ looper = "waitStop" /\ mapper = "idle" /\ mMutexMapUpdate = "free"
  /\ mapper' = "stopped" /\ mMutexMapUpdate' = "looping" /\ looper' = "fuse"
  /\ LET r == mvpMapPoints[mpLoopKF][matched.idx] IN
     Call("looping", (IF r # None THEN <<ReplaceBy(r, matched.mp)>>
                      ELSE <<SetMatch(mpLoopKF, matched.idx, matched.mp), AddObservationOf(matched.mp, mpLoopKF, matched.idx)>>)
                     \o <<Unlock>>)
  /\ UNCHANGED <<pointVars, mapVars, keyFrameVars, mlpLoopKeyFrameQueue, mpLoopKF, matched, vpReplacePoints, LoopingRest>>

(* SearchAndFuse: Fuse with a similarity collects for one keyframe the     *)
(* points to replace, and adds the matches of free features at once.       *)
SearchAndFuse ==
  /\ looper = "fuse" /\ Idle("looping")
  /\ \E k \in Live, from \in Live, i \in Features : \E p \in Matches(from) \intersect Good :
        LET r == mvpMapPoints[k][i] IN
        /\ p \notin Matches(k)
        /\ \A n \in 1..Len(vpReplacePoints) : vpReplacePoints[n].kf = k /\ vpReplacePoints[n].by # p
        /\ \/ r = None /\ Call("looping", MakeObserved(p, k, i)) /\ UNCHANGED vpReplacePoints
           \/ r \in Good /\ vpReplacePoints' = Append(vpReplacePoints, [kf |-> k, mp |-> r, by |-> p]) /\ UNCHANGED calls
  /\ UNCHANGED <<pointVars, mapVars, keyFrameVars, mMutexMapUpdate, mapper, mlpLoopKeyFrameQueue, looper, mpLoopKF, matched, LoopingRest>>

ReplaceFused ==
  /\ looper = "fuse" /\ Idle("looping") /\ vpReplacePoints # <<>> /\ mMutexMapUpdate = "free"
  /\ mMutexMapUpdate' = "looping"
  /\ Call("looping", Append([n \in 1..Len(vpReplacePoints) |-> ReplaceBy(vpReplacePoints[n].mp, vpReplacePoints[n].by)], Unlock))
  /\ vpReplacePoints' = <<>>
  /\ UNCHANGED <<pointVars, mapVars, keyFrameVars, mapper, mlpLoopKeyFrameQueue, looper, mpLoopKF, matched, LoopingRest>>

(* The loop edge keeps the keyframe from erasure; local mapping goes on. *)
EndCorrection ==
  /\ looper = "fuse" /\ Idle("looping") /\ vpReplacePoints = <<>>
  /\ looper' = "idle" /\ mapper' = "idle" /\ mpLoopKF' = None /\ matched' = NoMatch
  /\ UNCHANGED <<pointVars, mapVars, keyFrameVars, calls, mMutexMapUpdate, mlpLoopKeyFrameQueue, vpReplacePoints, LoopingRest>>

-----------------------------------------------------------------------------
Init ==
  /\ mObservations = [p \in Points |-> <<>>] /\ nObs = [p \in Points |-> 0]
  /\ mpRefKF = [p \in Points |-> None] /\ mbBad = {} /\ mpReplaced = [p \in Points |-> None]
  /\ mspMapPoints = {} /\ mspKeyFrames = {}
  /\ mvpMapPoints = [k \in KeyFrames |-> NoMatches]
  /\ badKFs = {} /\ mbNotErase = {} /\ mbToBeErased = {} /\ erasedLate = {}
  /\ points = 0 /\ keyFrames = 0
  /\ calls = [t \in Threads |-> <<>>] /\ mMutexMapUpdate = "free"
  /\ tracker = "idle" /\ frame = NoMatches
  /\ mlNewKeyFrames = <<>> /\ mapper = "idle" /\ mpCurrentKF = None /\ mlpRecentAddedMapPoints = {}
  /\ mlpLoopKeyFrameQueue = <<>> /\ looper = "idle" /\ mpLoopKF = None
  /\ matched = NoMatch /\ vpReplacePoints = <<>>

Tracking == CheckReplacedInLastFrame \/ TrackLocalMap \/ EndFrame \/ CreateNewKeyFrame
Mapping == ProcessNewKeyFrame \/ MapPointCulling \/ CreateNewMapPoints \/ SearchInNeighbors \/ LocalBundleAdjustment
           \/ KeyFrameCulling \/ NextTask
Looping == TakeKeyFrame \/ NotDetected \/ Detected \/ CorrectLoop \/ SearchAndFuse \/ ReplaceFused \/ EndCorrection

Next == (\E t \in Threads : RunCall(t)) \/ Tracking \/ Mapping \/ Looping

Spec == Init /\ [][Next]_vars

-----------------------------------------------------------------------------
AtRest == \A t \in Threads : Idle(t)

(* The type invariant. *)
TypeOK ==
  /\ points \in 0..MaxPoints /\ keyFrames \in 0..MaxKeyFrames
  /\ \A p \in Points : /\ Observers(p) \subseteq 1..keyFrames
                        /\ \A k \in Observers(p) : mObservations[p][k] \in Features
  /\ nObs \in [Points -> Nat] /\ mpRefKF \in [Points -> 0..keyFrames]
  /\ mbBad \subseteq 1..points /\ mpReplaced \in [Points -> 0..points]
  /\ mvpMapPoints \in [KeyFrames -> [Features -> 0..points]] /\ frame \in [Features -> 0..points]
  /\ mspMapPoints \subseteq 1..points /\ mspKeyFrames \subseteq 1..keyFrames
  /\ badKFs \subseteq 1..keyFrames /\ mbNotErase \subseteq 1..keyFrames /\ mbToBeErased \subseteq mbNotErase
  /\ erasedLate \subseteq 1..keyFrames
  /\ mMutexMapUpdate \in Threads \union {"free", "tracking"}
  /\ tracker \in {"idle", "match", "matched"}
  /\ mapper \in {"idle", "cull", "create", "fuse", "ba", "cullkf", "stopped"}
  /\ looper \in {"idle", "detect", "waitStop", "fuse"}
  /\ (mapper = "stopped") = (looper = "fuse")

(* An observation names the slot of the keyframe that shows the point,     *)
(* whatever fusions and removals came before, until loop closing makes up  *)
(* for an erasure.  With five keyframes it can fail after that: the        *)
(* EraseMatch of local bundle adjustment and a SetBadFlag that the erasure *)
(* brings about may both be about to clear the same slot, and a new point  *)
(* can take the slot between the two.                                      *)
ObservationsMatchSlots ==
  AtRest /\ erasedLate = {} => \A p \in 1..points : \A k \in Observers(p) : mvpMapPoints[k][mObservations[p][k]] = p

(* nObs never falls below the weight of the observations: EraseObservation *)
(* discards no point that has more than it takes.                          *)
NeverUndercounted ==
  \A p \in Good : nObs[p] >= ObservedWeight(p)

(* When nobody is at work the map holds every good point, and no bad one   *)
(* unless loop closing has erased a keyframe whose erasure was put off:    *)
(* that alone runs beside local mapping's own calls.                       *)
MapHoldsGoodPoints ==
  AtRest => Good \subseteq mspMapPoints /\ (erasedLate = {} => mspMapPoints \subseteq Good)

(* Until a loop has been corrected, nObs is the weight of the observations *)
(* and the reference keyframe of a good point observes it, unless a thread *)
(* is making the point or about to discard it: EraseObservation never      *)
(* leaves a good point to the mpRefKF it reads behind the end of a map.    *)
NoLoopYet == mbNotErase \subseteq {mpLoopKF} /\ looper # "fuse"
InHand(p) == \E t \in Threads : \E n \in 1..Len(calls[t]) : calls[t][n] \in {SetBadFlagOf(p), AddToMap(p)}
ReferenceObserves ==
  NoLoopYet => \A p \in Good : ~InHand(p) => mpRefKF[p] \in Observers(p) /\ nObs[p] = ObservedWeight(p)

(* Bad points leave the map whoever erases what: it fails with a fourth    *)
(* keyframe.  CreateNewMapPoints adds the point to the map last; loop      *)
(* closing may have erased one of its two keyframes, and the point with    *)
(* it, before.                                                             *)
BadPointsLeaveTheMap == AtRest => mspMapPoints \intersect mbBad = {}

(* "this can only happen for new stereo points inserted by the Tracking"   *)
(* (LocalMapping.cc:329): a point that ProcessNewKeyFrame finds to be      *)
(* observed by the keyframe already was made for that keyframe.  It fails: *)
(* two matches of the last frame may have been fused into one.             *)
OnlyNewStereoPoints ==
  \A t \in Threads : Calls(t, "Associate") =>
    LET c == Head(calls[t]) IN c.mp \in Good /\ c.kf \in Observers(c.mp) => mpRefKF[c.mp] = c.kf

(* "If only 2 observations or less, discard point" (MapPoint.cc:193): with *)
(* nobody at work, a good point is observed.  It is not: CorrectLoop adds  *)
(* an observation to a point that the keyframe shows at another index, and *)
(* nObs counts both.                                                       *)
GoodPointsObserved == AtRest => \A p \in Good : Observers(p) # {}

(* Replaced points lead to a point that replaced them, and never back. It  *)
(* fails: CorrectLoop does not ask whether the point it matched before     *)
(* local mapping stopped has been replaced by the one it replaces.         *)
ReplacementEnds == \A p \in mbBad : mpReplaced[p] # None => mpReplaced[mpReplaced[p]] # p
=============================================================================

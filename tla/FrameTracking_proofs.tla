----------------------- MODULE FrameTracking_proofs -----------------------
(***************************************************************************)
(* What holds of the tracking state and of the viewer for every value of   *)
(* the constants of FrameTracking.                                         *)
(*                                                                         *)
(* The invariants of the runs are not inductive one by one: that a tracked *)
(* state keeps its reference keyframe relies on LOST being reset before    *)
(* the next frame (Leaving), a pose that is reported on what Track knew of *)
(* the frame when it wrote the state (Knowing), and that the map is not    *)
(* cleared while it is drawn on mbStopped being raised by the viewer only  *)
(* (Stopping).                                                             *)
(***************************************************************************)
EXTENDS FrameTracking, TLAPS

(* LOST at the start of a frame has a reset on its way. *)
Leaving ==
  mState = "LOST" => /\ pc \in {"idle", "report"} => mbResetActiveMap
                     /\ pc \notin {"waitStep", "track", "estimate"}

(* Past the first estimate the camera was tracked before, or is lost. *)
TrackedStates == {"OK", "RECENTLY_LOST", "LOST"}
Tracked == pc \in {"localMap", "end"} => mState \in TrackedStates

(* The clock runs in RECENTLY_LOST only. *)
Clock == mState # "RECENTLY_LOST" => lostFor = 0

(* A frame with an estimated pose that was not localised is not OK, unless the *)
(* state is local mapping's.                                                   *)
Knowing ==
  /\ pc \in {"end", "report"} /\ mState = "OK" /\ frame.pose = "estimated" =>
       frame.localised \/ frame.overwritten
  /\ pc = "estimate" => frame.pose = "identity"
  /\ PoseMeansLocalised

(* The viewer alone raises mbStopped, when it stops drawing. *)
Stopping ==
  /\ mbStopped => viewer = "stopped"
  /\ pc = "clear" => mbStopped

(* TypeOK in two parts: the provers handle flags and numbers best apart. *)
Flags ==
  /\ inertial \in BOOLEAN /\ mMutexReset \in BOOLEAN /\ mbResetActiveMap \in BOOLEAN
  /\ hasPose \in BOOLEAN /\ mbBadImu \in BOOLEAN /\ bStepByStep \in BOOLEAN /\ mbStep \in BOOLEAN
  /\ mbStopRequested \in BOOLEAN /\ mbStopped \in BOOLEAN
  /\ mbFinishRequested \in BOOLEAN /\ mbFinished \in BOOLEAN

Ranges ==
  /\ pc \in {"idle", "waitViewerStop", "clear", "waitStep", "track", "estimate", "localMap",
             "end", "report", "waitFinish", "down", "crashed"}
  /\ mState \in States /\ ref \in {"null", "keyframe", "deleted"} /\ lostFor \in LostTimes
  /\ frame \in Frames
  /\ kfs \in 0..(KFLimit + 1) /\ imu \in ImuStates /\ imuInit \in ImuInits
  /\ viewer \in {"draw", "menuReset", "menuStop", "waitFinish", "stopped", "finished"}

Safe == Leaving /\ Tracked /\ Clock /\ PredictionIsBounded /\ Knowing /\ Stopping

IInv == Flags /\ Ranges /\ Safe

LEMMA TypesTogether == Flags /\ Ranges => TypeOK
BY DEF Flags, Ranges, TypeOK

LEMMA InitIInv == Init => IInv
<1>. SUFFICES ASSUME Init  PROVE IInv
  OBVIOUS
<1>1. Flags
  BY Zenon DEF Init, Flags
<1>2. 0 \in 0..(KFLimit + 1) /\ 0 \in LostTimes /\ NewFrame \in Frames
  BY TrackingAssumption DEF LostTimes, NewFrame, Frames
<1>3. Ranges
  BY <1>2 DEF Init, Ranges, States, ImuStates, ImuInits
<1>4. Safe
  BY DEF Init, Safe, Leaving, Tracked, Clock, PredictionIsBounded, Knowing, PoseMeansLocalised, Stopping, NewFrame
<1>. QED  BY <1>1, <1>3, <1>4 DEF IInv

-----------------------------------------------------------------------------
(* The thread that feeds the frames, before and after Track, and the viewer.   *)
LEMMA StartFrameKept == ASSUME IInv, StartFrame PROVE IInv'
<1>1. Flags'
  BY Zenon DEF IInv, Flags, StartFrame, trackVars, resultVars, mapVars, imuVars, stepVars, viewerVars
<1>2. Ranges'
  BY TrackingAssumption DEF IInv, Ranges, StartFrame, States, LostTimes, trackVars, resultVars, mapVars, imuVars, stepVars, viewerVars
<1>3. Safe'
  BY DEF IInv, Flags, Ranges, Safe, Leaving, Tracked, TrackedStates, Clock, PredictionIsBounded, Knowing,
         PoseMeansLocalised, Stopping,
         StartFrame, trackVars, resultVars, mapVars, imuVars, stepVars, viewerVars
<1>. QED  BY <1>1, <1>2, <1>3 DEF IInv

LEMMA ViewerHasStoppedKept == ASSUME IInv, ViewerHasStopped PROVE IInv'
<1>1. Flags'
  BY Zenon DEF IInv, Flags, ViewerHasStopped, trackVars, resultVars, mapVars, imuVars, stepVars, viewerVars
<1>2. Ranges'
  BY TrackingAssumption DEF IInv, Ranges, ViewerHasStopped, States, LostTimes, trackVars, resultVars, mapVars, imuVars, stepVars, viewerVars
<1>3. Safe'
  BY DEF IInv, Flags, Ranges, Safe, Leaving, Tracked, TrackedStates, Clock, PredictionIsBounded, Knowing,
         PoseMeansLocalised, Stopping,
         ViewerHasStopped, trackVars, resultVars, mapVars, imuVars, stepVars, viewerVars
<1>. QED  BY <1>1, <1>2, <1>3 DEF IInv

LEMMA ResetActiveMapKept == ASSUME IInv, ResetActiveMap PROVE IInv'
<1>1. Flags'
  BY Zenon DEF IInv, Flags, ResetActiveMap, ImuStates, trackVars, resultVars, mapVars, imuVars, stepVars, viewerVars
<1>2. Ranges'
  BY TrackingAssumption DEF IInv, Ranges, ResetActiveMap, ImuStates, States, LostTimes, trackVars, resultVars, mapVars, imuVars, stepVars, viewerVars
<1>3. Safe'
  BY DEF IInv, Flags, Ranges, Safe, Leaving, Tracked, TrackedStates, Clock, PredictionIsBounded, Knowing,
         PoseMeansLocalised, Stopping,
         ResetActiveMap, ImuStates, trackVars, resultVars, mapVars, imuVars, stepVars, viewerVars
<1>. QED  BY <1>1, <1>2, <1>3 DEF IInv

LEMMA StepGrantedKept == ASSUME IInv, StepGranted PROVE IInv'
<1>1. Flags'
  BY Zenon DEF IInv, Flags, StepGranted, trackVars, resultVars, mapVars, imuVars, stepVars, viewerVars
<1>2. Ranges'
  BY TrackingAssumption DEF IInv, Ranges, StepGranted, States, LostTimes, trackVars, resultVars, mapVars, imuVars, stepVars, viewerVars
<1>3. Safe'
  BY DEF IInv, Flags, Ranges, Safe, Leaving, Tracked, TrackedStates, Clock, PredictionIsBounded, Knowing,
         PoseMeansLocalised, Stopping,
         StepGranted, trackVars, resultVars, mapVars, imuVars, stepVars, viewerVars
<1>. QED  BY <1>1, <1>2, <1>3 DEF IInv

LEMMA ShutdownKept == ASSUME IInv, Shutdown PROVE IInv'
<1>1. Flags'
  BY Zenon DEF IInv, Flags, Shutdown, trackVars, resultVars, mapVars, imuVars, stepVars, viewerVars
<1>2. Ranges'
  BY TrackingAssumption DEF IInv, Ranges, Shutdown, States, LostTimes, trackVars, resultVars, mapVars, imuVars, stepVars, viewerVars
<1>3. Safe'
  BY DEF IInv, Flags, Ranges, Safe, Leaving, Tracked, TrackedStates, Clock, PredictionIsBounded, Knowing,
         PoseMeansLocalised, Stopping,
         Shutdown, trackVars, resultVars, mapVars, imuVars, stepVars, viewerVars
<1>. QED  BY <1>1, <1>2, <1>3 DEF IInv

LEMMA ReportKept == ASSUME IInv, Report PROVE IInv'
<1>1. Flags'
  <2>1. hasPose' \in BOOLEAN
    BY Zenon DEF Report
  <2>. QED  BY <2>1, Zenon DEF IInv, Flags, Report, trackVars, mapVars, imuVars, stepVars, viewerVars
<1>2. Ranges'
  BY DEF IInv, Ranges, Report, trackVars, mapVars, imuVars, stepVars, viewerVars
<1>3. Safe'
  BY DEF IInv, Flags, Ranges, Safe, Leaving, Tracked, TrackedStates, Clock, PredictionIsBounded, Knowing,
         PoseMeansLocalised, Stopping,
         Report, IsValidPose, trackVars, mapVars, imuVars, stepVars, viewerVars
<1>. QED  BY <1>1, <1>2, <1>3 DEF IInv

LEMMA MenuStepKept == ASSUME IInv, MenuStep PROVE IInv'
<1>1. Flags'
  BY Zenon DEF IInv, Flags, MenuStep, ViewerOnly, trackVars, resultVars, mapVars, imuVars, stepVars, viewerVars
<1>2. Ranges'
  BY TrackingAssumption DEF IInv, Ranges, MenuStep, ViewerOnly, States, LostTimes, trackVars, resultVars, mapVars, imuVars, stepVars, viewerVars
<1>3. Safe'
  BY DEF IInv, Flags, Ranges, Safe, Leaving, Tracked, TrackedStates, Clock, PredictionIsBounded, Knowing,
         PoseMeansLocalised, Stopping,
         MenuStep, ViewerOnly, trackVars, resultVars, mapVars, imuVars, stepVars, viewerVars
<1>. QED  BY <1>1, <1>2, <1>3 DEF IInv

LEMMA MenuResetKept == ASSUME IInv, MenuReset PROVE IInv'
<1>1. Flags'
  BY Zenon DEF IInv, Flags, MenuReset, ViewerOnly, trackVars, resultVars, mapVars, imuVars, stepVars, viewerVars
<1>2. Ranges'
  BY TrackingAssumption DEF IInv, Ranges, MenuReset, ViewerOnly, States, LostTimes, trackVars, resultVars, mapVars, imuVars, stepVars, viewerVars
<1>3. Safe'
  BY DEF IInv, Flags, Ranges, Safe, Leaving, Tracked, TrackedStates, Clock, PredictionIsBounded, Knowing,
         PoseMeansLocalised, Stopping,
         MenuReset, ViewerOnly, trackVars, resultVars, mapVars, imuVars, stepVars, viewerVars
<1>. QED  BY <1>1, <1>2, <1>3 DEF IInv

LEMMA MenuStopKept == ASSUME IInv, MenuStop PROVE IInv'
<1>1. Flags'
  BY Zenon DEF IInv, Flags, MenuStop, ViewerOnly, trackVars, resultVars, mapVars, imuVars, stepVars, viewerVars
<1>2. Ranges'
  BY TrackingAssumption DEF IInv, Ranges, MenuStop, ViewerOnly, States, LostTimes, trackVars, resultVars, mapVars, imuVars, stepVars, viewerVars
<1>3. Safe'
  BY DEF IInv, Flags, Ranges, Safe, Leaving, Tracked, TrackedStates, Clock, PredictionIsBounded, Knowing,
         PoseMeansLocalised, Stopping,
         MenuStop, ViewerOnly, trackVars, resultVars, mapVars, imuVars, stepVars, viewerVars
<1>. QED  BY <1>1, <1>2, <1>3 DEF IInv

LEMMA MenuQuitKept == ASSUME IInv, MenuQuit PROVE IInv'
<1>1. Flags'
  BY Zenon DEF IInv, Flags, MenuQuit, ViewerOnly, trackVars, resultVars, mapVars, imuVars, stepVars, viewerVars
<1>2. Ranges'
  BY TrackingAssumption DEF IInv, Ranges, MenuQuit, ViewerOnly, States, LostTimes, trackVars, resultVars, mapVars, imuVars, stepVars, viewerVars
<1>3. Safe'
  BY DEF IInv, Flags, Ranges, Safe, Leaving, Tracked, TrackedStates, Clock, PredictionIsBounded, Knowing,
         PoseMeansLocalised, Stopping,
         MenuQuit, ViewerOnly, trackVars, resultVars, mapVars, imuVars, stepVars, viewerVars
<1>. QED  BY <1>1, <1>2, <1>3 DEF IInv

LEMMA EndIterationKept == ASSUME IInv, EndIteration PROVE IInv'
<1>1. Flags'
  BY Zenon DEF IInv, Flags, EndIteration, ViewerOnly, trackVars, resultVars, mapVars, imuVars, stepVars, viewerVars
<1>2. Ranges'
  BY TrackingAssumption DEF IInv, Ranges, EndIteration, ViewerOnly, States, LostTimes, trackVars, resultVars, mapVars, imuVars, stepVars, viewerVars
<1>3. Safe'
  BY DEF IInv, Flags, Ranges, Safe, Leaving, Tracked, TrackedStates, Clock, PredictionIsBounded, Knowing,
         PoseMeansLocalised, Stopping,
         EndIteration, ViewerOnly, trackVars, resultVars, mapVars, imuVars, stepVars, viewerVars
<1>. QED  BY <1>1, <1>2, <1>3 DEF IInv

LEMMA ReleasedKept == ASSUME IInv, Released PROVE IInv'
<1>1. Flags'
  BY Zenon DEF IInv, Flags, Released, ViewerOnly, trackVars, resultVars, mapVars, imuVars, stepVars, viewerVars
<1>2. Ranges'
  BY TrackingAssumption DEF IInv, Ranges, Released, ViewerOnly, States, LostTimes, trackVars, resultVars, mapVars, imuVars, stepVars, viewerVars
<1>3. Safe'
  BY DEF IInv, Flags, Ranges, Safe, Leaving, Tracked, TrackedStates, Clock, PredictionIsBounded, Knowing,
         PoseMeansLocalised, Stopping,
         Released, ViewerOnly, trackVars, resultVars, mapVars, imuVars, stepVars, viewerVars
<1>. QED  BY <1>1, <1>2, <1>3 DEF IInv

-----------------------------------------------------------------------------
(* Local mapping, which changes nothing that Track or the viewer wait on, but  *)
(* may write OK over any state.                                                *)
LocalSteps == MapGrows \/ CullKeyFrames \/ DeclareBadImu \/ ClearBadImu \/ BeginInitializeIMU
                       \/ SetImuInitialized \/ LockMap

LEMMA LocalMappingKept == ASSUME IInv, LocalMapping PROVE IInv'
<1>. USE DEF LocalMapping, LocalMappingOnly
<1>0. UNCHANGED <<inertial, pc, mMutexReset, mbResetActiveMap, hasPose, stepVars, viewerVars>>
      /\ (LocalSteps \/ EndInitializeIMU)
  BY Zenon DEF LocalSteps, InitializeIMU
<1>1. Flags'
  <2>2. mbBadImu' \in BOOLEAN
    BY <1>0, Zenon DEF IInv, Flags, LocalSteps, MapGrows, CullKeyFrames, DeclareBadImu, ClearBadImu, BeginInitializeIMU,
           SetImuInitialized, LockMap, EndInitializeIMU, imuVars
  <2>. QED  BY <1>0, <2>2, Zenon DEF IInv, Flags, stepVars, viewerVars
<1>2. CASE LocalSteps
  <2>1. UNCHANGED <<mState, ref, lostFor, frame>>
    BY <1>2, Zenon DEF LocalSteps, MapGrows, CullKeyFrames, DeclareBadImu, ClearBadImu, BeginInitializeIMU,
           SetImuInitialized, LockMap
  <2>2. kfs' \in 0..(KFLimit + 1)
    BY <1>2, TrackingAssumption DEF IInv, Ranges, LocalSteps, MapGrows, CullKeyFrames, DeclareBadImu, ClearBadImu,
           BeginInitializeIMU, SetImuInitialized, LockMap, mapVars
  <2>3. imu' \in ImuStates
    BY <1>2 DEF IInv, Ranges, ImuStates, LocalSteps, MapGrows, CullKeyFrames, DeclareBadImu, ClearBadImu,
           BeginInitializeIMU, SetImuInitialized, LockMap, mapVars
  <2>4. imuInit' \in ImuInits
    <3>1. CASE BeginInitializeIMU
      BY <3>1 DEF BeginInitializeIMU, ImuInits
    <3>. QED  BY <1>2, <3>1 DEF IInv, Ranges, ImuInits, LocalSteps, MapGrows, CullKeyFrames, DeclareBadImu, ClearBadImu,
           SetImuInitialized, LockMap, imuVars
  <2>5. Ranges'
    BY <1>0, <2>1, <2>2, <2>3, <2>4 DEF IInv, Ranges, viewerVars
  <2>6. Safe'
    BY <1>0, <2>1 DEF IInv, Safe, Leaving, Tracked, TrackedStates, Clock, PredictionIsBounded, Knowing, PoseMeansLocalised,
           Stopping, viewerVars
  <2>. QED  BY <1>1, <2>5, <2>6 DEF IInv
<1>3. CASE EndInitializeIMU
  <2>1. /\ mState' = "OK" /\ lostFor' = 0 /\ imuInit' = "none" /\ UNCHANGED mapVars
        /\ ref' \in {"null", "keyframe", "deleted"}
    BY <1>3 DEF EndInitializeIMU, IInv, Ranges
  <2>2. /\ frame' \in Frames /\ frame'.overwritten /\ frame'.pose = frame.pose
    BY <1>3 DEF EndInitializeIMU, IInv, Ranges, Frames
  <2>3. Ranges'
    BY <1>0, <2>1, <2>2, TrackingAssumption DEF IInv, Ranges, States, LostTimes, ImuInits, mapVars, viewerVars
  <2>4. Safe'
    BY <1>0, <2>1, <2>2 DEF IInv, Safe, Leaving, Tracked, TrackedStates, Clock, PredictionIsBounded, Knowing, PoseMeansLocalised,
           Stopping, viewerVars
  <2>. QED  BY <1>1, <2>3, <2>4 DEF IInv
<1>. QED  BY <1>0, <1>2, <1>3

-----------------------------------------------------------------------------
(* Track. What every step of it leaves alone, and what it must give.           *)
Others == UNCHANGED <<inertial, mMutexReset, mbBadImu, stepVars, viewerVars>>

Kept ==
  /\ mbResetActiveMap' \in BOOLEAN /\ hasPose' \in BOOLEAN
  /\ pc' \in {"estimate", "localMap", "end", "report", "crashed"}
  /\ mState' \in States /\ ref' \in {"null", "keyframe", "deleted"} /\ lostFor' \in LostTimes
  /\ frame' \in Frames
  /\ kfs' \in 0..(KFLimit + 1) /\ imu' \in ImuStates /\ imuInit' \in ImuInits
  /\ Leaving' /\ Tracked' /\ Clock' /\ PredictionIsBounded' /\ Knowing'

LEMMA KeptIsEnough == ASSUME IInv, Others, Kept PROVE IInv'
<1>1. Flags'
  BY Zenon DEF Kept, Others, IInv, Flags, stepVars, viewerVars
<1>2. Ranges'
  BY DEF Kept, Others, IInv, Ranges, viewerVars
<1>3. Safe'
  BY DEF Kept, Others, IInv, Safe, Stopping, viewerVars
<1>. QED  BY <1>1, <1>2, <1>3 DEF IInv

(* What is kept needs no proof of its own where nothing was changed. *)
InRange ==
  /\ mState \in States /\ ref \in {"null", "keyframe", "deleted"} /\ lostFor \in LostTimes
  /\ frame \in Frames
  /\ kfs \in 0..(KFLimit + 1) /\ imu \in ImuStates /\ imuInit \in ImuInits

LEMMA InRangeNow == IInv => InRange
BY DEF IInv, Ranges, InRange

LEMMA KeptFromParts ==
  ASSUME mbResetActiveMap' \in BOOLEAN, hasPose' \in BOOLEAN,
         pc' \in {"estimate", "localMap", "end", "report", "crashed"}, InRange',
         Leaving', Tracked', Clock', PredictionIsBounded', Knowing'
  PROVE  Kept
BY DEF Kept, InRange

(* Leaving the map takes the state back to its beginning. *)
LEMMA NewMap ==
  ASSUME IInv, CreateMapInAtlas
  PROVE  /\ mState' = "NO_IMAGES_YET" /\ ref' = "null" /\ lostFor' = 0 /\ lostFor' \in LostTimes
         /\ kfs' \in 0..(KFLimit + 1) /\ imu' \in ImuStates /\ imuInit' \in ImuInits
<1>1. imuInit' \in ImuInits
  <2>1. imuInit' \in {imuInit, "adjusting", "updatingLeft"}
    BY DEF CreateMapInAtlas, MapIsLeft
  <2>. QED  BY <2>1 DEF ImuInits, IInv, Ranges
<1>. QED  BY <1>1, TrackingAssumption DEF CreateMapInAtlas, LostTimes, ImuStates

(* The time since the camera was lost keeps its range. *)
LEMMA ClockInRange ==
  ASSUME IInv, NEW dt \in Nat, ClockRuns(dt)
  PROVE  lostFor' \in LostTimes
<1>1. lostFor \in Nat /\ lostFor + dt \in Nat
  BY TrackingAssumption DEF IInv, Ranges, LostTimes
<1>2. Capped(lostFor + dt) \in LostTimes /\ 0 \in LostTimes
  BY <1>1, TrackingAssumption DEF Capped, LostTimes
<1>. QED  BY <1>2 DEF ClockRuns

LEMMA StartTrackKept == ASSUME IInv, StartTrack PROVE IInv'
<1>1. PICK dt \in 1..(JumpTime + 1) :
        \/ (BadImu(dt) \/ OlderFrame \/ TimeJump(dt)) /\ pc' = "report"
        \/ TakeMap(dt) /\ pc' = "estimate"
  BY DEF StartTrack
<1>2. dt \in Nat
  BY TrackingAssumption
<1>3. Others /\ inertial' = inertial /\ pc = "track" /\ hasPose' = hasPose /\ frame' = NewFrame
  BY DEF StartTrack, Others
<1>4. NewFrame \in Frames /\ NewFrame.pose = "identity"
  BY DEF NewFrame, Frames
<1>5. mState # "LOST"
  BY <1>3 DEF IInv, Safe, Leaving
<1>6. hasPose \in BOOLEAN /\ mbResetActiveMap \in BOOLEAN
  BY Zenon DEF IInv, Flags
<1>7. CASE KeepState(dt) /\ AskForReset /\ pc' = "report"
  <2>1. lostFor' \in LostTimes
    BY <1>2, <1>7, ClockInRange DEF KeepState
  <2>2. mbResetActiveMap' /\ mbResetActiveMap' \in BOOLEAN
    BY <1>7, Zenon DEF AskForReset
  <2>3. UNCHANGED <<mState, ref, kfs, imu, imuInit>>
    BY <1>7 DEF KeepState, KeepMap, mapVars
  <2>4. mState # "RECENTLY_LOST" => lostFor' = 0
    BY <1>7 DEF KeepState, ClockRuns
  <2>5. Leaving' /\ Tracked' /\ Clock' /\ PredictionIsBounded' /\ Knowing'
    BY <1>3, <1>4, <1>5, <1>7, <2>2, <2>3, <2>4 DEF Leaving, Tracked, Clock, PredictionIsBounded, Knowing, PoseMeansLocalised
  <2>6. InRange'
    BY <1>3, <1>4, <2>1, <2>3, InRangeNow DEF InRange
  <2>. QED  BY <1>3, <1>6, <1>7, <2>2, <2>5, <2>6, KeptFromParts, KeptIsEnough
<1>8. CASE CreateMapInAtlas /\ NoRequest /\ pc' = "report"
  <2>1. /\ mState' = "NO_IMAGES_YET" /\ ref' = "null" /\ lostFor' \in LostTimes
        /\ kfs' \in 0..(KFLimit + 1) /\ imu' \in ImuStates /\ imuInit' \in ImuInits
    BY <1>8, NewMap
  <2>2. mbResetActiveMap' \in BOOLEAN
    BY <1>6, <1>8, Zenon DEF NoRequest
  <2>3. Leaving' /\ Tracked' /\ Clock' /\ PredictionIsBounded' /\ Knowing'
    BY <1>3, <1>4, <1>8, NewMap DEF Leaving, Tracked, Clock, PredictionIsBounded, Knowing, PoseMeansLocalised
  <2>4. InRange'
    BY <1>3, <1>4, <2>1 DEF InRange, States
  <2>. QED  BY <1>3, <1>6, <1>8, <2>2, <2>3, <2>4, KeptFromParts, KeptIsEnough
<1>9. CASE TakeMap(dt) /\ pc' = "estimate"
  <2>1. lostFor' \in LostTimes
    BY <1>2, <1>9, ClockInRange DEF TakeMap
  <2>2. mbResetActiveMap' \in BOOLEAN
    BY <1>6, <1>9, Zenon DEF TakeMap, NoRequest
  <2>3. UNCHANGED <<ref, kfs, imu, imuInit>> /\ mState' \in States /\ mState' # "LOST"
    BY <1>5, <1>9 DEF TakeMap, KeepMap, mapVars, IInv, Ranges, States
  <2>4. mState' # "RECENTLY_LOST" => lostFor' = 0
    BY <1>9 DEF TakeMap, ClockRuns
  <2>5. Leaving' /\ Tracked' /\ Clock' /\ PredictionIsBounded' /\ Knowing'
    BY <1>3, <1>4, <1>9, <2>3, <2>4 DEF Leaving, Tracked, Clock, PredictionIsBounded, Knowing, PoseMeansLocalised
  <2>6. InRange'
    BY <1>3, <1>4, <2>1, <2>3, InRangeNow DEF InRange
  <2>. QED  BY <1>3, <1>6, <1>9, <2>2, <2>5, <2>6, KeptFromParts, KeptIsEnough
<1>. QED  BY <1>1, <1>7, <1>8, <1>9, Zenon DEF BadImu, OlderFrame, TimeJump

(* The first estimate. A prediction that timed out ends in LOST. *)
LEMMA StateAfterEstimate ==
  ASSUME NEW ok \in BOOLEAN, NEW recentReloc \in BOOLEAN, mState \in {"OK", "RECENTLY_LOST"}
  PROVE  /\ StateAfterPose(ok, recentReloc) \in TrackedStates
         /\ mState = "RECENTLY_LOST" /\ StateAfterPose(ok, recentReloc) = "RECENTLY_LOST" => ~Timeout(ok)
<1>1. CASE mState = "OK"
  BY <1>1 DEF StateAfterPose, TrackedStates
<1>2. CASE mState = "RECENTLY_LOST"
  <2>1. StateAfterPose(ok, recentReloc) = IF Timeout(ok) THEN "LOST" ELSE "RECENTLY_LOST"
    BY <1>2 DEF StateAfterPose
  <2>. QED  BY <1>2, <2>1 DEF TrackedStates
<1>. QED  BY <1>1, <1>2

LEMMA EstimateKept == ASSUME IInv, Estimate PROVE IInv'
<1>1. Others /\ inertial' = inertial /\ pc = "estimate" /\ hasPose' = hasPose
  BY DEF Estimate, Others
<1>2. mState # "LOST" /\ frame.pose = "identity" /\ frame \in Frames
  BY <1>1 DEF IInv, Ranges, Safe, Leaving, Knowing
<1>3. hasPose \in BOOLEAN /\ mbResetActiveMap \in BOOLEAN /\ inertial \in BOOLEAN
  BY Zenon DEF IInv, Flags
<1>4. Initialize \/ EstimatePose \/ Crash
  BY <1>2 DEF Estimate
<1>5. mbResetActiveMap' \in BOOLEAN
  BY <1>3, <1>4, Zenon DEF Initialize, EstimatePose, Crash, NoRequest
<1>6. CASE Initialize
  <2>1. pc' = "report" /\ UNCHANGED <<lostFor, imu, imuInit>>
    BY <1>6 DEF Initialize
  <2>2. \/ mState' = "NOT_INITIALIZED" /\ UNCHANGED <<ref, kfs, frame>>
        \/ mState' = "OK" /\ ref' = "keyframe" /\ kfs' = 1 /\ frame' = [frame EXCEPT !.localised = TRUE]
    BY <1>6, Zenon DEF Initialize
  <2>3. frame' \in Frames /\ frame'.pose = "identity"
    BY <1>2, <2>2 DEF Frames
  <2>4. mState' \in {"NOT_INITIALIZED", "OK"} /\ ref' \in {"null", "keyframe", "deleted"} /\ kfs' \in 0..(KFLimit + 1)
    BY <2>2, TrackingAssumption DEF IInv, Ranges
  <2>5. lostFor' = 0
    <3>1. mState = "NOT_INITIALIZED"
      BY <1>6 DEF Initialize
    <3>. QED  BY <2>1, <3>1 DEF IInv, Safe, Clock
  <2>6. Leaving' /\ Tracked' /\ Clock' /\ PredictionIsBounded' /\ Knowing'
    BY <1>1, <2>1, <2>3, <2>4, <2>5 DEF Leaving, Tracked, Clock, PredictionIsBounded, Knowing, PoseMeansLocalised
  <2>7. InRange'
    BY <2>1, <2>3, <2>4, InRangeNow DEF InRange, States
  <2>. QED  BY <1>1, <1>3, <1>5, <2>1, <2>6, <2>7, KeptFromParts, KeptIsEnough
<1>7. CASE EstimatePose
  <2>1. PICK ok \in BOOLEAN, recentReloc \in BOOLEAN :
          /\ mState' = StateAfterPose(ok, recentReloc)
          /\ lostFor' = IF mState' = "RECENTLY_LOST" THEN lostFor ELSE 0
          /\ frame' = [frame EXCEPT !.pose = "estimated", !.localised = PoseOk(ok)]
    BY <1>7 DEF EstimatePose
  <2>2. mState \in {"OK", "RECENTLY_LOST"} /\ pc' = "localMap" /\ UNCHANGED <<ref, kfs, imu, imuInit>>
    BY <1>7 DEF EstimatePose, KeepMap, mapVars
  <2>3. /\ mState' \in TrackedStates
        /\ mState = "RECENTLY_LOST" /\ mState' = "RECENTLY_LOST" => ~Timeout(ok)
    BY <2>1, <2>2, StateAfterEstimate
  <2>4. PoseOk(ok) \in BOOLEAN
    BY DEF PoseOk, Timeout
  <2>5. frame' \in Frames
    BY <1>2, <2>1, <2>4 DEF Frames
  <2>6. lostFor' \in LostTimes
    BY <2>1, TrackingAssumption DEF IInv, Ranges, LostTimes
  <2>7. inertial /\ mState' = "RECENTLY_LOST" => lostFor' <= RecentlyLostTime
    <3>1. CASE mState = "RECENTLY_LOST"
      BY <2>1, <2>3, <3>1, TrackingAssumption DEF Timeout, IInv, Ranges, LostTimes
    <3>2. CASE mState = "OK"
      <4>1. inertial /\ mState' = "RECENTLY_LOST" => lostFor = 0
        BY <3>2 DEF IInv, Safe, Clock
      <4>. QED  BY <2>1, <4>1, TrackingAssumption
    <3>. QED  BY <2>2, <3>1, <3>2
  <2>8. Leaving' /\ Tracked' /\ Clock' /\ PredictionIsBounded' /\ Knowing'
    BY <1>1, <2>1, <2>2, <2>3, <2>7 DEF Leaving, Tracked, Clock, PredictionIsBounded, Knowing, PoseMeansLocalised
  <2>9. InRange'
    BY <2>2, <2>3, <2>5, <2>6, InRangeNow DEF InRange, States, TrackedStates
  <2>. QED  BY <1>1, <1>3, <1>5, <2>2, <2>8, <2>9, KeptFromParts, KeptIsEnough
<1>8. CASE Crash
  <2>1. UNCHANGED <<mState, ref, lostFor, frame, kfs, imu, imuInit>> /\ pc' = "crashed"
    BY <1>8 DEF Crash, KeepMap, trackVars, mapVars
  <2>2. Clock
    BY DEF IInv, Safe
  <2>3. Leaving' /\ Tracked' /\ Clock' /\ PredictionIsBounded' /\ Knowing'
    BY <1>1, <1>2, <2>1, <2>2 DEF Leaving, Tracked, Clock, PredictionIsBounded, Knowing, PoseMeansLocalised
  <2>4. InRange'
    BY <2>1, InRangeNow DEF InRange
  <2>. QED  BY <1>1, <1>3, <1>5, <2>1, <2>3, <2>4, KeptFromParts, KeptIsEnough
<1>. QED  BY <1>4, <1>6, <1>7, <1>8

LEMMA TrackLocalMapKept == ASSUME IInv, TrackLocalMap PROVE IInv'
<1>1. /\ Others /\ inertial' = inertial /\ pc = "localMap" /\ pc' = "end" /\ hasPose' = hasPose
      /\ UNCHANGED <<ref, kfs, imu, imuInit>>
  BY DEF TrackLocalMap, Others, KeepMap, mapVars
<1>2. mState \in TrackedStates /\ frame \in Frames
  BY <1>1 DEF IInv, Ranges, Safe, Tracked
<1>3. hasPose \in BOOLEAN /\ mbResetActiveMap \in BOOLEAN /\ inertial \in BOOLEAN
  BY Zenon DEF IInv, Flags
<1>4. PICK okLocalMap \in BOOLEAN :
        LET ok == frame.localised /\ okLocalMap
        IN  /\ frame' = [frame EXCEPT !.localised = ok]
            /\ mState' = StateAfterLocalMap(ok)
            /\ lostFor' = IF mState' = mState THEN lostFor ELSE 0
            /\ IF ~ok /\ mState = "OK" /\ inertial /\ imu # "BA2" THEN AskForReset ELSE NoRequest
  BY DEF TrackLocalMap
<1>. DEFINE ok == frame.localised /\ okLocalMap
<1>5. ok \in BOOLEAN
  BY <1>2 DEF Frames
<1>6. frame' \in Frames /\ frame'.localised = ok
  BY <1>2, <1>4, <1>5 DEF Frames
<1>7. mState' = IF ok THEN "OK" ELSE IF mState = "OK" THEN "RECENTLY_LOST" ELSE mState
  BY <1>4 DEF StateAfterLocalMap
<1>8. mbResetActiveMap' = mbResetActiveMap \/ mbResetActiveMap' = TRUE
  BY <1>4, Zenon DEF AskForReset, NoRequest
<1>9. lostFor' = IF mState' = mState THEN lostFor ELSE 0
  BY <1>4
<1>. HIDE DEF ok
<1>10. mbResetActiveMap' \in BOOLEAN /\ (mbResetActiveMap => mbResetActiveMap')
  BY <1>3, <1>8, Zenon
<1>11. mState' \in TrackedStates /\ lostFor' \in LostTimes
  <2>1. lostFor' \in {lostFor, 0} /\ 0 \in LostTimes /\ lostFor \in LostTimes
    BY <1>9, TrackingAssumption, InRangeNow DEF LostTimes, InRange
  <2>. QED  BY <1>2, <1>7, <2>1 DEF TrackedStates
<1>13. Clock' /\ PredictionIsBounded'
  <2>1. Clock /\ (inertial /\ mState = "RECENTLY_LOST" => lostFor <= RecentlyLostTime \/ mbResetActiveMap)
    BY <1>1 DEF IInv, Safe, PredictionIsBounded
  <2>2. 0 <= RecentlyLostTime
    BY TrackingAssumption
  <2>. QED  BY <1>1, <1>2, <1>7, <1>9, <1>10, <2>1, <2>2 DEF Clock, PredictionIsBounded, TrackedStates
<1>12. mState' = "OK" => frame'.localised
  BY <1>2, <1>5, <1>6, <1>7 DEF TrackedStates
<1>14. Leaving' /\ Tracked' /\ Knowing'
  BY <1>1, <1>11, <1>12 DEF Leaving, Tracked, Knowing, PoseMeansLocalised
<1>15. InRange'
  BY <1>1, <1>6, <1>11, InRangeNow DEF InRange, States, TrackedStates
<1>. QED  BY <1>1, <1>3, <1>10, <1>13, <1>14, <1>15, KeptFromParts, KeptIsEnough

LEMMA EndTrackKept == ASSUME IInv, EndTrack PROVE IInv'
<1>1. Others /\ inertial' = inertial /\ pc = "end" /\ pc' = "report" /\ UNCHANGED <<frame, hasPose>>
  BY DEF EndTrack, Others, resultVars
<1>2. hasPose \in BOOLEAN /\ mbResetActiveMap \in BOOLEAN
  BY Zenon DEF IInv, Flags
<1>3. \/ mState = "LOST" /\ AskForReset /\ KeepMap /\ UNCHANGED trackVars
      \/ CreateMapInAtlas /\ NoRequest
      \/ mState # "LOST" /\ NoRequest /\ KeepMap /\ UNCHANGED trackVars
  BY Zenon DEF EndTrack, GiveUp
<1>4. mbResetActiveMap' \in BOOLEAN
  BY <1>2, <1>3, Zenon DEF AskForReset, NoRequest
<1>5. CASE CreateMapInAtlas /\ NoRequest
  <2>1. /\ mState' = "NO_IMAGES_YET" /\ ref' = "null" /\ lostFor' \in LostTimes
        /\ kfs' \in 0..(KFLimit + 1) /\ imu' \in ImuStates /\ imuInit' \in ImuInits
    BY <1>5, NewMap
  <2>2. Leaving' /\ Tracked' /\ Clock' /\ PredictionIsBounded' /\ Knowing'
    BY <1>1, <1>5, NewMap DEF Leaving, Tracked, Clock, PredictionIsBounded, Knowing, PoseMeansLocalised
  <2>3. InRange'
    BY <1>1, <2>1, InRangeNow DEF InRange, States
  <2>. QED  BY <1>1, <1>2, <1>4, <2>2, <2>3, KeptFromParts, KeptIsEnough
<1>6. CASE KeepMap /\ UNCHANGED trackVars /\ (mState = "LOST" => AskForReset) /\ (AskForReset \/ NoRequest)
  <2>1. UNCHANGED <<mState, ref, lostFor, kfs, imu, imuInit>>
    BY <1>6 DEF KeepMap, trackVars, mapVars
  <2>2. (mState = "LOST" => mbResetActiveMap') /\ (mbResetActiveMap => mbResetActiveMap')
    <3>1. CASE AskForReset
      BY <3>1 DEF AskForReset
    <3>2. CASE NoRequest /\ mState # "LOST"
      BY <3>2 DEF NoRequest
    <3>. QED  BY <1>6, <3>1, <3>2
  <2>3. Leaving' /\ Tracked' /\ Clock' /\ PredictionIsBounded' /\ Knowing'
    <3>1. /\ Clock
          /\ inertial /\ mState = "RECENTLY_LOST" => lostFor <= RecentlyLostTime \/ mbResetActiveMap
          /\ mState = "OK" /\ frame.pose = "estimated" => frame.localised \/ frame.overwritten
      BY <1>1 DEF IInv, Safe, PredictionIsBounded, Knowing
    <3>. QED  BY <1>1, <2>1, <2>2, <3>1 DEF Leaving, Tracked, Clock, PredictionIsBounded, Knowing, PoseMeansLocalised
  <2>4. InRange'
    BY <1>1, <2>1, InRangeNow DEF InRange
  <2>. QED  BY <1>1, <1>2, <1>4, <2>3, <2>4, KeptFromParts, KeptIsEnough
<1>. QED  BY <1>3, <1>5, <1>6, Zenon

-----------------------------------------------------------------------------
(* Every reachable state satisfies the invariant.                             *)
LEMMA NextKept == ASSUME IInv, [Next]_vars PROVE IInv'
<1>1. CASE Tracking
  BY <1>1, StartFrameKept, ViewerHasStoppedKept, ResetActiveMapKept, StepGrantedKept, StartTrackKept, EstimateKept,
     TrackLocalMapKept, EndTrackKept, ReportKept DEF Tracking
<1>2. CASE Viewer
  BY <1>2, MenuStepKept, MenuResetKept, MenuStopKept, MenuQuitKept, EndIterationKept, ReleasedKept DEF Viewer
<1>3. CASE LocalMapping
  BY <1>3, LocalMappingKept
<1>4. CASE Shutdown
  BY <1>4, ShutdownKept
<1>5. CASE UNCHANGED vars
  <2>. USE <1>5 DEF vars, trackVars, resultVars, mapVars, imuVars, stepVars, viewerVars
  <2>1. Flags'
    BY Zenon DEF IInv, Flags
  <2>2. Ranges'
    BY DEF IInv, Ranges
  <2>3. Safe'
    BY DEF IInv, Safe, Leaving, Tracked, Clock, PredictionIsBounded, Knowing, PoseMeansLocalised, Stopping
  <2>. QED  BY <2>1, <2>2, <2>3 DEF IInv
<1>. QED  BY <1>1, <1>2, <1>3, <1>4, <1>5 DEF Next

THEOREM FrameInvariant == Spec => []IInv
BY InitIInv, NextKept, PTL DEF Spec

(* A camera that is lost leaves its map, by a reset or by a new map, before    *)
(* the next frame is tracked (Tracking.cc:2792-2815).                          *)
THEOREM LostIsAlwaysLeft == Spec => []LostIsTransient
<1>1. IInv => LostIsTransient
  BY DEF IInv, Safe, Leaving, LostIsTransient
<1>. QED  BY <1>1, FrameInvariant, PTL

(* Only the end of an InitializeIMU leaves a tracked state without the         *)
(* keyframe that TrackReferenceKeyFrame and PredictStateIMU use.               *)
HasReference == ref = "keyframe" /\ kfs > 0

LEMMA ReferenceKept ==
  ASSUME IInv, [Next]_vars, WithoutReference'
  PROVE  WithoutReference \/ EndInitializeIMU
<1>. SUFFICES ASSUME ~WithoutReference, ~EndInitializeIMU PROVE FALSE
  OBVIOUS
<1>0. /\ mState \in TrackedStates => HasReference
      /\ mState' \in TrackedStates /\ ~HasReference'
  BY DEF WithoutReference, TrackedStates, HasReference
<1>. USE DEF TrackedStates, HasReference
<1>1. CASE UNCHANGED <<mState, ref, kfs>>
  BY <1>0, <1>1
<1>2. CASE LocalMapping
  <2>1. UNCHANGED <<mState, ref>>
    BY <1>2, Zenon DEF LocalMapping, InitializeIMU, MapGrows, CullKeyFrames, DeclareBadImu, ClearBadImu, BeginInitializeIMU,
           SetImuInitialized, LockMap
  <2>2. kfs' = kfs \/ kfs' > 0
    BY <1>2 DEF LocalMapping, InitializeIMU, MapGrows, CullKeyFrames, DeclareBadImu, ClearBadImu, BeginInitializeIMU,
           SetImuInitialized, LockMap, mapVars, IInv, Ranges
  <2>. QED  BY <1>0, <2>1, <2>2
<1>3. CASE mState' = "NO_IMAGES_YET"
  BY <1>0, <1>3
<1>4. CASE StartTrack
  <2>1. \/ mState' = "NO_IMAGES_YET"
        \/ UNCHANGED <<ref, kfs>> /\ (mState' = mState \/ mState' = "NOT_INITIALIZED")
    BY <1>4, Zenon DEF StartTrack, BadImu, OlderFrame, TimeJump, TakeMap, KeepState, KeepMap, CreateMapInAtlas, mapVars
  <2>. QED  BY <1>0, <2>1
<1>5. CASE Estimate
  <2>1. mState # "LOST"
    BY <1>5 DEF Estimate, IInv, Safe, Leaving
  <2>2. CASE Initialize
    <3>1. (mState' = mState /\ mState = "NOT_INITIALIZED") \/ (ref' = "keyframe" /\ kfs' = 1)
      BY <2>2, Zenon DEF Initialize
    <3>. QED  BY <1>0, <3>1
  <2>3. CASE EstimatePose \/ Crash
    BY <1>0, <2>3 DEF EstimatePose, Crash, KeepMap, trackVars, mapVars
  <2>. QED  BY <1>5, <2>1, <2>2, <2>3 DEF Estimate
<1>6. CASE TrackLocalMap
  <2>1. mState \in TrackedStates /\ UNCHANGED <<ref, kfs>>
    BY <1>6 DEF TrackLocalMap, KeepMap, mapVars, IInv, Safe, Tracked
  <2>. QED  BY <1>0, <2>1
<1>7. CASE EndTrack
  BY <1>1, <1>3, <1>7 DEF EndTrack, GiveUp, CreateMapInAtlas, KeepMap, trackVars, mapVars
<1>8. CASE StartFrame \/ ViewerHasStopped \/ StepGranted \/ Report \/ Shutdown
  BY <1>1, <1>8 DEF StartFrame, ViewerHasStopped, StepGranted, Report, Shutdown, trackVars, mapVars
<1>9. CASE ResetActiveMap
  BY <1>3, <1>9 DEF ResetActiveMap
<1>10. CASE Viewer
  BY <1>1, <1>10 DEF Viewer, MenuStep, MenuReset, MenuStop, MenuQuit, EndIteration, Released, ViewerOnly, trackVars, mapVars
<1>11. CASE UNCHANGED vars
  BY <1>1, <1>11 DEF vars, trackVars, mapVars
<1>. QED  BY <1>2, <1>4, <1>5, <1>6, <1>7, <1>8, <1>9, <1>10, <1>11, Zenon DEF Next, Tracking

THEOREM ReferenceIsThere == Spec => TrackedHasReference
<1>1. IInv /\ [Next]_vars => [WithoutReference' => WithoutReference \/ EndInitializeIMU]_vars
  BY ReferenceKept
<1>. QED  BY <1>1, FrameInvariant, PTL DEF Spec, TrackedHasReference

(* The prediction from the IMU stops after RecentlyLostTime, whatever comes    *)
(* between its frames.                                                         *)
THEOREM PredictionStops == Spec => []PredictionIsBounded
<1>1. IInv => PredictionIsBounded
  BY DEF IInv, Safe
<1>. QED  BY <1>1, FrameInvariant, PTL

(* The adapter reports a pose only for a frame that was localised, or whose    *)
(* state local mapping has overwritten.                                        *)
THEOREM PosesAreLocalised == Spec => []PoseMeansLocalised
<1>1. IInv => PoseMeansLocalised
  BY DEF IInv, Safe, Knowing
<1>. QED  BY <1>1, FrameInvariant, PTL

(* The map is cleared only while the viewer has stopped.                       *)
THEOREM ClearedUndrawn == Spec => []NotDrawnWhileCleared
<1>1. IInv => NotDrawnWhileCleared
  BY DEF IInv, Safe, Stopping, NotDrawnWhileCleared
<1>. QED  BY <1>1, FrameInvariant, PTL

(* Every variable keeps its range.                                             *)
THEOREM FrameTypes == Spec => []TypeOK
<1>1. IInv => TypeOK
  BY TypesTogether DEF IInv
<1>. QED  BY <1>1, FrameInvariant, PTL
=============================================================================

--------------------------- MODULE FrameTracking ---------------------------
(***************************************************************************)
(* The life of the tracking state over frames, resets and maps, and the    *)
(* two threads that share it.                                              *)
(*                                                                         *)
(* One thread calls System::TrackRGBD for each frame: it performs the      *)
(* reset that was asked, holding mMutexReset while it waits for the viewer *)
(* to stop, then runs Tracking::Track, and the adapter decides whether the *)
(* result carries a pose.  The viewer's loop draws the map, serves its     *)
(* menu (reset, stop, step, quit), stops and finishes on request.  Local   *)
(* mapping changes the number of keyframes, declares the IMU data bad and  *)
(* runs InitializeIMU, which goes on while frames are tracked and maps are *)
(* left, and ends by writing mpTracker->mState.                            *)
(*                                                                         *)
(* Each test of mState is one step with the write that follows it; Track   *)
(* is cut where local mapping's write can come between two of its own.     *)
(* Outcomes of matching and optimisation are arbitrary.  The reset's       *)
(* handshake with local mapping and loop closing is in SlamThreads;        *)
(* nothing sets mbOnlyTracking (InformOnlyTracking has no caller), nothing *)
(* calls System::Reset, and what follows from either is left out.          *)
(***************************************************************************)
EXTENDS Integers

CONSTANTS
  KFLimit,           \* 10: a map with more keyframes survives being lost
  JumpTime,          \* 1.0 s between two frames
  RecentlyLostTime,  \* time_recently_lost: 1.0 s
  VisualLostTime,    \* 3.0 s
  Menus              \* which menu entries are used

ASSUME TrackingAssumption ==
  /\ KFLimit \in Nat /\ JumpTime \in Nat /\ RecentlyLostTime \in Nat /\ VisualLostTime \in Nat
  /\ Menus \subseteq {"reset", "stop", "step", "quit"}

VARIABLES
  inertial,         \* mSensor is IMU_RGBD (else RGBD)
  pc,               \* where the tracking thread is
  mMutexReset,      \* TRUE while TrackRGBD holds it over ResetActiveMap
  mbResetActiveMap,
  mState,
  ref,              \* mpReferenceKF and mpLastKeyFrame: "null", "keyframe" or "deleted"
  lostFor,          \* in RECENTLY_LOST, time from mTimeStampLost to the last frame
  frame,            \* the frame in Track, or the last one
  hasPose,          \* has_pose of the last result
  kfs,              \* KeyFramesInMap of the current map, up to KFLimit + 1
  imu,              \* how far the current map's IMU is
  imuInit,          \* where local mapping is in InitializeIMU
  mbBadImu,
  bStepByStep, mbStep,
  viewer,           \* where the viewer thread is
  mbStopRequested, mbStopped, mbFinishRequested, mbFinished

trackVars == <<mState, ref, lostFor>>
resultVars == <<frame, hasPose>>
mapVars == <<kfs, imu>>
imuVars == <<imuInit, mbBadImu>>
stepVars == <<bStepByStep, mbStep>>
viewerVars == <<viewer, mbStopRequested, mbStopped, mbFinishRequested, mbFinished>>
vars == <<inertial, pc, mMutexReset, mbResetActiveMap, trackVars, resultVars, mapVars, imuVars,
          stepVars, viewerVars>>

States == {"NO_IMAGES_YET", "NOT_INITIALIZED", "OK", "RECENTLY_LOST", "LOST"}
LostTimes == 0..(RecentlyLostTime + VisualLostTime + JumpTime + 1)
ImuStates == {"none", "initialized", "BA1", "BA2"}

(* InitializeIMU before SetImuInitialized, in the full adjustment, and with    *)
(* the mutex of the current map, or of a map that has been left since.         *)
ImuInits == {"none", "optimizing", "adjusting", "updating", "updatingLeft"}

(* A frame: its pose, whether it was localised (so far), and whether local     *)
(* mapping has overwritten the state that Track gave it.                       *)
Frames == [pose : {"identity", "estimated"}, localised : BOOLEAN, overwritten : BOOLEAN]
NewFrame == [pose |-> "identity", localised |-> FALSE, overwritten |-> FALSE]

TypeOK ==
  /\ inertial \in BOOLEAN /\ mMutexReset \in BOOLEAN /\ mbResetActiveMap \in BOOLEAN
  /\ pc \in {"idle", "waitViewerStop", "clear", "waitStep", "track", "estimate", "localMap",
             "end", "report", "waitFinish", "down", "crashed"}
  /\ mState \in States /\ ref \in {"null", "keyframe", "deleted"} /\ lostFor \in LostTimes
  /\ frame \in Frames /\ hasPose \in BOOLEAN
  /\ kfs \in 0..(KFLimit + 1) /\ imu \in ImuStates
  /\ imuInit \in ImuInits /\ mbBadImu \in BOOLEAN
  /\ bStepByStep \in BOOLEAN /\ mbStep \in BOOLEAN
  /\ viewer \in {"draw", "menuReset", "menuStop", "waitFinish", "stopped", "finished"}
  /\ mbStopRequested \in BOOLEAN /\ mbStopped \in BOOLEAN
  /\ mbFinishRequested \in BOOLEAN /\ mbFinished \in BOOLEAN

Init ==
  /\ inertial \in BOOLEAN
  /\ pc = "idle" /\ mMutexReset = FALSE /\ mbResetActiveMap = FALSE
  /\ mState = "NO_IMAGES_YET" /\ ref = "null" /\ lostFor = 0
  /\ frame = NewFrame /\ hasPose = FALSE
  /\ kfs = 0 /\ imu = "none" /\ imuInit = "none" /\ mbBadImu = FALSE
  /\ bStepByStep = FALSE /\ mbStep = FALSE
  /\ viewer = "draw"
  /\ mbStopRequested = FALSE /\ mbStopped = FALSE
  /\ mbFinishRequested = FALSE /\ mbFinished = FALSE

-----------------------------------------------------------------------------
(* System::TrackRGBD up to Track: the reset that was asked, under the mutex.   *)
\* Mutant of StartFrame: the viewer is waited for but not asked to stop.
StartWithoutRequest ==
  /\ pc = "idle"
  /\ IF mbResetActiveMap THEN mMutexReset' = TRUE /\ pc' = "waitViewerStop"
                         ELSE pc' = "waitStep" /\ UNCHANGED mMutexReset
  /\ UNCHANGED <<inertial, mbResetActiveMap, trackVars, resultVars, mapVars, imuVars,
                 stepVars, viewerVars>>
StartFrame ==
  /\ pc = "idle"
  /\ IF mbResetActiveMap
     THEN /\ mMutexReset' = TRUE
          /\ mbStopRequested' = (mbStopRequested \/ ~mbStopped)     \* Viewer::RequestStop
          /\ pc' = "waitViewerStop"
     ELSE pc' = "waitStep" /\ UNCHANGED <<mMutexReset, mbStopRequested>>
  /\ UNCHANGED <<inertial, mbResetActiveMap, trackVars, resultVars, mapVars, imuVars,
                 stepVars, viewer, mbStopped, mbFinishRequested, mbFinished>>

(* while(!mpViewer->isStopped()) *)
\* Mutant of ViewerHasStopped: a request is enough.
ViewerWasAsked ==
  /\ pc = "waitViewerStop"
  /\ pc' = "clear"
  /\ UNCHANGED <<inertial, mMutexReset, mbResetActiveMap, trackVars, resultVars, mapVars, imuVars,
                 stepVars, viewerVars>>
ViewerHasStopped ==
  /\ pc = "waitViewerStop"
  /\ mbStopped
  /\ pc' = "clear"
  /\ UNCHANGED <<inertial, mMutexReset, mbResetActiveMap, trackVars, resultVars, mapVars, imuVars,
                 stepVars, viewerVars>>

(* The rest of Tracking::ResetActiveMap: local mapping answers at the end of   *)
(* its loop and clears the bad IMU flag, the map is cleared, the viewer goes   *)
(* on and the mutex is released.                                               *)
ResetActiveMap ==
  /\ pc = "clear" /\ imuInit = "none"
  /\ mState' = "NO_IMAGES_YET" /\ ref' = "null" /\ lostFor' = 0
  /\ kfs' = 0 /\ imu' = "none" /\ mbBadImu' = FALSE
  /\ mbStopped' = FALSE                                             \* Viewer::Release
  /\ mbResetActiveMap' = FALSE /\ mMutexReset' = FALSE
  /\ pc' = "waitStep"
  /\ UNCHANGED <<inertial, resultVars, imuInit, stepVars, viewer, mbStopRequested,
                 mbFinishRequested, mbFinished>>

(* while(!mbStep && bStepByStep) at the start of Track. *)
StepGranted ==
  /\ pc = "waitStep"
  /\ mbStep \/ ~bStepByStep
  /\ mbStep' = IF bStepByStep THEN FALSE ELSE mbStep
  /\ pc' = "track"
  /\ UNCHANGED <<inertial, mMutexReset, mbResetActiveMap, trackVars, resultVars, mapVars, imuVars,
                 bStepByStep, viewerVars>>

-----------------------------------------------------------------------------
(* Track up to the mutex of the map.  A new frame has no pose: its matrix is   *)
(* the identity, which IsValidPose refuses.  The first frame of a map is the   *)
(* identity too.                                                               *)
AskForReset == mbResetActiveMap' = TRUE
NoRequest == UNCHANGED mbResetActiveMap

(* The current map is left.  An InitializeIMU that is after its mutex goes on  *)
(* with it, or with that of the new map if it had not asked for it yet.        *)
MapIsLeft ==
  imuInit' \in CASE imuInit = "updating" -> {"updatingLeft"}
                 [] imuInit = "adjusting" -> {"adjusting", "updatingLeft"}
                 [] OTHER -> {imuInit}

\* Mutant of CreateMapInAtlas: the state is not reset.
CreateMapOnly ==
  /\ ref' = "null"
  /\ kfs' = 0 /\ imu' = "none" /\ MapIsLeft
  /\ UNCHANGED <<mState, lostFor>>
CreateMapInAtlas ==
  /\ mState' = "NO_IMAGES_YET" /\ ref' = "null" /\ lostFor' = 0
  /\ kfs' = 0 /\ imu' = "none" /\ MapIsLeft

KeepMap == UNCHANGED <<mapVars, imuInit>>

(* The time since mTimeStampLost runs on over every frame.                     *)
Capped(t) == IF t \in LostTimes THEN t ELSE RecentlyLostTime + VisualLostTime + JumpTime + 1
ClockRuns(dt) == lostFor' = IF mState = "RECENTLY_LOST" THEN Capped(lostFor + dt) ELSE 0
KeepState(dt) == ClockRuns(dt) /\ KeepMap /\ UNCHANGED <<mState, ref>>

(* The IMU data were declared bad. *)
BadImu(dt) ==
  /\ mbBadImu
  /\ AskForReset /\ KeepState(dt)

(* A time stamp older than the last frame's. *)
OlderFrame ==
  /\ ~mbBadImu /\ mState # "NO_IMAGES_YET"
  /\ CreateMapInAtlas /\ NoRequest

(* More than JumpTime since the last frame, with an inertial sensor. *)
TimeJump(dt) ==
  /\ ~mbBadImu /\ mState # "NO_IMAGES_YET" /\ inertial /\ dt > JumpTime
  /\ \/ imu = "BA2" /\ CreateMapInAtlas /\ NoRequest
     \/ imu # "BA2" /\ KeepState(dt) /\ AskForReset

(* Otherwise Track takes the mutex of the map, unless InitializeIMU holds it.  *)
TakeMap(dt) ==
  /\ ~mbBadImu /\ imuInit # "updating"
  /\ inertial /\ mState # "NO_IMAGES_YET" => dt <= JumpTime
  /\ mState' = IF mState = "NO_IMAGES_YET" THEN "NOT_INITIALIZED" ELSE mState
  /\ ClockRuns(dt) /\ NoRequest /\ KeepMap /\ UNCHANGED ref

StartTrack ==
  /\ pc = "track"
  /\ frame' = NewFrame
  /\ \E dt \in 1..(JumpTime + 1) :
       \/ (BadImu(dt) \/ OlderFrame \/ TimeJump(dt)) /\ pc' = "report"
       \/ TakeMap(dt) /\ pc' = "estimate"
  /\ UNCHANGED <<inertial, mMutexReset, hasPose, mbBadImu, stepVars, viewerVars>>

-----------------------------------------------------------------------------
(* The first estimate of the pose.                                             *)

(* StereoInitialization: with enough points, and with an inertial sensor       *)
(* enough of its data, the frame becomes the first keyframe of the map.        *)
Initialize ==
  /\ mState = "NOT_INITIALIZED"
  /\ \/ UNCHANGED <<mState, ref, kfs, frame>>
     \/ /\ mState' = "OK" /\ ref' = "keyframe" /\ kfs' = 1
        /\ frame' = [frame EXCEPT !.localised = TRUE]
  /\ pc' = "report"
  /\ NoRequest /\ UNCHANGED <<lostFor, imu, imuInit>>

(* A frame that finds the state LOST starts a new map or asks for a reset.     *)
TrackLost ==
  /\ ref' = "null"
  /\ IF kfs < KFLimit THEN AskForReset /\ KeepMap /\ UNCHANGED <<mState, lostFor>>
                      ELSE CreateMapInAtlas /\ NoRequest
  /\ pc' = "report" /\ UNCHANGED frame

(* ok is what matching or relocalisation gave: with an inertial sensor a       *)
(* camera lost for a short time is predicted instead.                          *)
\* Mutant of Timeout: the prediction goes on.
NoInertialTimeout(ok) == ~inertial /\ lostFor > VisualLostTime /\ ~ok
Timeout(ok) == IF inertial THEN lostFor > RecentlyLostTime
                           ELSE lostFor > VisualLostTime /\ ~ok

PoseOk(ok) == IF mState = "RECENTLY_LOST" /\ inertial THEN imu # "none" /\ ~Timeout(ok)
                                                      ELSE ok

StateAfterPose(ok, recentReloc) ==
  CASE mState = "OK" /\ ok -> "OK"
    [] mState = "OK" /\ ~ok -> IF (recentReloc /\ inertial) \/ kfs <= KFLimit
                               THEN "LOST" ELSE "RECENTLY_LOST"
    [] mState = "RECENTLY_LOST" -> IF Timeout(ok) THEN "LOST" ELSE "RECENTLY_LOST"

EstimatePose ==
  /\ mState \in {"OK", "RECENTLY_LOST"} /\ ref # "null"
  /\ \E ok, recentReloc \in BOOLEAN :
       /\ mState' = StateAfterPose(ok, recentReloc)
       /\ lostFor' = IF mState' = "RECENTLY_LOST" THEN lostFor ELSE 0
       /\ frame' = [frame EXCEPT !.pose = "estimated", !.localised = PoseOk(ok)]
  /\ pc' = "localMap"
  /\ NoRequest /\ KeepMap /\ UNCHANGED ref

(* Without a reference keyframe the process ends here; with one that was       *)
(* deleted it may.                                                             *)
Crash ==
  /\ mState \in {"OK", "RECENTLY_LOST"} /\ ref # "keyframe"
  /\ pc' = "crashed"
  /\ NoRequest /\ KeepMap /\ UNCHANGED <<trackVars, frame>>

Estimate ==
  /\ pc = "estimate"
  /\ IF mState = "LOST" THEN TrackLost ELSE Initialize \/ EstimatePose \/ Crash
  /\ UNCHANGED <<inertial, mMutexReset, hasPose, mbBadImu, stepVars, viewerVars>>

(* TrackLocalMap, and what its outcome says of the camera.                     *)
StateAfterLocalMap(ok) ==
  IF ok THEN "OK" ELSE IF mState = "OK" THEN "RECENTLY_LOST" ELSE mState

TrackLocalMap ==
  /\ pc = "localMap" /\ pc' = "end"
  /\ \E okLocalMap \in BOOLEAN :
       LET ok == frame.localised /\ okLocalMap
       IN  /\ frame' = [frame EXCEPT !.localised = ok]
           /\ mState' = StateAfterLocalMap(ok)
           /\ lostFor' = IF mState' = mState THEN lostFor ELSE 0
           /\ IF ~ok /\ mState = "OK" /\ inertial /\ imu # "BA2" THEN AskForReset ELSE NoRequest
  /\ KeepMap
  /\ UNCHANGED <<inertial, mMutexReset, ref, hasPose, mbBadImu, stepVars, viewerVars>>

(* What a camera that is lost does: a young map is reset, another one is left. *)
ResetYoungMap == kfs <= KFLimit \/ (inertial /\ imu = "none")
\* Mutant of GiveUp: only with an inertial sensor is the reset asked for.
GiveUpQuietly ==
  IF ResetYoungMap
  THEN /\ IF inertial THEN AskForReset ELSE NoRequest
       /\ KeepMap /\ UNCHANGED trackVars
  ELSE CreateMapInAtlas /\ NoRequest
GiveUp ==
  IF ResetYoungMap THEN AskForReset /\ KeepMap /\ UNCHANGED trackVars
                   ELSE CreateMapInAtlas /\ NoRequest

(* The end of Track, which releases the mutex of the map.                      *)
EndTrack ==
  /\ pc = "end" /\ pc' = "report"
  /\ IF mState = "LOST" THEN GiveUp ELSE NoRequest /\ KeepMap /\ UNCHANGED trackVars
  /\ UNCHANGED <<inertial, mMutexReset, resultVars, mbBadImu, stepVars, viewerVars>>

-----------------------------------------------------------------------------
(* TrackRGBD copies mState, and OrbSlam3BackendAdapter::processFrame decides   *)
(* whether there is a pose.                                                    *)
\* Mutant of IsValidPose: any pose will do.
AnyPose(pose) == pose \in {"identity", "estimated"}
IsValidPose(pose) == pose = "estimated"

Report ==
  /\ pc = "report" /\ pc' = "idle"
  /\ hasPose' = (mState = "OK" /\ IsValidPose(frame.pose))
  /\ UNCHANGED <<inertial, mMutexReset, mbResetActiveMap, trackVars, frame, mapVars, imuVars,
                 stepVars, viewerVars>>

-----------------------------------------------------------------------------
(* What local mapping does to the map between and during frames.  The bad IMU  *)
(* flag comes with a reset of local mapping's own, which clears it again,      *)
(* whether or not a frame has seen it.                                         *)
MapGrows ==
  /\ imuInit # "adjusting"
  /\ kfs \in 1..KFLimit /\ kfs' = kfs + 1
  /\ UNCHANGED <<mState, ref, lostFor, frame, imu, imuVars>>
CullKeyFrames ==
  /\ imuInit = "none"
  /\ kfs > 1 /\ kfs' = kfs - 1
  /\ UNCHANGED <<mState, ref, lostFor, frame, imu, imuVars>>
DeclareBadImu ==
  /\ imuInit = "none" /\ imu \in {"initialized", "BA1"} /\ ~mbBadImu /\ mbBadImu' = TRUE
  /\ UNCHANGED <<mState, ref, lostFor, frame, mapVars, imuInit>>
ClearBadImu ==
  /\ imuInit = "none" /\ mbBadImu /\ mbBadImu' = FALSE
  /\ UNCHANGED <<mState, ref, lostFor, frame, mapVars, imuInit>>

(* InitializeIMU is called for a map whose IMU is not initialised, and twice   *)
(* more while the camera is tracked, when the step is marked before it is      *)
(* made.  It returns at once when there are too few keyframes.                 *)
BeginInitializeIMU ==
  /\ inertial /\ imuInit = "none" /\ kfs > 0
  /\ \/ imu = "none" /\ kfs >= KFLimit /\ imuInit' = "optimizing" /\ UNCHANGED imu
     \/ /\ mState = "OK"
        /\ \/ imu = "initialized" /\ imu' = "BA1"
           \/ imu = "BA1" /\ imu' = "BA2"
        /\ imuInit' \in {"none"} \union (IF kfs >= KFLimit THEN {"optimizing"} ELSE {})
  /\ UNCHANGED <<mState, ref, lostFor, frame, kfs, mbBadImu>>

(* Before the adjustment the current map, whichever it is, is initialised.     *)
SetImuInitialized ==
  /\ imuInit = "optimizing" /\ imuInit' = "adjusting"
  /\ imu' = IF imu = "none" THEN "initialized" ELSE imu
  /\ UNCHANGED <<mState, ref, lostFor, frame, kfs, mbBadImu>>

(* After it InitializeIMU takes the mutex of the current map.                  *)
LockMap ==
  /\ imuInit = "adjusting" /\ imuInit' = "updating"
  /\ pc \notin {"estimate", "localMap", "end"}
  /\ UNCHANGED <<mState, ref, lostFor, frame, mapVars, mbBadImu>>

(* Its end deletes the keyframes queued since it emptied the queue: there are  *)
(* none unless Track works on another map by now.  Then it writes mState.      *)
EndInitializeIMU ==
  /\ imuInit \in {"updating", "updatingLeft"} /\ imuInit' = "none"
  /\ ref' \in {ref} \union
              (IF imuInit = "updatingLeft" /\ ref = "keyframe" THEN {"deleted"} ELSE {})
  /\ mState' = "OK" /\ lostFor' = 0
  /\ frame' = [frame EXCEPT !.overwritten = TRUE]
  /\ UNCHANGED <<mapVars, mbBadImu>>

InitializeIMU == BeginInitializeIMU \/ SetImuInitialized \/ LockMap \/ EndInitializeIMU

LocalMappingOnly ==
  /\ pc # "crashed"
  /\ UNCHANGED <<inertial, pc, mMutexReset, mbResetActiveMap, hasPose, stepVars, viewerVars>>

LocalMapping ==
  /\ LocalMappingOnly
  /\ MapGrows \/ CullKeyFrames \/ DeclareBadImu \/ ClearBadImu \/ InitializeIMU

-----------------------------------------------------------------------------
(* The loop of Viewer::Run.  Reset and Stop of the menu call System, which     *)
(* takes mMutexReset; Stop is System::Shutdown, which waits for this thread.   *)
ViewerOnly ==
  /\ pc # "crashed"
  /\ UNCHANGED <<inertial, pc, mMutexReset, trackVars, resultVars, mapVars, imuVars>>

MenuStep ==
  /\ viewer = "draw" /\ "step" \in Menus
  /\ \/ bStepByStep' = ~bStepByStep /\ UNCHANGED mbStep
     \/ mbStep' = TRUE /\ UNCHANGED bStepByStep
  /\ ViewerOnly /\ UNCHANGED <<mbResetActiveMap, viewerVars>>

MenuReset ==
  /\ \/ /\ viewer = "draw" /\ "reset" \in Menus
        /\ viewer' = "menuReset"
        /\ UNCHANGED mbResetActiveMap
     \/ /\ viewer = "menuReset" /\ ~mMutexReset
        /\ mbResetActiveMap' = TRUE
        /\ viewer' = "draw"
  /\ ViewerOnly
  /\ UNCHANGED <<stepVars, mbStopRequested, mbStopped, mbFinishRequested, mbFinished>>

MenuStop ==
  /\ \/ /\ viewer = "draw" /\ "stop" \in Menus
        /\ viewer' = "menuStop"
        /\ UNCHANGED mbFinishRequested
     \/ /\ viewer = "menuStop" /\ ~mMutexReset
        /\ mbFinishRequested' = TRUE
        /\ viewer' = "waitFinish"
  /\ ViewerOnly
  /\ UNCHANGED <<mbResetActiveMap, stepVars, mbStopRequested, mbStopped, mbFinished>>

MenuQuit ==
  /\ viewer = "draw" /\ "quit" \in Menus /\ ~mbFinishRequested
  /\ mbFinishRequested' = TRUE
  /\ ViewerOnly
  /\ UNCHANGED <<mbResetActiveMap, stepVars, viewer, mbStopRequested, mbStopped, mbFinished>>

(* The end of an iteration: Stop, the wait for Release, CheckFinish, SetFinish. *)
EndIteration ==
  /\ viewer = "draw"
  /\ IF mbFinishRequested
     THEN viewer' = "finished" /\ mbFinished' = TRUE /\ UNCHANGED <<mbStopRequested, mbStopped>>
     ELSE /\ mbStopRequested
          /\ viewer' = "stopped" /\ mbStopped' = TRUE /\ mbStopRequested' = FALSE
          /\ UNCHANGED mbFinished
  /\ ViewerOnly /\ UNCHANGED <<mbResetActiveMap, stepVars, mbFinishRequested>>

Released ==
  /\ viewer = "stopped" /\ ~mbStopped
  /\ IF mbFinishRequested THEN viewer' = "finished" /\ mbFinished' = TRUE
                          ELSE viewer' = "draw" /\ UNCHANGED mbFinished
  /\ ViewerOnly
  /\ UNCHANGED <<mbResetActiveMap, stepVars, mbStopRequested, mbStopped, mbFinishRequested>>

ViewerLoop == EndIteration \/ Released \/ (MenuReset /\ viewer = "menuReset")
                           \/ (MenuStop /\ viewer = "menuStop")

-----------------------------------------------------------------------------
(* The node shuts the session down between frames: System::Shutdown asks the   *)
(* viewer to finish and waits for it.                                          *)
Shutdown ==
  /\ \/ pc = "idle" /\ mbFinishRequested' = TRUE /\ pc' = "waitFinish"
     \/ pc = "waitFinish" /\ mbFinished /\ pc' = "down" /\ UNCHANGED mbFinishRequested
  /\ UNCHANGED <<inertial, mMutexReset, mbResetActiveMap, trackVars, resultVars, mapVars, imuVars,
                 stepVars, viewer, mbStopRequested, mbStopped, mbFinished>>

Viewer == MenuStep \/ MenuReset \/ MenuStop \/ MenuQuit \/ EndIteration \/ Released
Tracking ==
  \/ StartFrame \/ ViewerHasStopped \/ ResetActiveMap \/ StepGranted
  \/ StartTrack \/ Estimate \/ TrackLocalMap \/ EndTrack \/ Report

Next == Tracking \/ Viewer \/ LocalMapping \/ Shutdown

Spec == Init /\ [][Next]_vars

(* Frames keep coming until the node shuts down, and the threads run: the      *)
(* viewer's loop is free, only its menu is left to the user, and InitializeIMU *)
(* goes on once it was called.                                                 *)
FairSpec ==
  /\ Spec
  /\ WF_vars(Tracking) /\ WF_vars(ViewerLoop)
  /\ WF_vars(LocalMappingOnly /\ (SetImuInitialized \/ LockMap \/ EndInitializeIMU))

-----------------------------------------------------------------------------
(* LOST is never carried from one frame to the next without a reset on its     *)
(* way: the end of Track (Tracking.cc:2788-2809) leaves the map or asks for    *)
(* the reset, so that the branch for LOST at the start of the next frame       *)
(* (Tracking.cc:2273-2292) is not reached.                                     *)
LostIsTransient ==
  /\ mState = "LOST" /\ pc \in {"report", "idle"} => mbResetActiveMap
  /\ pc \in {"track", "estimate"} => mState # "LOST"

(* Track looks up its reference keyframe, and the one the IMU is predicted     *)
(* from, unchecked whenever it is not initialising (Tracking.cc:2192-2207):    *)
(* over resets, new maps and early returns nothing takes it away from a state  *)
(* that counts on it, and nothing enters such a state without it, except the   *)
(* end of an InitializeIMU (LocalMapping.cc:1425-1432).                        *)
WithoutReference ==
  mState \in {"OK", "RECENTLY_LOST", "LOST"} /\ ~(ref = "keyframe" /\ kfs > 0)
TrackedHasReference ==
  [][WithoutReference' => WithoutReference \/ EndInitializeIMU]_vars

(* With an inertial sensor the pose is predicted for RecentlyLostTime at most  *)
(* after a loss (Tracking.cc:2247): a frame that leaves the camera lost for    *)
(* longer, early returns and jumps of the time included, has the map reset.    *)
PredictionIsBounded ==
  inertial /\ mState = "RECENTLY_LOST" /\ pc \notin {"estimate", "crashed"} =>
    lostFor <= RecentlyLostTime \/ mbResetActiveMap

(* A pose is reported only for a frame that was localised, although frames     *)
(* that return early report the state of the frame before: IsValidPose (not    *)
(* identity, "which ORB-SLAM3 returns on tracking failure") is what refuses    *)
(* them (orbslam3_backend_adapter.cc:74, orbslam3_pose_utils.h:36-42).  Only   *)
(* a state that local mapping wrote over Track's can give one to another frame.*)
PoseMeansLocalised == pc = "idle" /\ hasPose => frame.localised \/ frame.overwritten

(* The map is never cleared while the viewer draws it (Tracking.cc:4497-4501): *)
(* the viewer is stopped, waits in System, or has not come back from it.       *)
NotDrawnWhileCleared == pc = "clear" => viewer = "stopped"

(* A reset that was asked is done, as long as nobody asks the viewer for       *)
(* anything that keeps it from stopping and no step is waited for.             *)
ResetIsDone ==
  mbResetActiveMap ~> \/ ~mbResetActiveMap
                      \/ viewer # "draw" /\ viewer # "stopped"
                      \/ mbFinishRequested \/ bStepByStep \/ pc \in {"down", "crashed"}

(* "Reset the system (clear Atlas or the active map)" (System.h:157): a reset  *)
(* asked for while frames keep coming clears the map, unless the end is asked. *)
ResetClearsTheMap == mbResetActiveMap ~> (~mbResetActiveMap \/ mbFinishRequested)

=============================================================================

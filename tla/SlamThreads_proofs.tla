-------------------------- MODULE SlamThreads_proofs --------------------------
(***************************************************************************)
(* Proofs about SlamThreads, for every number of keyframes, workers,       *)
(* operations, resets and maps.                                            *)
(*                                                                         *)
(* The argument: mbStopped can be true only while local mapping sits in    *)
(* its waiting loop or ends, because only Stop() and SetFinish() raise it  *)
(* and Release() is the only way out (StopFlagInv).  SetNotStop keeps      *)
(* Tracking and Stop() apart (InsertInv).  With no GBA thread, loop        *)
(* closing is the only caller of Release, so mbStopped stays up from the   *)
(* end of its wait to its own Release (BorrowInv).  A thread that answered *)
(* a reset gets no keyframe before Tracking has cleared the map, because   *)
(* Tracking, which waits, is where keyframes come from (ResetInv).         *)
(***************************************************************************)
EXTENDS SlamThreads, Selection_proofs

Others == LcStep \/ WorkerStep \/ TrackStep \/ ResetStep \/ ShutdownStep

\* Local mapping leaves the flag alone while it is away from its waiting loop.
MayBeStopped == {"stopped", "finish", "finishing", "done"}

BadImuInv ==
  mbBadImu => lmResetActiveMap /\ lmPc \in {"optimise", "imu", "imuPop", "imuInsert", "imuDrop",
                                           "handOff", "reset"}
StopFlagInv == BadImuInv /\ (mbStopped => lmPc \in MayBeStopped)

-----------------------------------------------------------------------------
(* What the other threads may do to the flags of local mapping.             *)

\* No other thread moves local mapping, sets mbStopped, touches mbBadImu or
\* withdraws a reset request.
LEMMA LcKeepsStopFlag ==
  LcStep => /\ trkPc' = trkPc /\ lmPc' = lmPc /\ (mbStopped' => mbStopped)
            /\ mbBadImu' = mbBadImu /\ lmResetActiveMap' = lmResetActiveMap
            /\ mbNotStop' = mbNotStop /\ lmFinishRequested' = lmFinishRequested
<1> USE DEF lmVars, queueVars, stopVars, finishVars, resetVars, RequestStop, PopKeyFrame, AddKeyFrame,
            ReleaseLock, ReleaseBody
<1>1. ASSUME LcOwnStep
      PROVE  /\ lmPc' = lmPc /\ (mbStopped' => mbStopped)
             /\ mbBadImu' = mbBadImu /\ lmResetActiveMap' = lmResetActiveMap
             /\ mbNotStop' = mbNotStop /\ lmFinishRequested' = lmFinishRequested
  <2>1. CASE LcRequestStop \/ LcEmptyPop \/ LcEmptyInsert
    BY <2>1 DEF LcRequestStop, LcEmptyPop, LcEmptyInsert
  <2>2. CASE LcReleaseLock \/ LcReleaseBody
    BY <2>2 DEF LcReleaseLock, LcReleaseBody
  <2>3. CASE LcAbortGBA
    BY <2>3 DEF LcAbortGBA
  <2>4. CASE LcLaunchGBA
    BY <2>4 DEF LcLaunchGBA
  <2>5. CASE LcRun \/ LcCheckNewKeyFrames \/ LcDetect \/ LcEmptyQueue \/ LcCheckGBA
    BY <2>5 DEF LcRun, LcCheckNewKeyFrames, LcDetect, LcEmptyQueue, LcCheckGBA
  <2>6. CASE LcWaitStopped \/ LcCorrect \/ LcCheckFinish \/ LcSetFinish
    BY <2>6 DEF LcWaitStopped, LcCorrect, LcCheckFinish, LcSetFinish
  <2> QED BY <1>1, <2>1, <2>2, <2>3, <2>4, <2>5, <2>6 DEF LcOwnStep
<1>2. ASSUME LcResetIfRequested(activeKeyFrames)
      PROVE  /\ lmPc' = lmPc /\ (mbStopped' => mbStopped)
             /\ mbBadImu' = mbBadImu /\ lmResetActiveMap' = lmResetActiveMap
             /\ mbNotStop' = mbNotStop /\ lmFinishRequested' = lmFinishRequested
  BY <1>2 DEF LcResetIfRequested
<1> QED BY <1>1, <1>2 DEF LcStep

LEMMA WorkerKeepsStopFlag ==
  WorkerStep => /\ trkPc' = trkPc /\ lmPc' = lmPc /\ (mbStopped' => mbStopped)
                /\ mbBadImu' = mbBadImu /\ lmResetActiveMap' = lmResetActiveMap
                /\ mbNotStop' = mbNotStop /\ lmFinishRequested' = lmFinishRequested
BY DEF WorkerStep, GbaStep, GbaOptimise, GbaLock, GbaRequestStop, GbaWaitStopped, GbaUpdate,
   GbaReleaseLock, GbaReleaseBody, GbaPublish, lmVars, queueVars, stopVars, finishVars, resetVars,
   trkVars, RequestStop, ReleaseLock, ReleaseBody

LEMMA TrackingKeepsStopFlag ==
  TrackStep \/ ResetStep \/ ShutdownStep =>
    /\ lmPc' = lmPc /\ (mbStopped' => mbStopped)
    /\ mbBadImu' = mbBadImu /\ (lmResetActiveMap => lmResetActiveMap')
<1> USE DEF lmVars, queueVars, stopVars, resetVars, SetNotStop, ClearNotStop
<1>1. TrackStep => /\ lmPc' = lmPc /\ (mbStopped' => mbStopped)
                   /\ mbBadImu' = mbBadImu /\ (lmResetActiveMap => lmResetActiveMap')
  BY DEF TrackStep, StereoInitialization, NeedNewKeyFrame, CreateRefused, CreateAllowed,
     CreateInsert, CreateDone, CreateMapInAtlas
<1>2. ResetStep => /\ lmPc' = lmPc /\ (mbStopped' => mbStopped)
                   /\ mbBadImu' = mbBadImu /\ (lmResetActiveMap => lmResetActiveMap')
  BY DEF ResetStep, ResetBegin, ResetLocalMapperDone, ResetLoopClosingDone, ResetClear,
     ResetActiveBegin, ResetActiveLocalMapperDone, ResetActiveLoopClosingDone,
     ResetActiveClear, RequestReset, RequestResetActiveMap
<1>3. ShutdownStep => /\ lmPc' = lmPc /\ (mbStopped' => mbStopped)
                      /\ mbBadImu' = mbBadImu /\ (lmResetActiveMap => lmResetActiveMap')
  BY DEF ShutdownStep, Shutdown, ShutdownLoopClosing, AwaitLocalMapping, AwaitLoopClosing, AwaitGBA
<1> QED BY <1>1, <1>2, <1>3

-----------------------------------------------------------------------------
\* mbStopped is up only in the waiting loop and at the end of Run, in every
\* reachable state; mbBadImu never survives the iteration that raised it.
THEOREM StopFlagInvariant == Spec => []StopFlagInv
<1>1. Init => StopFlagInv
  BY DEF Init, LmInit, StopFlagInv, BadImuInv
<1>2. StopFlagInv /\ [Next]_vars => StopFlagInv'
  <2> SUFFICES ASSUME StopFlagInv, [Next]_vars PROVE StopFlagInv'
    OBVIOUS
  <2> USE DEF StopFlagInv, BadImuInv, MayBeStopped
  <2>1. CASE LmOwnStep
    <3> USE DEF LmGoto, stopVars, resetVars
    <3>1. CASE LmRun BY <3>1 DEF LmRun
    <3>2. CASE SetBusy BY <3>2 DEF SetBusy
    <3>3. CASE CheckNewKeyFrames BY <3>3 DEF CheckNewKeyFrames
    <3>4. CASE LmPop BY <3>4 DEF LmPop
    <3>5. CASE LmInsert BY <3>5 DEF LmInsert
    <3>6. CASE CreateMapPoints BY <3>6 DEF CreateMapPoints
    <3>7. CASE CheckQueueBeforeBA BY <3>7 DEF CheckQueueBeforeBA
    <3>8. CASE CheckStopBeforeBA BY <3>8 DEF CheckStopBeforeBA
    <3>9. CASE NotEnoughMotion BY <3>9 DEF NotEnoughMotion
    <3>10. CASE LocalBundleAdjustment BY <3>10 DEF LocalBundleAdjustment
    <3>11. CASE Stop BY <3>11 DEF Stop
    <3>12. CASE LeaveStopped BY <3>12 DEF LeaveStopped
    <3>13. CASE ResetIfRequested BY <3>13 DEF ResetIfRequested
    <3>14. CASE AcceptKeyFrames BY <3>14 DEF AcceptKeyFrames
    <3>15. CASE CheckFinish BY <3>15 DEF CheckFinish
    <3>16. CASE SetFinishLock BY <3>16 DEF SetFinishLock
    <3>17. CASE SetFinishBody BY <3>17 DEF SetFinishBody
    <3>18. CASE InitializeIMU
      BY <3>18 DEF InitializeIMU, ImuCheckNewKeyFrames, ImuPop, ImuInsert, ImuDrop
    <3> QED BY <2>1, <3>1, <3>2, <3>3, <3>4, <3>5, <3>6, <3>7, <3>8, <3>9, <3>10, <3>11,
               <3>12, <3>13, <3>14, <3>15, <3>16, <3>17, <3>18 DEF LmOwnStep
  <2>2. CASE LmHandOff
    BY <2>2 DEF LmHandOff, HandOff, LmGoto, stopVars, resetVars
  <2>3. CASE Others
    BY <2>3, LcKeepsStopFlag, WorkerKeepsStopFlag, TrackingKeepsStopFlag DEF Others
  <2>4. CASE UNCHANGED vars
    BY <2>4 DEF vars, lmVars, stopVars, resetVars
  <2> QED BY <2>1, <2>2, <2>3, <2>4 DEF Next, LmStep, Others
<1> QED BY <1>1, <1>2, PTL DEF Spec

\* Local mapping never works on the map while it reports that it is stopped.
THEOREM StoppedMeansIdleHolds == Spec => []StoppedMeansIdle
<1>1. StopFlagInv => StoppedMeansIdle
  BY DEF StopFlagInv, MayBeStopped, StoppedMeansIdle, Working
<1> QED BY <1>1, StopFlagInvariant, PTL
-----------------------------------------------------------------------------
\* Tracking and Stop() exclude each other by mbNotStop; SetFinish, which ignores
\* it, runs only after Shutdown, when Tracking takes no more frames.
Ending == {"finishLC", "awaitLM", "awaitLC", "awaitGBA", "off"}
InsertInv ==
  /\ NotStopHonoured
  /\ lmPc \in {"finish", "finishing", "done"} => lmFinishRequested
  /\ lmFinishRequested => trkPc \in Ending

THEOREM InsertInvariant == Spec => []InsertInv
<1>1. Init => InsertInv
  BY DEF Init, LmInit, InsertInv, NotStopHonoured, Inserting
<1>2. InsertInv /\ [Next]_vars => InsertInv'
  <2> SUFFICES ASSUME InsertInv, [Next]_vars PROVE InsertInv'
    OBVIOUS
  <2> USE DEF InsertInv, NotStopHonoured, Inserting, Ending
  <2>1. CASE LmOwnStep /\ UNCHANGED <<lcVars, trkVars>>
    <3> USE DEF LmGoto, stopVars, finishVars, trkVars
    <3>1. CASE Stop BY <2>1, <3>1 DEF Stop
    <3>2. CASE LeaveStopped BY <2>1, <3>2 DEF LeaveStopped
    <3>3. CASE CheckFinish BY <2>1, <3>3 DEF CheckFinish
    <3>4. CASE SetFinishLock BY <2>1, <3>4 DEF SetFinishLock
    <3>5. CASE SetFinishBody BY <2>1, <3>5 DEF SetFinishBody
    <3>6. CASE LmRun \/ SetBusy \/ CheckNewKeyFrames \/ LmPop \/ LmInsert \/ CreateMapPoints
      BY <2>1, <3>6 DEF LmRun, SetBusy, CheckNewKeyFrames, LmPop, LmInsert, CreateMapPoints
    <3>7. CASE CheckQueueBeforeBA \/ CheckStopBeforeBA \/ NotEnoughMotion
               \/ LocalBundleAdjustment \/ ResetIfRequested \/ AcceptKeyFrames
      BY <2>1, <3>7 DEF CheckQueueBeforeBA, CheckStopBeforeBA, NotEnoughMotion,
         LocalBundleAdjustment, ResetIfRequested, AcceptKeyFrames
    <3>8. CASE InitializeIMU
      BY <2>1, <3>8 DEF InitializeIMU, ImuCheckNewKeyFrames, ImuPop, ImuInsert, ImuDrop
    <3> QED BY <2>1, <3>1, <3>2, <3>3, <3>4, <3>5, <3>6, <3>7, <3>8 DEF LmOwnStep
  <2>2. CASE LmHandOff
    BY <2>2 DEF LmHandOff, HandOff, LmGoto, stopVars, finishVars, trkVars
  <2>3. CASE LcStep \/ WorkerStep
    BY <2>3, LcKeepsStopFlag, WorkerKeepsStopFlag
  <2>4. CASE TrackStep
    BY <2>4 DEF TrackStep, StereoInitialization, NeedNewKeyFrame, CreateRefused, CreateAllowed,
       CreateInsert, CreateDone, CreateMapInAtlas, TrkGoto, SetNotStop, ClearNotStop,
       isNotStopped, lmVars, stopVars, finishVars
  <2>5. CASE ResetStep
    BY <2>5 DEF ResetStep, ResetBegin, ResetLocalMapperDone, ResetLoopClosingDone, ResetClear,
       ResetActiveBegin, ResetActiveLocalMapperDone, ResetActiveLoopClosingDone,
       ResetActiveClear, TrkGoto, lmVars, stopVars, finishVars
  <2>6. CASE ShutdownStep
    BY <2>6 DEF ShutdownStep, Shutdown, ShutdownLoopClosing, AwaitLocalMapping,
       AwaitLoopClosing, AwaitGBA, RequestFinish, TrkGoto, lmVars, stopVars, finishVars
  <2>7. CASE UNCHANGED vars
    BY <2>7 DEF vars, lmVars, stopVars, finishVars, trkVars
  <2> QED BY <2>1, <2>2, <2>3, <2>4, <2>5, <2>6, <2>7 DEF Next, LmStep
<1> QED BY <1>1, <1>2, PTL DEF Spec

\* A keyframe is inserted by CreateNewKeyFrame only while local mapping is not
\* stopped.
THEOREM NotStopHonouredHolds == Spec => []NotStopHonoured
BY InsertInvariant, PTL DEF InsertInv

-----------------------------------------------------------------------------
\* Between mbAbortBA = false and the bundle adjustment, every keyframe or stop
\* request that local mapping did not see raises mbAbortBA again.
AbortInv ==
  /\ lmPc = "checkStop" /\ mlNewKeyFrames # <<>> => mbAbortBA
  /\ PendingWorkAbortsBA

\* The other threads append to the queue or ask for a stop only together with
\* mbAbortBA, and never lower it.
AbortFrame ==
  /\ lmPc' = lmPc
  /\ \/ mbAbortBA'
     \/ /\ mbAbortBA' = mbAbortBA
        /\ mbStopRequested' => mbStopRequested
        /\ mlNewKeyFrames' # <<>> => mlNewKeyFrames # <<>>

LEMMA LcAbortFrame == LcStep => AbortFrame
<1> USE DEF AbortFrame, lmVars, queueVars, stopVars
<1>1. CASE LcRequestStop
  BY <1>1 DEF LcRequestStop, RequestStop
<1>2. CASE LcEmptyPop
  BY <1>2 DEF LcEmptyPop, PopKeyFrame
<1>3. CASE LcReleaseBody
  BY <1>3 DEF LcReleaseBody, ReleaseBody
<1>4. CASE LcAbortGBA
  BY <1>4 DEF LcAbortGBA
<1>5. CASE LcLaunchGBA \/ LcResetIfRequested(activeKeyFrames)
  BY <1>5 DEF LcLaunchGBA, LcResetIfRequested
<1>6. CASE LcRun \/ LcCheckNewKeyFrames \/ LcDetect \/ LcEmptyQueue \/ LcCheckGBA
  BY <1>6 DEF LcRun, LcCheckNewKeyFrames, LcDetect, LcEmptyQueue, LcCheckGBA
<1>7. CASE LcWaitStopped \/ LcCorrect \/ LcCheckFinish \/ LcSetFinish
  BY <1>7 DEF LcWaitStopped, LcCorrect, LcCheckFinish, LcSetFinish
<1>8. CASE LcEmptyInsert \/ LcReleaseLock
  BY <1>8 DEF LcEmptyInsert, LcReleaseLock, ReleaseLock
<1> QED BY <1>1, <1>2, <1>3, <1>4, <1>5, <1>6, <1>7, <1>8 DEF LcStep, LcOwnStep

LEMMA WorkerAbortFrame == WorkerStep => AbortFrame
<1> USE DEF AbortFrame, lmVars, queueVars, stopVars
<1> SUFFICES ASSUME NEW w \in Workers, GbaStep(w) PROVE AbortFrame
  BY DEF WorkerStep
<1>1. CASE GbaRequestStop(w)
  BY <1>1 DEF GbaRequestStop, RequestStop
<1>2. CASE GbaReleaseBody(w)
  BY <1>2 DEF GbaReleaseBody, ReleaseBody
<1>3. CASE GbaOptimise(w) \/ GbaLock(w) \/ GbaWaitStopped(w) \/ GbaUpdate(w)
           \/ GbaReleaseLock(w) \/ GbaPublish(w)
  BY <1>3 DEF GbaOptimise, GbaLock, GbaWaitStopped, GbaUpdate, GbaReleaseLock, ReleaseLock,
     GbaPublish
<1> QED BY <1>1, <1>2, <1>3 DEF GbaStep

LEMMA TrackingAbortFrame == TrackStep \/ ResetStep \/ ShutdownStep => AbortFrame
<1> USE DEF AbortFrame, lmVars, queueVars, stopVars
<1>1. TrackStep => AbortFrame
  BY DEF TrackStep, StereoInitialization, NeedNewKeyFrame, CreateRefused, CreateAllowed,
     CreateInsert, CreateDone, CreateMapInAtlas, InsertKeyFrame, SetNotStop, ClearNotStop
<1>2. ResetStep => AbortFrame
  BY DEF ResetStep, ResetBegin, ResetLocalMapperDone, ResetLoopClosingDone, ResetClear,
     ResetActiveBegin, ResetActiveLocalMapperDone, ResetActiveLoopClosingDone, ResetActiveClear
<1>3. ShutdownStep => AbortFrame
  BY DEF ShutdownStep, Shutdown, ShutdownLoopClosing, AwaitLocalMapping, AwaitLoopClosing, AwaitGBA
<1> QED BY <1>1, <1>2, <1>3

\* A local bundle adjustment in progress has been told about every keyframe and
\* every stop request that is pending.
THEOREM PendingWorkAbortsBAHolds == Spec => []PendingWorkAbortsBA
<1>1. Init => AbortInv
  BY DEF Init, LmInit, AbortInv, PendingWorkAbortsBA
<1>2. AbortInv /\ [Next]_vars => AbortInv'
  <2> SUFFICES ASSUME AbortInv, [Next]_vars PROVE AbortInv'
    OBVIOUS
  <2> USE DEF AbortInv, PendingWorkAbortsBA
  <2>1. CASE LmOwnStep
    <3> USE DEF LmGoto, queueVars, stopVars
    <3>1. CASE CheckQueueBeforeBA BY <3>1 DEF CheckQueueBeforeBA
    <3>2. CASE CheckStopBeforeBA BY <3>2 DEF CheckStopBeforeBA
    <3>3. CASE NotEnoughMotion BY <3>3 DEF NotEnoughMotion
    <3>4. CASE LmRun \/ SetBusy \/ CheckNewKeyFrames \/ LmPop \/ LmInsert \/ CreateMapPoints
      BY <3>4 DEF LmRun, SetBusy, CheckNewKeyFrames, LmPop, LmInsert, CreateMapPoints
    <3>5. CASE LocalBundleAdjustment \/ Stop \/ LeaveStopped \/ ResetIfRequested
      BY <3>5 DEF LocalBundleAdjustment, Stop, LeaveStopped, ResetIfRequested
    <3>6. CASE AcceptKeyFrames \/ CheckFinish \/ SetFinishLock \/ SetFinishBody
      BY <3>6 DEF AcceptKeyFrames, CheckFinish, SetFinishLock, SetFinishBody
    <3>7. CASE InitializeIMU
      BY <3>7 DEF InitializeIMU, ImuCheckNewKeyFrames, ImuPop, ImuInsert, ImuDrop
    <3> QED BY <2>1, <3>1, <3>2, <3>3, <3>4, <3>5, <3>6, <3>7 DEF LmOwnStep
  <2>2. CASE LmHandOff
    BY <2>2 DEF LmHandOff, HandOff, LmGoto
  <2>3. CASE Others
    BY <2>3, LcAbortFrame, WorkerAbortFrame, TrackingAbortFrame DEF Others, AbortFrame
  <2>4. CASE UNCHANGED vars
    BY <2>4 DEF vars, lmVars, queueVars, stopVars
  <2> QED BY <2>1, <2>2, <2>3, <2>4 DEF Next, LmStep, Others
<1>3. AbortInv => PendingWorkAbortsBA
  BY DEF AbortInv
<1> QED BY <1>1, <1>2, <1>3, PTL DEF Spec

-----------------------------------------------------------------------------
\* With no GBA thread, nobody but loop closing releases local mapping.
NoGBA == LaunchGBA = {FALSE}
BorrowInv ==
  /\ gbaPc = [w \in Workers |-> "idle"]
  /\ Borrowing => mbStopped

\* Local mapping and Tracking do not lower mbStopped and do not move loop closing.
BorrowFrame ==
  /\ gbaPc' = gbaPc /\ lcPc' = lcPc /\ lcOperation' = lcOperation
  /\ mbStopped => mbStopped'

LEMMA LmBorrowFrame == LmStep => BorrowFrame
<1> USE DEF BorrowFrame, lcVars, opVars, gbaVars, stopVars
<1>1. LmHandOff => BorrowFrame
  BY DEF LmHandOff, HandOff
<1>2. ASSUME LmOwnStep, UNCHANGED <<lcVars, trkVars>> PROVE BorrowFrame
  <2>1. mbStopped => mbStopped'
    <3>1. CASE Stop
      BY <3>1 DEF Stop
    <3>2. CASE LmRun \/ SetBusy \/ CheckNewKeyFrames \/ LmPop \/ LmInsert \/ CreateMapPoints
      BY <3>2 DEF LmRun, SetBusy, CheckNewKeyFrames, LmPop, LmInsert, CreateMapPoints
    <3>3. CASE CheckQueueBeforeBA \/ CheckStopBeforeBA \/ NotEnoughMotion
               \/ LocalBundleAdjustment \/ LeaveStopped \/ ResetIfRequested
      BY <3>3 DEF CheckQueueBeforeBA, CheckStopBeforeBA, NotEnoughMotion,
         LocalBundleAdjustment, LeaveStopped, ResetIfRequested
    <3>4. CASE AcceptKeyFrames \/ CheckFinish \/ SetFinishLock \/ SetFinishBody
      BY <3>4 DEF AcceptKeyFrames, CheckFinish, SetFinishLock, SetFinishBody
    <3>5. CASE InitializeIMU
      BY <3>5 DEF InitializeIMU, ImuCheckNewKeyFrames, ImuPop, ImuInsert, ImuDrop
    <3> QED BY <1>2, <3>1, <3>2, <3>3, <3>4, <3>5 DEF LmOwnStep
  <2> QED BY <1>2, <2>1
<1> QED BY <1>1, <1>2 DEF LmStep

LEMMA TrackingBorrowFrame == TrackStep \/ ResetStep \/ ShutdownStep => BorrowFrame
<1> USE DEF BorrowFrame, lmVars, stopVars, lcVars, opVars, gbaVars
<1>1. TrackStep => BorrowFrame
  BY DEF TrackStep, StereoInitialization, NeedNewKeyFrame, CreateRefused, CreateAllowed,
     CreateInsert, CreateDone, CreateMapInAtlas, SetNotStop, ClearNotStop
<1>2. ResetStep => BorrowFrame
  BY DEF ResetStep, ResetBegin, ResetLocalMapperDone, ResetLoopClosingDone, ResetClear,
     ResetActiveBegin, ResetActiveLocalMapperDone, ResetActiveLoopClosingDone, ResetActiveClear
<1>3. ShutdownStep => BorrowFrame
  BY DEF ShutdownStep, Shutdown, ShutdownLoopClosing, AwaitLocalMapping, AwaitLoopClosing, AwaitGBA
<1> QED BY <1>1, <1>2, <1>3

LEMMA LcKeepsBorrowInv ==
  ASSUME NoGBA, BorrowInv, LcStep PROVE BorrowInv'
<1> USE DEF BorrowInv, Borrowing, LcGoto, lmVars, stopVars, opVars, gbaVars
<1>1. CASE LcRequestStop
  BY <1>1 DEF LcRequestStop, RequestStop
<1>2. CASE LcEmptyQueue
  BY <1>2 DEF LcEmptyQueue
<1>3. CASE LcEmptyPop \/ LcEmptyInsert
  BY <1>3 DEF LcEmptyPop, LcEmptyInsert
<1>4. CASE LcCheckGBA
  BY <1>4 DEF LcCheckGBA, AfterGBA
<1>5. CASE LcAbortGBA
  BY <1>5 DEF LcAbortGBA, AfterGBA
<1>6. CASE LcWaitStopped
  BY <1>6 DEF LcWaitStopped, isStopped
<1>7. CASE LcCorrect
  BY <1>7 DEF LcCorrect
<1>8. CASE LcLaunchGBA
  BY <1>8 DEF LcLaunchGBA, AfterLaunch, NoGBA
<1>9. CASE LcReleaseLock
  BY <1>9 DEF LcReleaseLock, ReleaseLock
<1>10. CASE LcReleaseBody
  BY <1>10 DEF LcReleaseBody
<1>11. CASE LcRun \/ LcCheckNewKeyFrames \/ LcCheckFinish \/ LcSetFinish
  BY <1>11 DEF LcRun, LcCheckNewKeyFrames, LcCheckFinish, LcSetFinish
<1>12. CASE LcDetect
  BY <1>12 DEF LcDetect, FirstStep
<1>13. CASE LcResetIfRequested(activeKeyFrames)
  BY <1>13 DEF LcResetIfRequested
<1> QED BY <1>1, <1>2, <1>3, <1>4, <1>5, <1>6, <1>7, <1>8, <1>9, <1>10, <1>11, <1>12, <1>13
        DEF LcStep, LcOwnStep

\* From the end of its wait to its Release, loop closing finds mbStopped up.
LEMMA BorrowInvariant == ASSUME NoGBA PROVE Spec => []BorrowInv
<1>1. Init => BorrowInv
  BY DEF Init, LcInit, BorrowInv, Borrowing
<1>2. BorrowInv /\ [Next]_vars => BorrowInv'
  <2> SUFFICES ASSUME BorrowInv, [Next]_vars PROVE BorrowInv'
    OBVIOUS
  <2>1. CASE LmStep \/ TrackStep \/ ResetStep \/ ShutdownStep
    BY <2>1, LmBorrowFrame, TrackingBorrowFrame DEF BorrowFrame, BorrowInv, Borrowing
  <2>2. CASE LcStep
    BY <2>2, LcKeepsBorrowInv, NoGBA
  <2>3. CASE WorkerStep
    BY <2>3 DEF BorrowInv, WorkerStep, GbaStep, GbaGoto, GbaOptimise, GbaLock, GbaRequestStop,
       GbaWaitStopped, GbaUpdate, GbaReleaseLock, GbaReleaseBody, GbaPublish
  <2>4. CASE UNCHANGED vars
    BY <2>4 DEF BorrowInv, Borrowing, vars, lmVars, stopVars, lcVars, opVars, gbaVars
  <2> QED BY <2>1, <2>2, <2>3, <2>4 DEF Next
<1> QED BY <1>1, <1>2, PTL DEF Spec

\* While loop closing corrects the map, local mapping does not work on it and
\* Tracking is not inserting a keyframe, as long as no GBA is ever launched.
THEOREM CorrectionExclusiveHolds == ASSUME NoGBA PROVE Spec => []CorrectionExclusive
<1>1. StoppedMeansIdle /\ NotStopHonoured /\ BorrowInv => CorrectionExclusive
  BY DEF StoppedMeansIdle, NotStopHonoured, BorrowInv, Borrowing, CorrectionExclusive
<1> QED BY <1>1, StoppedMeansIdleHolds, NotStopHonouredHolds, BorrowInvariant, NoGBA, PTL

-----------------------------------------------------------------------------
(* The handshake implements the lease of the map.                           *)

\* Local mapping starts work only from "check", where mbStopped is down, so
\* never while the lease is granted.
LEMMA LmStepIsLease ==
  ASSUME StopFlagInv, BorrowInv, LmStep PROVE [Lease!LeaseNext]_(Lease!leaseVars)
<1> USE DEF Lease!LeaseNext, Lease!leaseVars, Lease!StartWork, Lease!EndWork, Working, LmGoto
<1>1. Borrowing' = Borrowing /\ lcPc' = lcPc
  BY LmBorrowFrame DEF BorrowFrame, Borrowing
<1>2. CASE CheckNewKeyFrames
  BY <1>1, <1>2 DEF CheckNewKeyFrames, StopFlagInv, MayBeStopped, BorrowInv, Borrowing
<1>3. CASE LmPop \/ LmInsert \/ CreateMapPoints
  BY <1>1, <1>3 DEF LmPop, LmInsert, CreateMapPoints
<1>4. CASE CheckQueueBeforeBA \/ CheckStopBeforeBA
  BY <1>1, <1>4 DEF CheckQueueBeforeBA, CheckStopBeforeBA
<1>5. CASE NotEnoughMotion \/ LocalBundleAdjustment
  BY <1>1, <1>5 DEF NotEnoughMotion, LocalBundleAdjustment
<1>6. CASE LmRun \/ SetBusy \/ Stop \/ LeaveStopped
  BY <1>1, <1>6 DEF LmRun, SetBusy, Stop, LeaveStopped
<1>7. CASE ResetIfRequested \/ AcceptKeyFrames \/ CheckFinish \/ SetFinishLock \/ SetFinishBody
  BY <1>1, <1>7 DEF ResetIfRequested, AcceptKeyFrames, CheckFinish, SetFinishLock, SetFinishBody
<1>8. CASE LmHandOff
  BY <1>1, <1>8 DEF LmHandOff, HandOff
<1>9. CASE InitializeIMU
  BY <1>1, <1>9 DEF InitializeIMU, ImuCheckNewKeyFrames, ImuPop, ImuInsert, ImuDrop
<1> QED BY <1>2, <1>3, <1>4, <1>5, <1>6, <1>7, <1>8, <1>9 DEF LmStep, LmOwnStep

\* Loop closing asks when it begins to wait, is granted the map when it has seen
\* mbStopped, and gives it back with its Release.
LEMMA LcStepIsLease ==
  ASSUME NoGBA, StopFlagInv, LcStep PROVE [Lease!LeaseNext]_(Lease!leaseVars)
<1> USE DEF Lease!LeaseNext, Lease!leaseVars, Lease!Ask, Lease!Grant, Lease!GiveBack,
            Borrowing, LcGoto, opVars
<1>1. (lmPc \in Working)' = (lmPc \in Working)
  BY LcKeepsStopFlag
<1>2. CASE LcRequestStop
  BY <1>1, <1>2 DEF LcRequestStop
<1>3. CASE LcEmptyQueue
  BY <1>1, <1>3 DEF LcEmptyQueue
<1>4. CASE LcEmptyPop \/ LcEmptyInsert
  BY <1>1, <1>4 DEF LcEmptyPop, LcEmptyInsert
<1>5. CASE LcCheckGBA
  BY <1>1, <1>5 DEF LcCheckGBA, AfterGBA
<1>6. CASE LcAbortGBA
  BY <1>1, <1>6 DEF LcAbortGBA, AfterGBA
<1>7. CASE LcWaitStopped
  <2>1. lmPc \notin Working
    BY <1>7 DEF LcWaitStopped, isStopped, StopFlagInv, MayBeStopped, Working
  <2> QED BY <1>1, <1>7, <2>1 DEF LcWaitStopped
<1>8. CASE LcCorrect
  BY <1>1, <1>8 DEF LcCorrect
<1>9. CASE LcLaunchGBA
  BY <1>1, <1>9 DEF LcLaunchGBA, AfterLaunch, NoGBA
<1>10. CASE LcReleaseLock
  BY <1>1, <1>10 DEF LcReleaseLock
<1>11. CASE LcReleaseBody
  BY <1>1, <1>11 DEF LcReleaseBody
<1>12. CASE LcRun \/ LcCheckNewKeyFrames \/ LcCheckFinish \/ LcSetFinish
  BY <1>1, <1>12 DEF LcRun, LcCheckNewKeyFrames, LcCheckFinish, LcSetFinish
<1>13. CASE LcDetect
  BY <1>1, <1>13 DEF LcDetect, FirstStep
<1>14. CASE LcResetIfRequested(activeKeyFrames)
  BY <1>1, <1>14 DEF LcResetIfRequested
<1> QED BY <1>2, <1>3, <1>4, <1>5, <1>6, <1>7, <1>8, <1>9, <1>10, <1>11, <1>12, <1>13, <1>14
        DEF LcStep, LcOwnStep

\* Without GBA threads, every step of the handshake is a step of the lease, or
\* changes neither who works on the map nor who has asked for it.
THEOREM HandshakeImplementsLease == ASSUME NoGBA PROVE Spec => HandshakeIsLease
<1>1. Init => Lease!LeaseInit
  BY DEF Init, LmInit, LcInit, Lease!LeaseInit, Working, Borrowing
<1>2. StopFlagInv /\ BorrowInv /\ [Next]_vars => [Lease!LeaseNext]_(Lease!leaseVars)
  <2> SUFFICES ASSUME StopFlagInv, BorrowInv, [Next]_vars
               PROVE  [Lease!LeaseNext]_(Lease!leaseVars)
    OBVIOUS
  <2>1. CASE LmStep
    BY <2>1, LmStepIsLease
  <2>2. CASE LcStep
    BY <2>2, LcStepIsLease, NoGBA
  <2>3. CASE WorkerStep
    BY <2>3 DEF BorrowInv, WorkerStep, GbaStep, GbaGoto, GbaOptimise, GbaLock, GbaRequestStop,
       GbaWaitStopped, GbaUpdate, GbaReleaseLock, GbaReleaseBody, GbaPublish
  <2>4. CASE TrackStep \/ ResetStep \/ ShutdownStep
    BY <2>4, TrackingBorrowFrame, TrackingKeepsStopFlag DEF BorrowFrame, Borrowing, Lease!leaseVars
  <2>5. CASE UNCHANGED vars
    BY <2>5 DEF vars, lmVars, lcVars, opVars, Borrowing, Lease!leaseVars
  <2> QED BY <2>1, <2>2, <2>3, <2>4, <2>5 DEF Next
<1> QED BY <1>1, <1>2, StopFlagInvariant, BorrowInvariant, NoGBA, PTL
        DEF Spec, HandshakeIsLease, Lease!LeaseSpec

-----------------------------------------------------------------------------
(* Types.  The queues are lists of keyframes because whatever a thread puts *)
(* into one it has in hand, and what it has in hand it popped from a list   *)
(* that was not empty; a pop of an empty list ends in undefined behaviour.  *)

\* Between the pop and the hand-over local mapping has a keyframe in hand, and
\* so has place recognition while it works on one.
HandInv ==
  /\ lmPc \in (Working \ {"pop"}) \cup {"handOff"} => mpCurrentKeyFrame # Null \/ undefined
  /\ lcPc = "detect" => mpCurrentKF # Null
TypeInv == TypeOK /\ HandInv

\* The null pointer, 0, is no keyframe; a counter of keyframes is one or the other.
LEMMA NullIsNoKeyFrame == Null \notin KeyFrames /\ KeyFrames \cup {Null} = 0 .. MaxKeyFrames
BY MaxKeyFramesAssumption DEF Null, KeyFrames

\* front() of a list that holds something is a keyframe.
LEMMA PopTypes ==
  ASSUME LmTypeOK, PopKeyFrame
  PROVE  /\ mlNewKeyFrames' \in Seq(KeyFrames) /\ mpCurrentKeyFrame' \in KeyFrames \cup {Null}
         /\ mbAbortBA' = mbAbortBA /\ mapKeyFrames' = mapKeyFrames /\ freedKeyFrames' = freedKeyFrames
         /\ undefined' \in BOOLEAN
         /\ mpCurrentKeyFrame' # Null \/ undefined'
<1> USE DEF PopKeyFrame, mapVars, queueVars
<1>1. /\ mlNewKeyFrames \in Seq(KeyFrames) /\ undefined \in BOOLEAN
      /\ mpCurrentKeyFrame \in KeyFrames \cup {Null}
  BY DEF LmTypeOK
<1>2. CASE mlNewKeyFrames # <<>>
  <2>1. Head(mlNewKeyFrames) \in KeyFrames /\ Tail(mlNewKeyFrames) \in Seq(KeyFrames)
    BY <1>1, <1>2, HeadTailProperties
  <2> QED BY <1>1, <1>2, <2>1, NullIsNoKeyFrame
<1>3. CASE mlNewKeyFrames = <<>>
  BY <1>1, <1>3
<1> QED BY <1>2, <1>3

\* What is deleted together with the queue are keyframes.
LEMMA QueuedAreKeyFrames ==
  ASSUME LmTypeOK
  PROVE  freedKeyFrames \cup {mlNewKeyFrames[i] : i \in DOMAIN mlNewKeyFrames} \subseteq KeyFrames
<1>1. \A i \in DOMAIN mlNewKeyFrames : mlNewKeyFrames[i] \in KeyFrames
  BY LenProperties DEF LmTypeOK
<1>2. freedKeyFrames \subseteq KeyFrames
  BY DEF LmTypeOK
<1> QED BY <1>1, <1>2

\* The steps of local mapping keep its variables typed ...
LEMMA LmTypes ==
  ASSUME LmTypeOK, LmOwnStep PROVE LmTypeOK'
<1> USE DEF LmGoto, queueVars, stopVars, finishVars, resetVars, mapVars
<1>1. CASE LmPop
  BY <1>1, PopTypes DEF LmPop, LmTypeOK, LmPcs, Working
<1>2. CASE LmInsert
  BY <1>2 DEF LmInsert, AddKeyFrame, LmTypeOK, LmPcs, Working
<1>3. CASE LmRun
  <2>1. lmFinished' \in BOOLEAN
    BY <1>3, Zenon DEF LmRun
  <2> QED BY <1>3, <2>1 DEF LmRun, LmTypeOK, LmPcs
<1>4. CASE SetBusy
  <2>1. mbAcceptKeyFrames' \in BOOLEAN
    BY <1>4, Zenon DEF SetBusy
  <2> QED BY <1>4, <2>1 DEF SetBusy, LmTypeOK, LmPcs
<1>5. CASE CheckNewKeyFrames
  BY <1>5 DEF CheckNewKeyFrames, LmTypeOK, LmPcs, Working
<1>6. CASE CreateMapPoints
  <2>1. mbAbortBA' \in BOOLEAN
    BY <1>6, Zenon DEF CreateMapPoints
  <2> QED BY <1>6, <2>1 DEF CreateMapPoints, LmTypeOK, LmPcs, Working
<1>7. CASE CheckQueueBeforeBA
  BY <1>7 DEF CheckQueueBeforeBA, LmTypeOK, LmPcs, Working
<1>8. CASE CheckStopBeforeBA
  BY <1>8 DEF CheckStopBeforeBA, LmTypeOK, LmPcs, Working
<1>9. CASE NotEnoughMotion
  BY <1>9 DEF NotEnoughMotion, LmTypeOK
<1>10. CASE LocalBundleAdjustment
  BY <1>10 DEF LocalBundleAdjustment, LmTypeOK, LmPcs, Working
<1>11. CASE Stop
  BY <1>11 DEF Stop, LmTypeOK, LmPcs
<1>12. CASE LeaveStopped
  BY <1>12 DEF LeaveStopped, LmTypeOK, LmPcs
<1>13. CASE ResetIfRequested
  <2>1. /\ lmResetRequested' \in BOOLEAN /\ lmResetActiveMap' \in BOOLEAN /\ mbBadImu' \in BOOLEAN
    <3>1. /\ lmResetRequested \in BOOLEAN /\ lmResetActiveMap \in BOOLEAN /\ mbBadImu \in BOOLEAN
      BY DEF LmTypeOK
    <3>2. CASE lmResetRequested \/ lmResetActiveMap
      BY <1>13, <3>2, Zenon DEF ResetIfRequested
    <3>3. CASE ~(lmResetRequested \/ lmResetActiveMap)
      BY <1>13, <3>1, <3>3 DEF ResetIfRequested
    <3> QED BY <3>2, <3>3
  <2>2. mlNewKeyFrames' \in Seq(KeyFrames)
    BY <1>13, EmptySeq DEF ResetIfRequested, LmTypeOK
  <2> QED BY <1>13, <2>1, <2>2 DEF ResetIfRequested, LmTypeOK, LmPcs
<1>14. CASE AcceptKeyFrames
  BY <1>14 DEF AcceptKeyFrames, LmTypeOK, LmPcs
<1>15. CASE CheckFinish
  BY <1>15 DEF CheckFinish, LmTypeOK, LmPcs
<1>16. CASE SetFinishLock
  BY <1>16 DEF SetFinishLock, LmTypeOK, LmPcs, Threads
<1>17. CASE SetFinishBody
  BY <1>17 DEF SetFinishBody, LmTypeOK, LmPcs
<1>18. CASE ImuCheckNewKeyFrames
  BY <1>18 DEF ImuCheckNewKeyFrames, LmTypeOK, LmPcs, Working
<1>19. CASE ImuPop
  BY <1>19, PopTypes DEF ImuPop, LmTypeOK, LmPcs, Working
<1>20. CASE ImuInsert
  BY <1>20 DEF ImuInsert, AddKeyFrame, LmTypeOK, LmPcs, Working
<1>21. CASE ImuDrop
  <2>1. mlNewKeyFrames' \in Seq(KeyFrames)
    BY <1>21, EmptySeq DEF ImuDrop
  <2>2. freedKeyFrames' \subseteq KeyFrames
    BY <1>21, QueuedAreKeyFrames DEF ImuDrop
  <2> QED BY <1>21, <2>1, <2>2 DEF ImuDrop, LmTypeOK, LmPcs
<1> QED BY <1>1, <1>2, <1>3, <1>4, <1>5, <1>6, <1>7, <1>8, <1>9, <1>10, <1>11, <1>12, <1>13,
           <1>14, <1>15, <1>16, <1>17, <1>18, <1>19, <1>20, <1>21 DEF LmOwnStep, InitializeIMU

\* ... and leave it with a keyframe in hand until it hands it over.
LEMMA LmHandInv ==
  ASSUME LmTypeOK, HandInv, LmOwnStep, lcPc' = lcPc, mpCurrentKF' = mpCurrentKF PROVE HandInv'
<1> USE DEF LmGoto, queueVars, stopVars, finishVars, resetVars, mapVars
<1>1. CASE LmPop
  BY <1>1, PopTypes DEF LmPop, HandInv, Working
<1>2. CASE LmRun \/ SetBusy \/ CheckNewKeyFrames
  BY <1>2 DEF LmRun, SetBusy, CheckNewKeyFrames, HandInv, Working
<1>3. CASE LmInsert \/ CreateMapPoints
  BY <1>3 DEF LmInsert, AddKeyFrame, CreateMapPoints, HandInv, Working
<1>4. CASE CheckQueueBeforeBA \/ CheckStopBeforeBA
  BY <1>4 DEF CheckQueueBeforeBA, CheckStopBeforeBA, HandInv, Working
<1>5. CASE NotEnoughMotion \/ LocalBundleAdjustment
  BY <1>5 DEF NotEnoughMotion, LocalBundleAdjustment, HandInv, Working
<1>6. CASE Stop \/ LeaveStopped \/ ResetIfRequested
  BY <1>6 DEF Stop, LeaveStopped, ResetIfRequested, HandInv, Working
<1>7. CASE AcceptKeyFrames \/ CheckFinish \/ SetFinishLock \/ SetFinishBody
  BY <1>7 DEF AcceptKeyFrames, CheckFinish, SetFinishLock, SetFinishBody, HandInv, Working
<1>8. CASE ImuPop
  BY <1>8, PopTypes DEF ImuPop, HandInv, Working
<1>9. CASE ImuCheckNewKeyFrames \/ ImuInsert \/ ImuDrop
  BY <1>9 DEF ImuCheckNewKeyFrames, ImuInsert, AddKeyFrame, ImuDrop, HandInv, Working
<1> QED BY <1>1, <1>2, <1>3, <1>4, <1>5, <1>6, <1>7, <1>8, <1>9 DEF LmOwnStep, InitializeIMU

\* Local mapping hands a keyframe over that it has popped.
LEMMA HandOffTypes ==
  ASSUME TypeInv, ~undefined, LmHandOff PROVE TypeInv'
<1>1. /\ LmTypeOK /\ LcTypeOK /\ TrkTypeOK /\ lmPc = "handOff" /\ lmPc' = "reset"
      /\ mpCurrentKeyFrame # Null /\ mpCurrentKeyFrame \in KeyFrames \cup {Null}
      /\ mlpLoopKeyFrameQueue \in Seq(KeyFrames)
  BY DEF TypeInv, TypeOK, HandInv, LmHandOff, HandOff, LmGoto, LmTypeOK, LcTypeOK
<1>2. Append(mlpLoopKeyFrameQueue, mpCurrentKeyFrame) \in Seq(KeyFrames)
  BY <1>1, AppendProperties
<1>3. mlpLoopKeyFrameQueue' \in Seq(KeyFrames)
  BY <1>1, <1>2 DEF LmHandOff, LcInsertKeyFrame
<1>4. LmTypeOK'
  BY <1>1 DEF LmHandOff, HandOff, LmTypeOK, LmPcs, queueVars, stopVars, finishVars, resetVars, mapVars
<1>5. LcTypeOK'
  BY <1>1, <1>3 DEF LmHandOff, LcInsertKeyFrame, LcTypeOK, opVars, lcFinishVars, lcResetVars, gbaVars, gbaFlagVars
<1>6. TrkTypeOK'
  BY <1>1 DEF LmHandOff, TrkTypeOK, trkVars
<1>7. HandInv'
  BY <1>1 DEF TypeInv, HandInv, LmHandOff, LcInsertKeyFrame, Working
<1> QED BY <1>4, <1>5, <1>6, <1>7 DEF TypeInv, TypeOK

\* Release and RequestStop, whoever calls them.
LEMMA ReleaseTypes ==
  ASSUME LmTypeOK, NEW t \in Threads, ReleaseLock(t) \/ ReleaseBody(t),
         UNCHANGED <<lmPc, finishVars, resetVars, mbAcceptKeyFrames>>,
         ReleaseLock(t) => UNCHANGED <<queueVars, mapVars>>
  PROVE  /\ LmTypeOK' /\ lmPc' = lmPc
         /\ mpCurrentKeyFrame' = mpCurrentKeyFrame /\ undefined' = undefined
<1> USE DEF queueVars, finishVars, resetVars, mapVars
<1>1. CASE ReleaseLock(t)
  BY <1>1 DEF ReleaseLock, LmTypeOK
<1>2. CASE ReleaseBody(t)
  <2>1. /\ mMutexStop' = Nobody /\ mbNotStop' = mbNotStop
        /\ \/ UNCHANGED <<mbStopRequested, mbStopped, queueVars, mapVars>>
           \/ /\ mbStopRequested' = FALSE /\ mbStopped' = FALSE
              /\ mlNewKeyFrames' = <<>>
              /\ freedKeyFrames' = freedKeyFrames \cup {mlNewKeyFrames[i] : i \in DOMAIN mlNewKeyFrames}
              /\ UNCHANGED <<mpCurrentKeyFrame, mbAbortBA, mapKeyFrames, undefined>>
    BY <1>2, Zenon DEF ReleaseBody
  <2>2. mbStopRequested' \in BOOLEAN /\ mbStopped' \in BOOLEAN
    <3>1. mbStopRequested \in BOOLEAN /\ mbStopped \in BOOLEAN
      BY DEF LmTypeOK
    <3> QED BY <2>1, <3>1, Zenon
  <2>3. mlNewKeyFrames' \in Seq(KeyFrames)
    BY <2>1, EmptySeq DEF LmTypeOK
  <2>4. freedKeyFrames' \subseteq KeyFrames
    <3>1. freedKeyFrames \subseteq KeyFrames
      BY DEF LmTypeOK
    <3> QED BY <2>1, <3>1, QueuedAreKeyFrames
  <2> QED BY <2>1, <2>2, <2>3, <2>4 DEF LmTypeOK
<1> QED BY <1>1, <1>2

LEMMA StopRequestTypes ==
  ASSUME LmTypeOK, RequestStop,
         UNCHANGED <<lmPc, finishVars, resetVars, mbAcceptKeyFrames, mapVars>>
  PROVE  LmTypeOK' /\ lmPc' = lmPc /\ mpCurrentKeyFrame' = mpCurrentKeyFrame /\ undefined' = undefined
<1> USE DEF queueVars, finishVars, resetVars, mapVars
<1>1. mbStopRequested' \in BOOLEAN /\ mbAbortBA' \in BOOLEAN
  BY Zenon DEF RequestStop
<1> QED BY <1>1 DEF RequestStop, LmTypeOK

LEMMA LmStays ==
  ASSUME UNCHANGED lmVars
  PROVE  /\ LmTypeOK => LmTypeOK' 
         /\ lmPc' = lmPc /\ mpCurrentKeyFrame' = mpCurrentKeyFrame /\ undefined' = undefined
BY DEF lmVars, LmTypeOK, queueVars, stopVars, finishVars, resetVars, mapVars

\* The steps of loop closing leave local mapping typed, and where it is.
LEMMA LcLmTypes ==
  ASSUME LmTypeOK, ~undefined, LcOwnStep
  PROVE  LmTypeOK' /\ lmPc' = lmPc /\ (mpCurrentKeyFrame # Null => mpCurrentKeyFrame' # Null \/ undefined')
<1>1. CASE LcRequestStop
  BY <1>1, StopRequestTypes DEF LcRequestStop
<1>2. CASE LcEmptyPop
  BY <1>2, PopTypes DEF LcEmptyPop, LmTypeOK, stopVars, finishVars, resetVars
<1>3. CASE LcEmptyInsert
  <2>1. mapKeyFrames' \subseteq KeyFrames
    BY <1>3 DEF LcEmptyInsert, AddKeyFrame, LmTypeOK
  <2> QED BY <1>3, <2>1 DEF LcEmptyInsert, AddKeyFrame, LmTypeOK, queueVars, stopVars, finishVars, resetVars
<1>4. CASE LcAbortGBA
  <2>1. undefined' \in BOOLEAN
    BY <1>4 DEF LcAbortGBA
  <2> QED BY <1>4, <2>1 DEF LcAbortGBA, LmTypeOK, queueVars, stopVars, finishVars, resetVars
<1>5. CASE LcReleaseLock
  BY <1>5, ReleaseTypes DEF LcReleaseLock, Threads
<1>6. CASE LcReleaseBody
  <2>1. ReleaseLock("LC") => UNCHANGED <<queueVars, mapVars>>
    BY <1>6, WorkersAssumption DEF LcReleaseBody, ReleaseBody, ReleaseLock, Free, Nobody
  <2> QED BY <1>6, <2>1, ReleaseTypes DEF LcReleaseBody, Threads
<1>7. CASE \/ LcRun \/ LcCheckNewKeyFrames \/ LcDetect \/ LcEmptyQueue \/ LcCheckGBA
           \/ LcWaitStopped \/ LcCorrect \/ LcLaunchGBA \/ LcCheckFinish \/ LcSetFinish
  <2>1. UNCHANGED lmVars
    BY <1>7 DEF LcRun, LcCheckNewKeyFrames, LcDetect, LcEmptyQueue, LcCheckGBA, LcWaitStopped,
       LcCorrect, LcLaunchGBA, LcCheckFinish, LcSetFinish
  <2> QED BY <2>1, LmStays
<1> QED BY <1>1, <1>2, <1>3, <1>4, <1>5, <1>6, <1>7 DEF LcOwnStep

\* Loop closing pops a keyframe, never a null pointer, from a list that holds one.
LEMMA LcQueueTypes ==
  ASSUME LcTypeOK, HandInv, LcCheckNewKeyFrames
  PROVE  LcTypeOK' /\ (lcPc' = "detect" => mpCurrentKF' # Null)
<1>1. /\ mlpLoopKeyFrameQueue \in Seq(KeyFrames) /\ mpCurrentKF \in KeyFrames \cup {Null}
  BY DEF LcTypeOK
<1>2. CASE mlpLoopKeyFrameQueue # <<>> /\ ActiveLC
  <2>1. /\ Head(mlpLoopKeyFrameQueue) \in KeyFrames
        /\ Tail(mlpLoopKeyFrameQueue) \in Seq(KeyFrames)
    BY <1>1, <1>2, HeadTailProperties
  <2>2. /\ lcPc' = "detect" /\ mpCurrentKF' = Head(mlpLoopKeyFrameQueue)
        /\ mlpLoopKeyFrameQueue' = Tail(mlpLoopKeyFrameQueue)
    BY <1>2, Zenon DEF LcCheckNewKeyFrames
  <2>3. /\ mpCurrentKF' \in KeyFrames \cup {Null} /\ mpCurrentKF' # Null
        /\ mlpLoopKeyFrameQueue' \in Seq(KeyFrames) /\ lcPc' \in LcPcs
    BY <2>1, <2>2, NullIsNoKeyFrame DEF LcPcs
  <2> QED BY <2>3 DEF LcCheckNewKeyFrames, LcTypeOK, opVars, lcFinishVars, lcResetVars, gbaVars, gbaFlagVars
<1>3. CASE ~(mlpLoopKeyFrameQueue # <<>> /\ ActiveLC)
  <2>1. lcPc' = "reset" /\ mpCurrentKF' = mpCurrentKF /\ mlpLoopKeyFrameQueue' = mlpLoopKeyFrameQueue
    BY <1>3 DEF LcCheckNewKeyFrames
  <2> QED BY <2>1 DEF LcCheckNewKeyFrames, LcTypeOK, LcPcs, opVars, lcFinishVars, lcResetVars, gbaVars, gbaFlagVars
<1> QED BY <1>2, <1>3

\* The steps of loop closing keep its own variables typed.
LEMMA LcOwnTypes ==
  ASSUME LcTypeOK, HandInv, LcOwnStep
  PROVE  LcTypeOK' /\ (lcPc' = "detect" => mpCurrentKF' # Null)
<1> USE DEF LcGoto, opVars, detectVars, lcFinishVars, lcResetVars, gbaVars, gbaFlagVars
<1>1. CASE LcCheckNewKeyFrames
  BY <1>1, LcQueueTypes
<1>2. CASE LcDetect
  <2>1. keyFrameDB' \subseteq KeyFrames
    BY <1>2 DEF LcDetect, LcTypeOK, HandInv
  <2>2. CASE lcPc' = "reset" /\ UNCHANGED opVars
    BY <1>2, <2>1, <2>2 DEF LcDetect, LcTypeOK, LcPcs
  <2>3. CASE ~(lcPc' = "reset" /\ UNCHANGED opVars)
    <3>1. /\ operations' = operations + 1 /\ bRelaunchBA' = FALSE
          /\ \E op \in Operations : lcOperation' = op /\ lcPc' = FirstStep(op)
      BY <1>2, <2>3, Zenon DEF LcDetect
    <3>2. operations' \in Nat /\ lcOperation' \in Running \cup {"none"}
      BY <3>1 DEF LcTypeOK, Running
    <3>3. bRelaunchBA' \in BOOLEAN
      BY <3>1, Zenon
    <3>4. lcPc' \in {"requestStop", "checkGBA"}
      BY <3>1, Zenon DEF FirstStep
    <3> QED BY <1>2, <2>1, <3>2, <3>3, <3>4 DEF LcDetect, LcTypeOK, LcPcs
  <2> QED BY <2>2, <2>3
<1>3. CASE LcAbortGBA
  <2>1. mbStopGBA' \in BOOLEAN /\ bRelaunchBA' \in BOOLEAN
    BY <1>3, Zenon DEF LcAbortGBA
  <2>2. mpThreadGBA' \in {"null", "live", "deleted"} /\ lcPc' \in {"waitStopped", "requestStop"}
    BY <1>3 DEF LcAbortGBA, LcTypeOK, AfterGBA
  <2> QED BY <1>3, <2>1, <2>2 DEF LcAbortGBA, LcTypeOK, LcPcs
<1>4. CASE LcLaunchGBA
  <2>1. lcPc' \in {"release", "reset"}
    BY <1>4 DEF LcLaunchGBA, AfterLaunch
  <2>2. CASE UNCHANGED gbaVars
    BY <1>4, <2>1, <2>2 DEF LcLaunchGBA, LcTypeOK, LcPcs
  <2>3. CASE ~UNCHANGED gbaVars
    <3>1. PICK w \in Workers :
            gbaPc' = [gbaPc EXCEPT ![w] = "optimise"] /\ abortedGBA' = abortedGBA \ {w}
      BY <1>4, <2>3, Zenon DEF LcLaunchGBA
    <3>2. mbRunningGBA' = TRUE /\ mbStopGBA' = FALSE /\ mpThreadGBA' = "live"
          /\ UNCHANGED <<mnFullBAIdx, mMutexGBA, gbaIdx>>
      BY <1>4, <2>3, Zenon DEF LcLaunchGBA
    <3>3. mbRunningGBA' \in BOOLEAN /\ mbStopGBA' \in BOOLEAN
      BY <3>2, Zenon
    <3>4. gbaPc' \in [Workers -> GbaPcs] /\ abortedGBA' \subseteq Workers
      BY <3>1 DEF LcTypeOK, GbaPcs
    <3> QED BY <1>4, <2>1, <3>2, <3>3, <3>4 DEF LcLaunchGBA, LcTypeOK, LcPcs
  <2> QED BY <2>2, <2>3
<1>5. CASE LcReleaseBody
  <2>1. /\ lcPc' \in {"requestStop", "launchGBA", "reset"}
        /\ lcOperation' \in {lcOperation, "mergeMove"}
    BY <1>5 DEF LcReleaseBody
  <2> QED BY <1>5, <2>1 DEF LcReleaseBody, LcTypeOK, LcPcs, Running
<1>6. CASE LcRun
  <2>1. lcFinished' \in BOOLEAN
    BY <1>6, Zenon DEF LcRun
  <2> QED BY <1>6, <2>1 DEF LcRun, LcTypeOK, LcPcs
<1>7. CASE LcSetFinish
  <2>1. lcFinished' \in BOOLEAN
    BY <1>7, Zenon DEF LcSetFinish
  <2> QED BY <1>7, <2>1 DEF LcSetFinish, LcTypeOK, LcPcs
<1>8. CASE \/ LcRequestStop \/ LcEmptyQueue \/ LcEmptyPop \/ LcEmptyInsert \/ LcCheckGBA
           \/ LcWaitStopped \/ LcCorrect \/ LcReleaseLock \/ LcCheckFinish
  <2>1. lcPc' \in LcPcs \ {"detect"}
    BY <1>8 DEF LcRequestStop, LcEmptyQueue, LcEmptyPop, LcEmptyInsert, LcCheckGBA,
       LcWaitStopped, LcCorrect, LcReleaseLock, LcCheckFinish, LcPcs, AfterGBA
  <2>2. UNCHANGED <<opVars, detectVars, lcFinishVars, lcResetVars, gbaVars>>
    BY <1>8 DEF LcRequestStop, LcEmptyQueue, LcEmptyPop, LcEmptyInsert, LcCheckGBA,
       LcWaitStopped, LcCorrect, LcReleaseLock, LcCheckFinish
  <2> QED BY <2>1, <2>2 DEF LcTypeOK
<1> QED BY <1>1, <1>2, <1>3, <1>4, <1>5, <1>6, <1>7, <1>8 DEF LcOwnStep

\* What a reset leaves in the queue was in it before.
LEMMA LcResetTypes ==
  ASSUME LcTypeOK, LcResetIfRequested(activeKeyFrames)
  PROVE  LcTypeOK' /\ lcPc' # "detect"
<1> USE DEF LcGoto, opVars, lcFinishVars, lcResetVars, gbaVars, gbaFlagVars
<1>1. mlpLoopKeyFrameQueue \in Seq(KeyFrames) /\ lcResetRequested \in BOOLEAN /\ lcResetActiveMap \in BOOLEAN
  BY DEF LcTypeOK
<1>2. lcPc' = "checkFinish"
  BY DEF LcResetIfRequested
<1>3. /\ mlpLoopKeyFrameQueue' \in Seq(KeyFrames)
      /\ lcResetRequested' \in BOOLEAN /\ lcResetActiveMap' \in BOOLEAN
  <2>1. CASE lcResetRequested
    <3>1. mlpLoopKeyFrameQueue' = <<>> /\ lcResetRequested' = FALSE /\ lcResetActiveMap' = FALSE
      BY <2>1 DEF LcResetIfRequested
    <3>2. mlpLoopKeyFrameQueue' \in Seq(KeyFrames)
      BY <3>1, EmptySeq
    <3> QED BY <3>1, <3>2, Zenon
  <2>2. CASE ~lcResetRequested /\ lcResetActiveMap
    <3>1. /\ mlpLoopKeyFrameQueue' = Keep(mlpLoopKeyFrameQueue, KeyFrames \ activeKeyFrames)
          /\ lcResetActiveMap' = FALSE /\ lcResetRequested' = lcResetRequested
      BY <2>2 DEF LcResetIfRequested
    <3>2. Keep(mlpLoopKeyFrameQueue, KeyFrames \ activeKeyFrames) \in Seq(KeyFrames)
      BY <1>1, KeepProperties
    <3>3. lcResetActiveMap' \in BOOLEAN
      BY <3>1, Zenon
    <3> QED BY <1>1, <3>1, <3>2, <3>3
  <2>3. CASE ~lcResetRequested /\ ~lcResetActiveMap
    BY <1>1, <2>3 DEF LcResetIfRequested
  <2> QED BY <2>1, <2>2, <2>3
<1> QED BY <1>2, <1>3 DEF LcResetIfRequested, LcTypeOK, LcPcs

\* The same for a bundle adjustment thread.
LEMMA GbaLmTypes ==
  ASSUME LmTypeOK, NEW w \in Workers, GbaStep(w)
  PROVE  LmTypeOK' /\ lmPc' = lmPc /\ mpCurrentKeyFrame' = mpCurrentKeyFrame /\ undefined' = undefined
<1>0. w \in Threads /\ w # Nobody
  BY WorkersAssumption DEF Threads
<1>1. CASE GbaRequestStop(w)
  BY <1>1, StopRequestTypes DEF GbaRequestStop
<1>2. CASE GbaReleaseLock(w)
  BY <1>0, <1>2, ReleaseTypes DEF GbaReleaseLock
<1>3. CASE GbaReleaseBody(w)
  <2>1. ReleaseLock(w) => UNCHANGED <<queueVars, mapVars>>
    BY <1>0, <1>3 DEF GbaReleaseBody, ReleaseBody, ReleaseLock, Free
  <2> QED BY <1>0, <1>3, <2>1, ReleaseTypes DEF GbaReleaseBody
<1>4. CASE GbaOptimise(w) \/ GbaLock(w) \/ GbaWaitStopped(w) \/ GbaUpdate(w) \/ GbaPublish(w)
  <2>1. UNCHANGED lmVars
    BY <1>4 DEF GbaOptimise, GbaLock, GbaWaitStopped, GbaUpdate, GbaPublish
  <2> QED BY <2>1, LmStays
<1> QED BY <1>1, <1>2, <1>3, <1>4 DEF GbaStep

LEMMA GbaTypes ==
  ASSUME LcTypeOK, NEW w \in Workers, GbaStep(w)
  PROVE  LcTypeOK' /\ lcPc' = lcPc /\ mpCurrentKF' = mpCurrentKF
<1> USE DEF opVars, detectVars, lcFinishVars, lcResetVars, gbaFlagVars, GbaGoto
<1>1. CASE GbaOptimise(w)
  <2>1. gbaPc' \in [Workers -> GbaPcs] /\ gbaIdx' \in [Workers -> Nat]
    BY <1>1 DEF GbaOptimise, LcTypeOK, GbaPcs
  <2> QED BY <1>1, <2>1 DEF GbaOptimise, LcTypeOK
<1>2. CASE GbaLock(w)
  <2>1. gbaPc' \in [Workers -> GbaPcs] /\ mMutexGBA' \in Workers \cup {Nobody}
    BY <1>2 DEF GbaLock, LcTypeOK, GbaPcs
  <2> QED BY <1>2, <2>1 DEF GbaLock, LcTypeOK
<1>3. CASE GbaRequestStop(w) \/ GbaWaitStopped(w) \/ GbaUpdate(w) \/ GbaReleaseLock(w) \/ GbaReleaseBody(w)
  <2>1. \E to \in GbaPcs : gbaPc' = [gbaPc EXCEPT ![w] = to]
    BY <1>3 DEF GbaRequestStop, GbaWaitStopped, GbaUpdate, GbaReleaseLock, GbaReleaseBody, GbaPcs
  <2>2. gbaPc' \in [Workers -> GbaPcs]
    BY <2>1 DEF LcTypeOK
  <2>3. UNCHANGED <<lcPc, opVars, detectVars, lcFinishVars, lcResetVars, gbaFlagVars, gbaIdx>>
    BY <1>3 DEF GbaRequestStop, GbaWaitStopped, GbaUpdate, GbaReleaseLock, GbaReleaseBody
  <2> QED BY <2>2, <2>3 DEF LcTypeOK
<1>4. CASE GbaPublish(w)
  <2>1. gbaPc' \in [Workers -> GbaPcs]
    BY <1>4 DEF GbaPublish, LcTypeOK, GbaPcs
  <2>2. mbRunningGBA' \in BOOLEAN
    BY <1>4, Zenon DEF GbaPublish
  <2> QED BY <1>4, <2>1, <2>2 DEF GbaPublish, LcTypeOK
<1> QED BY <1>1, <1>2, <1>3, <1>4 DEF GbaStep

\* Inserting a keyframe keeps the queue a list of keyframes.
LEMMA InsertTypes ==
  ASSUME LmTypeOK, NEW kf \in KeyFrames, InsertKeyFrame(kf)
  PROVE  mlNewKeyFrames' \in Seq(KeyFrames) /\ mbAbortBA' \in BOOLEAN /\ mpCurrentKeyFrame' = mpCurrentKeyFrame
<1>1. mlNewKeyFrames \in Seq(KeyFrames)
  BY DEF LmTypeOK
<1>2. Append(mlNewKeyFrames, kf) \in Seq(KeyFrames)
  BY <1>1, AppendProperties
<1>3. mbAbortBA' \in BOOLEAN
  BY Zenon DEF InsertKeyFrame
<1> QED BY <1>2, <1>3 DEF InsertKeyFrame

LEMMA LcStays ==
  ASSUME UNCHANGED lcVars
  PROVE  (LcTypeOK => LcTypeOK') /\ lcPc' = lcPc /\ mpCurrentKF' = mpCurrentKF
BY DEF lcVars, LcTypeOK, opVars, detectVars, lcFinishVars, lcResetVars, gbaVars, gbaFlagVars

LEMMA CreatedTypes ==
  ASSUME TrkTypeOK, NEW kf \in KeyFrames, NewKeyFrame(kf)
  PROVE  created' \in 0 .. MaxKeyFrames /\ originKF' \in KeyFrames \cup {Null}
<1>1. created' \in 0 .. MaxKeyFrames
  BY MaxKeyFramesAssumption DEF NewKeyFrame, KeyFrames
<1>2. originKF' \in KeyFrames \cup {Null}
  BY DEF NewKeyFrame, TrkTypeOK
<1> QED BY <1>1, <1>2

\* Tracking creates keyframes within the bound and inserts no other.
LEMMA TrackTypes ==
  ASSUME TypeInv, TrackStep  PROVE TypeInv'
<1>0. LmTypeOK /\ LcTypeOK /\ TrkTypeOK /\ HandInv
  BY DEF TypeInv, TypeOK
<1>1. CASE StereoInitialization
  <2>1. PICK kf \in KeyFrames :
          NewKeyFrame(kf) /\ mapKeyFrames' = mapKeyFrames \cup {kf} /\ InsertKeyFrame(kf) /\ mpLastKeyFrame' = kf
    BY <1>1 DEF StereoInitialization
  <2>2. /\ mlNewKeyFrames' \in Seq(KeyFrames) /\ mbAbortBA' \in BOOLEAN /\ mpCurrentKeyFrame' = mpCurrentKeyFrame
        /\ created' \in 0 .. MaxKeyFrames /\ originKF' \in KeyFrames \cup {Null}
    BY <1>0, <2>1, InsertTypes, CreatedTypes
  <2>3. mapReady' \in BOOLEAN
    BY <1>1, Zenon DEF StereoInitialization
  <2>4. LcTypeOK' /\ lcPc' = lcPc /\ mpCurrentKF' = mpCurrentKF
    BY <1>0, <1>1, LcStays DEF StereoInitialization
  <2>5. mapKeyFrames' \subseteq KeyFrames
    BY <1>0, <2>1 DEF LmTypeOK
  <2>6. LmTypeOK'
    BY <1>0, <1>1, <2>2, <2>5 DEF StereoInitialization, LmTypeOK, stopVars, finishVars, resetVars
  <2>7. TrkTypeOK'
    BY <1>0, <1>1, <2>1, <2>2, <2>3 DEF StereoInitialization, TrkTypeOK
  <2>8. lmPc' = lmPc /\ undefined' = undefined
    BY <1>1 DEF StereoInitialization
  <2>9. HandInv'
    BY <1>0, <2>2, <2>4, <2>8 DEF HandInv
  <2> QED BY <2>4, <2>6, <2>7, <2>9 DEF TypeInv, TypeOK
<1>2. CASE CreateAllowed
  <2>1. LcTypeOK' /\ lcPc' = lcPc /\ mpCurrentKF' = mpCurrentKF
    BY <1>0, <1>2, LcStays DEF CreateAllowed
  <2>2. mbNotStop' \in BOOLEAN
    BY <1>2, Zenon DEF CreateAllowed, SetNotStop
  <2>3. LmTypeOK' /\ lmPc' = lmPc /\ mpCurrentKeyFrame' = mpCurrentKeyFrame /\ undefined' = undefined
    BY <1>0, <1>2, <2>2 DEF CreateAllowed, SetNotStop, LmTypeOK, queueVars, finishVars, resetVars, mapVars
  <2>4. TrkTypeOK'
    BY <1>0, <1>2 DEF CreateAllowed, TrkGoto, TrkTypeOK, TrkPcs
  <2>5. HandInv'
    BY <1>0, <2>1, <2>3 DEF HandInv
  <2> QED BY <2>1, <2>3, <2>4, <2>5 DEF TypeInv, TypeOK
<1>3. CASE CreateInsert
  <2>1. PICK kf \in KeyFrames : NewKeyFrame(kf) /\ InsertKeyFrame(kf)
    BY <1>3 DEF CreateInsert
  <2>2. /\ mlNewKeyFrames' \in Seq(KeyFrames) /\ mbAbortBA' \in BOOLEAN /\ mpCurrentKeyFrame' = mpCurrentKeyFrame
        /\ created' \in 0 .. MaxKeyFrames /\ originKF' \in KeyFrames \cup {Null}
    BY <1>0, <2>1, InsertTypes, CreatedTypes
  <2>3. LcTypeOK' /\ lcPc' = lcPc /\ mpCurrentKF' = mpCurrentKF
    BY <1>0, <1>3, LcStays DEF CreateInsert
  <2>4. LmTypeOK' /\ lmPc' = lmPc /\ undefined' = undefined
    BY <1>0, <1>3, <2>2 DEF CreateInsert, LmTypeOK, stopVars, finishVars, resetVars, mapVars
  <2>5. TrkTypeOK'
    BY <1>0, <1>3, <2>2 DEF CreateInsert, TrkGoto, TrkTypeOK, TrkPcs
  <2>6. HandInv'
    BY <1>0, <2>2, <2>3, <2>4 DEF HandInv
  <2> QED BY <2>3, <2>4, <2>5, <2>6 DEF TypeInv, TypeOK
<1>4. CASE CreateDone
  <2>1. LcTypeOK' /\ lcPc' = lcPc /\ mpCurrentKF' = mpCurrentKF
    BY <1>0, <1>4, LcStays DEF CreateDone
  <2>2. mbNotStop' \in BOOLEAN
    BY <1>4, Zenon DEF CreateDone, ClearNotStop
  <2>3. LmTypeOK' /\ lmPc' = lmPc /\ mpCurrentKeyFrame' = mpCurrentKeyFrame /\ undefined' = undefined
    BY <1>0, <1>4, <2>2 DEF CreateDone, ClearNotStop, LmTypeOK, queueVars, finishVars, resetVars, mapVars
  <2>4. created \in KeyFrames \cup {Null}
    BY <1>0, NullIsNoKeyFrame DEF TrkTypeOK
  <2>5. TrkTypeOK'
    BY <1>0, <1>4, <2>4 DEF CreateDone, TrkGoto, TrkTypeOK, TrkPcs
  <2>6. HandInv'
    BY <1>0, <2>1, <2>3 DEF HandInv
  <2> QED BY <2>1, <2>3, <2>5, <2>6 DEF TypeInv, TypeOK
<1>5. CASE NeedNewKeyFrame \/ CreateRefused \/ CreateMapInAtlas
  <2>1. UNCHANGED <<lmVars, lcVars>>
    BY <1>5 DEF NeedNewKeyFrame, CreateRefused, CreateMapInAtlas
  <2>2. mapReady' \in BOOLEAN
    <3>1. CASE CreateMapInAtlas
      BY <3>1, Zenon DEF CreateMapInAtlas
    <3>2. CASE NeedNewKeyFrame \/ CreateRefused
      BY <1>0, <3>2 DEF NeedNewKeyFrame, CreateRefused, TrkTypeOK
    <3> QED BY <1>5, <3>1, <3>2
  <2>3. TrkTypeOK'
    BY <1>0, <1>5, <2>2 DEF NeedNewKeyFrame, CreateRefused, CreateMapInAtlas, TrkGoto, TrkTypeOK, TrkPcs
  <2>4. /\ LmTypeOK' /\ lmPc' = lmPc /\ mpCurrentKeyFrame' = mpCurrentKeyFrame /\ undefined' = undefined
        /\ LcTypeOK' /\ lcPc' = lcPc /\ mpCurrentKF' = mpCurrentKF
    BY <1>0, <2>1, LmStays, LcStays
  <2> QED BY <1>0, <2>3, <2>4 DEF TypeInv, TypeOK, HandInv
<1> QED BY <1>1, <1>2, <1>3, <1>4, <1>5 DEF TrackStep

\* A reset only asks, waits, and clears the database and the map.
LEMMA ResetTypes ==
  ASSUME TypeInv, ResetStep  PROVE TypeInv'
<1>0. LmTypeOK /\ LcTypeOK /\ TrkTypeOK /\ HandInv
  BY DEF TypeInv, TypeOK
<1> USE DEF TrkGoto
<1>1. lmResetRequested' \in BOOLEAN /\ lmResetActiveMap' \in BOOLEAN
  <2>1. CASE ResetBegin \/ ResetActiveBegin
    <3>1. /\ lmResetRequested' = TRUE \/ lmResetRequested' = lmResetRequested
          /\ lmResetActiveMap' = TRUE \/ lmResetActiveMap' = lmResetActiveMap
      BY <2>1, Zenon DEF ResetBegin, ResetActiveBegin, RequestReset, RequestResetActiveMap
    <3>2. lmResetRequested \in BOOLEAN /\ lmResetActiveMap \in BOOLEAN
      BY <1>0 DEF LmTypeOK
    <3> QED BY <3>1, <3>2, Zenon
  <2>2. CASE ~(ResetBegin \/ ResetActiveBegin)
    BY <1>0, <2>2 DEF ResetStep, ResetLocalMapperDone, ResetLoopClosingDone, ResetClear,
       ResetActiveLocalMapperDone, ResetActiveLoopClosingDone, ResetActiveClear, LmTypeOK, lmVars, resetVars
  <2> QED BY <2>1, <2>2
<1>2. lcResetRequested' \in BOOLEAN /\ lcResetActiveMap' \in BOOLEAN
  <2>1. CASE ResetLocalMapperDone \/ ResetActiveLocalMapperDone
    <3>1. /\ lcResetRequested' = TRUE \/ lcResetRequested' = lcResetRequested
          /\ lcResetActiveMap' = TRUE \/ lcResetActiveMap' = lcResetActiveMap
      BY <2>1, Zenon DEF ResetLocalMapperDone, ResetActiveLocalMapperDone, LcRequestReset, LcRequestResetActiveMap
    <3>2. lcResetRequested \in BOOLEAN /\ lcResetActiveMap \in BOOLEAN
      BY <1>0 DEF LcTypeOK
    <3> QED BY <3>1, <3>2, Zenon
  <2>2. CASE ~(ResetLocalMapperDone \/ ResetActiveLocalMapperDone)
    BY <1>0, <2>2 DEF ResetStep, ResetBegin, ResetActiveBegin, ResetLoopClosingDone, ResetClear,
       ResetActiveLoopClosingDone, ResetActiveClear, LcTypeOK, lcVars, lcResetVars
  <2> QED BY <2>1, <2>2
<1>3. mapReady' \in BOOLEAN
  <2>1. CASE ResetClear \/ ResetActiveClear
    BY <2>1, Zenon DEF ResetClear, ResetActiveClear
  <2>2. CASE ~(ResetClear \/ ResetActiveClear)
    BY <1>0, <2>2 DEF ResetStep, ResetBegin, ResetActiveBegin, ResetLocalMapperDone, ResetLoopClosingDone,
       ResetActiveLocalMapperDone, ResetActiveLoopClosingDone, TrkTypeOK
  <2> QED BY <2>1, <2>2
<1>4. /\ mapKeyFrames' \in {mapKeyFrames, {}, mapKeyFrames \ activeKeyFrames}
      /\ keyFrameDB' \in {keyFrameDB, {}, keyFrameDB \ activeKeyFrames}
  BY DEF ResetStep, ResetBegin, ResetActiveBegin, ResetLocalMapperDone, ResetLoopClosingDone, ResetClear,
       ResetActiveLocalMapperDone, ResetActiveLoopClosingDone, ResetActiveClear, lmVars, mapVars, lcVars, detectVars
<1>5. UNCHANGED <<lmPc, queueVars, stopVars, finishVars, mbBadImu, mbAcceptKeyFrames, freedKeyFrames, undefined>>
  BY DEF ResetStep, ResetBegin, ResetActiveBegin, ResetLocalMapperDone, ResetLoopClosingDone, ResetClear,
       ResetActiveLocalMapperDone, ResetActiveLoopClosingDone, ResetActiveClear, lmVars, mapVars, resetVars,
       RequestReset, RequestResetActiveMap
<1>6. UNCHANGED <<lcPc, opVars, mlpLoopKeyFrameQueue, mpCurrentKF, lcFinishVars, gbaVars>>
  BY DEF ResetStep, ResetBegin, ResetActiveBegin, ResetLocalMapperDone, ResetLoopClosingDone, ResetClear,
       ResetActiveLocalMapperDone, ResetActiveLoopClosingDone, ResetActiveClear, lcVars, detectVars
<1>7. LmTypeOK'
  BY <1>0, <1>1, <1>4, <1>5 DEF LmTypeOK, queueVars, stopVars, finishVars
<1>8. LcTypeOK'
  BY <1>0, <1>2, <1>4, <1>6 DEF LcTypeOK, opVars, lcFinishVars, gbaVars, gbaFlagVars
<1>9. TrkTypeOK'
  <2>1. trkPc' \in TrkPcs
    BY DEF ResetStep, ResetBegin, ResetActiveBegin, ResetLocalMapperDone, ResetLoopClosingDone, ResetClear,
       ResetActiveLocalMapperDone, ResetActiveLoopClosingDone, ResetActiveClear, TrkPcs
  <2>2. /\ mpLastKeyFrame' \in {mpLastKeyFrame, Null} /\ originKF' \in {originKF, Null}
        /\ created' = created /\ mapStart' \in {mapStart, created}
        /\ resets' \in {resets, resets + 1} /\ maps' = maps
    BY DEF ResetStep, ResetBegin, ResetActiveBegin, ResetLocalMapperDone, ResetLoopClosingDone, ResetClear,
       ResetActiveLocalMapperDone, ResetActiveLoopClosingDone, ResetActiveClear
  <2> QED BY <1>0, <1>3, <2>1, <2>2 DEF TrkTypeOK
<1>10. HandInv'
  BY <1>0, <1>5, <1>6 DEF HandInv, queueVars
<1> QED BY <1>7, <1>8, <1>9, <1>10 DEF TypeInv, TypeOK

LEMMA ShutdownTypes ==
  ASSUME TypeInv, ShutdownStep  PROVE TypeInv'
<1>0. LmTypeOK /\ LcTypeOK /\ TrkTypeOK /\ HandInv
  BY DEF TypeInv, TypeOK
<1> USE DEF TrkGoto
<1>1. TrkTypeOK'
  BY <1>0 DEF ShutdownStep, Shutdown, ShutdownLoopClosing, AwaitLocalMapping, AwaitLoopClosing, AwaitGBA,
     TrkTypeOK, TrkPcs
<1>2. LmTypeOK' /\ lmPc' = lmPc /\ mpCurrentKeyFrame' = mpCurrentKeyFrame /\ undefined' = undefined
  <2>1. CASE Shutdown
    <3>1. lmFinishRequested' \in BOOLEAN
      BY <2>1, Zenon DEF Shutdown, RequestFinish
    <3> QED BY <1>0, <2>1, <3>1 DEF Shutdown, RequestFinish, LmTypeOK, queueVars, stopVars, resetVars, mapVars
  <2>2. CASE ~Shutdown
    <3>1. UNCHANGED lmVars
      BY <2>2 DEF ShutdownStep, ShutdownLoopClosing, AwaitLocalMapping, AwaitLoopClosing, AwaitGBA
    <3> QED BY <1>0, <3>1, LmStays
  <2> QED BY <2>1, <2>2
<1>3. LcTypeOK' /\ lcPc' = lcPc /\ mpCurrentKF' = mpCurrentKF
  <2>1. CASE ShutdownLoopClosing
    <3>1. lcFinishRequested' \in BOOLEAN
      BY <2>1, Zenon DEF ShutdownLoopClosing, LcRequestFinish
    <3> QED BY <1>0, <2>1, <3>1 DEF ShutdownLoopClosing, LcRequestFinish, LcTypeOK, opVars, detectVars,
              lcResetVars, gbaVars, gbaFlagVars
  <2>2. CASE ~ShutdownLoopClosing
    <3>1. UNCHANGED lcVars
      BY <2>2 DEF ShutdownStep, Shutdown, AwaitLocalMapping, AwaitLoopClosing, AwaitGBA
    <3> QED BY <1>0, <3>1, LcStays
  <2> QED BY <2>1, <2>2
<1>4. HandInv'
  BY <1>0, <1>2, <1>3 DEF HandInv
<1> QED BY <1>1, <1>2, <1>3, <1>4 DEF TypeInv, TypeOK

LEMMA TypeInvStarts == Init => TypeInv
<1> SUFFICES ASSUME Init  PROVE TypeInv
  OBVIOUS
<1>1. LmTypeOK
  BY EmptySeq DEF Init, LmInit, LmTypeOK, LmPcs
<1>2. LcTypeOK
  BY EmptySeq DEF Init, LcInit, LcTypeOK, LcPcs, GbaPcs
<1>3. TrkTypeOK
  <2>1. mapReady \in BOOLEAN
    BY Zenon DEF Init
  <2>2. 0 \in 0 .. MaxKeyFrames
    BY MaxKeyFramesAssumption
  <2> QED BY <2>1, <2>2 DEF Init, TrkTypeOK, TrkPcs
<1>4. HandInv
  BY DEF Init, LmInit, LcInit, HandInv, Working
<1> QED BY <1>1, <1>2, <1>3, <1>4 DEF TypeInv, TypeOK

LEMMA TypeInvStays ==
  ASSUME TypeInv, [Next]_vars  PROVE TypeInv'
<1>0. LmTypeOK /\ LcTypeOK /\ TrkTypeOK /\ HandInv
  BY DEF TypeInv, TypeOK
<1>1. ASSUME UNCHANGED trkVars  PROVE TrkTypeOK'
  BY <1>0, <1>1 DEF TrkTypeOK, trkVars
<1>2. CASE UNCHANGED vars
  <2>1. UNCHANGED lmVars /\ UNCHANGED lcVars /\ UNCHANGED trkVars
    BY <1>2 DEF vars
  <2>2. /\ LmTypeOK' /\ lmPc' = lmPc /\ mpCurrentKeyFrame' = mpCurrentKeyFrame /\ undefined' = undefined
        /\ LcTypeOK' /\ lcPc' = lcPc /\ mpCurrentKF' = mpCurrentKF
    BY <1>0, <2>1, LmStays, LcStays
  <2> QED BY <1>0, <1>1, <2>1, <2>2 DEF TypeInv, TypeOK, HandInv
<1>3. CASE Next /\ LmStep
  <2>1. CASE LmHandOff
    BY <1>3, <2>1, HandOffTypes DEF Next
  <2>2. CASE LmOwnStep /\ UNCHANGED <<lcVars, trkVars>>
    <3>1. LcTypeOK' /\ lcPc' = lcPc /\ mpCurrentKF' = mpCurrentKF
      BY <1>0, <2>2, LcStays
    <3>2. LmTypeOK' /\ HandInv'
      BY <1>0, <2>2, <3>1, LmTypes, LmHandInv
    <3> QED BY <1>1, <2>2, <3>1, <3>2 DEF TypeInv, TypeOK
  <2> QED BY <1>3, <2>1, <2>2 DEF LmStep
<1>4. CASE Next /\ LcStep
  <2>1. TrkTypeOK'
    BY <1>0, <1>4, MaxKeyFramesAssumption DEF LcStep, LcMerged, TrkTypeOK
  <2>2. CASE LcOwnStep
    <3>1. /\ LmTypeOK' /\ lmPc' = lmPc
          /\ mpCurrentKeyFrame # Null => mpCurrentKeyFrame' # Null \/ undefined'
      BY <1>0, <1>4, <2>2, LcLmTypes DEF Next
    <3>2. LcTypeOK' /\ (lcPc' = "detect" => mpCurrentKF' # Null)
      BY <1>0, <2>2, LcOwnTypes
    <3>3. ~undefined
      BY <1>4 DEF Next
    <3> QED BY <1>0, <2>1, <3>1, <3>2, <3>3 DEF TypeInv, TypeOK, HandInv
  <2>3. CASE LcResetIfRequested(activeKeyFrames)
    <3>1. UNCHANGED lmVars
      BY <2>3 DEF LcResetIfRequested
    <3>2. LmTypeOK' /\ lmPc' = lmPc /\ mpCurrentKeyFrame' = mpCurrentKeyFrame /\ undefined' = undefined
      BY <1>0, <3>1, LmStays
    <3>3. LcTypeOK' /\ lcPc' # "detect"
      BY <1>0, <2>3, LcResetTypes
    <3> QED BY <1>0, <2>1, <3>2, <3>3 DEF TypeInv, TypeOK, HandInv
  <2> QED BY <1>4, <2>2, <2>3 DEF LcStep
<1>5. CASE Next /\ WorkerStep
  <2>1. PICK w \in Workers : GbaStep(w) /\ UNCHANGED trkVars
    BY <1>5 DEF WorkerStep
  <2>2. /\ LmTypeOK' /\ lmPc' = lmPc /\ mpCurrentKeyFrame' = mpCurrentKeyFrame /\ undefined' = undefined
        /\ LcTypeOK' /\ lcPc' = lcPc /\ mpCurrentKF' = mpCurrentKF
    BY <1>0, <2>1, GbaLmTypes, GbaTypes
  <2> QED BY <1>0, <1>1, <2>1, <2>2 DEF TypeInv, TypeOK, HandInv
<1> QED BY <1>2, <1>3, <1>4, <1>5, TrackTypes, ResetTypes, ShutdownTypes DEF Next

\* Every variable of the threads keeps its type, the queues hold keyframes only,
\* and no thread works on a null pointer.
THEOREM TypeInvariant == Spec => []TypeInv
<1>1. TypeInv /\ [Next]_vars => TypeInv'
  BY TypeInvStays
<1> QED BY <1>1, TypeInvStarts, PTL DEF Spec

\* SlamThreads.TypeOK in every reachable state.
THEOREM TypeCorrect == Spec => []TypeOK
<1>1. TypeInv => TypeOK
  BY DEF TypeInv
<1> QED BY <1>1, TypeInvariant, PTL

-----------------------------------------------------------------------------
(* A reset finds both threads without a keyframe of the map it clears.      *)

\* Local mapping has no keyframe, neither waiting nor in hand.
LmClean == mlNewKeyFrames = <<>> /\ lmPc \notin Working \cup {"handOff"}

\* Neither has loop closing.
LcClean == mlpLoopKeyFrameQueue = <<>> /\ lcPc \in {"check", "reset", "checkFinish"}

\* No keyframe of the active map waits for loop closing.
ActiveClean ==
  \A i \in DOMAIN mlpLoopKeyFrameQueue : mlpLoopKeyFrameQueue[i] \notin activeKeyFrames

\* Only loops are closed: no merge moves keyframes between maps.
OnlyLoops == Operations \subseteq {"loop"}

\* Once a thread has answered, it gets no keyframe until the map is cleared:
\* Tracking, which waits, is the only source of keyframes for local mapping, and
\* local mapping, answered before, the only one for loop closing.
ResetInv ==
  /\ trkPc = "resetLM" /\ ~lmResetRequested => LmClean
  /\ trkPc = "resetActiveLM" /\ ~lmResetActiveMap => LmClean
  /\ trkPc \in {"resetLC", "clear", "resetActiveLC", "clearActive"} => LmClean
  /\ trkPc = "resetLC" /\ ~lcResetRequested => LcClean
  /\ trkPc = "clear" => LcClean
  /\ trkPc = "resetActiveLC" /\ ~lcResetActiveMap => ActiveClean
  /\ trkPc = "clearActive" => ActiveClean
  /\ lcOperation \in {"none", "loop"}
  /\ lcFinishRequested => trkPc \in {"awaitLM", "awaitLC", "awaitGBA", "off"}

\* What local mapping does about its own requests: it withdraws one only when
\* it has let go of every keyframe, and nothing gives it another one.
LEMMA LmAnswers ==
  ASSUME LmOwnStep
  PROVE  /\ LmClean => LmClean'
         /\ ~lmResetRequested' => ~lmResetRequested \/ LmClean'
         /\ ~lmResetActiveMap' => ~lmResetActiveMap \/ LmClean'
<1> USE DEF LmGoto, LmClean, Working, queueVars, resetVars
<1>1. CASE ResetIfRequested
  <2>1. CASE lmResetRequested \/ lmResetActiveMap
    BY <1>1, <2>1 DEF ResetIfRequested
  <2>2. CASE ~(lmResetRequested \/ lmResetActiveMap)
    BY <1>1, <2>2 DEF ResetIfRequested
  <2> QED BY <2>1, <2>2
<1>2. CASE LmRun \/ SetBusy \/ CheckNewKeyFrames
  BY <1>2 DEF LmRun, SetBusy, CheckNewKeyFrames
<1>3. CASE LmPop \/ LmInsert \/ CreateMapPoints
  BY <1>3 DEF LmPop, LmInsert, CreateMapPoints
<1>4. CASE CheckQueueBeforeBA \/ CheckStopBeforeBA \/ LocalBundleAdjustment
  BY <1>4 DEF CheckQueueBeforeBA, CheckStopBeforeBA, LocalBundleAdjustment
<1>5. CASE NotEnoughMotion
  BY <1>5 DEF NotEnoughMotion
<1>6. CASE Stop
  BY <1>6 DEF Stop
<1>7. CASE LeaveStopped \/ AcceptKeyFrames \/ CheckFinish
  BY <1>7 DEF LeaveStopped, AcceptKeyFrames, CheckFinish
<1>8. CASE SetFinishLock \/ SetFinishBody
  BY <1>8 DEF SetFinishLock, SetFinishBody
<1>9. CASE InitializeIMU
  BY <1>9 DEF InitializeIMU, ImuCheckNewKeyFrames, ImuPop, ImuInsert, ImuDrop
<1> QED BY <1>1, <1>2, <1>3, <1>4, <1>5, <1>6, <1>7, <1>8, <1>9 DEF LmOwnStep

\* What the other two threads do to local mapping: they only take keyframes out
\* of its queue.
LEMMA LcTakesOnly ==
  ASSUME LcStep
  PROVE  (LmClean => LmClean') /\ UNCHANGED <<lmResetRequested, lmResetActiveMap>>
<1> USE DEF LmClean, lmVars, queueVars, resetVars
<1>1. CASE LcEmptyPop
  BY <1>1 DEF LcEmptyPop, PopKeyFrame
<1>2. CASE LcReleaseBody
  <2>1. lmPc' = lmPc /\ UNCHANGED resetVars
    BY <1>2 DEF LcReleaseBody
  <2>2. mlNewKeyFrames' = <<>> \/ mlNewKeyFrames' = mlNewKeyFrames
    BY <1>2 DEF LcReleaseBody, ReleaseBody
  <2> QED BY <2>1, <2>2
<1>3. CASE LcRequestStop \/ LcReleaseLock \/ LcEmptyInsert \/ LcAbortGBA
  BY <1>3 DEF LcRequestStop, RequestStop, LcReleaseLock, LcEmptyInsert, LcAbortGBA
<1>4. CASE \/ LcRun \/ LcCheckNewKeyFrames \/ LcDetect \/ LcEmptyQueue \/ LcCheckGBA
           \/ LcWaitStopped \/ LcCorrect \/ LcLaunchGBA \/ LcCheckFinish \/ LcSetFinish
           \/ LcResetIfRequested(activeKeyFrames)
  BY <1>4 DEF LcRun, LcCheckNewKeyFrames, LcDetect, LcEmptyQueue, LcCheckGBA, LcWaitStopped,
     LcCorrect, LcLaunchGBA, LcCheckFinish, LcSetFinish, LcResetIfRequested
<1> QED BY <1>1, <1>2, <1>3, <1>4 DEF LcStep, LcOwnStep

LEMMA WorkerTakesOnly ==
  ASSUME WorkerStep
  PROVE  /\ (LmClean => LmClean') /\ UNCHANGED <<lmResetRequested, lmResetActiveMap>>
         /\ UNCHANGED <<lcPc, lcOperation, mlpLoopKeyFrameQueue, lcResetVars, lcFinishVars, trkVars>>
<1> USE DEF LmClean, lmVars, queueVars, resetVars, opVars, detectVars
<1>1. PICK w \in Workers : GbaStep(w) /\ UNCHANGED trkVars
  BY DEF WorkerStep
<1>2. UNCHANGED <<lmPc, resetVars, lcPc, opVars, detectVars, lcResetVars, lcFinishVars>>
  BY <1>1 DEF GbaStep, GbaOptimise, GbaLock, GbaRequestStop, GbaWaitStopped, GbaUpdate,
     GbaReleaseLock, GbaReleaseBody, GbaPublish
<1>3. mlNewKeyFrames' = <<>> \/ mlNewKeyFrames' = mlNewKeyFrames
  BY <1>1 DEF GbaStep, GbaOptimise, GbaLock, GbaRequestStop, RequestStop, GbaWaitStopped, GbaUpdate,
     GbaReleaseLock, GbaReleaseBody, ReleaseBody, GbaPublish
<1> QED BY <1>1, <1>2, <1>3

\* What loop closing does about its own requests, while nobody asks it to finish.
LEMMA LcAnswers ==
  ASSUME TypeOK, OnlyLoops, lcOperation \in {"none", "loop"}, LcStep
  PROVE  /\ lcOperation' \in {"none", "loop"}
         /\ UNCHANGED <<lcFinishRequested, trkPc, activeKeyFrames>>
         /\ LcClean /\ ~lcFinishRequested => LcClean'
         /\ ~lcResetRequested' => ~lcResetRequested \/ LcClean'
         /\ ActiveClean => ActiveClean'
         /\ ~lcResetActiveMap' => ~lcResetActiveMap \/ ActiveClean'
<1> USE DEF LcGoto, LcClean, opVars, detectVars, lcFinishVars, lcResetVars
<1>1. UNCHANGED <<trkPc, activeKeyFrames>>
  BY DEF LcStep, LcMerged, activeKeyFrames
<1>2. mlpLoopKeyFrameQueue \in Seq(KeyFrames)
  BY DEF TypeOK, LcTypeOK
<1>3. lcOperation' \in {"none", "loop"}
  <2>1. CASE LcDetect
    BY <2>1 DEF LcDetect, OnlyLoops
  <2>2. CASE LcReleaseBody
    BY <2>2 DEF LcReleaseBody
  <2>3. CASE ~LcDetect /\ ~LcReleaseBody
    <3>1. lcOperation' = lcOperation
      BY <2>3 DEF LcStep, LcOwnStep, LcRun, LcCheckNewKeyFrames, LcRequestStop, LcEmptyQueue, LcEmptyPop,
         LcEmptyInsert, LcCheckGBA, LcAbortGBA, LcWaitStopped, LcCorrect, LcLaunchGBA, LcReleaseLock,
         LcCheckFinish, LcSetFinish, LcResetIfRequested
    <3> QED BY <3>1
  <2> QED BY <2>1, <2>2, <2>3
<1>4. CASE LcResetIfRequested(activeKeyFrames)
  <2>1. UNCHANGED lcFinishVars /\ lcPc' = "checkFinish"
    BY <1>4 DEF LcResetIfRequested
  <2>2. CASE lcResetRequested
    <3>1. mlpLoopKeyFrameQueue' = <<>>
      BY <1>4, <2>2 DEF LcResetIfRequested
    <3> QED BY <1>1, <1>3, <2>1, <3>1 DEF ActiveClean
  <2>3. CASE ~lcResetRequested /\ lcResetActiveMap
    <3>. DEFINE kept == Keep(mlpLoopKeyFrameQueue, KeyFrames \ activeKeyFrames)
    <3>1. mlpLoopKeyFrameQueue' = kept /\ lcResetRequested' = lcResetRequested
      BY <1>4, <2>3 DEF LcResetIfRequested
    <3>2. /\ kept \in Seq(KeyFrames)
          /\ \A i \in 1 .. Len(kept) : kept[i] \in KeyFrames \ activeKeyFrames
      BY <1>2, KeepProperties, Zenon
    <3>. HIDE DEF kept
    <3>3. ActiveClean'
      BY <1>1, <3>1, <3>2 DEF ActiveClean
    <3>4. mlpLoopKeyFrameQueue = <<>> => mlpLoopKeyFrameQueue' = <<>>
      BY <3>1, EmptySeq DEF Keep, kept
    <3> QED BY <1>1, <1>3, <2>1, <2>3, <3>1, <3>3, <3>4
  <2>4. CASE ~lcResetRequested /\ ~lcResetActiveMap
    <3>1. UNCHANGED <<mlpLoopKeyFrameQueue, lcResetVars>>
      BY <1>4, <2>4 DEF LcResetIfRequested
    <3> QED BY <1>1, <1>3, <2>1, <2>4, <3>1 DEF ActiveClean
  <2> QED BY <2>2, <2>3, <2>4
<1>5. CASE LcCheckNewKeyFrames
  <2>1. UNCHANGED <<lcFinishVars, lcResetVars>> /\ lcPc = "check"
    BY <1>5 DEF LcCheckNewKeyFrames
  <2>2. CASE mlpLoopKeyFrameQueue # <<>> /\ ActiveLC
    <3>1. mlpLoopKeyFrameQueue' = Tail(mlpLoopKeyFrameQueue)
      BY <1>5, <2>2 DEF LcCheckNewKeyFrames
    <3>2. /\ Tail(mlpLoopKeyFrameQueue) \in Seq(KeyFrames)
          /\ Len(Tail(mlpLoopKeyFrameQueue)) = Len(mlpLoopKeyFrameQueue) - 1
          /\ \A i \in 1 .. Len(Tail(mlpLoopKeyFrameQueue)) :
                Tail(mlpLoopKeyFrameQueue)[i] = mlpLoopKeyFrameQueue[i + 1]
      BY <1>2, <2>2, HeadTailProperties
    <3>3. ActiveClean => ActiveClean'
      <4>. SUFFICES ASSUME ActiveClean, NEW i \in 1 .. Len(Tail(mlpLoopKeyFrameQueue))
                    PROVE  Tail(mlpLoopKeyFrameQueue)[i] \notin activeKeyFrames
        BY <1>1, <3>1, <3>2 DEF ActiveClean
      <4>1. i + 1 \in 1 .. Len(mlpLoopKeyFrameQueue)
        BY <1>2, <3>2, LenProperties
      <4>2. i + 1 \in DOMAIN mlpLoopKeyFrameQueue
        BY <1>2, <4>1, LenProperties
      <4>. QED BY <3>2, <4>2 DEF ActiveClean
    <3> QED BY <1>1, <1>3, <2>1, <2>2, <3>3
  <2>3. CASE ~(mlpLoopKeyFrameQueue # <<>> /\ ActiveLC)
    <3>1. mlpLoopKeyFrameQueue' = mlpLoopKeyFrameQueue /\ lcPc' = "reset"
      BY <1>5, <2>3 DEF LcCheckNewKeyFrames
    <3> QED BY <1>1, <1>3, <2>1, <3>1 DEF ActiveClean
  <2> QED BY <2>2, <2>3
<1>6. CASE LcOwnStep /\ ~LcCheckNewKeyFrames
  <2>1. UNCHANGED <<mlpLoopKeyFrameQueue, lcFinishRequested, lcResetVars>>
    BY <1>6 DEF LcOwnStep, LcRun, LcDetect, LcRequestStop, LcEmptyQueue, LcEmptyPop,
       LcEmptyInsert, LcCheckGBA, LcAbortGBA, LcWaitStopped, LcCorrect, LcLaunchGBA, LcReleaseLock,
       LcReleaseBody, LcCheckFinish, LcSetFinish
  <2>2. lcPc \in {"check", "reset", "checkFinish"} /\ ~lcFinishRequested => lcPc' = "check"
    BY <1>6 DEF LcOwnStep, LcRun, LcDetect, LcRequestStop, LcEmptyQueue, LcEmptyPop,
       LcEmptyInsert, LcCheckGBA, LcAbortGBA, LcWaitStopped, LcCorrect, LcLaunchGBA, LcReleaseLock,
       LcReleaseBody, LcCheckFinish, LcSetFinish
  <2> QED BY <1>1, <1>3, <2>1, <2>2 DEF ActiveClean
<1> QED BY <1>4, <1>5, <1>6 DEF LcStep

LEMMA ResetInvStays ==
  ASSUME OnlyLoops, TypeOK, ResetInv, [Next]_vars  PROVE ResetInv'
<1>0. ASSUME UNCHANGED trkVars
      PROVE  trkPc' = trkPc /\ activeKeyFrames' = activeKeyFrames
  BY <1>0 DEF trkVars, activeKeyFrames
<1>1. CASE UNCHANGED vars
  BY <1>0, <1>1 DEF vars, ResetInv, LmClean, LcClean, ActiveClean, lmVars, queueVars, resetVars,
     lcVars, opVars, detectVars, lcFinishVars, lcResetVars
<1>2. CASE LmStep
  <2>1. UNCHANGED trkVars /\ UNCHANGED <<lcPc, opVars, lcFinishVars, lcResetVars>>
    BY <1>2 DEF LmStep, LmHandOff, lcVars
  <2>2. CASE LmOwnStep /\ UNCHANGED <<lcVars, trkVars>>
    <3>1. UNCHANGED mlpLoopKeyFrameQueue
      BY <2>2 DEF lcVars, detectVars
    <3>2. (LcClean' <=> LcClean) /\ (ActiveClean' <=> ActiveClean)
      BY <1>0, <2>1, <3>1 DEF LcClean, ActiveClean
    <3> QED BY <1>0, <2>1, <2>2, <3>2, LmAnswers DEF ResetInv, opVars, lcFinishVars, lcResetVars
  <2>3. CASE LmHandOff
    <3>1. lmPc = "handOff" /\ UNCHANGED resetVars /\ ~LmClean
      BY <2>3 DEF LmHandOff, HandOff, LmGoto, LmClean
    <3> QED BY <1>0, <2>1, <3>1 DEF ResetInv, resetVars, opVars, lcFinishVars, lcResetVars
  <2> QED BY <1>2, <2>2, <2>3 DEF LmStep
<1>3. CASE LcStep
  BY <1>3, LcTakesOnly, LcAnswers DEF ResetInv
<1>4. CASE WorkerStep
  <2>1. (LcClean' <=> LcClean) /\ (ActiveClean' <=> ActiveClean)
    BY <1>0, <1>4, WorkerTakesOnly DEF LcClean, ActiveClean
  <2> QED BY <1>0, <1>4, <2>1, WorkerTakesOnly DEF ResetInv, lcResetVars, lcFinishVars
<1>5. CASE TrackStep
  <2>1. trkPc' \in {"frame", "setNotStop", "insert", "clearNotStop"} /\ UNCHANGED lcVars
        /\ trkPc \in {"frame", "setNotStop", "insert", "clearNotStop"}
    BY <1>5 DEF TrackStep, StereoInitialization, NeedNewKeyFrame, CreateRefused, CreateAllowed,
       CreateInsert, CreateDone, CreateMapInAtlas, TrkGoto
  <2> QED BY <2>1 DEF ResetInv, lcVars, opVars, lcFinishVars
<1>6. CASE ResetStep
  <2>1. UNCHANGED <<mlNewKeyFrames, lmPc, lcPc, mlpLoopKeyFrameQueue, lcOperation, lcFinishRequested>>
    BY <1>6 DEF ResetStep, ResetBegin, ResetLocalMapperDone, ResetLoopClosingDone, ResetClear,
       ResetActiveBegin, ResetActiveLocalMapperDone, ResetActiveLoopClosingDone, ResetActiveClear,
       lmVars, queueVars, lcVars, opVars, detectVars, lcFinishVars
  <2>2. (LmClean' <=> LmClean) /\ (LcClean' <=> LcClean)
    BY <2>1 DEF LmClean, LcClean
  <2>3. /\ trkPc \in {"frame", "resetLM", "resetLC", "clear", "resetActiveLM", "resetActiveLC", "clearActive"}
        /\ trkPc' = "resetLM" => lmResetRequested'
        /\ trkPc' = "resetActiveLM" => lmResetActiveMap'
        /\ trkPc' = "resetLC" => trkPc = "resetLM" /\ ~lmResetRequested /\ lcResetRequested'
        /\ trkPc' = "clear" => trkPc = "resetLC" /\ ~lcResetRequested
        /\ trkPc' = "resetActiveLC" => trkPc = "resetActiveLM" /\ ~lmResetActiveMap /\ lcResetActiveMap'
        /\ trkPc' = "clearActive" =>
             trkPc = "resetActiveLC" /\ ~lcResetActiveMap /\ UNCHANGED <<created, mapStart>>
    BY <1>6 DEF ResetStep, ResetBegin, ResetLocalMapperDone, ResetLoopClosingDone, ResetClear,
       ResetActiveBegin, ResetActiveLocalMapperDone, ResetActiveLoopClosingDone, ResetActiveClear,
       TrkGoto, RequestReset, RequestResetActiveMap, LcRequestReset, LcRequestResetActiveMap
  <2>4. trkPc' = "clearActive" => (ActiveClean' <=> ActiveClean)
    BY <2>1, <2>3 DEF ActiveClean, activeKeyFrames
  <2>5. ~lcFinishRequested
    BY <2>3 DEF ResetInv
  <2> QED BY <2>1, <2>2, <2>3, <2>4, <2>5 DEF ResetInv
<1>7. CASE ShutdownStep
  <2>1. /\ trkPc' \in {"finishLC", "awaitLM", "awaitLC", "awaitGBA", "off"}
        /\ UNCHANGED lcOperation
        /\ lcFinishRequested' /\ ~lcFinishRequested => trkPc' = "awaitLM"
        /\ lcFinishRequested => trkPc' # "finishLC"
    BY <1>7 DEF ShutdownStep, Shutdown, ShutdownLoopClosing, AwaitLocalMapping, AwaitLoopClosing, AwaitGBA,
       TrkGoto, lcVars, opVars, lcFinishVars, LcRequestFinish, ResetInv
  <2> QED BY <2>1 DEF ResetInv
<1> QED BY <1>1, <1>2, <1>3, <1>4, <1>5, <1>6, <1>7 DEF Next

\* A thread that answered a reset gets no keyframe until the map is cleared.
THEOREM ResetInvariant == ASSUME OnlyLoops PROVE Spec => []ResetInv
<1>1. Init => ResetInv
  BY DEF Init, LcInit, ResetInv
<1>2. TypeOK /\ ResetInv /\ [Next]_vars => ResetInv'
  BY ResetInvStays
<1> QED BY <1>1, <1>2, TypeCorrect, PTL DEF Spec

\* When Tracking clears a map, neither thread holds a keyframe of it.
THEOREM ResetFindsThreadsCleanHolds == ASSUME OnlyLoops PROVE Spec => []ResetFindsThreadsClean
<1>1. ResetInv => ResetFindsThreadsClean
  BY DEF ResetInv, ResetFindsThreadsClean, LmClean, LcClean, ActiveClean
<1> QED BY <1>1, ResetInvariant, PTL
=============================================================================

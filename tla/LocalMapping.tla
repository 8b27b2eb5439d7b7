----------------------------- MODULE LocalMapping -----------------------------
(***************************************************************************)
(* The local mapping thread (LocalMapping.cc): its queue of new keyframes, *)
(* the stop / not-stop / release handshake, the finish and reset requests. *)
(*                                                                         *)
(* The methods other threads call are operators on this module's           *)
(* variables; the loop LocalMapping::Run is one action per section between *)
(* two acquisitions of a mutex.  A method that holds one mutex throughout  *)
(* is one step.  Release and SetFinish nest two mutexes, in opposite       *)
(* orders: each is two steps, and mMutexStop and mMutexFinish record who   *)
(* holds the outer one in between.                                         *)
(***************************************************************************)
EXTENDS Naturals, Sequences

CONSTANTS
  MaxKeyFrames,   \* bound: keyframes Tracking may create in one behaviour
  Workers,        \* bound: bundle adjustment threads alive at the same time
  Inertial        \* mbInertial: the IMU sensors

Null == 0                          \* the null KeyFrame pointer
KeyFrames == 1 .. MaxKeyFrames     \* keyframes, in the order they are created
Nobody == "nobody"                 \* owner of a free mutex
Threads == {"LM", "LC"} \cup Workers

ASSUME MaxKeyFramesAssumption == MaxKeyFrames \in Nat
ASSUME WorkersAssumption == {"LM", "LC", Nobody} \cap Workers = {}
ASSUME InertialAssumption == Inertial \in BOOLEAN

VARIABLES
  lmPc,               \* where LocalMapping::Run is
  mlNewKeyFrames,     \* keyframes waiting for local mapping
  mpCurrentKeyFrame,  \* the keyframe popped last, by any thread
  mbAbortBA,          \* makes a local bundle adjustment give up
  mbStopRequested, mbStopped, mbNotStop,
  mMutexStop,         \* holder of mMutexStop between two steps
  lmFinishRequested, lmFinished,
  mMutexFinish,       \* holder of mMutexFinish between two steps
  lmResetRequested, lmResetActiveMap, mbBadImu,
  mbAcceptKeyFrames,
  mapKeyFrames,       \* keyframes of the atlas
  freedKeyFrames,     \* keyframes passed to operator delete
  undefined           \* some thread executed undefined behaviour

queueVars  == <<mlNewKeyFrames, mpCurrentKeyFrame, mbAbortBA>>
stopVars   == <<mbStopRequested, mbStopped, mbNotStop, mMutexStop>>
finishVars == <<lmFinishRequested, lmFinished, mMutexFinish>>
resetVars  == <<lmResetRequested, lmResetActiveMap, mbBadImu>>
mapVars    == <<mapKeyFrames, freedKeyFrames, undefined>>
lmVars     == <<lmPc, queueVars, stopVars, finishVars, resetVars,
                mbAcceptKeyFrames, mapVars>>

\* Sections of Run that work on the map: nobody else may while LM is there.
Working == {"pop", "insert", "create", "checkQueue", "checkStop", "optimise",
            "imu", "imuPop", "imuInsert", "imuDrop"}
LmPcs == Working \cup {"launch", "busy", "check", "handOff", "tryStop",
                       "stopped", "reset", "accept", "checkFinish",
                       "finish", "finishing", "done"}

LmTypeOK ==
  /\ lmPc \in LmPcs
  /\ mlNewKeyFrames \in Seq(KeyFrames)
  /\ mpCurrentKeyFrame \in KeyFrames \cup {Null}
  /\ mbAbortBA \in BOOLEAN
  /\ mbStopRequested \in BOOLEAN /\ mbStopped \in BOOLEAN /\ mbNotStop \in BOOLEAN
  /\ mMutexStop \in Threads \cup {Nobody}
  /\ lmFinishRequested \in BOOLEAN /\ lmFinished \in BOOLEAN
  /\ mMutexFinish \in Threads \cup {Nobody}
  /\ lmResetRequested \in BOOLEAN /\ lmResetActiveMap \in BOOLEAN /\ mbBadImu \in BOOLEAN
  /\ mbAcceptKeyFrames \in BOOLEAN
  /\ mapKeyFrames \subseteq KeyFrames
  /\ freedKeyFrames \subseteq KeyFrames
  /\ undefined \in BOOLEAN

\* The constructor: mbFinished is TRUE until Run has begun.
LmInit ==
  /\ lmPc = "launch"
  /\ mlNewKeyFrames = <<>> /\ mpCurrentKeyFrame = Null /\ mbAbortBA = FALSE
  /\ mbStopRequested = FALSE /\ mbStopped = FALSE /\ mbNotStop = FALSE
  /\ mMutexStop = Nobody
  /\ lmFinishRequested = FALSE /\ lmFinished = TRUE /\ mMutexFinish = Nobody
  /\ lmResetRequested = FALSE /\ lmResetActiveMap = FALSE /\ mbBadImu = FALSE
  /\ mbAcceptKeyFrames = TRUE
  /\ mapKeyFrames = {} /\ freedKeyFrames = {} /\ undefined = FALSE

-----------------------------------------------------------------------------
(* Methods called by the other threads.                                     *)

\* A mutex that no thread keeps across two steps can be taken.
Free(mutex) == mutex = Nobody

RequestStop ==
  /\ Free(mMutexStop)
  /\ mbStopRequested' = TRUE
  /\ mbAbortBA' = TRUE
  /\ UNCHANGED <<mbStopped, mbNotStop, mMutexStop, mlNewKeyFrames, mpCurrentKeyFrame>>

isStopped     == Free(mMutexStop) /\ mbStopped
isNotStopped  == Free(mMutexStop) /\ ~mbStopped
lmHasFinished == Free(mMutexFinish) /\ lmFinished

\* SetNotStop(true) that succeeds; it fails, and changes nothing, when LM is stopped.
SetNotStop ==
  /\ isNotStopped
  /\ mbNotStop' = TRUE
  /\ UNCHANGED <<mbStopRequested, mbStopped, mMutexStop>>
\* Mutant of ClearNotStop: SetNotStop(false) is forgotten.
KeepNotStop ==
  /\ Free(mMutexStop)
  /\ UNCHANGED <<mbNotStop, mbStopRequested, mbStopped, mMutexStop>>

ClearNotStop ==
  /\ Free(mMutexStop)
  /\ mbNotStop' = FALSE
  /\ UNCHANGED <<mbStopRequested, mbStopped, mMutexStop>>
\* Mutant of InsertKeyFrame: the running bundle adjustment is not interrupted.
InsertWithoutAbort(kf) ==
  /\ mlNewKeyFrames' = Append(mlNewKeyFrames, kf)
  /\ UNCHANGED <<mpCurrentKeyFrame, mbAbortBA>>

InsertKeyFrame(kf) ==
  /\ mlNewKeyFrames' = Append(mlNewKeyFrames, kf)
  /\ mbAbortBA' = TRUE
  /\ UNCHANGED mpCurrentKeyFrame

\* ProcessNewKeyFrame, first half: front() and pop_front() under mMutexNewKFs.
\* On an empty list both are undefined; the state is then of no further interest.
PopKeyFrame ==
  \/ /\ mlNewKeyFrames # <<>>
     /\ mpCurrentKeyFrame' = Head(mlNewKeyFrames)
     /\ mlNewKeyFrames' = Tail(mlNewKeyFrames)
     /\ UNCHANGED <<mbAbortBA, mapVars>>
  \/ /\ mlNewKeyFrames = <<>>
     /\ undefined' = TRUE
     /\ UNCHANGED <<queueVars, mapKeyFrames, freedKeyFrames>>

\* ProcessNewKeyFrame, second half: the popped keyframe joins the atlas.
AddKeyFrame ==
  /\ mapKeyFrames' = mapKeyFrames \cup ({mpCurrentKeyFrame} \ {Null})
  /\ UNCHANGED <<freedKeyFrames, undefined>>

\* Release takes mMutexStop and then, inside it, mMutexFinish.
ReleaseLock(t) ==
  /\ Free(mMutexStop)
  /\ mMutexStop' = t
  /\ UNCHANGED <<mbStopRequested, mbStopped, mbNotStop>>

\* The rest of Release: nothing once LM has finished, otherwise both flags are
\* cleared and every keyframe still in the queue is deleted.
ReleaseBody(t) ==
  /\ mMutexStop = t
  /\ Free(mMutexFinish)
  /\ mMutexStop' = Nobody
  /\ IF lmFinished
       THEN UNCHANGED <<mbStopRequested, mbStopped, queueVars, mapVars>>
       ELSE /\ mbStopRequested' = FALSE
            /\ mbStopped' = FALSE
            /\ mlNewKeyFrames' = <<>>
            /\ freedKeyFrames' = freedKeyFrames \cup
                                   {mlNewKeyFrames[i] : i \in DOMAIN mlNewKeyFrames}
            /\ UNCHANGED <<mpCurrentKeyFrame, mbAbortBA, mapKeyFrames, undefined>>
  /\ UNCHANGED mbNotStop

RequestReset ==
  /\ lmResetRequested' = TRUE
  /\ UNCHANGED <<lmResetActiveMap, mbBadImu>>

RequestResetActiveMap ==
  /\ lmResetActiveMap' = TRUE
  /\ UNCHANGED <<lmResetRequested, mbBadImu>>

RequestFinish ==
  /\ Free(mMutexFinish)
  /\ lmFinishRequested' = TRUE
  /\ UNCHANGED <<lmFinished, mMutexFinish>>

-----------------------------------------------------------------------------
(* LocalMapping::Run.                                                       *)

LmGoto(from, to) == lmPc = from /\ lmPc' = to

LmRun ==
  /\ LmGoto("launch", "busy")
  /\ lmFinished' = FALSE
  /\ UNCHANGED <<queueVars, stopVars, lmFinishRequested, mMutexFinish, resetVars,
                 mbAcceptKeyFrames, mapVars>>

SetBusy ==
  /\ LmGoto("busy", "check")
  /\ mbAcceptKeyFrames' = FALSE
  /\ UNCHANGED <<queueVars, stopVars, finishVars, resetVars, mapVars>>

CheckNewKeyFrames ==
  /\ LmGoto("check", IF mlNewKeyFrames # <<>> /\ ~mbBadImu THEN "pop" ELSE "tryStop")
  /\ UNCHANGED <<queueVars, stopVars, finishVars, resetVars, mbAcceptKeyFrames, mapVars>>

LmPop ==
  /\ LmGoto("pop", "insert")
  /\ PopKeyFrame
  /\ UNCHANGED <<stopVars, finishVars, resetVars, mbAcceptKeyFrames>>

LmInsert ==
  /\ LmGoto("insert", "create")
  /\ AddKeyFrame
  /\ UNCHANGED <<queueVars, stopVars, finishVars, resetVars, mbAcceptKeyFrames>>

\* MapPointCulling, CreateNewMapPoints, then mbAbortBA = false.
CreateMapPoints ==
  /\ LmGoto("create", "checkQueue")
  /\ mbAbortBA' = FALSE
  /\ UNCHANGED <<mlNewKeyFrames, mpCurrentKeyFrame, stopVars, finishVars, resetVars,
                 mbAcceptKeyFrames, mapVars>>

CheckQueueBeforeBA ==
  /\ LmGoto("checkQueue", IF mlNewKeyFrames = <<>> THEN "checkStop" ELSE "handOff")
  /\ UNCHANGED <<queueVars, stopVars, finishVars, resetVars, mbAcceptKeyFrames, mapVars>>

CheckStopBeforeBA ==
  /\ LmGoto("checkStop", IF mbStopRequested THEN "handOff" ELSE "optimise")
  /\ Free(mMutexStop)
  /\ UNCHANGED <<queueVars, stopVars, finishVars, resetVars, mbAcceptKeyFrames, mapVars>>

\* "Not enough motion for initializing": LM requests a reset from itself.
NotEnoughMotion ==
  /\ Inertial
  /\ lmPc = "optimise" /\ ~mbBadImu
  /\ lmResetActiveMap' = TRUE
  /\ mbBadImu' = TRUE
  /\ UNCHANGED <<lmPc, queueVars, stopVars, finishVars, lmResetRequested,
                 mbAcceptKeyFrames, mapVars>>

\* Local bundle adjustment, and InitializeIMU if its time has come; keyframe
\* culling belongs to the step that leads to the hand-over.
LocalBundleAdjustment ==
  /\ \/ LmGoto("optimise", "handOff")
     \/ Inertial /\ LmGoto("optimise", "imu")
  /\ UNCHANGED <<queueVars, stopVars, finishVars, resetVars, mbAcceptKeyFrames, mapVars>>

\* InitializeIMU: while(CheckNewKeyFrames()) ProcessNewKeyFrame().  It does so
\* twice, before and after its optimisation, and gives up between the two when
\* the scale is too small.
ImuCheckNewKeyFrames ==
  /\ \/ mlNewKeyFrames # <<>> /\ LmGoto("imu", "imuPop")
     \/ mlNewKeyFrames = <<>> /\ LmGoto("imu", "imuDrop")
     \/ mlNewKeyFrames = <<>> /\ LmGoto("imu", "handOff")
  /\ UNCHANGED <<queueVars, stopVars, finishVars, resetVars, mbAcceptKeyFrames, mapVars>>

ImuPop ==
  /\ LmGoto("imuPop", "imuInsert")
  /\ PopKeyFrame
  /\ UNCHANGED <<stopVars, finishVars, resetVars, mbAcceptKeyFrames>>

ImuInsert ==
  /\ LmGoto("imuInsert", "imu")
  /\ AddKeyFrame
  /\ UNCHANGED <<queueVars, stopVars, finishVars, resetVars, mbAcceptKeyFrames>>

\* The end of InitializeIMU deletes what has come into the queue since.
ImuDrop ==
  /\ LmGoto("imuDrop", "handOff")
  /\ mlNewKeyFrames' = <<>>
  /\ freedKeyFrames' = freedKeyFrames \cup
                         {mlNewKeyFrames[i] : i \in DOMAIN mlNewKeyFrames}
  /\ UNCHANGED <<mpCurrentKeyFrame, mbAbortBA, stopVars, finishVars, resetVars,
                 mbAcceptKeyFrames, mapKeyFrames, undefined>>

InitializeIMU == ImuCheckNewKeyFrames \/ ImuPop \/ ImuInsert \/ ImuDrop

\* mpLoopCloser->InsertKeyFrame(mpCurrentKeyFrame): its effect on the loop
\* closing queue is conjoined where the threads are composed.
HandOff ==
  /\ LmGoto("handOff", "reset")
  /\ UNCHANGED <<queueVars, stopVars, finishVars, resetVars, mbAcceptKeyFrames, mapVars>>
\* Mutant of Stop: mbNotStop is not looked at.
StopDespiteNotStop ==
  /\ Free(mMutexStop)
  /\ LmGoto("tryStop", IF mbStopRequested /\ ~mbBadImu THEN "stopped" ELSE "reset")
  /\ mbStopped' = (mbStopped \/ mbStopRequested)
  /\ UNCHANGED <<queueVars, mbStopRequested, mbNotStop, mMutexStop, finishVars, resetVars,
                 mbAcceptKeyFrames, mapVars>>

\* Mutant of Stop: Run does not wait for the Release.
StopWithoutWaiting ==
  /\ Free(mMutexStop)
  /\ LmGoto("tryStop", "reset")
  /\ mbStopped' = (mbStopped \/ (mbStopRequested /\ ~mbNotStop))
  /\ UNCHANGED <<queueVars, mbStopRequested, mbNotStop, mMutexStop, finishVars, resetVars,
                 mbAcceptKeyFrames, mapVars>>

Stop ==
  /\ Free(mMutexStop)
  /\ LET stops == mbStopRequested /\ ~mbNotStop IN
       /\ LmGoto("tryStop", IF stops /\ ~mbBadImu THEN "stopped" ELSE "reset")
       /\ mbStopped' = (mbStopped \/ stops)
  /\ UNCHANGED <<queueVars, mbStopRequested, mbNotStop, mMutexStop, finishVars, resetVars,
                 mbAcceptKeyFrames, mapVars>>
\* Mutant of LeaveStopped: a finish request is all that is waited for.
LeaveStoppedEarly ==
  /\ Free(mMutexStop) /\ Free(mMutexFinish)
  /\ LmGoto("stopped", IF lmFinishRequested THEN "finish" ELSE "reset")
  /\ UNCHANGED <<queueVars, stopVars, finishVars, resetVars, mbAcceptKeyFrames, mapVars>>

\* while(isStopped() && !CheckFinish()) is over.
LeaveStopped ==
  /\ Free(mMutexStop) /\ Free(mMutexFinish)
  /\ ~mbStopped \/ lmFinishRequested
  /\ LmGoto("stopped", IF lmFinishRequested THEN "finish" ELSE "reset")
  /\ UNCHANGED <<queueVars, stopVars, finishVars, resetVars, mbAcceptKeyFrames, mapVars>>
\* Mutant of ResetIfRequested: the queue survives the reset.
ResetKeepsQueue ==
  /\ LmGoto("reset", "accept")
  /\ lmResetRequested' = FALSE /\ lmResetActiveMap' = FALSE /\ mbBadImu' = FALSE
  /\ UNCHANGED <<queueVars, stopVars, finishVars, mbAcceptKeyFrames, mapVars>>

\* Mutant of ResetIfRequested: a reset of the active map is never answered.
ResetForgetsActiveMap ==
  /\ LmGoto("reset", "accept")
  /\ mlNewKeyFrames' = IF lmResetRequested THEN <<>> ELSE mlNewKeyFrames
  /\ lmResetRequested' = FALSE
  /\ UNCHANGED <<mpCurrentKeyFrame, mbAbortBA, stopVars, finishVars, lmResetActiveMap, mbBadImu,
                 mbAcceptKeyFrames, mapVars>>

ResetIfRequested ==
  /\ LmGoto("reset", "accept")
  /\ IF lmResetRequested \/ lmResetActiveMap
       THEN /\ mlNewKeyFrames' = <<>>
            /\ lmResetRequested' = FALSE /\ lmResetActiveMap' = FALSE /\ mbBadImu' = FALSE
       ELSE UNCHANGED <<mlNewKeyFrames, resetVars>>
  /\ UNCHANGED <<mpCurrentKeyFrame, mbAbortBA, stopVars, finishVars, mbAcceptKeyFrames, mapVars>>

AcceptKeyFrames ==
  /\ LmGoto("accept", "checkFinish")
  /\ mbAcceptKeyFrames' = TRUE
  /\ UNCHANGED <<queueVars, stopVars, finishVars, resetVars, mapVars>>

CheckFinish ==
  /\ Free(mMutexFinish)
  /\ LmGoto("checkFinish", IF lmFinishRequested THEN "finish" ELSE "busy")
  /\ UNCHANGED <<queueVars, stopVars, finishVars, resetVars, mbAcceptKeyFrames, mapVars>>

\* SetFinish takes mMutexFinish and then, inside it, mMutexStop.
SetFinishLock ==
  /\ LmGoto("finish", "finishing")
  /\ Free(mMutexFinish)
  /\ lmFinished' = TRUE
  /\ mMutexFinish' = "LM"
  /\ UNCHANGED <<queueVars, stopVars, lmFinishRequested, resetVars, mbAcceptKeyFrames, mapVars>>

SetFinishBody ==
  /\ LmGoto("finishing", "done")
  /\ Free(mMutexStop)
  /\ mbStopped' = TRUE
  /\ mMutexFinish' = Nobody
  /\ UNCHANGED <<queueVars, mbStopRequested, mbNotStop, mMutexStop, lmFinishRequested,
                 lmFinished, resetVars, mbAcceptKeyFrames, mapVars>>

\* The steps of Run that leave the loop closing queue alone.
LmOwnStep ==
  \/ LmRun \/ SetBusy \/ CheckNewKeyFrames \/ LmPop \/ LmInsert \/ CreateMapPoints
  \/ CheckQueueBeforeBA \/ CheckStopBeforeBA \/ NotEnoughMotion \/ LocalBundleAdjustment
  \/ InitializeIMU \/ Stop \/ LeaveStopped \/ ResetIfRequested \/ AcceptKeyFrames \/ CheckFinish
  \/ SetFinishLock \/ SetFinishBody
=============================================================================

------------------------------ MODULE SlamThreads ------------------------------
(***************************************************************************)
(* The threads of a SLAM system together: tracking (the thread that calls  *)
(* System::TrackRGBD, and at the end System::Shutdown), local mapping,     *)
(* loop closing and global bundle adjustment.                              *)
(*                                                                         *)
(* A frame is abstracted to what it does to the other threads: nothing,    *)
(* start a map, insert a keyframe, give the map up for a new one, reset    *)
(* the active map or everything.                                           *)
(***************************************************************************)
EXTENDS LoopClosing

CONSTANTS
  MaxResets,   \* bound: resets in one behaviour
  MaxMaps      \* bound: maps created after the first one

ASSUME MaxResetsAssumption == MaxResets \in Nat
ASSUME MaxMapsAssumption == MaxMaps \in Nat

VARIABLES
  trkPc,          \* where the tracking thread is
  mpLastKeyFrame, \* Tracking's pointer to the newest keyframe
  mapReady,       \* the active map is initialised (mState left NO_IMAGES_YET)
  created,        \* keyframes created so far
  mapStart,       \* keyframes above it belong to the active map
  originKF,       \* the keyframe with mnId 0
  resets, maps    \* resets made and maps created (for the bounds)

trkVars == <<trkPc, mpLastKeyFrame, mapReady, created, mapStart, originKF, resets, maps>>
vars    == <<lmVars, lcVars, trkVars>>

TrkPcs == {"frame", "setNotStop", "insert", "clearNotStop",
           "resetLM", "resetLC", "clear", "resetActiveLM", "resetActiveLC", "clearActive",
           "finishLC", "awaitLM", "awaitLC", "awaitGBA", "off"}

\* Tracking is inside CreateNewKeyFrame, protected by SetNotStop(true).
Inserting == trkPc \in {"insert", "clearNotStop"}

activeKeyFrames == {kf \in KeyFrames : kf > mapStart}

TrkTypeOK ==
  /\ trkPc \in TrkPcs
  /\ mpLastKeyFrame \in KeyFrames \cup {Null}
  /\ mapReady \in BOOLEAN
  /\ created \in 0 .. MaxKeyFrames
  /\ mapStart \in 0 .. MaxKeyFrames
  /\ originKF \in KeyFrames \cup {Null}
  /\ resets \in Nat /\ maps \in Nat

\* Every variable holds a value of the kind the code keeps there.
TypeOK == LmTypeOK /\ LcTypeOK /\ TrkTypeOK

Init ==
  /\ LmInit /\ LcInit
  /\ trkPc = "frame" /\ mpLastKeyFrame = Null /\ mapReady = FALSE
  /\ created = 0 /\ mapStart = 0 /\ originKF = Null
  /\ resets = 0 /\ maps = 0

-----------------------------------------------------------------------------
(* Tracking.                                                                *)

TrkGoto(from, to) == trkPc = from /\ trkPc' = to

\* new KeyFrame(...): after a full reset the first one gets mnId 0.
NewKeyFrame(kf) ==
  /\ created < MaxKeyFrames
  /\ kf = created + 1
  /\ created' = kf
  /\ originKF' = IF originKF = Null THEN kf ELSE originKF

\* StereoInitialization: the first keyframe of a map joins the atlas and the
\* queue of local mapping without asking whether local mapping is stopped.
StereoInitialization ==
  /\ trkPc = "frame" /\ ~mapReady
  /\ mapReady' = TRUE
  /\ \E kf \in KeyFrames :
       /\ NewKeyFrame(kf)
       /\ mapKeyFrames' = mapKeyFrames \cup {kf}
       /\ InsertKeyFrame(kf)
       /\ mpLastKeyFrame' = kf
  /\ UNCHANGED <<lmPc, stopVars, finishVars, resetVars, mbAcceptKeyFrames, freedKeyFrames,
                 undefined, lcVars, trkPc, mapStart, resets, maps>>

\* NeedNewKeyFrame answers yes.  While the IMU is not initialised only time
\* counts; otherwise local mapping must be neither stopped nor asked to stop,
\* and must accept keyframes or have fewer than three queued.
NeedNewKeyFrame ==
  /\ trkPc = "frame" /\ mapReady
  /\ created < MaxKeyFrames
  /\ \/ Inertial
     \/ /\ isNotStopped /\ ~mbStopRequested
        /\ mbAcceptKeyFrames \/ Len(mlNewKeyFrames) < 3
  /\ trkPc' = "setNotStop"
  /\ UNCHANGED <<lmVars, lcVars, mpLastKeyFrame, mapReady, created, mapStart, originKF, resets, maps>>

\* CreateNewKeyFrame returns when local mapping has stopped in the meantime.
CreateRefused ==
  /\ isStopped
  /\ TrkGoto("setNotStop", "frame")
  /\ UNCHANGED <<lmVars, lcVars, mpLastKeyFrame, mapReady, created, mapStart, originKF, resets, maps>>

CreateAllowed ==
  /\ TrkGoto("setNotStop", "insert")
  /\ SetNotStop
  /\ UNCHANGED <<lmPc, queueVars, finishVars, resetVars, mbAcceptKeyFrames, mapVars, lcVars,
                 mpLastKeyFrame, mapReady, created, mapStart, originKF, resets, maps>>

CreateInsert ==
  /\ TrkGoto("insert", "clearNotStop")
  /\ \E kf \in KeyFrames : NewKeyFrame(kf) /\ InsertKeyFrame(kf)
  /\ UNCHANGED <<lmPc, stopVars, finishVars, resetVars, mbAcceptKeyFrames, mapVars, lcVars,
                 mpLastKeyFrame, mapReady, mapStart, resets, maps>>
\* Mutant of CreateDone: the identifier is taken after its increment.
CreateDoneOffByOne ==
  /\ TrkGoto("clearNotStop", "frame")
  /\ ClearNotStop
  /\ mpLastKeyFrame' = created + 1
  /\ UNCHANGED <<lmPc, queueVars, finishVars, resetVars, mbAcceptKeyFrames, mapVars, lcVars,
                 mapReady, created, mapStart, originKF, resets, maps>>

CreateDone ==
  /\ TrkGoto("clearNotStop", "frame")
  /\ ClearNotStop
  /\ mpLastKeyFrame' = created
  /\ UNCHANGED <<lmPc, queueVars, finishVars, resetVars, mbAcceptKeyFrames, mapVars, lcVars,
                 mapReady, created, mapStart, originKF, resets, maps>>

\* Tracking is lost for good: it starts another map and keeps the old one.
CreateMapInAtlas ==
  /\ trkPc = "frame" /\ mapReady
  /\ maps < MaxMaps
  /\ maps' = maps + 1
  /\ mapReady' = FALSE
  /\ mapStart' = created
  /\ mpLastKeyFrame' = Null
  /\ UNCHANGED <<lmVars, lcVars, trkPc, created, originKF, resets>>

-----------------------------------------------------------------------------
(* Tracking::Reset and Tracking::ResetActiveMap: each asks local mapping,   *)
(* then loop closing, and waits for the answer before it clears the map.    *)

ResetBegin ==
  /\ TrkGoto("frame", "resetLM")
  /\ resets < MaxResets
  /\ resets' = resets + 1
  /\ RequestReset
  /\ UNCHANGED <<lmPc, queueVars, stopVars, finishVars, mbAcceptKeyFrames, mapVars, lcVars,
                 mpLastKeyFrame, mapReady, created, mapStart, originKF, maps>>

ResetLocalMapperDone ==
  /\ ~lmResetRequested
  /\ TrkGoto("resetLM", "resetLC")
  /\ LcRequestReset
  /\ UNCHANGED <<lmVars, lcPc, opVars, detectVars, lcFinishVars, gbaVars,
                 mpLastKeyFrame, mapReady, created, mapStart, originKF, resets, maps>>

ResetLoopClosingDone ==
  /\ ~lcResetRequested
  /\ TrkGoto("resetLC", "clear")
  /\ UNCHANGED <<lmVars, lcVars, mpLastKeyFrame, mapReady, created, mapStart, originKF, resets, maps>>

\* Database and atlas are cleared, the identifiers start again from 0.
ResetClear ==
  /\ TrkGoto("clear", "frame")
  /\ keyFrameDB' = {}
  /\ mapKeyFrames' = {}
  /\ mpLastKeyFrame' = Null
  /\ mapReady' = FALSE
  /\ mapStart' = created
  /\ originKF' = Null
  /\ UNCHANGED <<lmPc, queueVars, stopVars, finishVars, resetVars, mbAcceptKeyFrames,
                 freedKeyFrames, undefined, lcPc, opVars, mlpLoopKeyFrameQueue, mpCurrentKF,
                 lcFinishVars, lcResetVars, gbaVars, created, resets, maps>>

ResetActiveBegin ==
  /\ TrkGoto("frame", "resetActiveLM")
  /\ resets < MaxResets
  /\ resets' = resets + 1
  /\ RequestResetActiveMap
  /\ UNCHANGED <<lmPc, queueVars, stopVars, finishVars, mbAcceptKeyFrames, mapVars, lcVars,
                 mpLastKeyFrame, mapReady, created, mapStart, originKF, maps>>

ResetActiveLocalMapperDone ==
  /\ ~lmResetActiveMap
  /\ TrkGoto("resetActiveLM", "resetActiveLC")
  /\ LcRequestResetActiveMap
  /\ UNCHANGED <<lmVars, lcPc, opVars, detectVars, lcFinishVars, gbaVars,
                 mpLastKeyFrame, mapReady, created, mapStart, originKF, resets, maps>>

ResetActiveLoopClosingDone ==
  /\ ~lcResetActiveMap
  /\ TrkGoto("resetActiveLC", "clearActive")
  /\ UNCHANGED <<lmVars, lcVars, mpLastKeyFrame, mapReady, created, mapStart, originKF, resets, maps>>

ResetActiveClear ==
  /\ TrkGoto("clearActive", "frame")
  /\ keyFrameDB' = keyFrameDB \ activeKeyFrames
  /\ mapKeyFrames' = mapKeyFrames \ activeKeyFrames
  /\ mpLastKeyFrame' = Null
  /\ mapReady' = FALSE
  /\ mapStart' = created
  /\ UNCHANGED <<lmPc, queueVars, stopVars, finishVars, resetVars, mbAcceptKeyFrames,
                 freedKeyFrames, undefined, lcPc, opVars, mlpLoopKeyFrameQueue, mpCurrentKF,
                 lcFinishVars, lcResetVars, gbaVars, created, originKF, resets, maps>>

-----------------------------------------------------------------------------
(* System::Shutdown, called between two frames.                             *)

Shutdown ==
  /\ TrkGoto("frame", "finishLC")
  /\ RequestFinish
  /\ UNCHANGED <<lmPc, queueVars, stopVars, resetVars, mbAcceptKeyFrames, mapVars, lcVars,
                 mpLastKeyFrame, mapReady, created, mapStart, originKF, resets, maps>>

ShutdownLoopClosing ==
  /\ TrkGoto("finishLC", "awaitLM")
  /\ LcRequestFinish
  /\ UNCHANGED <<lmVars, lcPc, opVars, detectVars, lcResetVars, gbaVars,
                 mpLastKeyFrame, mapReady, created, mapStart, originKF, resets, maps>>

\* while(!LM->isFinished() || !LC->isFinished() || LC->isRunningGBA())
AwaitLocalMapping ==
  /\ lmHasFinished
  /\ TrkGoto("awaitLM", "awaitLC")
  /\ UNCHANGED <<lmVars, lcVars, mpLastKeyFrame, mapReady, created, mapStart, originKF, resets, maps>>

AwaitLoopClosing ==
  /\ TrkGoto("awaitLC", IF lcFinished THEN "awaitGBA" ELSE "awaitLM")
  /\ UNCHANGED <<lmVars, lcVars, mpLastKeyFrame, mapReady, created, mapStart, originKF, resets, maps>>

AwaitGBA ==
  /\ Free(mMutexGBA)
  /\ TrkGoto("awaitGBA", IF mbRunningGBA THEN "awaitLM" ELSE "off")
  /\ UNCHANGED <<lmVars, lcVars, mpLastKeyFrame, mapReady, created, mapStart, originKF, resets, maps>>

-----------------------------------------------------------------------------
(* The composition.                                                         *)

LmHandOff ==
  /\ HandOff
  /\ LcInsertKeyFrame(mpCurrentKeyFrame, originKF)
  /\ UNCHANGED <<lcPc, opVars, lcFinishVars, lcResetVars, gbaVars, trkVars>>

LmStep == (LmOwnStep /\ UNCHANGED <<lcVars, trkVars>>) \/ LmHandOff

\* A merge leaves one map: the active one then holds every keyframe.
LcMerged ==
  IF lcPc = "correct" /\ lcOperation \in {"mergeMove", "merge2"} THEN 0 ELSE mapStart

LcStep ==
  /\ LcOwnStep \/ LcResetIfRequested(activeKeyFrames)
  /\ mapStart' = LcMerged
  /\ UNCHANGED <<trkPc, mpLastKeyFrame, mapReady, created, originKF, resets, maps>>

WorkerStep == \E w \in Workers : GbaStep(w) /\ UNCHANGED trkVars

TrackStep ==
  \/ StereoInitialization \/ NeedNewKeyFrame
  \/ CreateRefused \/ CreateAllowed \/ CreateInsert \/ CreateDone
  \/ CreateMapInAtlas

ResetStep ==
  \/ ResetBegin \/ ResetLocalMapperDone \/ ResetLoopClosingDone \/ ResetClear
  \/ ResetActiveBegin \/ ResetActiveLocalMapperDone \/ ResetActiveLoopClosingDone
  \/ ResetActiveClear

ShutdownStep ==
  \/ Shutdown \/ ShutdownLoopClosing \/ AwaitLocalMapping \/ AwaitLoopClosing \/ AwaitGBA

\* Nothing is said of a program that has executed undefined behaviour.
Next == ~undefined /\ (LmStep \/ LcStep \/ WorkerStep \/ TrackStep \/ ResetStep \/ ShutdownStep)

Spec == Init /\ [][Next]_vars

\* The operating system runs every thread that can take a step.  Tracking is
\* fair only inside a call: which frames arrive is up to the camera.
TrackingCall == trkPc # "frame" /\ (TrackStep \/ ResetStep \/ ShutdownStep)
Fairness ==
  /\ WF_vars(~undefined /\ LmStep)
  /\ WF_vars(~undefined /\ LcStep)
  /\ \A w \in Workers : WF_vars(~undefined /\ GbaStep(w) /\ UNCHANGED trkVars)
  /\ WF_vars(~undefined /\ TrackingCall)
FairSpec == Spec /\ Fairness

-----------------------------------------------------------------------------
(* Safety.                                                                  *)

\* Local mapping never works on the map while it reports that it is stopped:
\* whoever sees isStopped() right after Stop() may rely on it (LocalMapping.cc
\* Run, Stop, Release).
StoppedMeansIdle == lmPc \in Working => ~mbStopped

\* CreateNewKeyFrame inserts its keyframe only while local mapping is not
\* stopped: SetNotStop(true) fails once it is, and Stop() fails afterwards.
NotStopHonoured == Inserting => mbNotStop /\ ~mbStopped

\* A local bundle adjustment never runs on, unaware, past a new keyframe or a
\* stop request: whichever arrives after the checks finds mbAbortBA cleared
\* already and raises it again.
PendingWorkAbortsBA ==
  lmPc = "optimise" /\ (mbStopRequested \/ mlNewKeyFrames # <<>>) => mbAbortBA

\* While loop closing rewrites the map, local mapping does not work on it and
\* Tracking is not in the middle of inserting a keyframe.
CorrectionExclusive ==
  lcPc = "correct" => lmPc \notin Working /\ ~Inserting

\* When Tracking clears a map, after local mapping and loop closing answered its
\* requests one after the other, neither holds a keyframe of that map any more,
\* in a queue or in hand.  (A merge may begin in between and move keyframes of
\* another map into the active one, so this is a property of runs without one.)
ResetFindsThreadsClean ==
  /\ trkPc \in {"clear", "clearActive"} =>
       /\ mlNewKeyFrames = <<>>
       /\ lmPc \notin Working \cup {"handOff"}
       /\ \A i \in DOMAIN mlpLoopKeyFrameQueue : mlpLoopKeyFrameQueue[i] \notin activeKeyFrames
  /\ trkPc = "clear" =>
       /\ mlpLoopKeyFrameQueue = <<>>
       /\ lcPc \in {"check", "reset", "checkFinish"}

-----------------------------------------------------------------------------
(* What comments of the code promise and the code does not always keep.     *)

\* A GBA thread publishes its result only while local mapping stands still:
\* "Wait until Local Mapping has effectively stopped" (LoopClosing.cc).
GbaUpdateExclusive == \A w \in Workers : gbaPc[w] = "update" => lmPc \notin Working

\* A GBA that loop closing aborted does not publish its result: "If a Global
\* Bundle Adjustment is running, abort it" (LoopClosing.cc).
AbortedGBADiscarded == \A w \in Workers : gbaPc[w] = "update" => w \notin abortedGBA

\* A keyframe is popped only from a queue that was seen not to be empty.
PopFindsKeyFrame == ~undefined

\* The keyframe Tracking refers to as its newest one has not been deleted.
LastKeyFrameAlive == mpLastKeyFrame \notin freedKeyFrames

-----------------------------------------------------------------------------
(* Liveness.                                                                *)

\* A loop closure or merge that waits for local mapping to stop gets its turn.
LoopClosingGetsMap == lcPc = "waitStopped" ~> (lcPc # "waitStopped" \/ undefined)

\* A reset that Tracking asks for is answered by both threads.
ResetAnswered ==
  trkPc \in {"resetLM", "resetLC", "resetActiveLM", "resetActiveLC"}
    ~> (trkPc = "frame" \/ undefined)

\* System::Shutdown returns.
ShutdownReturns == trkPc = "finishLC" ~> (trkPc = "off" \/ undefined)
-----------------------------------------------------------------------------
(* Refinement: the handshake implements the lease of the map.               *)

\* Loop closing owns the map from the end of its wait to its Release; the queue
\* that a merge empties in between belongs to that time, the queue that
\* CorrectLoop empties before its wait does not.
Borrowing ==
  \/ lcPc \in {"correct", "release", "releasing"}
  \/ lcPc = "launchGBA" /\ lcOperation = "loop"
  \/ lcPc \in {"emptyQueue", "emptyPop", "emptyInsert"} /\ lcOperation # "loop"

Lease == INSTANCE MapLease WITH
  mapping <- lmPc \in Working,
  lease   <- IF lcPc = "waitStopped" THEN "asked" ELSE IF Borrowing THEN "granted" ELSE "none"

\* With no global bundle adjustment around, the flags of the handshake give loop
\* closing the map exactly as the lease does.
HandshakeIsLease == Lease!LeaseSpec

=============================================================================

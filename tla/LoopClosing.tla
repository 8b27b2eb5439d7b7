------------------------------ MODULE LoopClosing ------------------------------
(***************************************************************************)
(* The loop closing thread (LoopClosing.cc) and the threads it creates for *)
(* global bundle adjustment (GBA).  Closing a loop or merging two maps     *)
(* rewrites keyframes and map points that local mapping also writes, so    *)
(* LoopClosing stops local mapping first and releases it afterwards; a GBA *)
(* thread does the same when it publishes its result.                      *)
(*                                                                         *)
(* Place recognition itself is abstracted to its outcome: any operation of *)
(* Operations may be decided for any keyframe.                             *)
(***************************************************************************)
EXTENDS LocalMapping, FiniteSets, Selection

CONSTANTS
  Operations,     \* what detection may decide: "loop", "merge", "merge2"
  LaunchGBA,      \* values the test before launching a GBA may have
  ActiveLC,       \* mbActiveLC: place recognition is enabled
  MaxOperations   \* bound: loop closures and merges in one behaviour

ASSUME OperationsAssumption == Operations \subseteq {"loop", "merge", "merge2"}
ASSUME LaunchGBAAssumption == LaunchGBA \subseteq BOOLEAN /\ LaunchGBA # {}
ASSUME ActiveLCAssumption == ActiveLC \in BOOLEAN
ASSUME MaxOperationsAssumption == MaxOperations \in Nat

VARIABLES
  lcPc,                  \* where LoopClosing::Run, or the operation it calls, is
  lcOperation,           \* the operation being carried out
  mlpLoopKeyFrameQueue,  \* keyframes handed over by local mapping
  mpCurrentKF,           \* the keyframe under detection
  keyFrameDB,            \* keyframes indexed for place recognition
  bRelaunchBA,           \* a merge stopped a GBA and has to start it again
  operations,            \* operations decided so far
  lcFinishRequested, lcFinished,
  lcResetRequested, lcResetActiveMap,
  mbRunningGBA, mbStopGBA, mnFullBAIdx,
  mpThreadGBA,           \* "null", "live", or "deleted" without being nulled
  mMutexGBA,             \* holder of mMutexGBA between two steps
  abortedGBA,            \* history: the threads an abort was meant for
  gbaPc,                 \* where each bundle adjustment thread is
  gbaIdx                 \* its copy of mnFullBAIdx

detectVars   == <<mlpLoopKeyFrameQueue, mpCurrentKF, keyFrameDB>>
lcFinishVars == <<lcFinishRequested, lcFinished>>
lcResetVars  == <<lcResetRequested, lcResetActiveMap>>
gbaFlagVars  == <<mbRunningGBA, mbStopGBA, mnFullBAIdx, mpThreadGBA, mMutexGBA, abortedGBA>>
gbaVars      == <<gbaFlagVars, gbaPc, gbaIdx>>
opVars       == <<lcOperation, bRelaunchBA, operations>>
lcVars       == <<lcPc, opVars, detectVars, lcFinishVars, lcResetVars, gbaVars>>

\* "mergeMove" is the second half of MergeLocal, after its first Release.
Running == Operations \cup {"mergeMove"}

LcPcs == {"launch", "check", "detect", "requestStop", "emptyQueue", "emptyPop",
          "emptyInsert", "checkGBA", "abortGBA", "waitStopped", "correct",
          "launchGBA", "release", "releasing", "reset", "checkFinish", "finish", "done"}
GbaPcs == {"idle", "optimise", "lock", "requestStop", "waitStopped", "update",
           "release", "releasing", "publish"}

LcTypeOK ==
  /\ lcPc \in LcPcs
  /\ lcOperation \in Running \cup {"none"}
  /\ mlpLoopKeyFrameQueue \in Seq(KeyFrames)
  /\ mpCurrentKF \in KeyFrames \cup {Null}
  /\ keyFrameDB \subseteq KeyFrames
  /\ bRelaunchBA \in BOOLEAN
  /\ operations \in Nat
  /\ lcFinishRequested \in BOOLEAN /\ lcFinished \in BOOLEAN
  /\ lcResetRequested \in BOOLEAN /\ lcResetActiveMap \in BOOLEAN
  /\ mbRunningGBA \in BOOLEAN /\ mbStopGBA \in BOOLEAN /\ mnFullBAIdx \in Nat
  /\ mpThreadGBA \in {"null", "live", "deleted"}
  /\ mMutexGBA \in Workers \cup {Nobody}
  /\ abortedGBA \subseteq Workers
  /\ gbaPc \in [Workers -> GbaPcs]
  /\ gbaIdx \in [Workers -> Nat]

LcInit ==
  /\ lcPc = "launch" /\ lcOperation = "none"
  /\ mlpLoopKeyFrameQueue = <<>> /\ mpCurrentKF = Null /\ keyFrameDB = {}
  /\ bRelaunchBA = FALSE /\ operations = 0
  /\ lcFinishRequested = FALSE /\ lcFinished = TRUE
  /\ lcResetRequested = FALSE /\ lcResetActiveMap = FALSE
  /\ mbRunningGBA = FALSE /\ mbStopGBA = FALSE /\ mnFullBAIdx = 0
  /\ mpThreadGBA = "null" /\ mMutexGBA = Nobody /\ abortedGBA = {}
  /\ gbaPc = [w \in Workers |-> "idle"]
  /\ gbaIdx = [w \in Workers |-> 0]

-----------------------------------------------------------------------------
(* Methods called by the other threads.                                     *)

\* origin is the keyframe whose mnId is 0: it is never queued.
LcInsertKeyFrame(kf, origin) ==
  /\ mlpLoopKeyFrameQueue' = IF kf = origin THEN mlpLoopKeyFrameQueue
                                            ELSE Append(mlpLoopKeyFrameQueue, kf)
  /\ UNCHANGED <<mpCurrentKF, keyFrameDB>>

isRunningGBA == Free(mMutexGBA) /\ mbRunningGBA
isIdleGBA    == Free(mMutexGBA) /\ ~mbRunningGBA

LcRequestReset          == lcResetRequested' = TRUE /\ UNCHANGED lcResetActiveMap
LcRequestResetActiveMap == lcResetActiveMap' = TRUE /\ UNCHANGED lcResetRequested
LcRequestFinish         == lcFinishRequested' = TRUE /\ UNCHANGED lcFinished

-----------------------------------------------------------------------------
(* LoopClosing::Run and place recognition.                                  *)

LcGoto(from, to) == lcPc = from /\ lcPc' = to

LcRun ==
  /\ LcGoto("launch", "check")
  /\ lcFinished' = FALSE
  /\ UNCHANGED <<lmVars, opVars, detectVars, lcFinishRequested, lcResetVars, gbaVars>>

\* With place recognition disabled NewDetectCommonRegions returns before it
\* pops the queue.
LcCheckNewKeyFrames ==
  /\ lcPc = "check"
  /\ IF mlpLoopKeyFrameQueue # <<>> /\ ActiveLC
       THEN /\ lcPc' = "detect"
            /\ mpCurrentKF' = Head(mlpLoopKeyFrameQueue)
            /\ mlpLoopKeyFrameQueue' = Tail(mlpLoopKeyFrameQueue)
       ELSE /\ lcPc' = "reset"
            /\ UNCHANGED <<mpCurrentKF, mlpLoopKeyFrameQueue>>
  /\ UNCHANGED <<lmVars, opVars, keyFrameDB, lcFinishVars, lcResetVars, gbaVars>>

\* CorrectLoop stops local mapping first, the merges abort a running GBA first.
FirstStep(op) == IF op = "loop" THEN "requestStop" ELSE "checkGBA"

\* NewDetectCommonRegions adds the keyframe to the database on every path that
\* popped it, and may have confirmed a loop or a merge.  An operation starts
\* only while a Workers thread is left for the GBA it may launch (bound).
LcDetect ==
  /\ lcPc = "detect"
  /\ keyFrameDB' = keyFrameDB \cup {mpCurrentKF}
  /\ \/ lcPc' = "reset" /\ UNCHANGED opVars
     \/ /\ operations < MaxOperations
        /\ \E w \in Workers : gbaPc[w] = "idle"
        /\ operations' = operations + 1
        /\ bRelaunchBA' = FALSE
        /\ \E op \in Operations :
             /\ lcOperation' = op
             /\ lcPc' = FirstStep(op)
  /\ UNCHANGED <<lmVars, mpCurrentKF, mlpLoopKeyFrameQueue, lcFinishVars, lcResetVars, gbaVars>>

-----------------------------------------------------------------------------
(* CorrectLoop, MergeLocal and MergeLocal2: the same steps in their orders. *)

LcRequestStop ==
  /\ LcGoto("requestStop", IF lcOperation = "loop" THEN "emptyQueue" ELSE "waitStopped")
  /\ RequestStop
  /\ UNCHANGED <<lmPc, finishVars, resetVars, mbAcceptKeyFrames, mapVars,
                 opVars, detectVars, lcFinishVars, lcResetVars, gbaVars>>

\* LocalMapping::EmptyQueue, run by this thread.
LcEmptyQueue ==
  /\ LcGoto("emptyQueue", IF mlNewKeyFrames # <<>> THEN "emptyPop"
                          ELSE IF lcOperation = "loop" THEN "checkGBA" ELSE "correct")
  /\ UNCHANGED <<lmVars, opVars, detectVars, lcFinishVars, lcResetVars, gbaVars>>

LcEmptyPop ==
  /\ LcGoto("emptyPop", "emptyInsert")
  /\ PopKeyFrame
  /\ UNCHANGED <<lmPc, stopVars, finishVars, resetVars, mbAcceptKeyFrames,
                 opVars, detectVars, lcFinishVars, lcResetVars, gbaVars>>

LcEmptyInsert ==
  /\ LcGoto("emptyInsert", "emptyQueue")
  /\ AddKeyFrame
  /\ UNCHANGED <<lmPc, queueVars, stopVars, finishVars, resetVars, mbAcceptKeyFrames,
                 opVars, detectVars, lcFinishVars, lcResetVars, gbaVars>>

AfterGBA == IF lcOperation = "loop" THEN "waitStopped" ELSE "requestStop"

LcCheckGBA ==
  /\ Free(mMutexGBA)
  /\ LcGoto("checkGBA", IF mbRunningGBA THEN "abortGBA" ELSE AfterGBA)
  /\ UNCHANGED <<lmVars, opVars, detectVars, lcFinishVars, lcResetVars, gbaVars>>

\* Raise the stop flag and drop the thread object.  The pointer is not nulled,
\* so a second abort detaches and deletes it again.
LcAbortGBA ==
  /\ Free(mMutexGBA)
  /\ LcGoto("abortGBA", AfterGBA)
  /\ mbStopGBA' = TRUE
  /\ mnFullBAIdx' = mnFullBAIdx + 1
  /\ mpThreadGBA' = IF mpThreadGBA = "live" THEN "deleted" ELSE mpThreadGBA
  /\ undefined' = (undefined \/ mpThreadGBA = "deleted")
  /\ abortedGBA' = {w \in Workers : gbaPc[w] # "idle"}
  /\ bRelaunchBA' = (lcOperation # "loop")
  /\ UNCHANGED <<lmPc, queueVars, stopVars, finishVars, resetVars, mbAcceptKeyFrames,
                 mapKeyFrames, freedKeyFrames, lcOperation, operations, detectVars,
                 lcFinishVars, lcResetVars, mbRunningGBA, mMutexGBA, gbaPc, gbaIdx>>
\* Mutant of LcWaitStopped: the correction starts without waiting.
LcCorrectAtOnce ==
  /\ LcGoto("waitStopped", IF lcOperation \in {"loop", "mergeMove"} THEN "correct"
                                                                    ELSE "emptyQueue")
  /\ UNCHANGED <<lmVars, opVars, detectVars, lcFinishVars, lcResetVars, gbaVars>>

LcWaitStopped ==
  /\ isStopped
  /\ LcGoto("waitStopped", IF lcOperation \in {"loop", "mergeMove"} THEN "correct"
                                                                    ELSE "emptyQueue")
  /\ UNCHANGED <<lmVars, opVars, detectVars, lcFinishVars, lcResetVars, gbaVars>>

\* The correction of poses and points, between its first and its last write.
LcCorrect ==
  /\ LcGoto("correct", IF lcOperation = "loop" THEN "launchGBA" ELSE "release")
  /\ UNCHANGED <<lmVars, opVars, detectVars, lcFinishVars, lcResetVars, gbaVars>>

AfterLaunch == IF lcOperation = "loop" THEN "release" ELSE "reset"

\* The flags are written without mMutexGBA.
LcLaunchGBA ==
  /\ \/ /\ TRUE \in LaunchGBA
        /\ lcOperation = "mergeMove" => bRelaunchBA
        /\ LcGoto("launchGBA", AfterLaunch)
        /\ \E w \in Workers :
             /\ gbaPc[w] = "idle"
             /\ gbaPc' = [gbaPc EXCEPT ![w] = "optimise"]
             /\ abortedGBA' = abortedGBA \ {w}
        /\ mbRunningGBA' = TRUE
        /\ mbStopGBA' = FALSE
        /\ mpThreadGBA' = "live"
        /\ UNCHANGED <<mnFullBAIdx, mMutexGBA, gbaIdx>>
     \/ /\ FALSE \in LaunchGBA \/ (lcOperation = "mergeMove" /\ ~bRelaunchBA)
        /\ LcGoto("launchGBA", AfterLaunch)
        /\ UNCHANGED gbaVars
  /\ UNCHANGED <<lmVars, opVars, detectVars, lcFinishVars, lcResetVars>>

LcReleaseLock ==
  /\ LcGoto("release", "releasing")
  /\ ReleaseLock("LC")
  /\ UNCHANGED <<lmPc, queueVars, finishVars, resetVars, mbAcceptKeyFrames, mapVars,
                 opVars, detectVars, lcFinishVars, lcResetVars, gbaVars>>

\* After its first Release, MergeLocal goes on with the rest of the map.
LcReleaseBody ==
  /\ ReleaseBody("LC")
  /\ LcGoto("releasing", CASE lcOperation = "merge"     -> "requestStop"
                           [] lcOperation = "mergeMove" -> "launchGBA"
                           [] OTHER                     -> "reset")
  /\ lcOperation' = IF lcOperation = "merge" THEN "mergeMove" ELSE lcOperation
  /\ UNCHANGED <<lmPc, finishVars, resetVars, mbAcceptKeyFrames, bRelaunchBA, operations,
                 detectVars, lcFinishVars, lcResetVars, gbaVars>>

-----------------------------------------------------------------------------
(* The end of an iteration of Run.                                          *)

\* A reset of the active map keeps the queued keyframes of other maps.
LcResetIfRequested(activeMap) ==
  /\ LcGoto("reset", "checkFinish")
  /\ CASE lcResetRequested ->
            mlpLoopKeyFrameQueue' = <<>> /\ lcResetRequested' = FALSE /\ lcResetActiveMap' = FALSE
       [] ~lcResetRequested /\ lcResetActiveMap ->
            /\ mlpLoopKeyFrameQueue' = Keep(mlpLoopKeyFrameQueue, KeyFrames \ activeMap)
            /\ lcResetActiveMap' = FALSE
            /\ UNCHANGED lcResetRequested
       [] OTHER -> UNCHANGED <<mlpLoopKeyFrameQueue, lcResetVars>>
  /\ UNCHANGED <<lmVars, opVars, mpCurrentKF, keyFrameDB, lcFinishVars, gbaVars>>

LcCheckFinish ==
  /\ LcGoto("checkFinish", IF lcFinishRequested THEN "finish" ELSE "check")
  /\ UNCHANGED <<lmVars, opVars, detectVars, lcFinishVars, lcResetVars, gbaVars>>

LcSetFinish ==
  /\ LcGoto("finish", "done")
  /\ lcFinished' = TRUE
  /\ UNCHANGED <<lmVars, opVars, detectVars, lcFinishRequested, lcResetVars, gbaVars>>

-----------------------------------------------------------------------------
(* RunGlobalBundleAdjustment, in a thread w of its own.                     *)

GbaGoto(w, from, to) == gbaPc[w] = from /\ gbaPc' = [gbaPc EXCEPT ![w] = to]

\* The optimisation runs without any lock; mnFullBAIdx is read when it has ended.
GbaOptimise(w) ==
  /\ GbaGoto(w, "optimise", "lock")
  /\ gbaIdx' = [gbaIdx EXCEPT ![w] = mnFullBAIdx]
  /\ UNCHANGED <<lmVars, lcPc, opVars, detectVars, lcFinishVars, lcResetVars, gbaFlagVars>>

\* Both early returns leave mbRunningGBA as it is.  The second one is taken when
\* the IMU of the map was initialised during the optimisation.
GbaLock(w) ==
  /\ Free(mMutexGBA)
  /\ \/ /\ gbaIdx[w] # mnFullBAIdx \/ Inertial
        /\ GbaGoto(w, "lock", "idle")
        /\ UNCHANGED mMutexGBA
     \/ /\ gbaIdx[w] = mnFullBAIdx
        /\ GbaGoto(w, "lock", IF mbStopGBA THEN "publish" ELSE "requestStop")
        /\ mMutexGBA' = w
  /\ UNCHANGED <<lmVars, lcPc, opVars, detectVars, lcFinishVars, lcResetVars,
                 mbRunningGBA, mbStopGBA, mnFullBAIdx, mpThreadGBA, abortedGBA, gbaIdx>>

GbaRequestStop(w) ==
  /\ GbaGoto(w, "requestStop", "waitStopped")
  /\ RequestStop
  /\ UNCHANGED <<lmPc, finishVars, resetVars, mbAcceptKeyFrames, mapVars, lcPc, opVars,
                 detectVars, lcFinishVars, lcResetVars, gbaFlagVars, gbaIdx>>

GbaWaitStopped(w) ==
  /\ isStopped \/ lmHasFinished
  /\ GbaGoto(w, "waitStopped", "update")
  /\ UNCHANGED <<lmVars, lcPc, opVars, detectVars, lcFinishVars, lcResetVars, gbaFlagVars, gbaIdx>>

\* Keyframes and points of the map take their optimised values.
GbaUpdate(w) ==
  /\ GbaGoto(w, "update", "release")
  /\ UNCHANGED <<lmVars, lcPc, opVars, detectVars, lcFinishVars, lcResetVars, gbaFlagVars, gbaIdx>>

GbaReleaseLock(w) ==
  /\ GbaGoto(w, "release", "releasing")
  /\ ReleaseLock(w)
  /\ UNCHANGED <<lmPc, queueVars, finishVars, resetVars, mbAcceptKeyFrames, mapVars, lcPc, opVars,
                 detectVars, lcFinishVars, lcResetVars, gbaFlagVars, gbaIdx>>

GbaReleaseBody(w) ==
  /\ GbaGoto(w, "releasing", "publish")
  /\ ReleaseBody(w)
  /\ UNCHANGED <<lmPc, finishVars, resetVars, mbAcceptKeyFrames, lcPc, opVars,
                 detectVars, lcFinishVars, lcResetVars, gbaFlagVars, gbaIdx>>

\* mbRunningGBA = false; mMutexGBA is released and the thread ends.
GbaPublish(w) ==
  /\ GbaGoto(w, "publish", "idle")
  /\ mbRunningGBA' = FALSE
  /\ mMutexGBA' = Nobody
  /\ UNCHANGED <<lmVars, lcPc, opVars, detectVars, lcFinishVars, lcResetVars,
                 mbStopGBA, mnFullBAIdx, mpThreadGBA, abortedGBA, gbaIdx>>

\* The steps of the loop closing thread that do not depend on the active map.
LcOwnStep ==
  \/ LcRun \/ LcCheckNewKeyFrames \/ LcDetect \/ LcRequestStop \/ LcEmptyQueue
  \/ LcEmptyPop \/ LcEmptyInsert \/ LcCheckGBA \/ LcAbortGBA \/ LcWaitStopped
  \/ LcCorrect \/ LcLaunchGBA \/ LcReleaseLock \/ LcReleaseBody
  \/ LcCheckFinish \/ LcSetFinish

GbaStep(w) ==
  \/ GbaOptimise(w) \/ GbaLock(w) \/ GbaRequestStop(w) \/ GbaWaitStopped(w)
  \/ GbaUpdate(w) \/ GbaReleaseLock(w) \/ GbaReleaseBody(w) \/ GbaPublish(w)
=============================================================================

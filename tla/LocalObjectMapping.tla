------------------------- MODULE LocalObjectMapping -------------------------
(* The object mapping thread (LocalObjectMapping::Run): it takes the modified *)
(* objects from its queue, optimises them and fuses duplicates, while the    *)
(* tracking thread of ObjectTracks adds detections, inserts objects in the   *)
(* map and deletes the tracks that have become bad.                          *)
(*                                                                           *)
(* RequestStop, Release and RequestReset of this thread have no caller.      *)
EXTENDS ObjectTracks

VARIABLES
  modified_objects_,     \* the queue
  modified_objects_set_, \* what is in it
  lomPc,                 \* where the thread is in Run
  lomTodo,               \* the rest of its copy of mpMap->GetAllMapObjects()
  lomInto,               \* the object the front one has just been merged into
  mbFinishRequested,
  mbFinished

lomVars == <<modified_objects_, modified_objects_set_, lomPc, lomTodo, lomInto,
             mbFinishRequested, mbFinished>>
vars == <<objVars, mapVars, trkVars, lomVars>>

\* mpMap, the map that was current when the thread was made (System.cc).
ItsMap == 1

Init ==
  /\ InitTracks
  /\ modified_objects_ = <<>>
  /\ modified_objects_set_ = {}
  /\ lomPc = "check"
  /\ lomTodo = {}
  /\ lomInto = {}
  /\ mbFinishRequested = FALSE
  /\ mbFinished = FALSE

Front == modified_objects_[1]
Usable(t) == keyframes[t] \ badKeyFrames

-----------------------------------------------------------------------------
(* Called by the tracking thread.                                           *)

InsertUnlessBad(waiting) ==
  /\ HandedOver
  /\ \E t \in trkHands :
       IF status[t] # "BAD" /\ t \notin waiting
         THEN /\ modified_objects_' = Append(modified_objects_, t)
              /\ modified_objects_set_' = modified_objects_set_ \cup {t}
         ELSE UNCHANGED <<modified_objects_, modified_objects_set_>>
  /\ UNCHANGED <<objVars, mapVars, lomPc, lomTodo, lomInto, mbFinishRequested, mbFinished>>

\* Mutant of InsertModifiedObject: what is queued is queued again.
InsertTwice == InsertUnlessBad({})

\* Mutant of InsertModifiedObject: nobody asks whether the object is bad.
InsertThoughBad ==
  /\ HandedOver
  /\ \E t \in trkHands \ modified_objects_set_ :
       /\ modified_objects_' = Append(modified_objects_, t)
       /\ modified_objects_set_' = modified_objects_set_ \cup {t}
  /\ UNCHANGED <<objVars, mapVars, lomPc, lomTodo, lomInto, mbFinishRequested, mbFinished>>

InsertModifiedObject == InsertUnlessBad(modified_objects_set_)

\* System::Shutdown, called by the thread that delivered the frames.
RequestFinish ==
  /\ trkPc = "frame"
  /\ trkPc' = "off"
  /\ mbFinishRequested' = TRUE
  /\ UNCHANGED <<objVars, mapVars, trkFrame, trkTodo, trkHands, modified_objects_,
                 modified_objects_set_, lomPc, lomTodo, lomInto, mbFinished>>

-----------------------------------------------------------------------------
(* The thread.                                                              *)

\* OptimizeReconstruction: CopyDetectionsInKeyFrames drops the bad keyframes.
OptimizeReconstruction ==
  /\ lomPc = "check"
  /\ modified_objects_ # <<>>
  /\ keyframes' = [keyframes EXCEPT ![Front] = Usable(Front)]
  /\ lomPc' = "fuse"
  /\ lomTodo' = objectsOf[ItsMap] \ {Front}
  /\ UNCHANGED <<status, nbObs, unseen, badKeyFrames, mapVars, trkVars, modified_objects_,
                 modified_objects_set_, lomInto, mbFinishRequested, mbFinished>>

\* The next object of the copy is of another category or does not overlap.
KeepApart(t) ==
  /\ lomPc = "fuse"
  /\ t \in lomTodo
  /\ lomTodo' = lomTodo \ {t}
  /\ UNCHANGED <<objVars, mapVars, trkVars, modified_objects_, modified_objects_set_, lomPc,
                 lomInto, mbFinishRequested, mbFinished>>

\* Mutant of Merge: the copy of the map's objects is read from the start again.
MergeRestarts(t) ==
  /\ lomPc = "fuse"
  /\ t \in lomTodo
  /\ keyframes' = [keyframes EXCEPT ![t] = (@ \cup keyframes[Front]) \ badKeyFrames]
  /\ lomPc' = "judge"
  /\ lomInto' = {t}
  /\ UNCHANGED <<status, nbObs, unseen, badKeyFrames, mapVars, trkVars, modified_objects_,
                 modified_objects_set_, lomTodo, mbFinishRequested, mbFinished>>

\* It overlaps: MapObject::Merge gives it the detections of the front object and
\* reconstructs it, which drops its bad keyframes.
Merge(t) ==
  /\ lomPc = "fuse"
  /\ t \in lomTodo
  /\ lomTodo' = lomTodo \ {t}
  /\ keyframes' = [keyframes EXCEPT ![t] = (@ \cup keyframes[Front]) \ badKeyFrames]
  /\ lomPc' = "judge"
  /\ lomInto' = {t}
  /\ UNCHANGED <<status, nbObs, unseen, badKeyFrames, mapVars, trkVars, modified_objects_,
                 modified_objects_set_, mbFinishRequested, mbFinished>>

\* The fused object explains most of its keyframes (those that are not bad, the
\* others are dropped): the front one is given up.
KeepFusion ==
  /\ lomPc = "judge"
  /\ \E t \in lomInto :
       /\ Usable(t) # {}
       /\ keyframes' = [keyframes EXCEPT ![t] = Usable(t)]
  /\ SetStatus(Front, "BAD")
  /\ lomPc' = "pop"
  /\ lomInto' = {}
  /\ UNCHANGED <<nbObs, unseen, badKeyFrames, mapVars, trkVars, modified_objects_,
                 modified_objects_set_, lomTodo, mbFinishRequested, mbFinished>>

\* The reconstruction failed, or the fused object explains too few keyframes:
\* UnMerge takes every keyframe of the front object away again.
UndoFusion ==
  /\ lomPc = "judge"
  /\ \E t \in lomInto, dropped \in {{}, badKeyFrames} :
       keyframes' = [keyframes EXCEPT ![t] = (@ \ dropped) \ keyframes[Front]]
  /\ lomPc' = "fuse"
  /\ lomInto' = {}
  /\ UNCHANGED <<status, nbObs, unseen, badKeyFrames, mapVars, trkVars, modified_objects_,
                 modified_objects_set_, lomTodo, mbFinishRequested, mbFinished>>

EndFusion ==
  /\ lomPc = "fuse"
  /\ lomTodo = {}
  /\ lomPc' = "pop"
  /\ UNCHANGED <<objVars, mapVars, trkVars, modified_objects_, modified_objects_set_, lomTodo,
                 lomInto, mbFinishRequested, mbFinished>>

PopModified ==
  /\ lomPc = "pop"
  /\ modified_objects_' = Tail(modified_objects_)
  /\ modified_objects_set_' = modified_objects_set_ \ {Front}
  /\ lomPc' = "check"
  /\ lomTodo' = {}
  /\ UNCHANGED <<objVars, mapVars, trkVars, lomInto, mbFinishRequested, mbFinished>>

\* Mutant of Finish: the queue need not be empty.
FinishAtOnce ==
  /\ lomPc = "check"
  /\ mbFinishRequested
  /\ lomPc' = "finished"
  /\ mbFinished' = TRUE
  /\ UNCHANGED <<objVars, mapVars, trkVars, modified_objects_, modified_objects_set_, lomTodo,
                 lomInto, mbFinishRequested>>

\* Only between two batches does Run look at the request to finish.
Finish ==
  /\ lomPc = "check"
  /\ modified_objects_ = <<>>
  /\ mbFinishRequested
  /\ lomPc' = "finished"
  /\ mbFinished' = TRUE
  /\ UNCHANGED <<objVars, mapVars, trkVars, modified_objects_, modified_objects_set_, lomTodo,
                 lomInto, mbFinishRequested>>

LomStep ==
  \/ OptimizeReconstruction \/ KeepFusion \/ UndoFusion \/ EndFusion \/ PopModified \/ Finish
  \/ \E t \in Tracks : KeepApart(t) \/ Merge(t)

-----------------------------------------------------------------------------
Next ==
  \/ TrackingStep /\ UNCHANGED lomVars
  \/ \E k \in KeyFrames : KeyFrameGoesBad(k) /\ UNCHANGED lomVars
  \/ InsertModifiedObject
  \/ RequestFinish
  \/ LomStep

Spec == Init /\ [][Next]_vars

\* The thread runs until it has finished; nothing makes frames arrive.
FairSpec == Spec /\ WF_vars(LomStep)

-----------------------------------------------------------------------------
TypeOK ==
  /\ status \in [Tracks -> Statuses]
  /\ nbObs \in [Tracks -> 0..History]
  /\ unseen \in [Tracks -> 0..(Recall + 1)]
  /\ keyframes \in [Tracks -> SUBSET KeyFrames]
  /\ badKeyFrames \subseteq KeyFrames
  /\ objectsOf \in [1..MaxMaps -> SUBSET Tracks]
  /\ nbMaps \in 1..MaxMaps
  /\ curMap \in 1..nbMaps
  /\ trkPc \in {"frame", "associate", "notify", "maintain", "insert", "expire", "clean", "off"}
  /\ trkFrame \in [kf : KeyFrames \cup {NoKeyFrame}, only : BOOLEAN]
  /\ trkTodo \subseteq Tracks
  /\ trkHands \subseteq Tracks
  /\ modified_objects_ \in Seq(Tracks)
  /\ modified_objects_set_ \subseteq Tracks
  /\ lomPc \in {"check", "fuse", "judge", "pop", "finished"}
  /\ lomTodo \subseteq Tracks
  /\ lomInto \subseteq Tracks
  /\ mbFinishRequested \in BOOLEAN
  /\ mbFinished \in BOOLEAN

\* The queue and the set that answers "is it queued already" never disagree, and
\* no object is queued twice: a second entry would be optimised, and its set
\* entry erased, after the object may have been deleted (InsertModifiedObject,
\* the end of the loop in Run).
QueueMatchesSet ==
  /\ modified_objects_set_ = {modified_objects_[i] : i \in DOMAIN modified_objects_}
  /\ \A i, j \in DOMAIN modified_objects_ :
       modified_objects_[i] = modified_objects_[j] => i = j

\* Every queued object is alive and in the map until the mapping thread itself
\* gives it up, and then it is the front one and is only popped: the thread
\* never works on an object that Tracking has deleted.
QueuedObjectsAlive ==
  \A i \in DOMAIN modified_objects_ :
    \/ status[modified_objects_[i]] = "IN_MAP"
    \/ i = 1 /\ lomPc = "pop" /\ status[modified_objects_[i]] \in {"BAD", "freed"}

\* As long as the atlas has had one map, that map holds no pointer to a deleted
\* object and none to one that was not inserted (InsertInMap, RemoveTrack).
SingleMapSound ==
  nbMaps = 1 => \A t \in objectsOf[1] : status[t] \in {"IN_MAP", "BAD"}

\* "object will be removed from the map" (LocalObjectMapping::Run): an object
\* that was given up and deleted is in no map.
DeletedLeavesMaps ==
  \A t \in Tracks : status[t] = "freed" => \A m \in 1..MaxMaps : t \notin objectsOf[m]

-----------------------------------------------------------------------------
(* Refinement: the two threads keep what ObjectLife promises.               *)

stageOf(s) ==
  CASE s = "none" -> "none"
    [] s \in {"ONLY_2D", "INITIALIZED"} -> "tracked"
    [] s = "IN_MAP" -> "mapped"
    [] s = "BAD" -> "retired"
    [] s = "freed" -> "deleted"

lifeStage == [t \in Tracks |-> stageOf(status[t])]

\* Work is asked for what is queued, until the mapping thread has judged it.
lifePending == {t \in modified_objects_set_ : status[t] = "IN_MAP"}

Life == INSTANCE ObjectLife WITH
  Objects <- Tracks, stage <- lifeStage, pending <- lifePending

\* The status of a track moves one way only, a track that is in the map is given
\* up by the mapping thread alone, and only while it is the object at work; two
\* threads write the status, and InsertInMap does so without its mutex.
LivesOnce == Life!LifeSpec

\* A queued object is optimised in the end, however often others are modified.
ModifiedIsServed ==
  \A t \in Tracks : t \in modified_objects_set_ ~> t \notin modified_objects_set_

\* A request to finish is answered: the queue is emptied first and Tracking
\* fills it no more.
FinishAnswered == mbFinishRequested ~> mbFinished
=============================================================================

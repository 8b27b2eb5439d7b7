---------------------------- MODULE ObjectTracks ----------------------------
(* The objects that Tracking follows from frame to frame (the object part of *)
(* Tracking::Track, ObjectTrack, RemoveTrack) and the maps they are put in.  *)
(*                                                                           *)
(* A track and the map object it owns have one name.  Bounding boxes, poses  *)
(* and ellipsoids are left out: that two boxes overlap, that a               *)
(* reconstruction succeeds or that a reprojection is good enough is a choice.*)
(* Keyframes are named up to which tracks saw them: a name may come back.    *)
EXTENDS Naturals, FiniteSets, Sequences

CONSTANTS
  Tracks,            \* the tracks that may ever be created
  KeyFrames,         \* keyframes, to tell detections apart
  NoKeyFrame,        \* the frame did not become a keyframe
  ReconstructAfter,  \* a 2D track needs more observations than this (10)
  InsertAfter,       \* observations before the insertion in the map (40)
  History,           \* max_frames_history: observations remembered (50)
  Forget,            \* TIME_DIFF_THRESH: frames a track may go unseen (30)
  Recall,            \* frames its last box makes it a candidate (60)
  MaxMaps            \* bound on the maps the atlas creates

ASSUME ObjectConstants ==
  /\ NoKeyFrame \notin KeyFrames
  /\ ReconstructAfter \in Nat /\ InsertAfter \in Nat /\ History \in Nat \ {0}
  /\ Forget \in Nat /\ Recall \in Nat
  /\ MaxMaps \in Nat \ {0}

VARIABLES
  status,       \* ObjectTrackStatus; "none": not created, "freed": deleted
  nbObs,        \* GetNbObservations(), what the ring of boxes holds
  unseen,       \* current_frame_idx_ - last_obs_frame_id_, up to Recall + 1
  keyframes,    \* the keys of keyframes_bboxes_
  badKeyFrames, \* keyframes with isBad()
  objectsOf,    \* mspMapObjects of every map
  nbMaps,       \* maps created so far
  curMap,       \* mpAtlas->GetCurrentMap()
  trkPc,        \* where the tracking thread is in the object part of Track
  trkFrame,     \* while it associates: the new keyframe or none, mbOnlyTracking
  trkTodo,      \* the tracks its loop over objectTracks_ has still to visit
  trkHands      \* the track it is about to hand to the object mapping thread

objVars == <<status, nbObs, unseen, keyframes, badKeyFrames>>
mapVars == <<objectsOf, nbMaps, curMap>>
trkVars == <<trkPc, trkFrame, trkTodo, trkHands>>

Statuses == {"none", "ONLY_2D", "INITIALIZED", "IN_MAP", "BAD", "freed"}

\* objectTracks_, which owns the tracks and their map objects.
objectTracks == {t \in Tracks : status[t] \notin {"none", "freed"}}

NoFrame == [kf |-> NoKeyFrame, only |-> FALSE]

SetStatus(t, s) == status' = [status EXCEPT ![t] = s]
\* Mutant of AtMost: a ring that never drops its oldest element.
Uncapped(n, bound) == n
AtMost(n, bound) == IF n > bound THEN bound ELSE n

InitTracks ==
  /\ status = [t \in Tracks |-> "none"]
  /\ nbObs = [t \in Tracks |-> 0]
  /\ unseen = [t \in Tracks |-> 0]
  /\ keyframes = [t \in Tracks |-> {}]
  /\ badKeyFrames = {}
  /\ objectsOf = [m \in 1..MaxMaps |-> {}]
  /\ nbMaps = 1
  /\ curMap = 1
  /\ trkPc = "frame"
  /\ trkFrame = NoFrame
  /\ trkTodo = {}
  /\ trkHands = {}

-----------------------------------------------------------------------------
(* A frame.                                                                 *)

\* The next image: the object part runs only when tracking is OK; without good
\* detections it goes to its clean-up at once.
GrabFrame ==
  /\ trkPc = "frame"
  /\ unseen' = [t \in Tracks |->
                  IF t \in objectTracks THEN AtMost(unseen[t] + 1, Recall + 1) ELSE 0]
  /\ \E kf \in (KeyFrames \ badKeyFrames) \cup {NoKeyFrame}, only \in BOOLEAN :
       \/ /\ trkPc' = "associate"
          /\ trkFrame' = [kf |-> kf, only |-> only]
       \/ /\ trkPc' = IF only THEN "frame" ELSE "expire"
          /\ UNCHANGED trkFrame
       \/ /\ trkPc' = "frame"
          /\ UNCHANGED trkFrame
  /\ UNCHANGED <<status, nbObs, keyframes, badKeyFrames, mapVars, trkTodo, trkHands>>

InKeyFrame == IF trkFrame.kf = NoKeyFrame THEN {} ELSE {trkFrame.kf}

\* A detection that no track explains.
CreateNewObjectTrack(t) ==
  /\ trkPc = "associate"
  /\ status[t] = "none"
  /\ SetStatus(t, "ONLY_2D")
  /\ nbObs' = [nbObs EXCEPT ![t] = 1]
  /\ unseen' = [unseen EXCEPT ![t] = 0]
  /\ keyframes' = [keyframes EXCEPT ![t] = InKeyFrame]
  /\ UNCHANGED <<badKeyFrames, mapVars, trkVars>>

\* The tracks a detection may be assigned to; a track gets one per frame.
PossibleTracks ==
  {t \in objectTracks : unseen[t] > 0 /\ (unseen[t] <= Recall \/ status[t] \in {"INITIALIZED", "IN_MAP"})}

\* AddDetection; a track that is in the map and was seen in a keyframe is then
\* handed to the object mapping thread ("notify").
AddDetection(t) ==
  /\ trkPc = "associate"
  /\ t \in PossibleTracks
  /\ nbObs' = [nbObs EXCEPT ![t] = AtMost(@ + 1, History)]
  /\ unseen' = [unseen EXCEPT ![t] = 0]
  /\ keyframes' = [keyframes EXCEPT ![t] = @ \cup InKeyFrame]
  /\ IF trkFrame.kf # NoKeyFrame /\ status[t] = "IN_MAP"
     THEN trkPc' = "notify" /\ trkHands' = {t}
     ELSE UNCHANGED <<trkPc, trkHands>>
  /\ UNCHANGED <<status, badKeyFrames, mapVars, trkFrame, trkTodo>>

\* The others the loop that follows leaves alone.
Unmapped == {t \in Tracks : status[t] \in {"ONLY_2D", "INITIALIZED"}}

\* Every detection has a track.
EndAssociation ==
  /\ trkPc = "associate"
  /\ IF trkFrame.only
     THEN trkPc' = "frame" /\ UNCHANGED trkTodo
     ELSE trkPc' = "maintain" /\ trkTodo' = Unmapped
  /\ trkFrame' = NoFrame
  /\ UNCHANGED <<objVars, mapVars, trkHands>>

\* One turn of the loop that reconstructs tracks and puts them in the map.
\* ReconstructFromCenter needs two views and may fail; for a track that is
\* INITIALIZED already it renews the ellipsoid only.
StatusAfterReconstruction(t) ==
  IF unseen[t] = 0 /\ nbObs[t] > ReconstructAfter /\ status[t] = "ONLY_2D"
    THEN {"ONLY_2D", "INITIALIZED"}
    ELSE {status[t]}

Ripe(t, s) == nbObs[t] >= InsertAfter /\ s = "INITIALIZED"

\* CheckReprojectionIoU holds: the object enters the current map and is handed
\* to the object mapping thread.
InsertInMap(t) ==
  /\ objectsOf' = [objectsOf EXCEPT ![curMap] = @ \cup {t}]
  /\ SetStatus(t, "IN_MAP")
  /\ trkPc' = "insert"
  /\ trkHands' = {t}

MaintainTrack(t) ==
  /\ trkPc = "maintain"
  /\ t \in trkTodo
  /\ trkTodo' = trkTodo \ {t}
  /\ \E s \in StatusAfterReconstruction(t) :
       \/ Ripe(t, s) /\ InsertInMap(t)
       \/ /\ SetStatus(t, IF Ripe(t, s) THEN "BAD" ELSE s)
          /\ UNCHANGED <<objectsOf, trkPc, trkHands>>
  /\ UNCHANGED <<nbObs, unseen, keyframes, badKeyFrames, nbMaps, curMap, trkFrame>>

EndMaintenance ==
  /\ trkPc = "maintain"
  /\ trkTodo = {}
  /\ trkPc' = "expire"
  /\ UNCHANGED <<objVars, mapVars, trkFrame, trkTodo, trkHands>>

\* Mutant of ExpireTracks: objects in the map are given up when they go unseen.
ExpireAll ==
  /\ trkPc = "expire"
  /\ status' = [t \in Tracks |->
                  IF t \in objectTracks /\ unseen[t] > Forget THEN "BAD" ELSE status[t]]
  /\ trkPc' = "clean"
  /\ trkTodo' = objectTracks
  /\ UNCHANGED <<nbObs, unseen, keyframes, badKeyFrames, mapVars, trkFrame, trkHands>>

\* Tracks that were lost before they entered the map are given up.
ExpireTracks ==
  /\ trkPc = "expire"
  /\ status' = [t \in Tracks |->
                  IF t \in objectTracks /\ unseen[t] > Forget /\ status[t] # "IN_MAP"
                    THEN "BAD" ELSE status[t]]
  /\ trkPc' = "clean"
  /\ trkTodo' = objectTracks
  /\ UNCHANGED <<nbObs, unseen, keyframes, badKeyFrames, mapVars, trkFrame, trkHands>>

\* Mutant of CleanTrack: the pointer stays in the map.
CleanKeepsPointer(t) ==
  /\ trkPc = "clean"
  /\ t \in trkTodo
  /\ trkTodo' = trkTodo \ {t}
  /\ status[t] = "BAD"
  /\ SetStatus(t, "freed")
  /\ UNCHANGED <<nbObs, unseen, keyframes, badKeyFrames, mapVars, trkPc, trkFrame, trkHands>>

\* RemoveTrack: a bad track leaves the current map and is deleted.
CleanTrack(t) ==
  /\ trkPc = "clean"
  /\ t \in trkTodo
  /\ trkTodo' = trkTodo \ {t}
  /\ IF status[t] = "BAD"
     THEN /\ objectsOf' = [objectsOf EXCEPT ![curMap] = @ \ {t}]
          /\ SetStatus(t, "freed")
          /\ nbObs' = [nbObs EXCEPT ![t] = 0]
          /\ unseen' = [unseen EXCEPT ![t] = 0]
          /\ keyframes' = [keyframes EXCEPT ![t] = {}]
     ELSE UNCHANGED <<objectsOf, status, nbObs, unseen, keyframes>>
  /\ UNCHANGED <<badKeyFrames, nbMaps, curMap, trkPc, trkFrame, trkHands>>

EndFrame ==
  /\ trkPc = "clean"
  /\ trkTodo = {}
  /\ trkPc' = "frame"
  /\ UNCHANGED <<objVars, mapVars, trkFrame, trkTodo, trkHands>>

-----------------------------------------------------------------------------
(* Between two frames.                                                      *)

\* CreateMapInAtlas, or Reset: another map becomes the current one; the tracks
\* stay.
CreateMap ==
  /\ trkPc = "frame"
  /\ nbMaps < MaxMaps
  /\ nbMaps' = nbMaps + 1
  /\ curMap' = nbMaps + 1
  /\ UNCHANGED <<objVars, objectsOf, trkVars>>

\* MergeLocal and MergeLocal2 return to an older map; they hold the mutex that
\* Track holds for the length of a frame.
ChangeMap ==
  /\ trkPc = "frame"
  /\ curMap' \in (1..nbMaps) \ {curMap}
  /\ UNCHANGED <<objVars, objectsOf, nbMaps, trkVars>>

\* ResetActiveMap clears the current map; the tracks stay.
ResetActiveMap ==
  /\ trkPc = "frame"
  /\ objectsOf' = [objectsOf EXCEPT ![curMap] = {}]
  /\ UNCHANGED <<objVars, nbMaps, curMap, trkVars>>

\* Local mapping culls a keyframe.
KeyFrameGoesBad(k) ==
  /\ k \in KeyFrames \ badKeyFrames
  /\ badKeyFrames' = badKeyFrames \cup {k}
  /\ UNCHANGED <<status, nbObs, unseen, keyframes, mapVars, trkVars>>

\* A hand-over ends, in the middle of the loop it belongs to.
HandedOver ==
  /\ trkPc \in {"notify", "insert"}
  /\ trkPc' = IF trkPc = "notify" THEN "associate" ELSE "maintain"
  /\ trkHands' = {}
  /\ UNCHANGED <<trkFrame, trkTodo>>

\* The steps of the tracking thread that do not touch the other thread's queue.
TrackingStep ==
  \/ GrabFrame \/ EndAssociation \/ EndMaintenance \/ ExpireTracks \/ EndFrame
  \/ CreateMap \/ ChangeMap \/ ResetActiveMap
  \/ \E t \in Tracks :
       CreateNewObjectTrack(t) \/ AddDetection(t) \/ MaintainTrack(t) \/ CleanTrack(t)
=============================================================================

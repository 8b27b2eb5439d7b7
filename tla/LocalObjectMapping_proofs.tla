---------------------- MODULE LocalObjectMapping_proofs ----------------------
(***************************************************************************)
(* What holds of the objects that Tracking and the object mapping thread   *)
(* share, for every number of tracks, keyframes and maps and every         *)
(* threshold.                                                              *)
(*                                                                         *)
(* That a queued object is alive is not inductive alone: it needs that the *)
(* mapping thread judges only a front object that is still in the map      *)
(* (AtWork), and that what Tracking is about to hand over is not yet       *)
(* deleted, because tracks are deleted at another place of the frame       *)
(* (Handed).                                                               *)
(***************************************************************************)
EXTENDS LocalObjectMapping, SequenceTheorems, TLAPS

(* Between the optimisation and the pop there is a front object, and until *)
(* it is judged it is in the map. *)
AtWork ==
  /\ lomPc \in {"fuse", "judge", "pop"} => modified_objects_ # <<>>
  /\ lomPc \in {"fuse", "judge"} => status[Front] = "IN_MAP"

(* What is in Tracking's hands was in the map, and nothing is deleted there. *)
Handed ==
  /\ trkHands # {} => trkPc \in {"notify", "insert"}
  /\ \A t \in trkHands : status[t] \in {"IN_MAP", "BAD"}

(* TypeOK in three parts. *)
TrackTypes ==
  /\ status \in [Tracks -> Statuses]
  /\ nbObs \in [Tracks -> 0..History]
  /\ unseen \in [Tracks -> 0..(Recall + 1)]
  /\ keyframes \in [Tracks -> SUBSET KeyFrames]
  /\ badKeyFrames \subseteq KeyFrames

MapTypes ==
  /\ objectsOf \in [1..MaxMaps -> SUBSET Tracks]
  /\ nbMaps \in 1..MaxMaps
  /\ curMap \in 1..nbMaps

ThreadTypes ==
  /\ trkPc \in {"frame", "associate", "notify", "maintain", "insert", "expire", "clean", "off"}
  /\ trkFrame \in [kf : KeyFrames \cup {NoKeyFrame}, only : BOOLEAN]
  /\ trkTodo \subseteq Tracks /\ trkHands \subseteq Tracks
  /\ modified_objects_ \in Seq(Tracks) /\ modified_objects_set_ \subseteq Tracks
  /\ lomPc \in {"check", "fuse", "judge", "pop", "finished"}
  /\ lomTodo \subseteq Tracks /\ lomInto \subseteq Tracks

FinishTypes == mbFinishRequested \in BOOLEAN /\ mbFinished \in BOOLEAN

Queue == QueueMatchesSet /\ QueuedObjectsAlive /\ AtWork /\ Handed

IInv == TrackTypes /\ MapTypes /\ ThreadTypes /\ FinishTypes /\ Queue /\ SingleMapSound

LEMMA TypesTogether == TrackTypes /\ MapTypes /\ ThreadTypes /\ FinishTypes <=> TypeOK
BY Zenon DEF TrackTypes, MapTypes, ThreadTypes, FinishTypes, TypeOK

(* The two ends of the queue. *)
LEMMA AppendFacts ==
  ASSUME NEW S, NEW s \in Seq(S), NEW e \in S
  PROVE  /\ Append(s, e) \in Seq(S) /\ Append(s, e) # <<>>
         /\ Len(s) \in Nat /\ DOMAIN s = 1..Len(s) /\ DOMAIN Append(s, e) = 1..(Len(s) + 1)
         /\ \A i \in DOMAIN s : Append(s, e)[i] = s[i]
         /\ Append(s, e)[Len(s) + 1] = e
BY AppendProperties, LenProperties, Append(s, e) \in Seq(S)

LEMMA FrontFacts ==
  ASSUME NEW S, NEW s \in Seq(S), s # <<>>
  PROVE  /\ Len(s) \in Nat \ {0} /\ DOMAIN s = 1..Len(s) /\ 1 \in DOMAIN s /\ s[1] \in S
         /\ Tail(s) \in Seq(S) /\ DOMAIN Tail(s) = 1..(Len(s) - 1)
         /\ \A i \in DOMAIN Tail(s) : Tail(s)[i] = s[i + 1]
<1>1. Len(s) \in Nat \ {0} /\ DOMAIN s = 1..Len(s) /\ s \in [1..Len(s) -> S]
  BY EmptySeq, LenProperties
<1>2. Tail(s) \in Seq(S) /\ Len(Tail(s)) = Len(s) - 1 /\ \A i \in 1..Len(Tail(s)) : Tail(s)[i] = s[i + 1]
  BY HeadTailProperties
<1>3. DOMAIN Tail(s) = 1..Len(Tail(s))
  BY <1>2, LenProperties
<1>. QED  BY <1>1, <1>2, <1>3

LEMMA InitIInv == Init => IInv
<1>. SUFFICES ASSUME Init  PROVE IInv
  OBVIOUS
<1>1. TrackTypes
  BY ObjectConstants DEF Init, InitTracks, TrackTypes, Statuses
<1>2. MapTypes
  BY ObjectConstants DEF Init, InitTracks, MapTypes
<1>3. ThreadTypes /\ FinishTypes
  <2>1. <<>> \in Seq(Tracks)
    BY EmptySeq
  <2>2. NoFrame \in [kf : KeyFrames \cup {NoKeyFrame}, only : BOOLEAN]
    BY DEF NoFrame
  <2>3. FinishTypes
    BY Zenon DEF Init, FinishTypes
  <2>. QED  BY <2>1, <2>2, <2>3 DEF Init, InitTracks, ThreadTypes
<1>4. Queue
  BY DEF Init, InitTracks, Queue, QueueMatchesSet, QueuedObjectsAlive, AtWork, Handed
<1>5. SingleMapSound
  BY ObjectConstants DEF Init, InitTracks, SingleMapSound
<1>. QED  BY <1>1, <1>2, <1>3, <1>4, <1>5 DEF IInv

-----------------------------------------------------------------------------
(* The tracking thread. *)
LEMMA GrabFrameKept == ASSUME IInv, GrabFrame /\ UNCHANGED lomVars PROVE IInv'
<1>1. TrackTypes'
    BY ObjectConstants DEF IInv, TrackTypes, ThreadTypes, GrabFrame, AtMost, objectTracks, objVars, mapVars,
      trkVars, lomVars
<1>2. MapTypes'
    BY ObjectConstants DEF IInv, MapTypes, TrackTypes, ThreadTypes, GrabFrame, AtMost, objectTracks,
      objVars, mapVars, trkVars, lomVars
<1>3. ThreadTypes'
    BY ObjectConstants DEF IInv, TrackTypes, MapTypes, ThreadTypes, GrabFrame, AtMost, objectTracks,
      objVars, mapVars, trkVars, lomVars
<1>4. FinishTypes'
  BY Zenon DEF IInv, FinishTypes, GrabFrame, AtMost, objectTracks, objVars, mapVars, trkVars, lomVars
<1>5. Queue'
    BY DEF IInv, TrackTypes, MapTypes, ThreadTypes, Queue, QueueMatchesSet, QueuedObjectsAlive, AtWork,
      Handed, Front,
         GrabFrame, AtMost, objectTracks, objVars, mapVars, trkVars, lomVars
<1>6. SingleMapSound'
    BY ObjectConstants DEF IInv, TrackTypes, MapTypes, ThreadTypes, Queue, QueuedObjectsAlive, AtWork,
      Front, SingleMapSound, GrabFrame, AtMost, objectTracks, objVars, mapVars, trkVars, lomVars
<1>. QED  BY <1>1, <1>2, <1>3, <1>4, <1>5, <1>6 DEF IInv

LEMMA CreateNewObjectTrackKept == ASSUME IInv, NEW t \in Tracks, CreateNewObjectTrack(t) /\ UNCHANGED lomVars PROVE IInv'
<1>1. TrackTypes'
    BY ObjectConstants DEF IInv, TrackTypes, ThreadTypes, CreateNewObjectTrack, SetStatus, InKeyFrame,
      Statuses, objVars, mapVars, trkVars, lomVars
<1>2. MapTypes'
    BY ObjectConstants DEF IInv, MapTypes, TrackTypes, ThreadTypes, CreateNewObjectTrack, SetStatus,
      InKeyFrame, Statuses, objVars, mapVars, trkVars, lomVars
<1>3. ThreadTypes'
    BY ObjectConstants DEF IInv, TrackTypes, MapTypes, ThreadTypes, CreateNewObjectTrack, SetStatus,
      InKeyFrame, Statuses, objVars, mapVars, trkVars, lomVars
<1>4. FinishTypes'
    BY Zenon DEF IInv, FinishTypes, CreateNewObjectTrack, SetStatus, InKeyFrame, Statuses, objVars, mapVars,
      trkVars, lomVars
<1>5. Queue'
    BY DEF IInv, TrackTypes, MapTypes, ThreadTypes, Queue, QueueMatchesSet, QueuedObjectsAlive, AtWork,
      Handed, Front,
         CreateNewObjectTrack, SetStatus, InKeyFrame, Statuses, objVars, mapVars, trkVars, lomVars
<1>6. SingleMapSound'
    BY ObjectConstants DEF IInv, TrackTypes, MapTypes, ThreadTypes, Queue, QueuedObjectsAlive, AtWork,
      Front, SingleMapSound, CreateNewObjectTrack, SetStatus, InKeyFrame, Statuses, objVars, mapVars,
      trkVars, lomVars
<1>. QED  BY <1>1, <1>2, <1>3, <1>4, <1>5, <1>6 DEF IInv

LEMMA AddDetectionKept == ASSUME IInv, NEW t \in Tracks, AddDetection(t) /\ UNCHANGED lomVars PROVE IInv'
<1>1. TrackTypes'
    BY ObjectConstants DEF IInv, TrackTypes, ThreadTypes, AddDetection, PossibleTracks, objectTracks,
      AtMost, InKeyFrame, objVars, mapVars, trkVars, lomVars
<1>2. MapTypes'
    BY ObjectConstants DEF IInv, MapTypes, TrackTypes, ThreadTypes, AddDetection, PossibleTracks,
      objectTracks, AtMost, InKeyFrame, objVars, mapVars, trkVars, lomVars
<1>3. ThreadTypes'
    BY ObjectConstants DEF IInv, TrackTypes, MapTypes, ThreadTypes, AddDetection, PossibleTracks,
      objectTracks, AtMost, InKeyFrame, objVars, mapVars, trkVars, lomVars
<1>4. FinishTypes'
    BY Zenon DEF IInv, FinishTypes, AddDetection, PossibleTracks, objectTracks, AtMost, InKeyFrame, objVars,
      mapVars, trkVars, lomVars
<1>5. Queue'
    BY DEF IInv, TrackTypes, MapTypes, ThreadTypes, Queue, QueueMatchesSet, QueuedObjectsAlive, AtWork,
      Handed, Front,
         AddDetection, PossibleTracks, objectTracks, AtMost, InKeyFrame, objVars, mapVars, trkVars, lomVars
<1>6. SingleMapSound'
    BY ObjectConstants DEF IInv, TrackTypes, MapTypes, ThreadTypes, Queue, QueuedObjectsAlive, AtWork,
      Front, SingleMapSound, AddDetection, PossibleTracks, objectTracks, AtMost, InKeyFrame, objVars,
      mapVars, trkVars, lomVars
<1>. QED  BY <1>1, <1>2, <1>3, <1>4, <1>5, <1>6 DEF IInv

LEMMA EndAssociationKept == ASSUME IInv, EndAssociation /\ UNCHANGED lomVars PROVE IInv'
<1>1. TrackTypes'
    BY ObjectConstants DEF IInv, TrackTypes, ThreadTypes, EndAssociation, Unmapped, NoFrame, objVars,
      mapVars, trkVars, lomVars
<1>2. MapTypes'
    BY ObjectConstants DEF IInv, MapTypes, TrackTypes, ThreadTypes, EndAssociation, Unmapped, NoFrame,
      objVars, mapVars, trkVars, lomVars
<1>3. ThreadTypes'
    BY ObjectConstants DEF IInv, TrackTypes, MapTypes, ThreadTypes, EndAssociation, Unmapped, NoFrame,
      objVars, mapVars, trkVars, lomVars
<1>4. FinishTypes'
  BY Zenon DEF IInv, FinishTypes, EndAssociation, Unmapped, NoFrame, objVars, mapVars, trkVars, lomVars
<1>5. Queue'
    BY DEF IInv, TrackTypes, MapTypes, ThreadTypes, Queue, QueueMatchesSet, QueuedObjectsAlive, AtWork,
      Handed, Front,
         EndAssociation, Unmapped, NoFrame, objVars, mapVars, trkVars, lomVars
<1>6. SingleMapSound'
    BY ObjectConstants DEF IInv, TrackTypes, MapTypes, ThreadTypes, Queue, QueuedObjectsAlive, AtWork,
      Front, SingleMapSound, EndAssociation, Unmapped, NoFrame, objVars, mapVars, trkVars, lomVars
<1>. QED  BY <1>1, <1>2, <1>3, <1>4, <1>5, <1>6 DEF IInv

LEMMA MaintainTrackKept == ASSUME IInv, NEW t \in Tracks, MaintainTrack(t) /\ UNCHANGED lomVars PROVE IInv'
<1>1. TrackTypes'
    BY ObjectConstants DEF IInv, TrackTypes, ThreadTypes, MaintainTrack, StatusAfterReconstruction, Ripe,
      InsertInMap, SetStatus, Statuses, objVars, mapVars, trkVars, lomVars
<1>2. MapTypes'
    BY ObjectConstants DEF IInv, MapTypes, TrackTypes, ThreadTypes, MaintainTrack,
      StatusAfterReconstruction, Ripe, InsertInMap, SetStatus, Statuses, objVars, mapVars, trkVars, lomVars
<1>3. ThreadTypes'
    BY ObjectConstants DEF IInv, TrackTypes, MapTypes, ThreadTypes, MaintainTrack,
      StatusAfterReconstruction, Ripe, InsertInMap, SetStatus, Statuses, objVars, mapVars, trkVars, lomVars
<1>4. FinishTypes'
    BY Zenon DEF IInv, FinishTypes, MaintainTrack, StatusAfterReconstruction, Ripe, InsertInMap, SetStatus,
      Statuses, objVars, mapVars, trkVars, lomVars
<1>5. Queue'
    BY DEF IInv, TrackTypes, MapTypes, ThreadTypes, Queue, QueueMatchesSet, QueuedObjectsAlive, AtWork,
      Handed, Front,
         MaintainTrack, StatusAfterReconstruction, Ripe, InsertInMap, SetStatus, Statuses, objVars, mapVars, trkVars, lomVars
<1>6. SingleMapSound'
  <2>. USE DEF IInv, TrackTypes, MapTypes, ThreadTypes, SingleMapSound, MaintainTrack
  <2>1. PICK s \in StatusAfterReconstruction(t) :
          \/ Ripe(t, s) /\ InsertInMap(t)
          \/ /\ SetStatus(t, IF Ripe(t, s) THEN "BAD" ELSE s)
             /\ UNCHANGED <<objectsOf, trkPc, trkHands>>
    BY Zenon
  <2>2. s = status[t] \/ (status[t] = "ONLY_2D" /\ s = "INITIALIZED")
    BY <2>1 DEF StatusAfterReconstruction
  <2>3. CASE Ripe(t, s) /\ InsertInMap(t)
    BY <2>2, <2>3, ObjectConstants DEF InsertInMap, SetStatus, Ripe
  <2>4. CASE SetStatus(t, IF Ripe(t, s) THEN "BAD" ELSE s) /\ UNCHANGED <<objectsOf, trkPc, trkHands>>
    BY <2>2, <2>4, ObjectConstants DEF SetStatus, Ripe
  <2>. QED  BY <2>1, <2>3, <2>4
<1>. QED  BY <1>1, <1>2, <1>3, <1>4, <1>5, <1>6 DEF IInv

LEMMA EndMaintenanceKept == ASSUME IInv, EndMaintenance /\ UNCHANGED lomVars PROVE IInv'
<1>1. TrackTypes'
  BY ObjectConstants DEF IInv, TrackTypes, ThreadTypes, EndMaintenance, objVars, mapVars, trkVars, lomVars
<1>2. MapTypes'
    BY ObjectConstants DEF IInv, MapTypes, TrackTypes, ThreadTypes, EndMaintenance, objVars, mapVars,
      trkVars, lomVars
<1>3. ThreadTypes'
    BY ObjectConstants DEF IInv, TrackTypes, MapTypes, ThreadTypes, EndMaintenance, objVars, mapVars,
      trkVars, lomVars
<1>4. FinishTypes'
  BY Zenon DEF IInv, FinishTypes, EndMaintenance, objVars, mapVars, trkVars, lomVars
<1>5. Queue'
    BY DEF IInv, TrackTypes, MapTypes, ThreadTypes, Queue, QueueMatchesSet, QueuedObjectsAlive, AtWork,
      Handed, Front,
         EndMaintenance, objVars, mapVars, trkVars, lomVars
<1>6. SingleMapSound'
    BY ObjectConstants DEF IInv, TrackTypes, MapTypes, ThreadTypes, Queue, QueuedObjectsAlive, AtWork,
      Front, SingleMapSound, EndMaintenance, objVars, mapVars, trkVars, lomVars
<1>. QED  BY <1>1, <1>2, <1>3, <1>4, <1>5, <1>6 DEF IInv

LEMMA ExpireTracksKept == ASSUME IInv, ExpireTracks /\ UNCHANGED lomVars PROVE IInv'
<1>1. TrackTypes'
    BY ObjectConstants DEF IInv, TrackTypes, ThreadTypes, ExpireTracks, objectTracks, Statuses, objVars,
      mapVars, trkVars, lomVars
<1>2. MapTypes'
    BY ObjectConstants DEF IInv, MapTypes, TrackTypes, ThreadTypes, ExpireTracks, objectTracks, Statuses,
      objVars, mapVars, trkVars, lomVars
<1>3. ThreadTypes'
    BY ObjectConstants DEF IInv, TrackTypes, MapTypes, ThreadTypes, ExpireTracks, objectTracks, Statuses,
      objVars, mapVars, trkVars, lomVars
<1>4. FinishTypes'
  BY Zenon DEF IInv, FinishTypes, ExpireTracks, objectTracks, Statuses, objVars, mapVars, trkVars, lomVars
<1>5. Queue'
    BY DEF IInv, TrackTypes, MapTypes, ThreadTypes, Queue, QueueMatchesSet, QueuedObjectsAlive, AtWork,
      Handed, Front,
         ExpireTracks, objectTracks, Statuses, objVars, mapVars, trkVars, lomVars
<1>6. SingleMapSound'
    BY ObjectConstants DEF IInv, TrackTypes, MapTypes, ThreadTypes, Queue, QueuedObjectsAlive, AtWork,
      Front, SingleMapSound, ExpireTracks, objectTracks, Statuses, objVars, mapVars, trkVars, lomVars
<1>. QED  BY <1>1, <1>2, <1>3, <1>4, <1>5, <1>6 DEF IInv

LEMMA CleanTrackKept == ASSUME IInv, NEW t \in Tracks, CleanTrack(t) /\ UNCHANGED lomVars PROVE IInv'
<1>1. TrackTypes'
  <2>1. 0 \in 0..History /\ 0 \in 0..(Recall + 1) /\ {} \in SUBSET KeyFrames
    BY ObjectConstants
  <2>. QED  BY <2>1 DEF IInv, TrackTypes, CleanTrack, SetStatus, Statuses
<1>2. MapTypes'
    BY ObjectConstants DEF IInv, MapTypes, TrackTypes, ThreadTypes, CleanTrack, SetStatus, Statuses,
      objVars, mapVars, trkVars, lomVars
<1>3. ThreadTypes'
    BY ObjectConstants DEF IInv, TrackTypes, MapTypes, ThreadTypes, CleanTrack, SetStatus, Statuses,
      objVars, mapVars, trkVars, lomVars
<1>4. FinishTypes'
  BY Zenon DEF IInv, FinishTypes, CleanTrack, SetStatus, Statuses, objVars, mapVars, trkVars, lomVars
<1>5. Queue'
    BY DEF IInv, TrackTypes, MapTypes, ThreadTypes, Queue, QueueMatchesSet, QueuedObjectsAlive, AtWork,
      Handed, Front,
         CleanTrack, SetStatus, Statuses, objVars, mapVars, trkVars, lomVars
<1>6. SingleMapSound'
    BY ObjectConstants DEF IInv, TrackTypes, MapTypes, ThreadTypes, Queue, QueuedObjectsAlive, AtWork,
      Front, SingleMapSound, CleanTrack, SetStatus, Statuses, objVars, mapVars, trkVars, lomVars
<1>. QED  BY <1>1, <1>2, <1>3, <1>4, <1>5, <1>6 DEF IInv

LEMMA EndFrameKept == ASSUME IInv, EndFrame /\ UNCHANGED lomVars PROVE IInv'
<1>1. TrackTypes'
  BY ObjectConstants DEF IInv, TrackTypes, ThreadTypes, EndFrame, objVars, mapVars, trkVars, lomVars
<1>2. MapTypes'
  BY ObjectConstants DEF IInv, MapTypes, TrackTypes, ThreadTypes, EndFrame, objVars, mapVars, trkVars, lomVars
<1>3. ThreadTypes'
  BY ObjectConstants DEF IInv, TrackTypes, MapTypes, ThreadTypes, EndFrame, objVars, mapVars, trkVars, lomVars
<1>4. FinishTypes'
  BY Zenon DEF IInv, FinishTypes, EndFrame, objVars, mapVars, trkVars, lomVars
<1>5. Queue'
    BY DEF IInv, TrackTypes, MapTypes, ThreadTypes, Queue, QueueMatchesSet, QueuedObjectsAlive, AtWork,
      Handed, Front,
         EndFrame, objVars, mapVars, trkVars, lomVars
<1>6. SingleMapSound'
    BY ObjectConstants DEF IInv, TrackTypes, MapTypes, ThreadTypes, Queue, QueuedObjectsAlive, AtWork,
      Front, SingleMapSound, EndFrame, objVars, mapVars, trkVars, lomVars
<1>. QED  BY <1>1, <1>2, <1>3, <1>4, <1>5, <1>6 DEF IInv

LEMMA CreateMapKept == ASSUME IInv, CreateMap /\ UNCHANGED lomVars PROVE IInv'
<1>1. TrackTypes'
  BY ObjectConstants DEF IInv, TrackTypes, ThreadTypes, CreateMap, objVars, mapVars, trkVars, lomVars
<1>2. MapTypes'
    BY ObjectConstants DEF IInv, MapTypes, TrackTypes, ThreadTypes, CreateMap, objVars, mapVars, trkVars,
      lomVars
<1>3. ThreadTypes'
    BY ObjectConstants DEF IInv, TrackTypes, MapTypes, ThreadTypes, CreateMap, objVars, mapVars, trkVars,
      lomVars
<1>4. FinishTypes'
  BY Zenon DEF IInv, FinishTypes, CreateMap, objVars, mapVars, trkVars, lomVars
<1>5. Queue'
    BY DEF IInv, TrackTypes, MapTypes, ThreadTypes, Queue, QueueMatchesSet, QueuedObjectsAlive, AtWork,
      Handed, Front,
         CreateMap, objVars, mapVars, trkVars, lomVars
<1>6. SingleMapSound'
    BY ObjectConstants DEF IInv, TrackTypes, MapTypes, ThreadTypes, Queue, QueuedObjectsAlive, AtWork,
      Front, SingleMapSound, CreateMap, objVars, mapVars, trkVars, lomVars
<1>. QED  BY <1>1, <1>2, <1>3, <1>4, <1>5, <1>6 DEF IInv

LEMMA ChangeMapKept == ASSUME IInv, ChangeMap /\ UNCHANGED lomVars PROVE IInv'
<1>1. TrackTypes'
  BY ObjectConstants DEF IInv, TrackTypes, ThreadTypes, ChangeMap, objVars, mapVars, trkVars, lomVars
<1>2. MapTypes'
    BY ObjectConstants DEF IInv, MapTypes, TrackTypes, ThreadTypes, ChangeMap, objVars, mapVars, trkVars,
      lomVars
<1>3. ThreadTypes'
    BY ObjectConstants DEF IInv, TrackTypes, MapTypes, ThreadTypes, ChangeMap, objVars, mapVars, trkVars,
      lomVars
<1>4. FinishTypes'
  BY Zenon DEF IInv, FinishTypes, ChangeMap, objVars, mapVars, trkVars, lomVars
<1>5. Queue'
    BY DEF IInv, TrackTypes, MapTypes, ThreadTypes, Queue, QueueMatchesSet, QueuedObjectsAlive, AtWork,
      Handed, Front,
         ChangeMap, objVars, mapVars, trkVars, lomVars
<1>6. SingleMapSound'
    BY ObjectConstants DEF IInv, TrackTypes, MapTypes, ThreadTypes, Queue, QueuedObjectsAlive, AtWork,
      Front, SingleMapSound, ChangeMap, objVars, mapVars, trkVars, lomVars
<1>. QED  BY <1>1, <1>2, <1>3, <1>4, <1>5, <1>6 DEF IInv

LEMMA ResetActiveMapKept == ASSUME IInv, ResetActiveMap /\ UNCHANGED lomVars PROVE IInv'
<1>1. TrackTypes'
  BY ObjectConstants DEF IInv, TrackTypes, ThreadTypes, ResetActiveMap, objVars, mapVars, trkVars, lomVars
<1>2. MapTypes'
    BY ObjectConstants DEF IInv, MapTypes, TrackTypes, ThreadTypes, ResetActiveMap, objVars, mapVars,
      trkVars, lomVars
<1>3. ThreadTypes'
    BY ObjectConstants DEF IInv, TrackTypes, MapTypes, ThreadTypes, ResetActiveMap, objVars, mapVars,
      trkVars, lomVars
<1>4. FinishTypes'
  BY Zenon DEF IInv, FinishTypes, ResetActiveMap, objVars, mapVars, trkVars, lomVars
<1>5. Queue'
    BY DEF IInv, TrackTypes, MapTypes, ThreadTypes, Queue, QueueMatchesSet, QueuedObjectsAlive, AtWork,
      Handed, Front,
         ResetActiveMap, objVars, mapVars, trkVars, lomVars
<1>6. SingleMapSound'
    BY ObjectConstants DEF IInv, TrackTypes, MapTypes, ThreadTypes, Queue, QueuedObjectsAlive, AtWork,
      Front, SingleMapSound, ResetActiveMap, objVars, mapVars, trkVars, lomVars
<1>. QED  BY <1>1, <1>2, <1>3, <1>4, <1>5, <1>6 DEF IInv

(* Local mapping culls a keyframe, and the hand-over. *)
LEMMA KeyFrameGoesBadKept == ASSUME IInv, NEW k \in KeyFrames, KeyFrameGoesBad(k) /\ UNCHANGED lomVars PROVE IInv'
<1>1. TrackTypes'
  BY ObjectConstants DEF IInv, TrackTypes, ThreadTypes, KeyFrameGoesBad, objVars, mapVars, trkVars, lomVars
<1>2. MapTypes'
    BY ObjectConstants DEF IInv, MapTypes, TrackTypes, ThreadTypes, KeyFrameGoesBad, objVars, mapVars,
      trkVars, lomVars
<1>3. ThreadTypes'
    BY ObjectConstants DEF IInv, TrackTypes, MapTypes, ThreadTypes, KeyFrameGoesBad, objVars, mapVars,
      trkVars, lomVars
<1>4. FinishTypes'
  BY Zenon DEF IInv, FinishTypes, KeyFrameGoesBad, objVars, mapVars, trkVars, lomVars
<1>5. Queue'
    BY DEF IInv, TrackTypes, MapTypes, ThreadTypes, Queue, QueueMatchesSet, QueuedObjectsAlive, AtWork,
      Handed, Front,
         KeyFrameGoesBad, objVars, mapVars, trkVars, lomVars
<1>6. SingleMapSound'
    BY ObjectConstants DEF IInv, TrackTypes, MapTypes, ThreadTypes, Queue, QueuedObjectsAlive, AtWork,
      Front, SingleMapSound, KeyFrameGoesBad, objVars, mapVars, trkVars, lomVars
<1>. QED  BY <1>1, <1>2, <1>3, <1>4, <1>5, <1>6 DEF IInv

LEMMA InsertModifiedObjectKept == ASSUME IInv, InsertModifiedObject PROVE IInv'
<1>1. TrackTypes'
    BY ObjectConstants DEF IInv, TrackTypes, ThreadTypes, InsertModifiedObject, InsertUnlessBad, HandedOver,
      objVars, mapVars, trkVars, lomVars
<1>2. MapTypes'
    BY ObjectConstants DEF IInv, MapTypes, TrackTypes, ThreadTypes, InsertModifiedObject, InsertUnlessBad,
      HandedOver, objVars, mapVars, trkVars, lomVars
<1>3. ThreadTypes'
  <2>. USE DEF IInv, ThreadTypes, InsertModifiedObject, InsertUnlessBad, HandedOver
  <2>1. PICK t \in trkHands :
         IF status[t] # "BAD" /\ t \notin modified_objects_set_
         THEN /\ modified_objects_' = Append(modified_objects_, t)
              /\ modified_objects_set_' = modified_objects_set_ \cup {t}
         ELSE UNCHANGED <<modified_objects_, modified_objects_set_>>
    BY Zenon
  <2>2. t \in Tracks
    OBVIOUS
  <2>3. modified_objects_' \in Seq(Tracks) /\ modified_objects_set_' \subseteq Tracks
    BY <2>1, <2>2, AppendFacts
  <2>. QED  BY <2>3
<1>4. FinishTypes'
    BY Zenon DEF IInv, FinishTypes, InsertModifiedObject, InsertUnlessBad, HandedOver, objVars, mapVars,
      trkVars, lomVars
<1>5. Queue'
  <2>0. /\ modified_objects_ \in Seq(Tracks) /\ trkHands \subseteq Tracks
        /\ QueueMatchesSet /\ QueuedObjectsAlive /\ AtWork /\ Handed
    BY DEF IInv, ThreadTypes, Queue
  <2>1. PICK t \in trkHands :
         IF status[t] # "BAD" /\ t \notin modified_objects_set_
         THEN /\ modified_objects_' = Append(modified_objects_, t)
              /\ modified_objects_set_' = modified_objects_set_ \cup {t}
         ELSE UNCHANGED <<modified_objects_, modified_objects_set_>>
    BY Zenon DEF InsertModifiedObject, InsertUnlessBad
  <2>2. status' = status /\ lomPc' = lomPc /\ trkHands' = {}
    BY DEF InsertModifiedObject, InsertUnlessBad, HandedOver, objVars
  <2>3. t \in Tracks /\ status[t] \in {"IN_MAP", "BAD"}
    BY <2>0 DEF Handed
  <2>4. CASE status[t] # "BAD" /\ t \notin modified_objects_set_
    <3>. DEFINE n == Len(modified_objects_)
    <3>0. /\ modified_objects_' = Append(modified_objects_, t)
          /\ modified_objects_set_' = modified_objects_set_ \cup {t} /\ status[t] = "IN_MAP"
      BY <2>1, <2>3, <2>4
    <3>1. /\ modified_objects_' # <<>> /\ n \in Nat /\ DOMAIN modified_objects_ = 1..n
          /\ DOMAIN modified_objects_' = 1..(n + 1)
          /\ \A i \in 1..n : modified_objects_'[i] = modified_objects_[i]
          /\ modified_objects_'[n + 1] = t
      BY <2>0, <2>3, <3>0, AppendFacts
    <3>2. modified_objects_ # <<>> => n # 0
      BY <2>0, EmptySeq
    <3>. HIDE DEF n
    <3>3. \A i \in 1..n : modified_objects_[i] \in modified_objects_set_
      BY <2>0, <3>1 DEF QueueMatchesSet
    <3>4. QueueMatchesSet'
      <4>1. \A i \in 1..(n + 1) : i = n + 1 \/ i \in 1..n
        BY <3>1
      <4>2. 1..n \subseteq 1..(n + 1) /\ n + 1 \in 1..(n + 1)
        BY <3>1
      <4>3. modified_objects_set_' = {modified_objects_'[i] : i \in 1..(n + 1)}
        BY <2>0, <3>0, <3>1, <4>1, <4>2 DEF QueueMatchesSet
      <4>4. \A i, j \in 1..n : modified_objects_[i] = modified_objects_[j] => i = j
        BY <2>0, <3>1 DEF QueueMatchesSet
      <4>5. \A i \in 1..n : modified_objects_'[i] # t
        BY <2>4, <3>1, <3>3
      <4>6. \A i, j \in 1..(n + 1) : modified_objects_'[i] = modified_objects_'[j] => i = j
        BY <3>1, <4>1, <4>4, <4>5
      <4>. QED  BY <3>1, <4>3, <4>6 DEF QueueMatchesSet
    <3>5. QueuedObjectsAlive'
      <4>1. \A i \in 1..(n + 1) : i = n + 1 \/ i \in 1..n
        BY <3>1
      <4>. QED  BY <2>0, <2>2, <3>0, <3>1, <4>1 DEF QueuedObjectsAlive
    <3>6. AtWork'
      <4>1. n # 0 => modified_objects_'[1] = modified_objects_[1]
        BY <3>1
      <4>. QED  BY <2>0, <2>2, <3>1, <3>2, <4>1 DEF AtWork, Front
    <3>7. Handed'
      BY <2>2 DEF Handed
    <3>. QED  BY <3>4, <3>5, <3>6, <3>7 DEF Queue
  <2>5. CASE ~(status[t] # "BAD" /\ t \notin modified_objects_set_)
    BY <2>0, <2>1, <2>2, <2>5 DEF Queue, QueueMatchesSet, QueuedObjectsAlive, AtWork, Front, Handed
  <2>. QED  BY <2>4, <2>5
<1>6. SingleMapSound'
    BY ObjectConstants DEF IInv, TrackTypes, MapTypes, ThreadTypes, Queue, QueuedObjectsAlive, AtWork,
      Front, SingleMapSound, InsertModifiedObject, InsertUnlessBad, HandedOver, objVars, mapVars, trkVars,
      lomVars
<1>. QED  BY <1>1, <1>2, <1>3, <1>4, <1>5, <1>6 DEF IInv

LEMMA RequestFinishKept == ASSUME IInv, RequestFinish PROVE IInv'
<1>1. TrackTypes'
  BY ObjectConstants DEF IInv, TrackTypes, ThreadTypes, RequestFinish, objVars, mapVars, trkVars, lomVars
<1>2. MapTypes'
    BY ObjectConstants DEF IInv, MapTypes, TrackTypes, ThreadTypes, RequestFinish, objVars, mapVars,
      trkVars, lomVars
<1>3. ThreadTypes'
    BY ObjectConstants DEF IInv, TrackTypes, MapTypes, ThreadTypes, RequestFinish, objVars, mapVars,
      trkVars, lomVars
<1>4. FinishTypes'
  BY Zenon DEF IInv, FinishTypes, RequestFinish, objVars, mapVars, trkVars, lomVars
<1>5. Queue'
    BY DEF IInv, TrackTypes, MapTypes, ThreadTypes, Queue, QueueMatchesSet, QueuedObjectsAlive, AtWork,
      Handed, Front,
         RequestFinish, objVars, mapVars, trkVars, lomVars
<1>6. SingleMapSound'
    BY ObjectConstants DEF IInv, TrackTypes, MapTypes, ThreadTypes, Queue, QueuedObjectsAlive, AtWork,
      Front, SingleMapSound, RequestFinish, objVars, mapVars, trkVars, lomVars
<1>. QED  BY <1>1, <1>2, <1>3, <1>4, <1>5, <1>6 DEF IInv

(* The object mapping thread. *)
LEMMA OptimizeReconstructionKept == ASSUME IInv, OptimizeReconstruction PROVE IInv'
<1>1. TrackTypes'
    BY ObjectConstants DEF IInv, TrackTypes, ThreadTypes, OptimizeReconstruction, Usable, objVars, mapVars,
      trkVars, lomVars
<1>2. MapTypes'
    BY ObjectConstants DEF IInv, MapTypes, TrackTypes, ThreadTypes, OptimizeReconstruction, Usable, objVars,
      mapVars, trkVars, lomVars
<1>3. ThreadTypes'
  BY ObjectConstants DEF IInv, MapTypes, ThreadTypes, OptimizeReconstruction, ItsMap, trkVars
<1>4. FinishTypes'
  BY Zenon DEF IInv, FinishTypes, OptimizeReconstruction, Usable, objVars, mapVars, trkVars, lomVars
<1>5. Queue'
    BY DEF IInv, TrackTypes, MapTypes, ThreadTypes, Queue, QueueMatchesSet, QueuedObjectsAlive, AtWork,
      Handed, Front,
         OptimizeReconstruction, Usable, objVars, mapVars, trkVars, lomVars
<1>6. SingleMapSound'
    BY ObjectConstants DEF IInv, TrackTypes, MapTypes, ThreadTypes, Queue, QueuedObjectsAlive, AtWork,
      Front, SingleMapSound, OptimizeReconstruction, Usable, objVars, mapVars, trkVars, lomVars
<1>. QED  BY <1>1, <1>2, <1>3, <1>4, <1>5, <1>6 DEF IInv

LEMMA KeepApartKept == ASSUME IInv, NEW t \in Tracks, KeepApart(t) PROVE IInv'
<1>1. TrackTypes'
  BY ObjectConstants DEF IInv, TrackTypes, ThreadTypes, KeepApart, objVars, mapVars, trkVars, lomVars
<1>2. MapTypes'
    BY ObjectConstants DEF IInv, MapTypes, TrackTypes, ThreadTypes, KeepApart, objVars, mapVars, trkVars,
      lomVars
<1>3. ThreadTypes'
    BY ObjectConstants DEF IInv, TrackTypes, MapTypes, ThreadTypes, KeepApart, objVars, mapVars, trkVars,
      lomVars
<1>4. FinishTypes'
  BY Zenon DEF IInv, FinishTypes, KeepApart, objVars, mapVars, trkVars, lomVars
<1>5. Queue'
    BY DEF IInv, TrackTypes, MapTypes, ThreadTypes, Queue, QueueMatchesSet, QueuedObjectsAlive, AtWork,
      Handed, Front,
         KeepApart, objVars, mapVars, trkVars, lomVars
<1>6. SingleMapSound'
    BY ObjectConstants DEF IInv, TrackTypes, MapTypes, ThreadTypes, Queue, QueuedObjectsAlive, AtWork,
      Front, SingleMapSound, KeepApart, objVars, mapVars, trkVars, lomVars
<1>. QED  BY <1>1, <1>2, <1>3, <1>4, <1>5, <1>6 DEF IInv

LEMMA MergeKept == ASSUME IInv, NEW t \in Tracks, Merge(t) PROVE IInv'
<1>1. TrackTypes'
  <2>1. Front \in Tracks
    BY FrontFacts DEF IInv, ThreadTypes, Queue, AtWork, Front, Merge
  <2>2. (keyframes[t] \cup keyframes[Front]) \ badKeyFrames \in SUBSET KeyFrames
    BY <2>1 DEF IInv, TrackTypes
  <2>. QED  BY <2>2 DEF IInv, TrackTypes, Merge
<1>2. MapTypes'
  BY ObjectConstants DEF IInv, MapTypes, TrackTypes, ThreadTypes, Merge, objVars, mapVars, trkVars, lomVars
<1>3. ThreadTypes'
  BY ObjectConstants DEF IInv, TrackTypes, MapTypes, ThreadTypes, Merge, objVars, mapVars, trkVars, lomVars
<1>4. FinishTypes'
  BY Zenon DEF IInv, FinishTypes, Merge, objVars, mapVars, trkVars, lomVars
<1>5. Queue'
    BY DEF IInv, TrackTypes, MapTypes, ThreadTypes, Queue, QueueMatchesSet, QueuedObjectsAlive, AtWork,
      Handed, Front,
         Merge, objVars, mapVars, trkVars, lomVars
<1>6. SingleMapSound'
    BY ObjectConstants DEF IInv, TrackTypes, MapTypes, ThreadTypes, Queue, QueuedObjectsAlive, AtWork,
      Front, SingleMapSound, Merge, objVars, mapVars, trkVars, lomVars
<1>. QED  BY <1>1, <1>2, <1>3, <1>4, <1>5, <1>6 DEF IInv

LEMMA KeepFusionKept == ASSUME IInv, KeepFusion PROVE IInv'
<1>1. TrackTypes'
  <2>1. keyframes' \in [Tracks -> SUBSET KeyFrames]
    BY DEF IInv, TrackTypes, ThreadTypes, KeepFusion, Usable
  <2>2. status' \in [Tracks -> Statuses]
    BY DEF IInv, TrackTypes, KeepFusion, SetStatus, Statuses
  <2>. QED  BY <2>1, <2>2 DEF IInv, TrackTypes, KeepFusion
<1>2. MapTypes'
    BY ObjectConstants DEF IInv, MapTypes, TrackTypes, ThreadTypes, KeepFusion, SetStatus, Usable, Statuses,
      objVars, mapVars, trkVars, lomVars
<1>3. ThreadTypes'
    BY ObjectConstants DEF IInv, TrackTypes, MapTypes, ThreadTypes, KeepFusion, SetStatus, Usable, Statuses,
      objVars, mapVars, trkVars, lomVars
<1>4. FinishTypes'
  BY Zenon DEF IInv, FinishTypes, KeepFusion, SetStatus, Usable, Statuses, objVars, mapVars, trkVars, lomVars
<1>5. Queue'
    BY DEF IInv, TrackTypes, MapTypes, ThreadTypes, Queue, QueueMatchesSet, QueuedObjectsAlive, AtWork,
      Handed, Front,
         KeepFusion, SetStatus, Usable, Statuses, objVars, mapVars, trkVars, lomVars
<1>6. SingleMapSound'
    BY ObjectConstants DEF IInv, TrackTypes, MapTypes, ThreadTypes, Queue, QueuedObjectsAlive, AtWork,
      Front, SingleMapSound, KeepFusion, SetStatus, Usable, Statuses, objVars, mapVars, trkVars, lomVars
<1>. QED  BY <1>1, <1>2, <1>3, <1>4, <1>5, <1>6 DEF IInv

LEMMA UndoFusionKept == ASSUME IInv, UndoFusion PROVE IInv'
<1>1. TrackTypes'
  BY ObjectConstants DEF IInv, TrackTypes, ThreadTypes, UndoFusion, objVars, mapVars, trkVars, lomVars
<1>2. MapTypes'
    BY ObjectConstants DEF IInv, MapTypes, TrackTypes, ThreadTypes, UndoFusion, objVars, mapVars, trkVars,
      lomVars
<1>3. ThreadTypes'
    BY ObjectConstants DEF IInv, TrackTypes, MapTypes, ThreadTypes, UndoFusion, objVars, mapVars, trkVars,
      lomVars
<1>4. FinishTypes'
  BY Zenon DEF IInv, FinishTypes, UndoFusion, objVars, mapVars, trkVars, lomVars
<1>5. Queue'
    BY DEF IInv, TrackTypes, MapTypes, ThreadTypes, Queue, QueueMatchesSet, QueuedObjectsAlive, AtWork,
      Handed, Front,
         UndoFusion, objVars, mapVars, trkVars, lomVars
<1>6. SingleMapSound'
    BY ObjectConstants DEF IInv, TrackTypes, MapTypes, ThreadTypes, Queue, QueuedObjectsAlive, AtWork,
      Front, SingleMapSound, UndoFusion, objVars, mapVars, trkVars, lomVars
<1>. QED  BY <1>1, <1>2, <1>3, <1>4, <1>5, <1>6 DEF IInv

LEMMA EndFusionKept == ASSUME IInv, EndFusion PROVE IInv'
<1>1. TrackTypes'
  BY ObjectConstants DEF IInv, TrackTypes, ThreadTypes, EndFusion, objVars, mapVars, trkVars, lomVars
<1>2. MapTypes'
    BY ObjectConstants DEF IInv, MapTypes, TrackTypes, ThreadTypes, EndFusion, objVars, mapVars, trkVars,
      lomVars
<1>3. ThreadTypes'
    BY ObjectConstants DEF IInv, TrackTypes, MapTypes, ThreadTypes, EndFusion, objVars, mapVars, trkVars,
      lomVars
<1>4. FinishTypes'
  BY Zenon DEF IInv, FinishTypes, EndFusion, objVars, mapVars, trkVars, lomVars
<1>5. Queue'
    BY DEF IInv, TrackTypes, MapTypes, ThreadTypes, Queue, QueueMatchesSet, QueuedObjectsAlive, AtWork,
      Handed, Front,
         EndFusion, objVars, mapVars, trkVars, lomVars
<1>6. SingleMapSound'
    BY ObjectConstants DEF IInv, TrackTypes, MapTypes, ThreadTypes, Queue, QueuedObjectsAlive, AtWork,
      Front, SingleMapSound, EndFusion, objVars, mapVars, trkVars, lomVars
<1>. QED  BY <1>1, <1>2, <1>3, <1>4, <1>5, <1>6 DEF IInv

LEMMA PopModifiedKept == ASSUME IInv, PopModified PROVE IInv'
<1>1. TrackTypes'
  BY ObjectConstants DEF IInv, TrackTypes, ThreadTypes, PopModified, objVars, mapVars, trkVars, lomVars
<1>2. MapTypes'
    BY ObjectConstants DEF IInv, MapTypes, TrackTypes, ThreadTypes, PopModified, objVars, mapVars, trkVars,
      lomVars
<1>3. ThreadTypes'
  <2>1. modified_objects_' \in Seq(Tracks)
    BY FrontFacts DEF IInv, ThreadTypes, Queue, AtWork, PopModified
  <2>. QED  BY <2>1 DEF IInv, ThreadTypes, PopModified, trkVars
<1>4. FinishTypes'
  BY Zenon DEF IInv, FinishTypes, PopModified, objVars, mapVars, trkVars, lomVars
<1>5. Queue'
  <2>. DEFINE n == Len(modified_objects_)
  <2>0. /\ modified_objects_ \in Seq(Tracks) /\ modified_objects_ # <<>>
        /\ QueueMatchesSet /\ QueuedObjectsAlive /\ Handed
    BY DEF IInv, ThreadTypes, Queue, AtWork, PopModified
  <2>1. /\ modified_objects_' = Tail(modified_objects_)
        /\ modified_objects_set_' = modified_objects_set_ \ {Front}
        /\ status' = status /\ lomPc' = "check" /\ trkHands' = trkHands /\ trkPc' = trkPc
    BY DEF PopModified, objVars, trkVars
  <2>2. /\ n \in Nat \ {0} /\ DOMAIN modified_objects_ = 1..n
        /\ DOMAIN modified_objects_' = 1..(n - 1)
        /\ \A i \in 1..(n - 1) : modified_objects_'[i] = modified_objects_[i + 1]
    BY <2>0, <2>1, FrontFacts
  <2>. HIDE DEF n
  <2>3. 1 \in 1..n /\ \A i \in 1..(n - 1) : i + 1 \in 1..n /\ i + 1 # 1
    BY <2>2
  <2>4. \A i, j \in 1..n : modified_objects_[i] = modified_objects_[j] => i = j
    BY <2>0, <2>2 DEF QueueMatchesSet
  <2>5. QueueMatchesSet'
    <3>1. \A i \in 1..(n - 1) : modified_objects_'[i] \in modified_objects_set_'
      BY <2>0, <2>1, <2>2, <2>3, <2>4 DEF QueueMatchesSet, Front
    <3>2. \A t \in modified_objects_set_' : \E i \in 1..(n - 1) : modified_objects_'[i] = t
      <4>1. SUFFICES ASSUME NEW t \in modified_objects_set_'
                     PROVE  \E i \in 1..(n - 1) : modified_objects_'[i] = t
        OBVIOUS
      <4>2. PICK j \in 1..n : modified_objects_[j] = t /\ j # 1
        BY <2>0, <2>1, <2>2 DEF QueueMatchesSet, Front
      <4>3. j - 1 \in 1..(n - 1) /\ (j - 1) + 1 = j
        BY <2>2, <4>2
      <4>. QED  BY <2>2, <4>2, <4>3
    <3>3. \A i, j \in 1..(n - 1) : modified_objects_'[i] = modified_objects_'[j] => i = j
      <4>1. SUFFICES ASSUME NEW i \in 1..(n - 1), NEW j \in 1..(n - 1), modified_objects_'[i] = modified_objects_'[j]
                     PROVE  i = j
        OBVIOUS
      <4>2. i + 1 = j + 1
        BY <2>2, <2>3, <2>4, <4>1
      <4>. QED  BY <2>2, <4>1, <4>2
    <3>4. modified_objects_set_' = {modified_objects_'[i] : i \in 1..(n - 1)}
      BY <3>1, <3>2
    <3>. QED  BY <2>2, <3>3, <3>4 DEF QueueMatchesSet
  <2>6. QueuedObjectsAlive'
    <3>1. \A i \in 1..(n - 1) : status[modified_objects_[i + 1]] = "IN_MAP"
      BY <2>0, <2>2, <2>3 DEF QueuedObjectsAlive
    <3>. QED  BY <2>1, <2>2, <3>1 DEF QueuedObjectsAlive
  <2>7. AtWork' /\ Handed'
    BY <2>0, <2>1 DEF AtWork, Handed
  <2>. QED  BY <2>5, <2>6, <2>7 DEF Queue
<1>6. SingleMapSound'
    BY ObjectConstants DEF IInv, TrackTypes, MapTypes, ThreadTypes, Queue, QueuedObjectsAlive, AtWork,
      Front, SingleMapSound, PopModified, objVars, mapVars, trkVars, lomVars
<1>. QED  BY <1>1, <1>2, <1>3, <1>4, <1>5, <1>6 DEF IInv

LEMMA FinishKept == ASSUME IInv, Finish PROVE IInv'
<1>1. TrackTypes'
  BY ObjectConstants DEF IInv, TrackTypes, ThreadTypes, Finish, objVars, mapVars, trkVars, lomVars
<1>2. MapTypes'
  BY ObjectConstants DEF IInv, MapTypes, TrackTypes, ThreadTypes, Finish, objVars, mapVars, trkVars, lomVars
<1>3. ThreadTypes'
  BY ObjectConstants DEF IInv, TrackTypes, MapTypes, ThreadTypes, Finish, objVars, mapVars, trkVars, lomVars
<1>4. FinishTypes'
  BY Zenon DEF IInv, FinishTypes, Finish, objVars, mapVars, trkVars, lomVars
<1>5. Queue'
    BY DEF IInv, TrackTypes, MapTypes, ThreadTypes, Queue, QueueMatchesSet, QueuedObjectsAlive, AtWork,
      Handed, Front,
         Finish, objVars, mapVars, trkVars, lomVars
<1>6. SingleMapSound'
    BY ObjectConstants DEF IInv, TrackTypes, MapTypes, ThreadTypes, Queue, QueuedObjectsAlive, AtWork,
      Front, SingleMapSound, Finish, objVars, mapVars, trkVars, lomVars
<1>. QED  BY <1>1, <1>2, <1>3, <1>4, <1>5, <1>6 DEF IInv

-----------------------------------------------------------------------------
(* Every step keeps the invariant. *)
LEMMA StutterKept == ASSUME IInv, UNCHANGED vars PROVE IInv'
BY DEF vars, IInv, TrackTypes, MapTypes, ThreadTypes, FinishTypes, Queue, QueueMatchesSet, QueuedObjectsAlive,
       AtWork, Front, Handed, SingleMapSound, objVars, mapVars, trkVars, lomVars

LEMMA NextKept == ASSUME IInv, [Next]_vars PROVE IInv'
<1>1. ASSUME GrabFrame, UNCHANGED lomVars  PROVE IInv'
  BY <1>1, GrabFrameKept
<1>2. ASSUME EndAssociation, UNCHANGED lomVars  PROVE IInv'
  BY <1>2, EndAssociationKept
<1>3. ASSUME EndMaintenance, UNCHANGED lomVars  PROVE IInv'
  BY <1>3, EndMaintenanceKept
<1>4. ASSUME ExpireTracks, UNCHANGED lomVars  PROVE IInv'
  BY <1>4, ExpireTracksKept
<1>5. ASSUME EndFrame, UNCHANGED lomVars  PROVE IInv'
  BY <1>5, EndFrameKept
<1>6. ASSUME CreateMap, UNCHANGED lomVars  PROVE IInv'
  BY <1>6, CreateMapKept
<1>7. ASSUME ChangeMap, UNCHANGED lomVars  PROVE IInv'
  BY <1>7, ChangeMapKept
<1>8. ASSUME ResetActiveMap, UNCHANGED lomVars  PROVE IInv'
  BY <1>8, ResetActiveMapKept
<1>9. ASSUME NEW t \in Tracks, CreateNewObjectTrack(t), UNCHANGED lomVars  PROVE IInv'
  BY <1>9, CreateNewObjectTrackKept
<1>10. ASSUME NEW t \in Tracks, AddDetection(t), UNCHANGED lomVars  PROVE IInv'
  BY <1>10, AddDetectionKept
<1>11. ASSUME NEW t \in Tracks, MaintainTrack(t), UNCHANGED lomVars  PROVE IInv'
  BY <1>11, MaintainTrackKept
<1>12. ASSUME NEW t \in Tracks, CleanTrack(t), UNCHANGED lomVars  PROVE IInv'
  BY <1>12, CleanTrackKept
<1>13. ASSUME NEW k \in KeyFrames, KeyFrameGoesBad(k), UNCHANGED lomVars  PROVE IInv'
  BY <1>13, KeyFrameGoesBadKept
<1>14. ASSUME InsertModifiedObject  PROVE IInv'
  BY <1>14, InsertModifiedObjectKept
<1>15. ASSUME RequestFinish  PROVE IInv'
  BY <1>15, RequestFinishKept
<1>16. ASSUME OptimizeReconstruction  PROVE IInv'
  BY <1>16, OptimizeReconstructionKept
<1>17. ASSUME KeepFusion  PROVE IInv'
  BY <1>17, KeepFusionKept
<1>18. ASSUME UndoFusion  PROVE IInv'
  BY <1>18, UndoFusionKept
<1>19. ASSUME EndFusion  PROVE IInv'
  BY <1>19, EndFusionKept
<1>20. ASSUME PopModified  PROVE IInv'
  BY <1>20, PopModifiedKept
<1>21. ASSUME Finish  PROVE IInv'
  BY <1>21, FinishKept
<1>22. ASSUME NEW t \in Tracks, KeepApart(t)  PROVE IInv'
  BY <1>22, KeepApartKept
<1>23. ASSUME NEW t \in Tracks, Merge(t)  PROVE IInv'
  BY <1>23, MergeKept
<1>24. CASE UNCHANGED vars
  BY <1>24, StutterKept
<1>. QED
    BY <1>1, <1>2, <1>3, <1>4, <1>5, <1>6, <1>7, <1>8, <1>9, <1>10, <1>11, <1>12, <1>13, <1>14, <1>15,
      <1>16, <1>17, <1>18, <1>19, <1>20, <1>21, <1>22, <1>23, <1>24 DEF Next, TrackingStep, LomStep

(* The inductive invariant holds of every behaviour of the two threads. *)
THEOREM ObjectInvariant == Spec => []IInv
<1>. QED  BY InitIInv, NextKept, PTL DEF Spec

(* Both threads keep every variable in its type. *)
THEOREM ObjectTypes == Spec => []TypeOK
<1>1. IInv => TypeOK
  BY TypesTogether DEF IInv
<1>. QED  BY <1>1, ObjectInvariant, PTL

(* InsertModifiedObject and the end of the loop in Run keep the queue and the *)
(* set that says what is queued equal, and queue nothing twice. *)
THEOREM QueueIsItsSet == Spec => []QueueMatchesSet
<1>1. IInv => QueueMatchesSet
  BY DEF IInv, Queue
<1>. QED  BY <1>1, ObjectInvariant, PTL

(* The mapping thread never optimises or fuses a front object that Tracking *)
(* has deleted. *)
THEOREM QueuedAreAlive == Spec => []QueuedObjectsAlive
<1>1. IInv => QueuedObjectsAlive
  BY DEF IInv, Queue
<1>. QED  BY <1>1, ObjectInvariant, PTL

(* With one map, RemoveTrack leaves no pointer to a deleted object in it. *)
THEOREM SingleMapIsSound == Spec => []SingleMapSound
<1>1. IInv => SingleMapSound
  BY DEF IInv
<1>. QED  BY <1>1, ObjectInvariant, PTL

-----------------------------------------------------------------------------
(* The two threads implement ObjectLife. *)

(* Every step is a step of ObjectLife or leaves its variables alone. *)
LifeStep == Life!LifeNext \/ UNCHANGED Life!lifeVars

(* Most steps move no track from one stage to another. *)
LEMMA SameLife ==
  ASSUME TrackTypes,
         \A t \in Tracks : stageOf(status'[t]) = stageOf(status[t]),
         \A t \in modified_objects_set_ : status'[t] = "IN_MAP" <=> status[t] = "IN_MAP",
         modified_objects_set_' = modified_objects_set_
  PROVE  LifeStep
BY DEF LifeStep, Life!lifeVars, lifeStage, lifePending

(* One track moves. *)
LEMMA OneMoves ==
  ASSUME TrackTypes, NEW t \in Tracks, NEW s \in Statuses, SetStatus(t, s)
  PROVE  lifeStage' = [lifeStage EXCEPT ![t] = stageOf(s)]
BY DEF TrackTypes, SetStatus, lifeStage

LEMMA GrabFrameLives ==
  ASSUME IInv, GrabFrame, UNCHANGED lomVars
  PROVE  LifeStep
BY SameLife, status' = status, modified_objects_set_' = modified_objects_set_ DEF IInv, GrabFrame, objVars,
    mapVars, trkVars, lomVars

LEMMA EndAssociationLives ==
  ASSUME IInv, EndAssociation, UNCHANGED lomVars
  PROVE  LifeStep
BY SameLife, status' = status, modified_objects_set_' = modified_objects_set_ DEF IInv, EndAssociation,
    objVars, mapVars, trkVars, lomVars

LEMMA EndMaintenanceLives ==
  ASSUME IInv, EndMaintenance, UNCHANGED lomVars
  PROVE  LifeStep
BY SameLife, status' = status, modified_objects_set_' = modified_objects_set_ DEF IInv, EndMaintenance,
    objVars, mapVars, trkVars, lomVars

LEMMA EndFrameLives ==
  ASSUME IInv, EndFrame, UNCHANGED lomVars
  PROVE  LifeStep
BY SameLife, status' = status, modified_objects_set_' = modified_objects_set_ DEF IInv, EndFrame, objVars,
    mapVars, trkVars, lomVars

LEMMA CreateMapLives ==
  ASSUME IInv, CreateMap, UNCHANGED lomVars
  PROVE  LifeStep
BY SameLife, status' = status, modified_objects_set_' = modified_objects_set_ DEF IInv, CreateMap, objVars,
    mapVars, trkVars, lomVars

LEMMA ChangeMapLives ==
  ASSUME IInv, ChangeMap, UNCHANGED lomVars
  PROVE  LifeStep
BY SameLife, status' = status, modified_objects_set_' = modified_objects_set_ DEF IInv, ChangeMap, objVars,
    mapVars, trkVars, lomVars

LEMMA ResetActiveMapLives ==
  ASSUME IInv, ResetActiveMap, UNCHANGED lomVars
  PROVE  LifeStep
BY SameLife, status' = status, modified_objects_set_' = modified_objects_set_ DEF IInv, ResetActiveMap,
    objVars, mapVars, trkVars, lomVars

LEMMA RequestFinishLives ==
  ASSUME IInv, RequestFinish
  PROVE  LifeStep
BY SameLife, status' = status, modified_objects_set_' = modified_objects_set_ DEF IInv, RequestFinish,
    objVars, mapVars, trkVars, lomVars

LEMMA OptimizeReconstructionLives ==
  ASSUME IInv, OptimizeReconstruction
  PROVE  LifeStep
BY SameLife, status' = status, modified_objects_set_' = modified_objects_set_ DEF IInv,
    OptimizeReconstruction, objVars, mapVars, trkVars, lomVars

LEMMA UndoFusionLives ==
  ASSUME IInv, UndoFusion
  PROVE  LifeStep
BY SameLife, status' = status, modified_objects_set_' = modified_objects_set_ DEF IInv, UndoFusion, objVars,
    mapVars, trkVars, lomVars

LEMMA EndFusionLives ==
  ASSUME IInv, EndFusion
  PROVE  LifeStep
BY SameLife, status' = status, modified_objects_set_' = modified_objects_set_ DEF IInv, EndFusion, objVars,
    mapVars, trkVars, lomVars

LEMMA FinishLives ==
  ASSUME IInv, Finish
  PROVE  LifeStep
BY SameLife, status' = status, modified_objects_set_' = modified_objects_set_ DEF IInv, Finish, objVars,
    mapVars, trkVars, lomVars

LEMMA AddDetectionLives ==
  ASSUME IInv, NEW t \in Tracks, AddDetection(t), UNCHANGED lomVars
  PROVE  LifeStep
BY SameLife, status' = status, modified_objects_set_' = modified_objects_set_ DEF IInv, AddDetection,
    objVars, mapVars, trkVars, lomVars

LEMMA KeepApartLives ==
  ASSUME IInv, NEW t \in Tracks, KeepApart(t)
  PROVE  LifeStep
BY SameLife, status' = status, modified_objects_set_' = modified_objects_set_ DEF IInv, KeepApart, objVars,
    mapVars, trkVars, lomVars

LEMMA MergeLives ==
  ASSUME IInv, NEW t \in Tracks, Merge(t)
  PROVE  LifeStep
BY SameLife, status' = status, modified_objects_set_' = modified_objects_set_ DEF IInv, Merge, objVars,
    mapVars, trkVars, lomVars

LEMMA CreateNewObjectTrackLives ==
  ASSUME IInv, NEW t \in Tracks, CreateNewObjectTrack(t), UNCHANGED lomVars
  PROVE  LifeStep
<1>1. lifeStage' = [lifeStage EXCEPT ![t] = "tracked"]
  BY OneMoves DEF IInv, CreateNewObjectTrack, Statuses, stageOf
<1>2. lifeStage[t] = "none"
  BY DEF CreateNewObjectTrack, lifeStage, stageOf
<1>3. lifePending' = lifePending
  BY DEF IInv, TrackTypes, ThreadTypes, CreateNewObjectTrack, SetStatus, lifePending, lomVars
<1>. QED  BY <1>1, <1>2, <1>3 DEF LifeStep, Life!LifeNext, Life!Create, Life!Move

LEMMA KeyFrameGoesBadLives ==
  ASSUME IInv, NEW k \in KeyFrames, KeyFrameGoesBad(k), UNCHANGED lomVars
  PROVE  LifeStep
BY SameLife, status' = status, modified_objects_set_' = modified_objects_set_ DEF IInv, KeyFrameGoesBad,
    lomVars

(* What is queued was in the map and is not in the reach of Tracking. *)
LEMMA QueuedWereMapped ==
  ASSUME IInv, NEW t \in modified_objects_set_
  PROVE  status[t] \in {"IN_MAP", "BAD", "freed"}
BY DEF IInv, Queue, QueueMatchesSet, QueuedObjectsAlive

LEMMA MaintainTrackLives ==
  ASSUME IInv, NEW t \in Tracks, MaintainTrack(t), UNCHANGED lomVars
  PROVE  LifeStep
<1>1. PICK s \in StatusAfterReconstruction(t) :
        \/ Ripe(t, s) /\ InsertInMap(t)
        \/ /\ SetStatus(t, IF Ripe(t, s) THEN "BAD" ELSE s)
           /\ UNCHANGED <<objectsOf, trkPc, trkHands>>
  BY Zenon DEF MaintainTrack
<1>2. /\ modified_objects_set_' = modified_objects_set_
      /\ TrackTypes /\ modified_objects_set_ \subseteq Tracks /\ status[t] \in Statuses
  BY DEF lomVars, IInv, TrackTypes, ThreadTypes
<1>3. s = status[t] \/ (status[t] = "ONLY_2D" /\ s = "INITIALIZED")
  BY <1>1 DEF StatusAfterReconstruction
<1>4. CASE Ripe(t, s) /\ InsertInMap(t)
  <2>1. status[t] \in {"ONLY_2D", "INITIALIZED"} /\ t \notin modified_objects_set_ /\ SetStatus(t, "IN_MAP")
    BY <1>3, <1>4, QueuedWereMapped DEF Ripe, InsertInMap
  <2>2. lifeStage' = [lifeStage EXCEPT ![t] = "mapped"]
    BY <1>2, <2>1, OneMoves DEF Statuses, stageOf
  <2>3. lifeStage[t] = "tracked"
    BY <2>1 DEF lifeStage, stageOf
  <2>4. lifePending' = lifePending
    BY <1>2, <2>1 DEF TrackTypes, SetStatus, lifePending
  <2>. QED  BY <2>2, <2>3, <2>4 DEF LifeStep, Life!LifeNext, Life!Put, Life!Move
<1>5. CASE SetStatus(t, IF Ripe(t, s) THEN "BAD" ELSE s) /\ Ripe(t, s)
  <2>1. status[t] \in {"ONLY_2D", "INITIALIZED"} /\ t \notin modified_objects_set_ /\ SetStatus(t, "BAD")
    BY <1>3, <1>5, QueuedWereMapped DEF Ripe
  <2>2. lifeStage' = [lifeStage EXCEPT ![t] = "retired"]
    BY <1>2, <2>1, OneMoves DEF Statuses, stageOf
  <2>a. lifeStage[t] = "tracked"
    BY <2>1 DEF lifeStage, stageOf
  <2>b. lifeStage' = [o \in Tracks |-> IF o \in {t} THEN "retired" ELSE lifeStage[o]]
    <3>1. DOMAIN lifeStage = Tracks
      BY DEF lifeStage
    <3>. QED  BY <2>2, <3>1
  <2>3. lifeStage[t] = "tracked" /\ lifeStage' = [o \in Tracks |-> IF o \in {t} THEN "retired" ELSE lifeStage[o]]
    BY <2>a, <2>b
  <2>4. lifePending' = lifePending
    BY <1>2, <2>1 DEF TrackTypes, SetStatus, lifePending
  <2>5. {t} \in SUBSET {o \in Tracks : lifeStage[o] = "tracked"}
    BY <2>3
  <2>. QED  BY <2>3, <2>4, <2>5 DEF LifeStep, Life!LifeNext, Life!GiveUp
<1>6. CASE SetStatus(t, IF Ripe(t, s) THEN "BAD" ELSE s) /\ ~Ripe(t, s)
  <2>1. SetStatus(t, s)
    BY <1>6
  <2>2. \A o \in Tracks : stageOf(status'[o]) = stageOf(status[o])
    BY <1>2, <1>3, <2>1 DEF TrackTypes, SetStatus, stageOf
  <2>3. \A o \in modified_objects_set_ : status'[o] = "IN_MAP" <=> status[o] = "IN_MAP"
    BY <1>2, <1>3, <2>1 DEF TrackTypes, SetStatus
  <2>. QED  BY <1>2, <2>2, <2>3, SameLife
<1>. QED  BY <1>1, <1>4, <1>5, <1>6

LEMMA ExpireTracksLives ==
  ASSUME IInv, ExpireTracks, UNCHANGED lomVars
  PROVE  LifeStep
<1>. DEFINE S == {t \in objectTracks : unseen[t] > Forget /\ status[t] \in {"ONLY_2D", "INITIALIZED"}}
<1>1. /\ TrackTypes /\ modified_objects_set_' = modified_objects_set_ /\ modified_objects_set_ \subseteq Tracks
      /\ status' = [t \in Tracks |->
                       IF t \in objectTracks /\ unseen[t] > Forget /\ status[t] # "IN_MAP"
                         THEN "BAD" ELSE status[t]]
  BY DEF IInv, ThreadTypes, ExpireTracks, lomVars
<1>2. S \in SUBSET {o \in Tracks : lifeStage[o] = "tracked"}
  BY DEF objectTracks, lifeStage, stageOf
<1>3. \A t \in Tracks : stageOf(status'[t]) = IF t \in S THEN "retired" ELSE stageOf(status[t])
  BY <1>1 DEF TrackTypes, Statuses, objectTracks, stageOf
<1>4. lifeStage' = [o \in Tracks |-> IF o \in S THEN "retired" ELSE lifeStage[o]]
  BY <1>3 DEF lifeStage
<1>5. lifePending' = lifePending
  BY <1>1 DEF TrackTypes, Statuses, objectTracks, lifePending
<1>. QED  BY <1>2, <1>4, <1>5 DEF LifeStep, Life!LifeNext, Life!GiveUp

LEMMA CleanTrackLives ==
  ASSUME IInv, NEW t \in Tracks, CleanTrack(t), UNCHANGED lomVars
  PROVE  LifeStep
<1>1. /\ TrackTypes /\ modified_objects_set_' = modified_objects_set_ /\ modified_objects_set_ \subseteq Tracks
  BY DEF IInv, ThreadTypes, lomVars
<1>2. CASE status[t] = "BAD"
  <2>1. SetStatus(t, "freed")
    BY <1>2 DEF CleanTrack
  <2>2. lifeStage' = [lifeStage EXCEPT ![t] = "deleted"]
    BY <1>1, <2>1, OneMoves DEF Statuses, stageOf
  <2>3. lifeStage[t] = "retired" /\ t \notin lifePending
    BY <1>2 DEF lifeStage, stageOf, lifePending
  <2>4. lifePending' = lifePending
    BY <1>1, <1>2, <2>1 DEF TrackTypes, SetStatus, lifePending
  <2>. QED  BY <2>2, <2>3, <2>4 DEF LifeStep, Life!LifeNext, Life!Delete, Life!Move
<1>3. CASE status[t] # "BAD"
  BY <1>1, <1>3, SameLife, status' = status DEF CleanTrack
<1>. QED  BY <1>2, <1>3

LEMMA InsertModifiedObjectLives ==
  ASSUME IInv, InsertModifiedObject
  PROVE  LifeStep
<1>1. PICK t \in trkHands :
       IF status[t] # "BAD" /\ t \notin modified_objects_set_
       THEN /\ modified_objects_' = Append(modified_objects_, t)
            /\ modified_objects_set_' = modified_objects_set_ \cup {t}
       ELSE UNCHANGED <<modified_objects_, modified_objects_set_>>
  BY Zenon DEF InsertModifiedObject, InsertUnlessBad
<1>2. status' = status /\ TrackTypes /\ t \in Tracks /\ status[t] \in {"IN_MAP", "BAD"}
  BY DEF InsertModifiedObject, InsertUnlessBad, objVars, IInv, ThreadTypes, Queue, Handed
<1>3. CASE status[t] # "BAD" /\ t \notin modified_objects_set_
  <2>1. lifeStage' = lifeStage /\ lifeStage[t] = "mapped" /\ lifePending' = lifePending \cup {t}
    BY <1>1, <1>2, <1>3 DEF lifeStage, stageOf, lifePending
  <2>. QED  BY <1>2, <2>1 DEF LifeStep, Life!LifeNext, Life!Ask
<1>4. CASE ~(status[t] # "BAD" /\ t \notin modified_objects_set_)
  BY <1>1, <1>2, <1>4, SameLife
<1>. QED  BY <1>3, <1>4

(* The front object is queued. *)
LEMMA FrontIsQueued ==
  ASSUME IInv, modified_objects_ # <<>>
  PROVE  Front \in modified_objects_set_ /\ Front \in Tracks
BY FrontFacts DEF IInv, ThreadTypes, Queue, QueueMatchesSet, Front

LEMMA KeepFusionLives ==
  ASSUME IInv, KeepFusion
  PROVE  LifeStep
<1>1. /\ TrackTypes /\ modified_objects_set_' = modified_objects_set_ /\ modified_objects_set_ \subseteq Tracks
      /\ SetStatus(Front, "BAD") /\ status[Front] = "IN_MAP" /\ modified_objects_ # <<>>
  BY DEF IInv, ThreadTypes, KeepFusion, Queue, AtWork
<1>2. Front \in modified_objects_set_ /\ Front \in Tracks
  BY <1>1, FrontIsQueued
<1>3. lifeStage' = [lifeStage EXCEPT ![Front] = "retired"]
  BY <1>1, <1>2, OneMoves DEF Statuses, stageOf
<1>4. lifeStage[Front] = "mapped" /\ Front \in lifePending
  BY <1>1, <1>2 DEF lifeStage, stageOf, lifePending
<1>5. lifePending' = lifePending \ {Front}
  BY <1>1, <1>2 DEF TrackTypes, SetStatus, lifePending
<1>. QED  BY <1>2, <1>3, <1>4, <1>5 DEF LifeStep, Life!LifeNext, Life!ServeAndRetire, Life!Move

LEMMA PopModifiedLives ==
  ASSUME IInv, PopModified
  PROVE  LifeStep
<1>1. /\ status' = status /\ modified_objects_set_' = modified_objects_set_ \ {Front} /\ modified_objects_ # <<>>
  BY DEF IInv, PopModified, Queue, AtWork, objVars
<1>2. Front \in modified_objects_set_ /\ Front \in Tracks
  BY <1>1, FrontIsQueued
<1>3. lifeStage' = lifeStage /\ lifePending' = lifePending \ {Front}
  BY <1>1 DEF lifeStage, lifePending
<1>4. CASE status[Front] = "IN_MAP"
  BY <1>2, <1>3, <1>4 DEF lifePending, LifeStep, Life!LifeNext, Life!Serve
<1>5. CASE status[Front] # "IN_MAP"
  BY <1>3, <1>5 DEF lifePending, LifeStep, Life!lifeVars
<1>. QED  BY <1>4, <1>5

(* Spec implements ObjectLife: no track returns to an earlier stage, only the *)
(* mapping thread retires a mapped object, and nothing queued is deleted      *)
(* before the mapping thread has judged it.                                   *)
THEOREM ObjectsLiveOnce == Spec => LivesOnce
<1>1. Init => Life!LifeInit
  BY DEF Init, InitTracks, Life!LifeInit, lifeStage, lifePending, stageOf
<1>2. IInv /\ [Next]_vars => [Life!LifeNext]_(Life!lifeVars)
  <2>. SUFFICES ASSUME IInv, [Next]_vars  PROVE LifeStep
    BY DEF LifeStep
  <2>1. ASSUME GrabFrame, UNCHANGED lomVars  PROVE LifeStep
    BY <2>1, GrabFrameLives
  <2>2. ASSUME EndAssociation, UNCHANGED lomVars  PROVE LifeStep
    BY <2>2, EndAssociationLives
  <2>3. ASSUME EndMaintenance, UNCHANGED lomVars  PROVE LifeStep
    BY <2>3, EndMaintenanceLives
  <2>4. ASSUME ExpireTracks, UNCHANGED lomVars  PROVE LifeStep
    BY <2>4, ExpireTracksLives
  <2>5. ASSUME EndFrame, UNCHANGED lomVars  PROVE LifeStep
    BY <2>5, EndFrameLives
  <2>6. ASSUME CreateMap, UNCHANGED lomVars  PROVE LifeStep
    BY <2>6, CreateMapLives
  <2>7. ASSUME ChangeMap, UNCHANGED lomVars  PROVE LifeStep
    BY <2>7, ChangeMapLives
  <2>8. ASSUME ResetActiveMap, UNCHANGED lomVars  PROVE LifeStep
    BY <2>8, ResetActiveMapLives
  <2>9. ASSUME NEW t \in Tracks, CreateNewObjectTrack(t), UNCHANGED lomVars  PROVE LifeStep
    BY <2>9, CreateNewObjectTrackLives
  <2>10. ASSUME NEW t \in Tracks, AddDetection(t), UNCHANGED lomVars  PROVE LifeStep
    BY <2>10, AddDetectionLives
  <2>11. ASSUME NEW t \in Tracks, MaintainTrack(t), UNCHANGED lomVars  PROVE LifeStep
    BY <2>11, MaintainTrackLives
  <2>12. ASSUME NEW t \in Tracks, CleanTrack(t), UNCHANGED lomVars  PROVE LifeStep
    BY <2>12, CleanTrackLives
  <2>13. ASSUME NEW k \in KeyFrames, KeyFrameGoesBad(k), UNCHANGED lomVars  PROVE LifeStep
    BY <2>13, KeyFrameGoesBadLives
  <2>14. ASSUME InsertModifiedObject  PROVE LifeStep
    BY <2>14, InsertModifiedObjectLives
  <2>15. ASSUME RequestFinish  PROVE LifeStep
    BY <2>15, RequestFinishLives
  <2>16. ASSUME OptimizeReconstruction  PROVE LifeStep
    BY <2>16, OptimizeReconstructionLives
  <2>17. ASSUME KeepFusion  PROVE LifeStep
    BY <2>17, KeepFusionLives
  <2>18. ASSUME UndoFusion  PROVE LifeStep
    BY <2>18, UndoFusionLives
  <2>19. ASSUME EndFusion  PROVE LifeStep
    BY <2>19, EndFusionLives
  <2>20. ASSUME PopModified  PROVE LifeStep
    BY <2>20, PopModifiedLives
  <2>21. ASSUME Finish  PROVE LifeStep
    BY <2>21, FinishLives
  <2>22. ASSUME NEW t \in Tracks, KeepApart(t)  PROVE LifeStep
    BY <2>22, KeepApartLives
  <2>23. ASSUME NEW t \in Tracks, Merge(t)  PROVE LifeStep
    BY <2>23, MergeLives
  <2>24. CASE UNCHANGED vars
    BY <2>24 DEF vars, objVars, lomVars, lifeStage, lifePending, LifeStep, Life!lifeVars
  <2>. QED
        BY <2>1, <2>2, <2>3, <2>4, <2>5, <2>6, <2>7, <2>8, <2>9, <2>10, <2>11, <2>12, <2>13, <2>14, <2>15,
        <2>16, <2>17, <2>18, <2>19, <2>20, <2>21, <2>22, <2>23, <2>24 DEF Next, TrackingStep, LomStep
<1>. QED  BY <1>1, <1>2, ObjectInvariant, PTL DEF Spec, LivesOnce, Life!LifeSpec
=============================================================================

----------------------------- MODULE AtlasFile -----------------------------
(***************************************************************************)
(* The atlas over sessions: what a session leaves in memory, how Shutdown  *)
(* saves it (System::SaveAtlas and the PreSave of Atlas, Map, MapPoint and *)
(* KeyFrame), and how the next session loads it (LoadAtlas, PostLoad).     *)
(*                                                                         *)
(* References between objects are saved as ids: PreSave keeps those to     *)
(* objects of the same map, PostLoad looks them up again.  Here an object  *)
(* and its id have one name.  Of the references, the model keeps those     *)
(* between keyframes and points; the ones between keyframes are saved and  *)
(* restored in the same way.                                               *)
(*                                                                         *)
(* The session is coarse: one step for a keyframe, a point, a culling or a *)
(* merge (their interleavings are in MapPoints and KeyFrameGraph).  Every  *)
(* feature has depth, so an observation adds two to nObs.  Saving is fine: *)
(* PreSave erases observations, and with them points, from the sets its    *)
(* loops run over.  From there on the behaviour is undefined: a loop may   *)
(* miss what it has not visited yet, or the process may end.               *)
(***************************************************************************)
EXTENDS Integers, Sequences, FiniteSets, Functions

CONSTANTS
  MaxKeyFrames, MaxPoints, MaxMaps, MaxSessions,  \* bounds
  Inertial                                        \* whether maps may be merged by MergeLocal2

ASSUME AtlasFileAssumption ==
  /\ MaxKeyFrames \in Nat \ {0} /\ MaxPoints \in Nat /\ MaxMaps \in Nat \ {0} /\ MaxSessions \in Nat
  /\ Inertial \in BOOLEAN

KeyFrames == 1..MaxKeyFrames
Points == 1..MaxPoints
Maps == 1..MaxMaps
None == 0

VARIABLES
  phase,                       \* "running", "observations" and "backups" (saving a map), "writing", "off", "loaded"
  sessions,                    \* sessions started
  mspMaps, mpCurrentMap,       \* the atlas
  ids,                         \* nNextId of Map, KeyFrame and MapPoint
  mspKeyFrames, mspMapPoints,  \* of each map
  mnInitKFid,                  \* of each map
  mpMap, mvpMapPoints,         \* of each keyframe: its map, the points it matches
  pointMap, mbBad,             \* of the points: their map; those that are bad
  mObservations, mpRefKF,      \* of each point
  mlNewKeyFrames,              \* the queue of local mapping
  mpCurrentKeyFrame,           \* what local mapping is at work on
  mapsLeft, pMi,               \* of the loop of Atlas::PreSave: the maps to visit, the one it is at work on
  backup,                      \* the mBackup... and mvpBackup... members
  file                         \* the session file

keyFrameVars == <<mspKeyFrames, mnInitKFid, mpMap>>
pointVars == <<mspMapPoints, mvpMapPoints, pointMap, mbBad, mObservations, mpRefKF>>
atlasVars == <<mspMaps, mpCurrentMap>>
threadVars == <<mlNewKeyFrames, mpCurrentKeyFrame>>
saveVars == <<mapsLeft, pMi, backup, file>>
vars == <<phase, sessions, ids, keyFrameVars, pointVars, atlasVars, threadVars, saveVars>>

NoBackup ==
  [maps |-> {}, keyframes |-> [m \in Maps |-> {}], points |-> [m \in Maps |-> {}],
   observations |-> [p \in Points |-> {}], ref |-> [p \in Points |-> None],
   matches |-> [k \in KeyFrames |-> {}], init |-> [m \in Maps |-> None],
   undefined |-> FALSE,      \* history: a PreSave, of this session or of one before, has erased under its loop
   whole |-> [p \in {} |-> {}]]  \* history: the points held whole by a map, with their observers
NoFile == [backup |-> NoBackup, bad |-> {}, ids |-> [map |-> 1, keyframe |-> 1, point |-> 1], written |-> FALSE]

(***************************************************************************)
(* System's constructor without a file to load: an atlas with one map.     *)
(***************************************************************************)
Init ==
  /\ phase = "running" /\ sessions = 1
  /\ mspMaps = {1} /\ mpCurrentMap = 1 /\ ids = [map |-> 2, keyframe |-> 1, point |-> 1]
  /\ mspKeyFrames = [m \in Maps |-> {}] /\ mspMapPoints = [m \in Maps |-> {}]
  /\ mnInitKFid = [m \in Maps |-> None]
  /\ mpMap = [k \in KeyFrames |-> None] /\ mvpMapPoints = [k \in KeyFrames |-> {}]
  /\ pointMap = [p \in Points |-> None] /\ mbBad = {}
  /\ mObservations = [p \in Points |-> {}] /\ mpRefKF = [p \in Points |-> None]
  /\ mlNewKeyFrames = <<>> /\ mpCurrentKeyFrame = None
  /\ mapsLeft = {} /\ pMi = None /\ backup = NoBackup /\ file = NoFile

(***************************************************************************)
(* A session.                                                              *)
(***************************************************************************)
Good == {p \in Points : pointMap[p] # None} \ mbBad
NewPoints == IF ids.point \in Points THEN {{}, {ids.point}} ELSE {{}}  \* at most one at a time

\* MapPoint's constructor with AddObservation, KeyFrame::AddMapPoint and Atlas::AddMapPoint.
CreatePoints(P, S, k) ==
  /\ pointMap' = [p \in Points |-> IF p \in P THEN mpCurrentMap ELSE pointMap[p]]
  /\ mObservations' = [p \in Points |-> IF p \in P THEN S ELSE mObservations[p]]
  /\ mpRefKF' = [p \in Points |-> IF p \in P THEN k ELSE mpRefKF[p]]
  /\ mspMapPoints' = [mspMapPoints EXCEPT ![mpCurrentMap] = @ \cup P]
  /\ UNCHANGED mbBad

\* Map::AddKeyFrame: the first keyframe of a map is its origin.
AddKeyFrame(k, m) ==
  /\ mspKeyFrames' = [mspKeyFrames EXCEPT ![m] = @ \cup {k}]
  /\ mnInitKFid' = [mnInitKFid EXCEPT ![m] = IF mspKeyFrames[m] = {} THEN k ELSE @]

\* Tracking::StereoInitialization: the first keyframe of a map is in the map and in the queue.
StereoInitialization(k, P) ==
  /\ mspKeyFrames[mpCurrentMap] = {} /\ \A j \in Range(mlNewKeyFrames) : mpMap[j] # mpCurrentMap
  /\ AddKeyFrame(k, mpCurrentMap)
  /\ mvpMapPoints' = [mvpMapPoints EXCEPT ![k] = P]

\* Tracking::CreateNewKeyFrame: what the frame has matched (known to keyframes of the current map),
\* and new stereo points, which have the keyframe as observer while it waits in the queue.
CreateNewKeyFrame(k, P) ==
  /\ mspKeyFrames[mpCurrentMap] # {}
  /\ \E M \in SUBSET {p \in Good : \E j \in mObservations[p] : mpMap[j] = mpCurrentMap} :
        mvpMapPoints' = [mvpMapPoints EXCEPT ![k] = M \cup P]
  /\ UNCHANGED <<mspKeyFrames, mnInitKFid>>

TrackKeyFrame ==
  /\ phase = "running" /\ ids.keyframe \in KeyFrames
  /\ \E P \in NewPoints : LET k == ids.keyframe IN
       /\ StereoInitialization(k, P) \/ CreateNewKeyFrame(k, P)
       /\ mpMap' = [mpMap EXCEPT ![k] = mpCurrentMap]
       /\ CreatePoints(P, {k}, k)
       /\ mlNewKeyFrames' = Append(mlNewKeyFrames, k)
       /\ ids' = [ids EXCEPT !.keyframe = @ + 1, !.point = @ + Cardinality(P)]
  /\ UNCHANGED <<phase, sessions, atlasVars, mpCurrentKeyFrame, saveVars>>

\* Tracking::CreateMapInAtlas: a new current map, while the queue may hold keyframes of the old one.
CreateMapInAtlas ==
  /\ phase = "running" /\ ids.map \in Maps /\ mspKeyFrames[mpCurrentMap] # {}
  /\ mpCurrentMap' = ids.map /\ mspMaps' = mspMaps \cup {ids.map}
  /\ ids' = [ids EXCEPT !.map = @ + 1]
  /\ UNCHANGED <<phase, sessions, keyFrameVars, pointVars, threadVars, saveVars>>

\* LocalMapping::ProcessNewKeyFrame.
ProcessNewKeyFrame ==
  /\ phase = "running" /\ mlNewKeyFrames # <<>> /\ mpCurrentKeyFrame = None
  /\ LET k == Head(mlNewKeyFrames) IN
       /\ mpCurrentKeyFrame' = k /\ mlNewKeyFrames' = Tail(mlNewKeyFrames)
       /\ mObservations' = [p \in Points |-> IF p \in mvpMapPoints[k] \ mbBad THEN mObservations[p] \cup {k}
                                                                             ELSE mObservations[p]]
       /\ AddKeyFrame(k, mpMap[k])
  /\ UNCHANGED <<phase, sessions, ids, atlasVars, mpMap, mspMapPoints, mvpMapPoints, pointMap, mbBad, mpRefKF, saveVars>>

\* LocalMapping::CreateNewMapPoints and the fusion of the new point into the neighbours that follows:
\* the observers are keyframes of the keyframe's map, the point goes into the current one.
CreateNewMapPoints ==
  /\ phase = "running" /\ mpCurrentKeyFrame # None
  /\ \E P \in NewPoints \ {{}}, S \in SUBSET mspKeyFrames[mpMap[mpCurrentKeyFrame]] :
       /\ mpCurrentKeyFrame \in S /\ Cardinality(S) >= 2
       /\ CreatePoints(P, S, mpCurrentKeyFrame)
       /\ mvpMapPoints' = [k \in KeyFrames |-> IF k \in S THEN mvpMapPoints[k] \cup P ELSE mvpMapPoints[k]]
  /\ ids' = [ids EXCEPT !.point = @ + 1]
  /\ UNCHANGED <<phase, sessions, atlasVars, keyFrameVars, threadVars, saveVars>>

\* MapPoint::EraseObservation, for one observer in E after the other: with two of nObs or less, which is
\* one observer, the point goes bad and has no observations any more.  The observers left by then:
ObserversLeft(p, E) == LET left == mObservations[p] \ E IN
  IF left = {} /\ Cardinality(mObservations[p]) > 1 THEN {{k} : k \in mObservations[p]} ELSE {left}
GoesBad(p, E) == mObservations[p] \cap E # {} /\ 2 * Cardinality(mObservations[p] \ E) <= 2

ReferenceLeftStale(p, left) == {mpRefKF[p]}  \* mutant: EraseObservation keeps the reference keyframe
\* A new reference keyframe is the first observer left (in an order, of addresses, that is not known).
ReferenceLeft(p, left) == IF mpRefKF[p] \in left \/ mObservations[p] = left THEN {mpRefKF[p]}
                          ELSE IF left = {} THEN {None} ELSE left

\* What EraseObservation, and SetBadFlag of the points that go bad, leave; E[p] is what p loses.
EraseObservations(E) == LET B == {p \in Good : GoesBad(p, E[p])} IN
  \E left \in [Points -> UNION {ObserversLeft(p, E[p]) : p \in Points}] :
    /\ \A p \in Points : left[p] \in ObserversLeft(p, E[p])
    /\ mbBad' = mbBad \cup B
    /\ mObservations' = [p \in Points |-> IF p \in B THEN {} ELSE left[p]]
    /\ \E r \in [Points -> KeyFrames \cup {None}] :
          (\A p \in Points : r[p] \in ReferenceLeft(p, left[p])) /\ mpRefKF' = r
    /\ mvpMapPoints' = [k \in KeyFrames |-> mvpMapPoints[k] \ {p \in B : k \in left[p]}]
    /\ mspMapPoints' = [m \in Maps |-> mspMapPoints[m] \ {p \in B : pointMap[p] = m}]
    /\ UNCHANGED pointMap

\* LocalMapping::KeyFrameCulling: KeyFrame::SetBadFlag of a neighbour that is not the origin of its map.
KeyFrameCulling ==
  /\ phase = "running" /\ mpCurrentKeyFrame # None
  /\ \E k \in mspKeyFrames[mpMap[mpCurrentKeyFrame]] \ {mpCurrentKeyFrame, mnInitKFid[mpMap[mpCurrentKeyFrame]]} :
       /\ mvpMapPoints[k] \cap mvpMapPoints[mpCurrentKeyFrame] # {}
       /\ EraseObservations([p \in Points |-> IF p \in mvpMapPoints[k] THEN {k} ELSE {}])
       /\ mspKeyFrames' = [mspKeyFrames EXCEPT ![mpMap[k]] = @ \ {k}]
  /\ UNCHANGED <<phase, sessions, ids, atlasVars, mnInitKFid, mpMap, threadVars, saveVars>>

EndMapping ==
  /\ phase = "running" /\ mpCurrentKeyFrame # None /\ mpCurrentKeyFrame' = None
  /\ UNCHANGED <<phase, sessions, ids, atlasVars, keyFrameVars, pointVars, mlNewKeyFrames, saveVars>>

MoveToKeepsMap(m, n, K, P) ==  \* mutant: without KeyFrame::UpdateMap
  /\ mspKeyFrames' = [mspKeyFrames EXCEPT ![m] = @ \ K, ![n] = @ \cup K]
  /\ mspMapPoints' = [mspMapPoints EXCEPT ![m] = @ \ P, ![n] = @ \cup P]
  /\ pointMap' = [p \in Points |-> IF p \in P THEN n ELSE pointMap[p]]
  /\ UNCHANGED <<mnInitKFid, mpMap, mvpMapPoints, mbBad, mObservations, mpRefKF>>
\* The keyframes K and the points P leave map m for map n.
MoveTo(m, n, K, P) ==
  /\ mspKeyFrames' = [mspKeyFrames EXCEPT ![m] = @ \ K, ![n] = @ \cup K]
  /\ mpMap' = [k \in KeyFrames |-> IF k \in K THEN n ELSE mpMap[k]]
  /\ mspMapPoints' = [mspMapPoints EXCEPT ![m] = @ \ P, ![n] = @ \cup P]
  /\ pointMap' = [p \in Points |-> IF p \in P THEN n ELSE pointMap[p]]
  /\ UNCHANGED <<mnInitKFid, mvpMapPoints, mbBad, mObservations, mpRefKF>>

\* LoopClosing merges with local mapping stopped and its queue emptied; m is the map of the keyframe it
\* works on, which need not be the current one any more, n that of the keyframe matched.
Mergeable(m, n) ==
  /\ phase = "running" /\ mlNewKeyFrames = <<>> /\ mpCurrentKeyFrame = None
  /\ m # n /\ mspKeyFrames[m] # {} /\ mspKeyFrames[n] # {}

\* MergeLocal: everything goes to n, and with the window the points its keyframes match, wherever they are.
MergeLocal(m, n) ==
  /\ Mergeable(m, n)
  /\ \E W \in SUBSET {p \in Good : mpRefKF[p] \in mspKeyFrames[m] /\ \E k \in mspKeyFrames[m] : p \in mvpMapPoints[k]} :
        MoveTo(m, n, mspKeyFrames[m], (mspMapPoints[m] \cap Good) \cup W)
  /\ mpCurrentMap' = n /\ mspMaps' = mspMaps \ {m}
  /\ UNCHANGED <<phase, sessions, ids, threadVars, saveVars>>

\* MergeLocal2: everything of n goes to m; the emptied map stays in the atlas.
MergeLocal2(m, n) ==
  /\ Inertial /\ Mergeable(m, n)
  /\ MoveTo(n, m, mspKeyFrames[n], {p \in mspMapPoints[n] \cap Good : pointMap[p] = n})
  /\ UNCHANGED <<phase, sessions, ids, atlasVars, threadVars, saveVars>>

Merge == \E m, n \in Maps : MergeLocal(m, n) \/ MergeLocal2(m, n)

(***************************************************************************)
(* The end of a session.                                                   *)
(***************************************************************************)
\* The process ends without saving, or before it has saved.
Crash ==
  /\ phase \in {"running", "observations", "backups", "writing"} /\ phase' = "off"
  /\ UNCHANGED <<sessions, ids, atlasVars, keyFrameVars, pointVars, threadVars, saveVars>>

\* The points that one map holds together with all their observers.
Whole(p) == \E m \in mspMaps : /\ \A n \in mspMaps : p \in mspMapPoints[n] <=> n = m
                               /\ mObservations[p] \subseteq mspKeyFrames[m]

\* System::Shutdown: the threads have ended, each between two keyframes; the queue need not be empty.
\* Atlas::PreSave takes all maps to mvpBackupMaps.
Shutdown ==
  /\ phase = "running" /\ mpCurrentKeyFrame = None
  /\ phase' = "observations" /\ mapsLeft' = mspMaps
  /\ backup' = [NoBackup EXCEPT !.maps = mspMaps, !.init = mnInitKFid, !.undefined = backup.undefined,
                                !.whole = [p \in {q \in Good : Whole(q)} |-> mObservations[p]]]
  /\ UNCHANGED <<sessions, ids, atlasVars, keyFrameVars, pointVars, threadVars, pMi, file>>

\* Atlas::PreSave visits the maps in the order of their ids.  After a merge the map that stays has the id
\* of the one that goes (Map::ChangeId): the model takes any order.
\* A map without keyframes is set bad and passed over; it stays in mvpBackupMaps.
PassEmptyMap(m) ==
  /\ phase = "observations" /\ m \in mapsLeft /\ mspKeyFrames[m] = {}
  /\ mspMaps' = mspMaps \ {m} /\ mapsLeft' = mapsLeft \ {m}
  /\ UNCHANGED <<phase, sessions, ids, mpCurrentMap, keyFrameVars, pointVars, threadVars, pMi, backup, file>>

\* The elements of S a loop visits that erases from S under its iterator at the elements of U.
LoopVisits(S, U) == {V \in SUBSET S : V = S \/ V \cap U # {}}

\* Map::PreSave, first loop: erase the observations by keyframes of other maps.
Foreign(p, m) == {k \in mObservations[p] : mpMap[k] # m}
EraseForeign(m) ==
  /\ phase = "observations" /\ m \in mapsLeft /\ mspKeyFrames[m] # {} /\ phase' = "backups" /\ pMi' = m
  /\ LET erasing == {p \in mspMapPoints[m] \cap Good : pointMap[p] = m /\ GoesBad(p, Foreign(p, m))} IN
       /\ \E V \in LoopVisits(mspMapPoints[m] \cap Good, erasing) :
             EraseObservations([p \in Points |-> IF p \in V THEN Foreign(p, m) ELSE {}])
       /\ backup' = [backup EXCEPT !.undefined = @ \/ erasing # {}]
  /\ UNCHANGED <<sessions, ids, atlasVars, keyFrameVars, threadVars, mapsLeft, file>>

\* MapPoint::PreSave erases, from mObservations while it runs over it, the keyframes that are not in the
\* map yet; then it may miss observations.
Absent(p, m) == mObservations[p] \ mspKeyFrames[m]
SavesObservations(p, m) ==
  IF Absent(p, m) = {} THEN {mObservations[p]} ELSE SUBSET (mObservations[p] \cap mspKeyFrames[m])
Erases(p, m) == IF Absent(p, m) = {} THEN {{}} ELSE SUBSET Absent(p, m) \ {{}}

Erasing(m) == {p \in mspMapPoints[m] \cap Good : Absent(p, m) # {}}

\* KeyFrame::PreSave: the matches that are in the map, by then.
SavedMatches(k, m) == mvpMapPoints'[k] \cap mspMapPoints'[m]

\* The points V and the keyframes of the map, as ids; O and R are what the points save of their
\* observations and reference keyframes.
BackedUp(m, V, O, R) ==
  [backup EXCEPT
     !.undefined = @ \/ Erasing(m) # {},
     !.keyframes[m] = mspKeyFrames[m],
     !.points[m] = V,
     !.observations = [p \in Points |-> IF p \in V THEN O[p] ELSE @[p]],
     !.ref = [p \in Points |-> IF p \in V THEN R[p] ELSE @[p]],
     !.matches = [k \in KeyFrames |-> IF k \in mspKeyFrames[m] THEN SavedMatches(k, m) ELSE @[k]]]

\* Map::PreSave, second and third loop.  A reference keyframe outside the map leaves mBackupRefKFId as it
\* was: anything.
BackUp(m) ==
  /\ phase = "backups" /\ m = pMi /\ phase' = "observations" /\ mapsLeft' = mapsLeft \ {m} /\ pMi' = None
  /\ \E V \in LoopVisits(mspMapPoints[m] \cap Good, Erasing(m)) :
     \E O \in [V -> UNION {SavesObservations(p, m) : p \in V}], E \in [V -> UNION {Erases(p, m) : p \in V}],
        R \in [V -> KeyFrames \cup {None}] :
       /\ \A p \in V : O[p] \in SavesObservations(p, m) /\ E[p] \in Erases(p, m)
       /\ EraseObservations([p \in Points |-> IF p \in V THEN E[p] ELSE {}])
       /\ \A p \in V : mpRefKF'[p] \in mspKeyFrames[m] => R[p] = mpRefKF'[p]
       /\ backup' = BackedUp(m, V, O, R)
  /\ UNCHANGED <<sessions, ids, atlasVars, keyFrameVars, threadVars, file>>

\* System::SaveAtlas removes the old file and then writes the new one.
RemoveFile ==
  /\ phase = "observations" /\ mapsLeft = {} /\ phase' = "writing" /\ file' = NoFile
  /\ UNCHANGED <<sessions, ids, atlasVars, keyFrameVars, pointVars, threadVars, mapsLeft, pMi, backup>>
WriteFile ==
  /\ phase = "writing" /\ phase' = "off"
  /\ file' = [backup |-> backup, bad |-> mbBad, ids |-> ids, written |-> TRUE]
  /\ UNCHANGED <<sessions, ids, atlasVars, keyFrameVars, pointVars, threadVars, mapsLeft, pMi, backup>>

(***************************************************************************)
(* The start of the next session, from the file.                           *)
(***************************************************************************)
LoadedIdsLost == NoFile.ids  \* mutant: Atlas::serialize without the counters
\* Atlas::serialize restores the counters.
LoadedIds == file.ids

LoadedMatchesNull(good, k) ==  \* mutant: what is not found becomes a match
  UNION {{IF p \in good[m] THEN p ELSE None : p \in file.backup.matches[k]} :
         m \in {n \in Maps : k \in file.backup.keyframes[n]}}
\* KeyFrame::PostLoad: the matches that are among the good points of the keyframe's map.
LoadedMatches(good, k) ==
  UNION {file.backup.matches[k] \cap good[m] : m \in {n \in Maps : k \in file.backup.keyframes[n]}}

\* Map::PostLoad: bad points stay in the set of points, but are not among those ids are looked up in.
LoadedPoints == [m \in Maps |-> file.backup.points[m] \ file.bad]

\* MapPoint::PostLoad: the observers and the reference keyframe that are in the point's map.
LoadedObservations(p, m) == file.backup.observations[p] \cap file.backup.keyframes[m]
LoadedReference(p, m) == IF file.backup.ref[p] \in file.backup.keyframes[m] THEN file.backup.ref[p] ELSE None

\* System::LoadAtlas.
LoadAtlas ==
  LET b == file.backup
      good == LoadedPoints
      mapOf(p) == CHOOSE m \in Maps : p \in good[m]
      loaded == UNION Range(good)
  IN
  /\ phase = "off" /\ file.written /\ sessions < MaxSessions
  /\ phase' = "loaded" /\ sessions' = sessions + 1
  /\ mspMaps' = b.maps /\ mpCurrentMap' = None /\ ids' = LoadedIds
  /\ mspKeyFrames' = b.keyframes /\ mspMapPoints' = b.points /\ mnInitKFid' = b.init
  /\ mpMap' = [k \in KeyFrames |-> IF \E m \in Maps : k \in b.keyframes[m]
                                   THEN CHOOSE m \in Maps : k \in b.keyframes[m] ELSE None]
  /\ mvpMapPoints' = [k \in KeyFrames |-> LoadedMatches(good, k)]
  /\ pointMap' = [p \in Points |-> IF p \in loaded THEN mapOf(p) ELSE None]
  /\ mbBad' = file.bad \cap UNION Range(b.points)
  /\ mObservations' = [p \in Points |-> IF p \in loaded THEN LoadedObservations(p, mapOf(p)) ELSE {}]
  /\ mpRefKF' = [p \in Points |-> IF p \in loaded THEN LoadedReference(p, mapOf(p)) ELSE None]
  /\ mlNewKeyFrames' = <<>> /\ mpCurrentKeyFrame' = None /\ mapsLeft' = {} /\ pMi' = None
  /\ backup' = [NoBackup EXCEPT !.undefined = b.undefined]
  /\ UNCHANGED file

\* System's constructor goes on with Atlas::CreateNewMap.
CreateNewMap ==
  /\ phase = "loaded" /\ ids.map \in Maps /\ phase' = "running"
  /\ mpCurrentMap' = ids.map /\ mspMaps' = mspMaps \cup {ids.map} /\ ids' = [ids EXCEPT !.map = @ + 1]
  /\ UNCHANGED <<sessions, keyFrameVars, pointVars, threadVars, saveVars>>

Session == TrackKeyFrame \/ CreateMapInAtlas \/ ProcessNewKeyFrame \/ CreateNewMapPoints
           \/ KeyFrameCulling \/ EndMapping \/ Merge
Save == \/ Shutdown \/ RemoveFile \/ WriteFile
        \/ \E m \in Maps : PassEmptyMap(m) \/ EraseForeign(m) \/ BackUp(m)
Next == Session \/ Crash \/ Save \/ LoadAtlas \/ CreateNewMap
Spec == Init /\ [][Next]_vars

(***************************************************************************)
(* Properties.                                                             *)
(***************************************************************************)
Backups ==
  [maps : SUBSET Maps, keyframes : [Maps -> SUBSET KeyFrames], points : [Maps -> SUBSET Points],
   observations : [Points -> SUBSET KeyFrames], ref : [Points -> KeyFrames \cup {None}],
   matches : [KeyFrames -> SUBSET Points], init : [Maps -> KeyFrames \cup {None}],
   undefined : BOOLEAN, whole : UNION {[S -> SUBSET KeyFrames] : S \in SUBSET Points}]
Ids == [map : 1..(MaxMaps + 1), keyframe : 1..(MaxKeyFrames + 1), point : 1..(MaxPoints + 1)]

\* Every variable keeps to its type.
TypeOK ==
  /\ phase \in {"running", "observations", "backups", "writing", "off", "loaded"} /\ sessions \in Nat
  /\ mspMaps \subseteq Maps /\ mpCurrentMap \in Maps \cup {None} /\ ids \in Ids
  /\ mspKeyFrames \in [Maps -> SUBSET KeyFrames] /\ mspMapPoints \in [Maps -> SUBSET Points]
  /\ mnInitKFid \in [Maps -> KeyFrames \cup {None}]
  /\ mpMap \in [KeyFrames -> Maps \cup {None}] /\ mvpMapPoints \in [KeyFrames -> SUBSET Points]
  /\ pointMap \in [Points -> Maps \cup {None}] /\ mbBad \subseteq Points
  /\ mObservations \in [Points -> SUBSET KeyFrames] /\ mpRefKF \in [Points -> KeyFrames \cup {None}]
  /\ mlNewKeyFrames \in Seq(KeyFrames) /\ mpCurrentKeyFrame \in KeyFrames \cup {None}
  /\ mapsLeft \subseteq Maps /\ pMi \in Maps \cup {None} /\ backup \in Backups
  /\ file \in [backup : Backups, bad : SUBSET Points, ids : Ids, written : BOOLEAN]

\* A loaded atlas, and one in use, has no object whose id the next object of its kind will get
\* (Atlas::serialize with the counters; the queue, which is not saved, has used up ids too).
IdsAreFresh ==
  /\ \A k \in KeyFrames : (mpMap[k] # None \/ \E p \in Points : k \in mObservations[p]) => k < ids.keyframe
  /\ \A p \in Points : (pointMap[p] # None \/ \E m \in Maps : p \in mspMapPoints[m]) => p < ids.point
  /\ \A m \in mspMaps : m < ids.map

\* Unless PreSave went wrong, what is loaded fits together: keyframe and point know each other, within
\* one map, and the reference keyframe of a point observes it.
LoadedFitsTogether ==
  phase = "loaded" /\ ~file.backup.undefined =>
    /\ \A p \in Good : mpRefKF[p] \in mObservations[p] /\ mObservations[p] \subseteq mspKeyFrames[pointMap[p]]
    /\ \A p \in Points, k \in KeyFrames : k \in mObservations[p] <=> p \in mvpMapPoints[k]

\* Unless PreSave went wrong, a point that one map held with all its observers when the session was shut
\* down is there again in the next session, in a map with all these observers.
WholePointsReturn ==
  phase = "loaded" /\ ~file.backup.undefined =>
    \A p \in DOMAIN file.backup.whole : p \in Good /\ mObservations[p] = file.backup.whole[p]

\* Atlas.cc:326 says of a map without keyframes: "Empty map, erase before of save it".
EmptyMapsErased == \A m \in file.backup.maps : file.backup.keyframes[m] # {}
=============================================================================

-------------------------- MODULE AtlasFile_proofs --------------------------
(***************************************************************************)
(* Proofs about AtlasFile: the ids of what is loaded are below the         *)
(* counters, and, unless PreSave went wrong, what is loaded fits together  *)
(* and a point that a map held whole when the session was shut down is     *)
(* whole again in the next one.                                            *)
(***************************************************************************)
EXTENDS AtlasFile, TLAPS, FiniteSetTheorems

(***************************************************************************)
(* Fresh ids.                                                              *)
(***************************************************************************)
Below(n) == 1..(n - 1)

\* What memory holds has ids below the counters: keyframes by their map, in a map, in an observation and
\* in the queue, points by their map and in a map, and maps.
MemoryIsFresh ==
  /\ \A k \in KeyFrames : mpMap[k] # None => k < ids.keyframe
  /\ \A m \in Maps : mspKeyFrames[m] \subseteq Below(ids.keyframe)
  /\ \A p \in Points : mObservations[p] \subseteq Below(ids.keyframe)
  /\ \A i \in 1..Len(mlNewKeyFrames) : mlNewKeyFrames[i] < ids.keyframe
  /\ \A p \in Points : pointMap[p] # None => p < ids.point
  /\ \A m \in Maps : mspMapPoints[m] \subseteq Below(ids.point)
  /\ mspMaps \subseteq Below(ids.map)

\* So has a backup, beside the counters saved with it.
SavedIsFresh(b, i) ==
  /\ \A m \in Maps : b.keyframes[m] \subseteq Below(i.keyframe) /\ b.points[m] \subseteq Below(i.point)
  /\ \A p \in Points : b.observations[p] \subseteq Below(i.keyframe)
  /\ b.maps \subseteq Below(i.map)

\* Local mapping works on, and has in its queue, keyframes of some map.
KeyFramesBelong ==
  /\ phase = "running" => mpCurrentMap \in Maps
  /\ mpCurrentKeyFrame # None => mpMap[mpCurrentKeyFrame] \in Maps
  /\ \A i \in 1..Len(mlNewKeyFrames) : mpMap[mlNewKeyFrames[i]] \in Maps

FreshInv == /\ TypeOK /\ MemoryIsFresh /\ KeyFramesBelong
            /\ SavedIsFresh(backup, ids) /\ SavedIsFresh(file.backup, file.ids)


LEMMA InitFresh == Init => FreshInv
<1> SUFFICES ASSUME Init PROVE FreshInv
  OBVIOUS
<1> USE AtlasFileAssumption
<1>1. NoBackup \in Backups
  <2>1. NoBackup.whole \in [{} -> SUBSET KeyFrames]
    BY DEF NoBackup
  <2> QED
    BY <2>1 DEF NoBackup, Backups, KeyFrames, Points, Maps, None
<1>2. /\ ids \in Ids /\ NoFile.ids \in Ids
  BY DEF Init, Ids, NoFile
<1>3. TypeOK
  BY <1>1, <1>2 DEF Init, TypeOK, NoFile, KeyFrames, Points, Maps, None
<1>4. MemoryIsFresh
  BY DEF Init, MemoryIsFresh, Below, KeyFrames, Points, Maps, None
<1>5. SavedIsFresh(backup, ids) /\ SavedIsFresh(file.backup, file.ids)
  BY DEF Init, SavedIsFresh, NoFile, NoBackup, Below, Points, Maps, KeyFrames
<1>6. KeyFramesBelong
  BY DEF Init, KeyFramesBelong, Maps
<1> QED
  BY <1>3, <1>4, <1>5, <1>6 DEF FreshInv

\* What EraseObservations leaves of types and of what there was.
LEMMA EraseLeaves ==
  ASSUME TypeOK, NEW E \in [Points -> SUBSET KeyFrames], EraseObservations(E)
  PROVE  /\ mspMapPoints' \in [Maps -> SUBSET Points] /\ mvpMapPoints' \in [KeyFrames -> SUBSET Points]
         /\ pointMap' = pointMap /\ mbBad' \subseteq Points
         /\ mObservations' \in [Points -> SUBSET KeyFrames] /\ mpRefKF' \in [Points -> KeyFrames \cup {None}]
         /\ mbBad' = mbBad \cup {p \in Good : GoesBad(p, E[p])}
         /\ \A p \in Points : mObservations'[p] \subseteq mObservations[p]
         /\ \A m \in Maps : mspMapPoints'[m] \subseteq mspMapPoints[m]
<1> DEFINE B == {p \in Good : GoesBad(p, E[p])}
<1>1. PICK left \in [Points -> UNION {ObserversLeft(p, E[p]) : p \in Points}] :
        /\ \A p \in Points : left[p] \in ObserversLeft(p, E[p])
        /\ mbBad' = mbBad \cup B
        /\ mObservations' = [p \in Points |-> IF p \in B THEN {} ELSE left[p]]
        /\ mpRefKF' \in [Points -> KeyFrames \cup {None}]
        /\ mvpMapPoints' = [k \in KeyFrames |-> mvpMapPoints[k] \ {p \in B : k \in left[p]}]
        /\ mspMapPoints' = [m \in Maps |-> mspMapPoints[m] \ {p \in B : pointMap[p] = m}]
        /\ UNCHANGED pointMap
  BY DEF EraseObservations
<1>2. \A p \in Points : left[p] \subseteq mObservations[p]
  BY <1>1 DEF ObserversLeft
<1>3. mObservations \in [Points -> SUBSET KeyFrames] /\ mbBad \subseteq Points
      /\ mspMapPoints \in [Maps -> SUBSET Points] /\ mvpMapPoints \in [KeyFrames -> SUBSET Points]
  BY DEF TypeOK
<1>4. B \subseteq Points
  BY DEF Good
<1>5. \A p \in Points : mObservations'[p] \subseteq mObservations[p]
  BY <1>1, <1>2
<1>6. mObservations' \in [Points -> SUBSET KeyFrames]
  BY <1>1, <1>2, <1>3
<1> HIDE DEF B
<1>7. /\ \A m \in Maps : mspMapPoints'[m] \subseteq mspMapPoints[m]
      /\ mspMapPoints' \in [Maps -> SUBSET Points] /\ mvpMapPoints' \in [KeyFrames -> SUBSET Points]
  BY <1>1, <1>3
<1> QED
  BY <1>1, <1>3, <1>4, <1>5, <1>6, <1>7 DEF B

LEMMA NewPointsAre ==
  ASSUME TypeOK, NEW P \in NewPoints
  PROVE  /\ P \subseteq Points /\ \A p \in P : p = ids.point
         /\ ids.point + Cardinality(P) \in 1..(MaxPoints + 1)
         /\ Cardinality(P) \in Nat /\ \A p \in P : p < ids.point + Cardinality(P)
<1>1. ids.point \in 1..(MaxPoints + 1) /\ MaxPoints \in Nat
  BY AtlasFileAssumption DEF TypeOK, Ids
<1>2. CASE P = {}
  BY <1>1, <1>2, FS_EmptySet
<1>3. CASE P = {ids.point} /\ ids.point \in Points
  <2>1. Cardinality(P) = 1
    BY <1>3, FS_Singleton
  <2> QED
    BY <1>1, <1>3, <2>1 DEF Points
<1> QED
  BY <1>2, <1>3 DEF NewPoints

LEMMA TrackKeyFrameFresh == FreshInv /\ TrackKeyFrame => FreshInv'
<1> SUFFICES ASSUME FreshInv, TrackKeyFrame PROVE FreshInv'
  OBVIOUS
<1>1. TypeOK /\ MemoryIsFresh
  BY DEF FreshInv
<1> DEFINE k == ids.keyframe
<1>2. PICK P \in NewPoints :
        /\ StereoInitialization(k, P) \/ CreateNewKeyFrame(k, P)
        /\ mpMap' = [mpMap EXCEPT ![k] = mpCurrentMap]
        /\ CreatePoints(P, {k}, k)
        /\ mlNewKeyFrames' = Append(mlNewKeyFrames, k)
        /\ ids' = [ids EXCEPT !.keyframe = @ + 1, !.point = @ + Cardinality(P)]
  BY DEF TrackKeyFrame
<1>3. k \in KeyFrames /\ ids \in Ids /\ MaxKeyFrames \in Nat /\ MaxPoints \in Nat
  BY <1>1, AtlasFileAssumption DEF TrackKeyFrame, TypeOK
<1>4. /\ P \subseteq Points /\ \A p \in P : p = ids.point
      /\ ids.point + Cardinality(P) \in 1..(MaxPoints + 1)
      /\ Cardinality(P) \in Nat /\ \A p \in P : p < ids.point + Cardinality(P)
  BY <1>1, NewPointsAre
<1>5. /\ ids'.keyframe = k + 1 /\ ids'.point = ids.point + Cardinality(P) /\ ids'.map = ids.map
      /\ ids' \in Ids /\ ids'.point >= ids.point
  <2>1. ids' = [map |-> ids.map, keyframe |-> k + 1, point |-> ids.point + Cardinality(P)]
    BY <1>2, <1>3 DEF Ids
  <2>2. ids.point \in Nat /\ ids.map \in 1..(MaxMaps + 1) /\ k + 1 \in 1..(MaxKeyFrames + 1)
    BY <1>3 DEF Ids, KeyFrames
  <2> QED
    BY <1>4, <2>1, <2>2 DEF Ids
<1>6. /\ mspKeyFrames' \in [Maps -> SUBSET KeyFrames] /\ mnInitKFid' \in [Maps -> KeyFrames \cup {None}]
      /\ \A m \in Maps : mspKeyFrames'[m] \subseteq mspKeyFrames[m] \cup {k}
      /\ mvpMapPoints' \in [KeyFrames -> SUBSET Points]
  <2>1. CASE StereoInitialization(k, P)
    BY <1>1, <1>3, <1>4, <2>1 DEF StereoInitialization, AddKeyFrame, TypeOK
  <2>2. CASE CreateNewKeyFrame(k, P)
    BY <1>1, <1>3, <1>4, <2>2 DEF CreateNewKeyFrame, TypeOK, Good
  <2> QED
    BY <1>2, <2>1, <2>2
<1>7. /\ mpMap' \in [KeyFrames -> Maps \cup {None}]
      /\ \A j \in KeyFrames : j # k => mpMap'[j] = mpMap[j]
      /\ mlNewKeyFrames' \in Seq(KeyFrames)
      /\ \A i \in 1..Len(mlNewKeyFrames') : mlNewKeyFrames'[i] = k \/ (i \in 1..Len(mlNewKeyFrames) /\ mlNewKeyFrames'[i] = mlNewKeyFrames[i])
  BY <1>1, <1>2, <1>3 DEF TypeOK
<1>8. /\ mspMapPoints' \in [Maps -> SUBSET Points] /\ pointMap' \in [Points -> Maps \cup {None}]
      /\ mbBad' \subseteq Points /\ mObservations' \in [Points -> SUBSET KeyFrames]
      /\ mpRefKF' \in [Points -> KeyFrames \cup {None}]
      /\ \A p \in Points : mObservations'[p] \subseteq mObservations[p] \cup {k}
      /\ \A p \in Points : p \in P \/ pointMap'[p] = pointMap[p]
      /\ \A m \in Maps : mspMapPoints'[m] \subseteq mspMapPoints[m] \cup P
  BY <1>1, <1>2, <1>3, <1>4 DEF CreatePoints, TypeOK
<1>9. TypeOK'
  BY <1>1, <1>5, <1>6, <1>7, <1>8 DEF TrackKeyFrame, TypeOK, atlasVars, saveVars
<1>10. k \in Nat /\ KeyFrames \subseteq Nat /\ Points \subseteq Nat /\ ids.point \in Nat /\ ids.map \in Nat
  BY <1>3 DEF KeyFrames, Points, Ids
<1> HIDE DEF k
<1>11. MemoryIsFresh'
  <2>1. \A j \in KeyFrames : mpMap'[j] # None => j < ids'.keyframe
    BY <1>1, <1>5, <1>7, <1>10 DEF MemoryIsFresh, k
  <2>2. /\ \A m \in Maps : mspKeyFrames'[m] \subseteq Below(ids'.keyframe)
        /\ \A p \in Points : mObservations'[p] \subseteq Below(ids'.keyframe)
    <3>1. Below(ids.keyframe) \cup {k} \subseteq Below(ids'.keyframe)
      BY <1>3, <1>5, <1>10 DEF Below, k, KeyFrames
    <3> QED
      BY <1>1, <1>6, <1>8, <3>1 DEF MemoryIsFresh
  <2>3. \A i \in 1..Len(mlNewKeyFrames') : mlNewKeyFrames'[i] < ids'.keyframe
    <3>1. \A i \in 1..Len(mlNewKeyFrames) : mlNewKeyFrames[i] \in KeyFrames
      BY <1>1 DEF TypeOK
    <3>2. \A i \in 1..Len(mlNewKeyFrames) : mlNewKeyFrames[i] < k
      BY <1>1 DEF MemoryIsFresh, k
    <3>3. \A j \in KeyFrames : j < k => j < k + 1
      BY <1>10
    <3>4. k < k + 1 /\ ids'.keyframe = k + 1
      BY <1>5, <1>10 DEF k
    <3> QED
      BY <1>7, <3>1, <3>2, <3>3, <3>4
  <2>4. \A p \in Points : pointMap'[p] # None => p < ids'.point
    BY <1>1, <1>4, <1>5, <1>8, <1>10 DEF MemoryIsFresh
  <2>5. \A m \in Maps : mspMapPoints'[m] \subseteq Below(ids'.point)
    <3>1. Below(ids.point) \cup P \subseteq Below(ids'.point)
      <4>1. ids'.point \in Nat /\ \A p \in P : p \in Nat /\ p >= 1 /\ p < ids'.point
        BY <1>3, <1>4, <1>5, <1>10 DEF Points
      <4> QED
        BY <1>5, <1>10, <4>1 DEF Below
    <3> QED
      BY <1>1, <1>8, <3>1 DEF MemoryIsFresh
  <2>6. (mspMaps \subseteq Below(ids.map))'
    BY <1>1, <1>5 DEF MemoryIsFresh, TrackKeyFrame, atlasVars
  <2> QED
    BY <2>1, <2>2, <2>3, <2>4, <2>5, <2>6 DEF MemoryIsFresh
<1>12. SavedIsFresh(backup, ids)' /\ SavedIsFresh(file.backup, file.ids)'
  <2>1. SavedIsFresh(backup, ids) /\ SavedIsFresh(file.backup, file.ids) /\ UNCHANGED <<backup, file>>
    BY DEF FreshInv, TrackKeyFrame, saveVars
  <2>2. Below(ids.keyframe) \subseteq Below(ids'.keyframe) /\ Below(ids.point) \subseteq Below(ids'.point)
    BY <1>5, <1>10, <1>4 DEF Below, k
  <2> QED
    BY <1>5, <2>1, <2>2 DEF SavedIsFresh
<1>13. KeyFramesBelong'
  <2>1. KeyFramesBelong /\ phase = "running" /\ UNCHANGED <<phase, mpCurrentMap, mpCurrentKeyFrame>>
    BY DEF FreshInv, TrackKeyFrame, atlasVars
  <2>2. mpCurrentMap \in Maps /\ mpMap'[k] = mpCurrentMap
    BY <1>1, <1>2, <1>3, <2>1 DEF KeyFramesBelong, TypeOK, k
  <2>3. \A j \in KeyFrames : mpMap[j] \in Maps => mpMap'[j] \in Maps
    BY <1>7, <2>2
  <2>4. \A i \in 1..Len(mlNewKeyFrames) : mlNewKeyFrames[i] \in KeyFrames
    BY <1>1 DEF TypeOK
  <2>5. \A i \in 1..Len(mlNewKeyFrames') : mpMap'[mlNewKeyFrames'[i]] \in Maps
    BY <1>7, <2>1, <2>2, <2>3, <2>4 DEF KeyFramesBelong
  <2>6. mpCurrentKeyFrame # None => mpMap'[mpCurrentKeyFrame] \in Maps
    BY <1>1, <2>1, <2>3 DEF KeyFramesBelong, TypeOK
  <2> QED
    BY <2>1, <2>2, <2>5, <2>6 DEF KeyFramesBelong
<1> QED
  BY <1>9, <1>11, <1>12, <1>13 DEF FreshInv

LEMMA CreateMapInAtlasFresh == FreshInv /\ CreateMapInAtlas => FreshInv'
<1> SUFFICES ASSUME FreshInv, CreateMapInAtlas PROVE FreshInv'
  OBVIOUS
<1>1. TypeOK /\ MemoryIsFresh /\ MaxMaps \in Nat
  BY AtlasFileAssumption DEF FreshInv
<1>2. /\ ids' = [map |-> ids.map + 1, keyframe |-> ids.keyframe, point |-> ids.point]
      /\ ids.map \in Maps /\ ids \in Ids
  BY <1>1 DEF CreateMapInAtlas, TypeOK, Ids
<1>3. ids' \in Ids
  BY <1>1, <1>2 DEF Ids, Maps
<1>4. TypeOK'
  BY <1>1, <1>2, <1>3
  DEF CreateMapInAtlas, TypeOK, keyFrameVars, pointVars, threadVars, saveVars
<1>5. Below(ids.map) \cup {ids.map} \subseteq Below(ids'.map)
  BY <1>2 DEF Below, Maps
<1>6. MemoryIsFresh'
  BY <1>1, <1>2, <1>5 DEF CreateMapInAtlas, MemoryIsFresh, keyFrameVars, pointVars, threadVars
<1>7. SavedIsFresh(backup, ids)' /\ SavedIsFresh(file.backup, file.ids)'
  BY <1>2, <1>5 DEF CreateMapInAtlas, FreshInv, SavedIsFresh, saveVars
<1>8. KeyFramesBelong'
  BY <1>2 DEF CreateMapInAtlas, FreshInv, KeyFramesBelong, keyFrameVars, threadVars
<1> QED
  BY <1>4, <1>6, <1>7, <1>8 DEF FreshInv

LEMMA ProcessNewKeyFrameFresh == FreshInv /\ ProcessNewKeyFrame => FreshInv'
<1> SUFFICES ASSUME FreshInv, ProcessNewKeyFrame PROVE FreshInv'
  OBVIOUS
<1>1. TypeOK /\ MemoryIsFresh /\ ids \in Ids
  BY DEF FreshInv, TypeOK
<1> DEFINE k == Head(mlNewKeyFrames)
<1>2. /\ k \in KeyFrames /\ k < ids.keyframe /\ mpMap[k] \in Maps /\ mlNewKeyFrames' \in Seq(KeyFrames)
      /\ \A i \in 1..Len(mlNewKeyFrames') : mlNewKeyFrames'[i] < ids.keyframe /\ mpMap[mlNewKeyFrames'[i]] \in Maps
  <2>1. mlNewKeyFrames \in Seq(KeyFrames) /\ mlNewKeyFrames # <<>> /\ mlNewKeyFrames' = Tail(mlNewKeyFrames)
    BY <1>1 DEF ProcessNewKeyFrame, TypeOK
  <2>2. k = mlNewKeyFrames[1] /\ 1 \in 1..Len(mlNewKeyFrames)
    BY <2>1
  <2>3. \A i \in 1..Len(mlNewKeyFrames') : /\ mlNewKeyFrames'[i] = mlNewKeyFrames[i + 1]
                                           /\ i + 1 \in 1..Len(mlNewKeyFrames)
    BY <2>1
  <2> QED
    BY <1>1, <2>1, <2>2, <2>3 DEF MemoryIsFresh, FreshInv, KeyFramesBelong
<1>3. k \in Below(ids.keyframe)
  BY <1>1, <1>2 DEF Below, KeyFrames, Ids
<1>4. /\ mObservations' \in [Points -> SUBSET KeyFrames] /\ mpCurrentKeyFrame' \in KeyFrames
      /\ \A p \in Points : mObservations'[p] \subseteq mObservations[p] \cup {k}
  BY <1>1, <1>2 DEF ProcessNewKeyFrame, TypeOK
<1>5. /\ mspKeyFrames' \in [Maps -> SUBSET KeyFrames] /\ mnInitKFid' \in [Maps -> KeyFrames \cup {None}]
      /\ \A m \in Maps : mspKeyFrames'[m] \subseteq mspKeyFrames[m] \cup {k}
  BY <1>1, <1>2 DEF ProcessNewKeyFrame, AddKeyFrame, TypeOK
<1>6. TypeOK'
  BY <1>1, <1>2, <1>4, <1>5 DEF ProcessNewKeyFrame, TypeOK, atlasVars, saveVars
<1>7. MemoryIsFresh'
  BY <1>1, <1>2, <1>3, <1>4, <1>5 DEF ProcessNewKeyFrame, MemoryIsFresh, atlasVars
<1>8. SavedIsFresh(backup, ids)' /\ SavedIsFresh(file.backup, file.ids)'
  BY DEF ProcessNewKeyFrame, FreshInv, SavedIsFresh, saveVars
<1>9. KeyFramesBelong'
  BY <1>2 DEF ProcessNewKeyFrame, FreshInv, KeyFramesBelong, atlasVars
<1> QED
  BY <1>6, <1>7, <1>8, <1>9 DEF FreshInv

LEMMA CreateNewMapPointsFresh == FreshInv /\ CreateNewMapPoints => FreshInv'
<1> SUFFICES ASSUME FreshInv, CreateNewMapPoints PROVE FreshInv'
  OBVIOUS
<1>1. TypeOK /\ MemoryIsFresh /\ ids \in Ids /\ MaxPoints \in Nat
  BY AtlasFileAssumption DEF FreshInv, TypeOK
<1>2. PICK P \in NewPoints \ {{}}, S \in SUBSET mspKeyFrames[mpMap[mpCurrentKeyFrame]] :
        /\ mpCurrentKeyFrame \in S /\ Cardinality(S) >= 2
        /\ CreatePoints(P, S, mpCurrentKeyFrame)
        /\ mvpMapPoints' = [k \in KeyFrames |-> IF k \in S THEN mvpMapPoints[k] \cup P ELSE mvpMapPoints[k]]
  BY DEF CreateNewMapPoints
<1>3. P = {ids.point} /\ ids.point \in Points
  BY <1>2 DEF NewPoints
<1>4. S \subseteq KeyFrames /\ S \subseteq Below(ids.keyframe) /\ mpCurrentMap \in Maps
  <2>1. mpMap[mpCurrentKeyFrame] \in Maps /\ mpCurrentMap \in Maps
    BY DEF CreateNewMapPoints, FreshInv, KeyFramesBelong
  <2> QED
    BY <1>1, <1>2, <2>1 DEF TypeOK, MemoryIsFresh
<1>5. /\ ids' = [map |-> ids.map, keyframe |-> ids.keyframe, point |-> ids.point + 1] /\ ids' \in Ids
  <2>1. ids' = [map |-> ids.map, keyframe |-> ids.keyframe, point |-> ids.point + 1]
    BY <1>1 DEF CreateNewMapPoints, Ids
  <2> QED
    BY <1>1, <1>3, <2>1 DEF Ids, Points
<1>6. /\ mspMapPoints' \in [Maps -> SUBSET Points] /\ pointMap' \in [Points -> Maps \cup {None}]
      /\ mObservations' \in [Points -> SUBSET KeyFrames] /\ mpRefKF' \in [Points -> KeyFrames \cup {None}]
      /\ mvpMapPoints' \in [KeyFrames -> SUBSET Points] /\ mbBad' = mbBad
      /\ \A p \in Points : mObservations'[p] \subseteq mObservations[p] \cup S
      /\ \A p \in Points : p = ids.point \/ pointMap'[p] = pointMap[p]
      /\ \A m \in Maps : mspMapPoints'[m] \subseteq mspMapPoints[m] \cup {ids.point}
  BY <1>1, <1>2, <1>3, <1>4 DEF CreatePoints, TypeOK
<1>7. TypeOK'
  BY <1>1, <1>5, <1>6 DEF CreateNewMapPoints, TypeOK, atlasVars, keyFrameVars, threadVars, saveVars
<1>8. ids.point < ids'.point /\ Below(ids.point) \cup {ids.point} \subseteq Below(ids'.point)
  BY <1>1, <1>3, <1>5 DEF Below, Points
<1>9. MemoryIsFresh'
  <2>1. \A p \in Points : pointMap'[p] # None => p < ids'.point
    BY <1>1, <1>3, <1>5, <1>6, <1>8 DEF MemoryIsFresh, Points
  <2> QED
    BY <1>1, <1>4, <1>5, <1>6, <1>8, <2>1
    DEF CreateNewMapPoints, MemoryIsFresh, atlasVars, keyFrameVars, threadVars
<1>10. SavedIsFresh(backup, ids)' /\ SavedIsFresh(file.backup, file.ids)'
  BY <1>5, <1>8 DEF CreateNewMapPoints, FreshInv, SavedIsFresh, saveVars
<1>11. KeyFramesBelong'
  BY DEF CreateNewMapPoints, FreshInv, KeyFramesBelong, atlasVars, keyFrameVars, threadVars
<1> QED
  BY <1>7, <1>9, <1>10, <1>11 DEF FreshInv

LEMMA KeyFrameCullingFresh == FreshInv /\ KeyFrameCulling => FreshInv'
<1> SUFFICES ASSUME FreshInv, KeyFrameCulling PROVE FreshInv'
  OBVIOUS
<1>1. TypeOK /\ MemoryIsFresh
  BY DEF FreshInv
<1>2. PICK k \in mspKeyFrames[mpMap[mpCurrentKeyFrame]] :
        /\ EraseObservations([p \in Points |-> IF p \in mvpMapPoints[k] THEN {k} ELSE {}])
        /\ mspKeyFrames' = [mspKeyFrames EXCEPT ![mpMap[k]] = @ \ {k}]
  BY DEF KeyFrameCulling
<1>3. k \in KeyFrames
  <2>1. mpMap[mpCurrentKeyFrame] \in Maps
    BY DEF KeyFrameCulling, FreshInv, KeyFramesBelong
  <2> QED
    BY <1>1, <1>2, <2>1 DEF TypeOK
<1>4. [p \in Points |-> IF p \in mvpMapPoints[k] THEN {k} ELSE {}] \in [Points -> SUBSET KeyFrames]
  BY <1>3
<1>5. /\ mspKeyFrames' \in [Maps -> SUBSET KeyFrames]
      /\ \A m \in Maps : mspKeyFrames'[m] \subseteq mspKeyFrames[m]
  BY <1>1, <1>2 DEF TypeOK
<1>6. TypeOK'
  BY <1>1, <1>2, <1>4, <1>5, EraseLeaves DEF KeyFrameCulling, TypeOK, atlasVars, threadVars, saveVars
<1>7. MemoryIsFresh'
  BY <1>1, <1>2, <1>4, <1>5, EraseLeaves DEF KeyFrameCulling, MemoryIsFresh, atlasVars, threadVars
<1>8. SavedIsFresh(backup, ids)' /\ SavedIsFresh(file.backup, file.ids)' /\ KeyFramesBelong'
  BY DEF KeyFrameCulling, FreshInv, SavedIsFresh, KeyFramesBelong, saveVars, atlasVars, threadVars
<1> QED
  BY <1>6, <1>7, <1>8 DEF FreshInv

LEMMA MergeFresh == FreshInv /\ Merge => FreshInv'
<1> SUFFICES ASSUME FreshInv, NEW m \in Maps, NEW n \in Maps, MergeLocal(m, n) \/ MergeLocal2(m, n)
    PROVE  FreshInv'
  BY DEF Merge
<1>1. TypeOK /\ MemoryIsFresh
  BY DEF FreshInv
<1>2. PICK a \in Maps, b \in Maps, K \in SUBSET KeyFrames, P \in SUBSET Good :
        MoveTo(a, b, K, P) /\ K \subseteq mspKeyFrames[a]
  <2>1. CASE MergeLocal(m, n)
    <3>1. PICK W \in SUBSET Good : MoveTo(m, n, mspKeyFrames[m], (mspMapPoints[m] \cap Good) \cup W)
      BY <2>1 DEF MergeLocal
    <3>2. mspKeyFrames[m] \in SUBSET KeyFrames
      BY <1>1 DEF TypeOK
    <3> QED
      BY <3>1, <3>2
  <2>2. CASE MergeLocal2(m, n)
    <3>1. MoveTo(n, m, mspKeyFrames[n], {p \in mspMapPoints[n] \cap Good : pointMap[p] = n})
      BY <2>2 DEF MergeLocal2
    <3>2. mspKeyFrames[n] \in SUBSET KeyFrames
      BY <1>1 DEF TypeOK
    <3> QED
      BY <3>1, <3>2
  <2> QED
    BY <2>1, <2>2
<1>3. /\ mspKeyFrames' \in [Maps -> SUBSET KeyFrames] /\ mpMap' \in [KeyFrames -> Maps \cup {None}]
      /\ mspMapPoints' \in [Maps -> SUBSET Points] /\ pointMap' \in [Points -> Maps \cup {None}]
      /\ \A j \in KeyFrames : j \in K \/ mpMap'[j] = mpMap[j]
      /\ \A j \in KeyFrames : mpMap[j] \in Maps => mpMap'[j] \in Maps
      /\ \A i \in Maps : mspKeyFrames'[i] \subseteq mspKeyFrames[i] \cup K
      /\ \A p \in Points : p \in P \/ pointMap'[p] = pointMap[p]
      /\ \A i \in Maps : mspMapPoints'[i] \subseteq mspMapPoints[i] \cup P
  BY <1>1, <1>2 DEF MoveTo, TypeOK, Good
<1>4. /\ K \subseteq Below(ids.keyframe) /\ \A j \in K : j < ids.keyframe
      /\ P \subseteq Below(ids.point) /\ \A p \in P : p < ids.point
  <2>1. ids.point \in Nat /\ Points \subseteq Nat \ {0} /\ ids.keyframe \in Nat
    BY <1>1 DEF TypeOK, Ids, Points
  <2>2. \A p \in P : p \in Points /\ p < ids.point
    BY <1>1 DEF Good, MemoryIsFresh
  <2>3. K \subseteq Below(ids.keyframe)
    BY <1>1, <1>2 DEF MemoryIsFresh
  <2>4. \A p \in P : p \in Nat /\ p >= 1 /\ p <= ids.point - 1
    <3> SUFFICES ASSUME NEW p \in P PROVE p \in Nat /\ p >= 1 /\ p <= ids.point - 1
      OBVIOUS
    <3>1. p \in Nat \ {0} /\ p < ids.point
      BY <2>1, <2>2
    <3> QED
      BY <2>1, <3>1
  <2>5. P \subseteq Below(ids.point)
    BY <2>1, <2>4 DEF Below
  <2>6. \A j \in K : j < ids.keyframe
    BY <2>1, <2>3 DEF Below
  <2> QED
    BY <2>2, <2>3, <2>5, <2>6
<1>5. /\ mspMaps' \subseteq mspMaps /\ mpCurrentMap' \in Maps /\ UNCHANGED <<ids, threadVars, saveVars, phase, sessions>>
      /\ UNCHANGED <<mnInitKFid, mvpMapPoints, mbBad, mObservations, mpRefKF>>
  <2>1. UNCHANGED <<mnInitKFid, mvpMapPoints, mbBad, mObservations, mpRefKF>>
    BY <1>2 DEF MoveTo
  <2>2. CASE MergeLocal(m, n)
    BY <2>1, <2>2 DEF MergeLocal
  <2>3. CASE MergeLocal2(m, n)
    BY <2>1, <2>3 DEF MergeLocal2, Mergeable, atlasVars, FreshInv, KeyFramesBelong
  <2> QED
    BY <2>2, <2>3
<1>6. TypeOK'
  BY <1>1, <1>3, <1>5 DEF TypeOK, threadVars, saveVars
<1>7. MemoryIsFresh'
  BY <1>1, <1>3, <1>4, <1>5 DEF MemoryIsFresh, threadVars
<1>8. SavedIsFresh(backup, ids)' /\ SavedIsFresh(file.backup, file.ids)'
  BY <1>5 DEF FreshInv, SavedIsFresh, saveVars
<1>9. KeyFramesBelong'
  <2>1. \A i \in 1..Len(mlNewKeyFrames) : mlNewKeyFrames[i] \in KeyFrames
    BY <1>1 DEF TypeOK
  <2> QED
    BY <1>1, <1>3, <1>5, <2>1 DEF FreshInv, KeyFramesBelong, TypeOK, threadVars
<1> QED
  BY <1>6, <1>7, <1>8, <1>9 DEF FreshInv

\* A point of which nothing is erased stays as it is.
LEMMA Untouched ==
  ASSUME TypeOK, NEW E \in [Points -> SUBSET KeyFrames], EraseObservations(E),
         NEW p \in Good, E[p] \cap mObservations[p] = {}
  PROVE  /\ p \in Good' /\ mObservations'[p] = mObservations[p]
         /\ \A m \in Maps : p \in mspMapPoints'[m] <=> p \in mspMapPoints[m]
<1> DEFINE B == {q \in Good : GoesBad(q, E[q])}
<1>1. PICK left \in [Points -> UNION {ObserversLeft(q, E[q]) : q \in Points}] :
        /\ \A q \in Points : left[q] \in ObserversLeft(q, E[q])
        /\ mbBad' = mbBad \cup B
        /\ mObservations' = [q \in Points |-> IF q \in B THEN {} ELSE left[q]]
        /\ mspMapPoints' = [m \in Maps |-> mspMapPoints[m] \ {q \in B : pointMap[q] = m}]
        /\ UNCHANGED pointMap
  BY DEF EraseObservations
<1>2. p \in Points /\ p \notin mbBad /\ pointMap[p] # None
  BY DEF Good
<1>3. p \notin B
  BY DEF GoesBad
<1>4. left[p] = mObservations[p]
  <2>1. mObservations[p] \ E[p] = mObservations[p]
    OBVIOUS
  <2>2. ~(mObservations[p] = {} /\ Cardinality(mObservations[p]) > 1)
    BY FS_EmptySet
  <2> QED
    BY <1>1, <1>2, <2>1, <2>2 DEF ObserversLeft
<1> HIDE DEF B
<1> QED
  BY <1>1, <1>2, <1>3, <1>4 DEF Good

\* A point that stays good keeps an observer, if it had one.
LEMMA StaysObserved ==
  ASSUME TypeOK, NEW E \in [Points -> SUBSET KeyFrames], EraseObservations(E),
         NEW p \in Good', mObservations[p] # {}
  PROVE  p \in Good /\ mObservations'[p] # {}
<1> DEFINE B == {q \in Good : GoesBad(q, E[q])}
<1>1. PICK left \in [Points -> UNION {ObserversLeft(q, E[q]) : q \in Points}] :
        /\ \A q \in Points : left[q] \in ObserversLeft(q, E[q])
        /\ mbBad' = mbBad \cup B
        /\ mObservations' = [q \in Points |-> IF q \in B THEN {} ELSE left[q]]
        /\ UNCHANGED pointMap
  BY DEF EraseObservations
<1>2. p \in Points /\ p \in Good /\ p \notin B
  BY <1>1 DEF Good
<1>3. ~GoesBad(p, E[p])
  BY <1>2
<1>4. mObservations[p] \ E[p] # {}
  <2>1. SUFFICES ASSUME mObservations[p] \ E[p] = {} PROVE FALSE
    OBVIOUS
  <2>2. mObservations[p] \cap E[p] # {}
    BY <2>1
  <2>3. Cardinality(mObservations[p] \ E[p]) = 0
    BY <2>1, FS_EmptySet
  <2> QED
    BY <1>3, <2>2, <2>3 DEF GoesBad
<1>5. left[p] = mObservations[p] \ E[p]
  BY <1>1, <1>2, <1>4 DEF ObserversLeft
<1> HIDE DEF B
<1> QED
  BY <1>1, <1>2, <1>4, <1>5

LEMMA ShutdownFresh == FreshInv /\ Shutdown => FreshInv'
<1> SUFFICES ASSUME FreshInv, Shutdown PROVE FreshInv'
  OBVIOUS
<1>1. TypeOK
  BY DEF FreshInv
<1> DEFINE W == [p \in {q \in Good : Whole(q)} |-> mObservations[p]]
<1>2. backup' = [maps |-> mspMaps, keyframes |-> [m \in Maps |-> {}], points |-> [m \in Maps |-> {}],
                 observations |-> [p \in Points |-> {}], ref |-> [p \in Points |-> None],
                 matches |-> [k \in KeyFrames |-> {}], init |-> mnInitKFid,
                 undefined |-> backup.undefined, whole |-> W]
  BY DEF Shutdown, NoBackup
<1>3. W \in UNION {[S -> SUBSET KeyFrames] : S \in SUBSET Points}
  <2>1. {q \in Good : Whole(q)} \in SUBSET Points
    BY DEF Good
  <2>2. W \in [{q \in Good : Whole(q)} -> SUBSET KeyFrames]
    BY <1>1, <2>1 DEF TypeOK
  <2> QED
    BY <2>1, <2>2
<1> HIDE DEF W
<1>4. backup' \in Backups
  BY <1>1, <1>2, <1>3 DEF Backups, TypeOK
<1>5. TypeOK' /\ MemoryIsFresh' /\ KeyFramesBelong'
  <2>1. TypeOK'
    BY <1>1, <1>4 DEF Shutdown, TypeOK, atlasVars, keyFrameVars, pointVars, threadVars
  <2>2. MemoryIsFresh' /\ KeyFramesBelong'
    BY DEF Shutdown, FreshInv, MemoryIsFresh, KeyFramesBelong, atlasVars, keyFrameVars, pointVars, threadVars
  <2> QED
    BY <2>1, <2>2
<1>6. SavedIsFresh(backup, ids)' /\ SavedIsFresh(file.backup, file.ids)'
  <2>1. /\ backup'.maps = mspMaps /\ backup'.keyframes = [m \in Maps |-> {}] /\ backup'.points = [m \in Maps |-> {}]
        /\ backup'.observations = [p \in Points |-> {}]
    BY <1>2
  <2>2. SavedIsFresh(file.backup, file.ids) /\ mspMaps \subseteq Below(ids.map) /\ UNCHANGED <<ids, file>>
    BY DEF FreshInv, MemoryIsFresh, Shutdown
  <2>3. SavedIsFresh(backup, ids)'
    BY <2>1, <2>2 DEF SavedIsFresh
  <2>4. SavedIsFresh(file.backup, file.ids)'
    BY <2>1, <2>2 DEF SavedIsFresh
  <2> QED
    BY <2>3, <2>4
<1> QED
  BY <1>5, <1>6 DEF FreshInv

LEMMA PassEmptyMapFresh == ASSUME FreshInv, NEW m \in Maps, PassEmptyMap(m) PROVE FreshInv'
<1>1. mspMaps' \subseteq mspMaps /\ mapsLeft' \subseteq mapsLeft
  BY DEF PassEmptyMap
<1>2. UNCHANGED <<phase, sessions, ids, mpCurrentMap, keyFrameVars, pointVars, threadVars, pMi, backup, file>>
  BY DEF PassEmptyMap
<1> QED
  BY <1>1, <1>2
  DEF FreshInv, TypeOK, MemoryIsFresh, KeyFramesBelong, SavedIsFresh, keyFrameVars, pointVars, threadVars

LEMMA ForeignTyped ==
  ASSUME TypeOK, NEW m \in Maps, NEW V
  PROVE  [p \in Points |-> IF p \in V THEN Foreign(p, m) ELSE {}] \in [Points -> SUBSET KeyFrames]
BY DEF TypeOK, Foreign

LEMMA EraseForeignFresh == ASSUME FreshInv, NEW m \in Maps, EraseForeign(m) PROVE FreshInv'
<1>1. TypeOK /\ MemoryIsFresh
  BY DEF FreshInv
<1>2. PICK V : EraseObservations([p \in Points |-> IF p \in V THEN Foreign(p, m) ELSE {}])
  BY DEF EraseForeign
<1>3. [p \in Points |-> IF p \in V THEN Foreign(p, m) ELSE {}] \in [Points -> SUBSET KeyFrames]
  BY <1>1, ForeignTyped
<1>4. PICK u \in BOOLEAN : backup' = [backup EXCEPT !.undefined = u]
  BY <1>1 DEF EraseForeign, TypeOK, Backups
<1>5. backup' \in Backups /\ SavedIsFresh(backup', ids)
  BY <1>1, <1>4 DEF TypeOK, Backups, FreshInv, SavedIsFresh
<1>6. TypeOK'
  BY <1>1, <1>2, <1>3, <1>5, EraseLeaves DEF EraseForeign, TypeOK, atlasVars, keyFrameVars, threadVars
<1>7. MemoryIsFresh'
  BY <1>1, <1>2, <1>3, EraseLeaves DEF EraseForeign, MemoryIsFresh, atlasVars, keyFrameVars, threadVars
<1>8. KeyFramesBelong' /\ SavedIsFresh(backup, ids)' /\ SavedIsFresh(file.backup, file.ids)'
  BY <1>5 DEF EraseForeign, FreshInv, KeyFramesBelong, SavedIsFresh, atlasVars, keyFrameVars, threadVars
<1> QED
  BY <1>6, <1>7, <1>8 DEF FreshInv

LEMMA BackUpIs ==
  ASSUME TypeOK, NEW m \in Maps, BackUp(m)
  PROVE  \E V \in LoopVisits(mspMapPoints[m] \cap Good, Erasing(m)) :
         \E O \in [V -> SUBSET KeyFrames], E \in [V -> SUBSET KeyFrames], R \in [V -> KeyFrames \cup {None}] :
           /\ V \subseteq mspMapPoints[m] \cap Good
           /\ \A p \in V : O[p] \in SavesObservations(p, m) /\ E[p] \in Erases(p, m)
           /\ \A p \in V : O[p] \subseteq mObservations[p]
           /\ EraseObservations([p \in Points |-> IF p \in V THEN E[p] ELSE {}])
           /\ [p \in Points |-> IF p \in V THEN E[p] ELSE {}] \in [Points -> SUBSET KeyFrames]
           /\ \A p \in V : mpRefKF'[p] \in mspKeyFrames[m] => R[p] = mpRefKF'[p]
           /\ backup' = BackedUp(m, V, O, R)
<1>1. PICK V \in LoopVisits(mspMapPoints[m] \cap Good, Erasing(m)) :
        \E O \in [V -> UNION {SavesObservations(p, m) : p \in V}], E \in [V -> UNION {Erases(p, m) : p \in V}],
           R \in [V -> KeyFrames \cup {None}] :
          /\ \A p \in V : O[p] \in SavesObservations(p, m) /\ E[p] \in Erases(p, m)
          /\ EraseObservations([p \in Points |-> IF p \in V THEN E[p] ELSE {}])
          /\ \A p \in V : mpRefKF'[p] \in mspKeyFrames[m] => R[p] = mpRefKF'[p]
          /\ backup' = BackedUp(m, V, O, R)
  BY DEF BackUp
<1>2. V \subseteq mspMapPoints[m] \cap Good /\ V \subseteq Points
  BY <1>1 DEF LoopVisits, Good
<1>3. \A p \in V : mObservations[p] \subseteq KeyFrames
  BY <1>2 DEF TypeOK
<1>4. \A p \in V : \A o \in SavesObservations(p, m) : o \subseteq mObservations[p] /\ o \subseteq KeyFrames
  BY <1>3 DEF SavesObservations
<1>5. \A p \in V : \A e \in Erases(p, m) : e \subseteq KeyFrames
  BY <1>3 DEF Erases, Absent
<1>6. PICK O \in [V -> UNION {SavesObservations(p, m) : p \in V}], E \in [V -> UNION {Erases(p, m) : p \in V}],
           R \in [V -> KeyFrames \cup {None}] :
          /\ \A p \in V : O[p] \in SavesObservations(p, m) /\ E[p] \in Erases(p, m)
          /\ EraseObservations([p \in Points |-> IF p \in V THEN E[p] ELSE {}])
          /\ \A p \in V : mpRefKF'[p] \in mspKeyFrames[m] => R[p] = mpRefKF'[p]
          /\ backup' = BackedUp(m, V, O, R)
  BY <1>1
<1>7. O \in [V -> SUBSET KeyFrames] /\ E \in [V -> SUBSET KeyFrames]
  BY <1>4, <1>5, <1>6
<1>8. [p \in Points |-> IF p \in V THEN E[p] ELSE {}] \in [Points -> SUBSET KeyFrames]
  BY <1>7
<1>9. \A p \in V : O[p] \subseteq mObservations[p]
  BY <1>4, <1>6
<1> QED
  BY <1>1, <1>2, <1>6, <1>7, <1>8, <1>9

\* The parts of the backup that BackUp makes.
BackUpMakes(m, V, O, R) ==
  /\ backup' \in Backups
  /\ backup'.maps = backup.maps /\ backup'.whole = backup.whole
  /\ backup'.undefined = (backup.undefined \/ Erasing(m) # {})
  /\ backup'.keyframes = [backup.keyframes EXCEPT ![m] = mspKeyFrames[m]]
  /\ backup'.points = [backup.points EXCEPT ![m] = V]
  /\ backup'.observations = [p \in Points |-> IF p \in V THEN O[p] ELSE backup.observations[p]]
  /\ backup'.ref = [p \in Points |-> IF p \in V THEN R[p] ELSE backup.ref[p]]
  /\ backup'.matches = [k \in KeyFrames |-> IF k \in mspKeyFrames[m] THEN mvpMapPoints'[k] \cap mspMapPoints'[m]
                                                                     ELSE backup.matches[k]]
BackUpTyped(V, O, R) ==
  /\ V \in SUBSET Points /\ O \in [V -> SUBSET KeyFrames] /\ R \in [V -> KeyFrames \cup {None}]
  /\ mvpMapPoints' \in [KeyFrames -> SUBSET Points]

LEMMA BackUpParts ==
  \A m \in Maps : \A V, O, R :
    TypeOK /\ BackUpTyped(V, O, R) /\ backup' = BackedUp(m, V, O, R) => BackUpMakes(m, V, O, R)
<1> SUFFICES ASSUME NEW m \in Maps, NEW V, NEW O, NEW R,
                    TypeOK, BackUpTyped(V, O, R), backup' = BackedUp(m, V, O, R)
             PROVE  BackUpMakes(m, V, O, R)
  OBVIOUS
<1>0. /\ V \in SUBSET Points /\ O \in [V -> SUBSET KeyFrames] /\ R \in [V -> KeyFrames \cup {None}]
      /\ mvpMapPoints' \in [KeyFrames -> SUBSET Points]
  BY DEF BackUpTyped
<1> DEFINE u == backup.undefined \/ Erasing(m) # {}
           o == [p \in Points |-> IF p \in V THEN O[p] ELSE backup.observations[p]]
           r == [p \in Points |-> IF p \in V THEN R[p] ELSE backup.ref[p]]
           t == [k \in KeyFrames |-> IF k \in mspKeyFrames[m] THEN mvpMapPoints'[k] \cap mspMapPoints'[m]
                                                              ELSE backup.matches[k]]
<1>1. backup \in Backups
  BY DEF TypeOK
<1>2. backup' = [maps |-> backup.maps, keyframes |-> [backup.keyframes EXCEPT ![m] = mspKeyFrames[m]],
                 points |-> [backup.points EXCEPT ![m] = V], observations |-> o, ref |-> r, matches |-> t,
                 init |-> backup.init, undefined |-> u, whole |-> backup.whole]
  BY <1>1 DEF BackedUp, SavedMatches, Backups
<1>3. /\ u \in BOOLEAN /\ o \in [Points -> SUBSET KeyFrames] /\ r \in [Points -> KeyFrames \cup {None}]
      /\ t \in [KeyFrames -> SUBSET Points]
  BY <1>0, <1>1 DEF Backups
<1>4. /\ [backup.keyframes EXCEPT ![m] = mspKeyFrames[m]] \in [Maps -> SUBSET KeyFrames]
      /\ [backup.points EXCEPT ![m] = V] \in [Maps -> SUBSET Points]
  BY <1>0, <1>1 DEF Backups, TypeOK
<1> HIDE DEF u, o, r, t
<1>5. backup' \in Backups
  BY <1>1, <1>2, <1>3, <1>4 DEF Backups
<1> QED
  BY <1>2, <1>5 DEF u, o, r, t, BackUpMakes

LEMMA BackUpFresh == ASSUME FreshInv, NEW m \in Maps, BackUp(m) PROVE FreshInv'
<1>1. TypeOK /\ MemoryIsFresh
  BY DEF FreshInv
<1>a. PICK V \in SUBSET (mspMapPoints[m] \cap Good) :
      \E O \in [V -> SUBSET KeyFrames], E \in [Points -> SUBSET KeyFrames], R \in [V -> KeyFrames \cup {None}] :
        /\ \A p \in V : O[p] \subseteq mObservations[p]
        /\ EraseObservations(E)
        /\ backup' = BackedUp(m, V, O, R)
  BY <1>1, BackUpIs
<1>2. PICK O \in [V -> SUBSET KeyFrames], E \in [Points -> SUBSET KeyFrames], R \in [V -> KeyFrames \cup {None}] :
        /\ \A p \in V : O[p] \subseteq mObservations[p]
        /\ EraseObservations(E)
        /\ backup' = BackedUp(m, V, O, R)
  BY <1>a
<1>3. mvpMapPoints' \in [KeyFrames -> SUBSET Points]
  BY <1>1, <1>2, EraseLeaves
<1>b. BackUpTyped(V, O, R)
  BY <1>2, <1>3 DEF Good, BackUpTyped
<1>c. backup' = BackedUp(m, V, O, R)
  BY <1>2
<1>d. BackUpMakes(m, V, O, R)
  BY <1>1, <1>b, <1>c, BackUpParts
<1>4. /\ backup' \in Backups
      /\ backup'.maps = backup.maps
      /\ backup'.keyframes = [backup.keyframes EXCEPT ![m] = mspKeyFrames[m]]
      /\ backup'.points = [backup.points EXCEPT ![m] = V]
      /\ backup'.observations = [p \in Points |-> IF p \in V THEN O[p] ELSE backup.observations[p]]
  BY <1>d DEF BackUpMakes
<1>5. UNCHANGED <<sessions, ids, atlasVars, keyFrameVars, threadVars, file>> /\ phase' = "observations"
      /\ mapsLeft' \subseteq mapsLeft /\ pMi' = None
  BY DEF BackUp
<1>6. TypeOK'
  BY <1>1, <1>2, <1>4, <1>5, EraseLeaves DEF TypeOK, atlasVars, keyFrameVars, threadVars
<1>7. MemoryIsFresh'
  BY <1>1, <1>2, <1>5, EraseLeaves DEF MemoryIsFresh, atlasVars, keyFrameVars, threadVars
<1>8. SavedIsFresh(backup, ids)'
  <2>1. backup \in Backups /\ SavedIsFresh(backup, ids)
    BY <1>1 DEF FreshInv, TypeOK
  <2>2. \A i \in Maps : /\ backup'.keyframes[i] \subseteq backup.keyframes[i] \cup mspKeyFrames[m]
                        /\ backup'.points[i] \subseteq backup.points[i] \cup mspMapPoints[m]
    BY <1>2, <1>4, <2>1 DEF Backups
  <2>3. \A p \in Points : backup'.observations[p] \subseteq backup.observations[p] \cup mObservations[p]
    BY <1>2, <1>4
  <2> QED
    BY <1>1, <1>4, <1>5, <2>1, <2>2, <2>3 DEF SavedIsFresh, MemoryIsFresh
<1>9. SavedIsFresh(file.backup, file.ids)'
  BY <1>5 DEF FreshInv, SavedIsFresh
<1>10. KeyFramesBelong'
  BY <1>5 DEF FreshInv, KeyFramesBelong, atlasVars, keyFrameVars, threadVars
<1> QED
  BY <1>6, <1>7, <1>8, <1>9, <1>10 DEF FreshInv

LEMMA FileFresh == FreshInv /\ (RemoveFile \/ WriteFile \/ Crash \/ EndMapping) => FreshInv'
<1> SUFFICES ASSUME FreshInv, RemoveFile \/ WriteFile \/ Crash \/ EndMapping PROVE FreshInv'
  OBVIOUS
<1>1. TypeOK
  BY DEF FreshInv
<1>2. CASE RemoveFile
  <2>1. SavedIsFresh(NoBackup, NoFile.ids) /\ NoFile.backup = NoBackup
    BY DEF SavedIsFresh, NoFile, NoBackup, Below
  <2>2. NoFile \in [backup : Backups, bad : SUBSET Points, ids : Ids, written : BOOLEAN]
    <3>1. NoBackup.whole \in [{} -> SUBSET KeyFrames]
      BY DEF NoBackup
    <3>2. NoBackup \in Backups
      BY <3>1 DEF NoBackup, Backups, KeyFrames, Points, Maps, None
    <3>3. NoFile.ids \in Ids
      BY AtlasFileAssumption DEF NoFile, Ids
    <3> QED
      BY <3>2, <3>3 DEF NoFile
  <2> QED
    BY <1>1, <1>2, <2>1, <2>2
    DEF RemoveFile, FreshInv, TypeOK, MemoryIsFresh, KeyFramesBelong, SavedIsFresh, atlasVars, keyFrameVars, pointVars, threadVars
<1>3. CASE WriteFile
  <2>1. file' \in [backup : Backups, bad : SUBSET Points, ids : Ids, written : BOOLEAN]
        /\ file'.backup = backup /\ file'.ids = ids
    BY <1>1, <1>3 DEF WriteFile, TypeOK
  <2> QED
    BY <1>1, <1>3, <2>1
    DEF WriteFile, FreshInv, TypeOK, MemoryIsFresh, KeyFramesBelong, SavedIsFresh, atlasVars, keyFrameVars, pointVars, threadVars
<1>4. CASE Crash
  BY <1>1, <1>4
  DEF Crash, FreshInv, TypeOK, MemoryIsFresh, KeyFramesBelong, SavedIsFresh, atlasVars, keyFrameVars, pointVars, threadVars, saveVars
<1>5. CASE EndMapping
  BY <1>1, <1>5
  DEF EndMapping, FreshInv, TypeOK, MemoryIsFresh, KeyFramesBelong, SavedIsFresh, atlasVars, keyFrameVars, pointVars, saveVars
<1> QED
  BY <1>2, <1>3, <1>4, <1>5

LEMMA CreateNewMapFresh == FreshInv /\ CreateNewMap => FreshInv'
<1> SUFFICES ASSUME FreshInv, CreateNewMap PROVE FreshInv'
  OBVIOUS
<1>1. TypeOK /\ MemoryIsFresh /\ MaxMaps \in Nat
  BY AtlasFileAssumption DEF FreshInv
<1>2. /\ ids' = [map |-> ids.map + 1, keyframe |-> ids.keyframe, point |-> ids.point]
      /\ ids.map \in Maps /\ ids \in Ids
  BY <1>1 DEF CreateNewMap, TypeOK, Ids
<1>3. ids' \in Ids
  BY <1>1, <1>2 DEF Ids, Maps
<1>4. TypeOK'
  BY <1>1, <1>2, <1>3 DEF CreateNewMap, TypeOK, keyFrameVars, pointVars, threadVars, saveVars
<1>5. Below(ids.map) \cup {ids.map} \subseteq Below(ids'.map)
  BY <1>2 DEF Below, Maps
<1>6. MemoryIsFresh'
  BY <1>1, <1>2, <1>5 DEF CreateNewMap, MemoryIsFresh, keyFrameVars, pointVars, threadVars
<1>7. SavedIsFresh(backup, ids)' /\ SavedIsFresh(file.backup, file.ids)'
  BY <1>2, <1>5 DEF CreateNewMap, FreshInv, SavedIsFresh, saveVars
<1>8. KeyFramesBelong'
  BY <1>2 DEF CreateNewMap, FreshInv, KeyFramesBelong, keyFrameVars, threadVars
<1> QED
  BY <1>4, <1>6, <1>7, <1>8 DEF FreshInv

LEMMA LoadAtlasFresh == FreshInv /\ LoadAtlas => FreshInv'
<1> SUFFICES ASSUME FreshInv, LoadAtlas PROVE FreshInv'
  OBVIOUS
<1> DEFINE b == file.backup
           good == [m \in Maps |-> b.points[m] \ file.bad]
           mapOf(p) == CHOOSE m \in Maps : p \in good[m]
           loaded == UNION Range(good)
<1>1. /\ b \in Backups /\ file.ids \in Ids /\ SavedIsFresh(b, file.ids) /\ file.bad \subseteq Points
      /\ sessions \in Nat /\ file \in [backup : Backups, bad : SUBSET Points, ids : Ids, written : BOOLEAN]
  BY DEF FreshInv, TypeOK
<1>2. /\ b.maps \subseteq Maps /\ b.keyframes \in [Maps -> SUBSET KeyFrames] /\ b.points \in [Maps -> SUBSET Points]
      /\ b.observations \in [Points -> SUBSET KeyFrames] /\ b.ref \in [Points -> KeyFrames \cup {None}]
      /\ b.matches \in [KeyFrames -> SUBSET Points] /\ b.init \in [Maps -> KeyFrames \cup {None}]
      /\ b.undefined \in BOOLEAN
  BY <1>1 DEF Backups
<1>3. \A p \in loaded : mapOf(p) \in Maps /\ p \in b.points[mapOf(p)]
  BY DEF Range
<1>4. \A m \in Maps : good[m] \subseteq Points
  BY <1>2
<1>5. /\ phase' = "loaded" /\ sessions' = sessions + 1 /\ mspMaps' = b.maps /\ mpCurrentMap' = None
      /\ ids' = file.ids /\ mspKeyFrames' = b.keyframes /\ mspMapPoints' = b.points /\ mnInitKFid' = b.init
      /\ mlNewKeyFrames' = <<>> /\ mpCurrentKeyFrame' = None /\ mapsLeft' = {} /\ pMi' = None /\ file' = file
      /\ backup' = [NoBackup EXCEPT !.undefined = b.undefined]
      /\ mbBad' = file.bad \cap UNION Range(b.points)
  BY DEF LoadAtlas, LoadedIds
<1>6. mpMap' = [k \in KeyFrames |-> IF \E m \in Maps : k \in b.keyframes[m]
                                    THEN CHOOSE m \in Maps : k \in b.keyframes[m] ELSE None]
  BY DEF LoadAtlas, LoadedPoints, LoadedObservations, LoadedReference
<1>7. pointMap' = [p \in Points |-> IF p \in loaded THEN mapOf(p) ELSE None]
  BY DEF LoadAtlas, LoadedPoints, LoadedObservations, LoadedReference
<1>8. /\ mObservations' = [p \in Points |-> IF p \in loaded THEN b.observations[p] \cap b.keyframes[mapOf(p)] ELSE {}]
      /\ mpRefKF' = [p \in Points |-> IF p \in loaded /\ b.ref[p] \in b.keyframes[mapOf(p)] THEN b.ref[p] ELSE None]
  BY DEF LoadAtlas, LoadedPoints, LoadedObservations, LoadedReference
<1>9. mvpMapPoints' = [k \in KeyFrames |-> LoadedMatches(good, k)]
  BY DEF LoadAtlas, LoadedPoints, LoadedObservations, LoadedReference
<1> HIDE DEF mapOf, loaded
<1>10. backup' \in Backups /\ SavedIsFresh(backup', file.ids)
  <2>1. NoBackup.whole \in [{} -> SUBSET KeyFrames]
    BY DEF NoBackup
  <2>2. /\ backup'.maps = {} /\ backup'.keyframes = [m \in Maps |-> {}] /\ backup'.points = [m \in Maps |-> {}]
        /\ backup'.observations = [p \in Points |-> {}]
    BY <1>5 DEF NoBackup
  <2>3. backup' \in Backups
    <3>1. NoBackup.whole \in UNION {[S -> SUBSET KeyFrames] : S \in SUBSET Points}
      BY <2>1
    <3>2. backup' = [NoBackup EXCEPT !.undefined = b.undefined]
      BY <1>5
    <3>3. /\ [m \in Maps |-> {}] \in [Maps -> SUBSET KeyFrames] /\ [m \in Maps |-> {}] \in [Maps -> SUBSET Points]
          /\ [p \in Points |-> {}] \in [Points -> SUBSET KeyFrames]
          /\ [k \in KeyFrames |-> {}] \in [KeyFrames -> SUBSET Points]
          /\ [p \in Points |-> None] \in [Points -> KeyFrames \cup {None}]
          /\ [m \in Maps |-> None] \in [Maps -> KeyFrames \cup {None}]
      OBVIOUS
    <3>4. b.undefined \in BOOLEAN
      BY <1>2
    <3> QED
      BY <3>1, <3>2, <3>3, <3>4 DEF NoBackup, Backups
  <2> QED
    BY <2>2, <2>3 DEF SavedIsFresh
<1>11. mpMap' \in [KeyFrames -> Maps \cup {None}] /\ pointMap' \in [Points -> Maps \cup {None}]
  BY <1>3, <1>6, <1>7
<1>12. mObservations' \in [Points -> SUBSET KeyFrames] /\ mpRefKF' \in [Points -> KeyFrames \cup {None}]
  BY <1>2, <1>8
<1>13. mvpMapPoints' \in [KeyFrames -> SUBSET Points]
  <2>1. \A k \in KeyFrames : LoadedMatches(good, k) \subseteq Points
    BY <1>2 DEF LoadedMatches
  <2> QED
    BY <1>9, <2>1
<1>14. mlNewKeyFrames' \in Seq(KeyFrames) /\ Len(mlNewKeyFrames') = 0
  BY <1>5
<1>15. TypeOK'
  BY <1>1, <1>2, <1>5, <1>10, <1>11, <1>12, <1>13, <1>14 DEF TypeOK
<1>16. MemoryIsFresh'
  <2>1. \A k \in KeyFrames : mpMap'[k] # None => k < ids'.keyframe
    <3> SUFFICES ASSUME NEW k \in KeyFrames, mpMap'[k] # None PROVE k < ids'.keyframe
      OBVIOUS
    <3>1. PICK m \in Maps : k \in b.keyframes[m]
      BY <1>6
    <3>2. k \in Below(file.ids.keyframe)
      BY <1>1, <3>1 DEF SavedIsFresh
    <3> QED
      BY <1>1, <1>5, <3>2 DEF Below, Ids
  <2>2. \A p \in Points : pointMap'[p] # None => p < ids'.point
    <3> SUFFICES ASSUME NEW p \in Points, pointMap'[p] # None PROVE p < ids'.point
      OBVIOUS
    <3>1. PICK m \in Maps : p \in b.points[m]
      BY <1>3, <1>7
    <3>2. p \in Below(file.ids.point)
      BY <1>1, <3>1 DEF SavedIsFresh
    <3> QED
      BY <1>1, <1>5, <3>2 DEF Below, Ids
  <2>3. \A p \in Points : mObservations'[p] \subseteq b.observations[p]
    BY <1>8
  <2> QED
    BY <1>1, <1>5, <1>14, <2>1, <2>2, <2>3 DEF SavedIsFresh, MemoryIsFresh
<1>17. KeyFramesBelong'
  BY <1>5, <1>14 DEF KeyFramesBelong
<1> QED
  BY <1>1, <1>5, <1>10, <1>15, <1>16, <1>17 DEF FreshInv

LEMMA NextFresh == FreshInv /\ [Next]_vars => FreshInv'
<1> SUFFICES ASSUME FreshInv, [Next]_vars PROVE FreshInv'
  OBVIOUS
<1>1. CASE Session
  BY <1>1, TrackKeyFrameFresh, CreateMapInAtlasFresh, ProcessNewKeyFrameFresh, CreateNewMapPointsFresh,
     KeyFrameCullingFresh, MergeFresh, FileFresh DEF Session
<1>2. CASE Save
  BY <1>2, ShutdownFresh, PassEmptyMapFresh, EraseForeignFresh, BackUpFresh, FileFresh DEF Save
<1>3. CASE Crash \/ LoadAtlas \/ CreateNewMap
  BY <1>3, FileFresh, LoadAtlasFresh, CreateNewMapFresh
<1>4. CASE UNCHANGED vars
  BY <1>4 DEF vars, FreshInv, TypeOK, MemoryIsFresh, KeyFramesBelong, SavedIsFresh,
              keyFrameVars, pointVars, atlasVars, threadVars, saveVars
<1> QED
  BY <1>1, <1>2, <1>3, <1>4 DEF Next

\* In every session, also one that was loaded, while it is saved and after a crash, each variable keeps to
\* its type (the data of Atlas, Map, KeyFrame and MapPoint that Atlas::serialize writes and reads).
THEOREM TypesHold == Spec => []TypeOK
<1>1. FreshInv => TypeOK
  BY DEF FreshInv
<1> QED
  BY <1>1, InitFresh, NextFresh, PTL DEF Spec

\* The next keyframe, point or map gets an id that nothing in memory has, whatever was saved and loaded
\* before and wherever a save was cut off (the counters in Atlas::serialize).
THEOREM IdsStayFresh == Spec => []IdsAreFresh
<1>1. FreshInv => IdsAreFresh
  <2> SUFFICES ASSUME FreshInv PROVE IdsAreFresh
    OBVIOUS
  <2>1. MemoryIsFresh /\ TypeOK
    BY DEF FreshInv
  <2>2. ids.keyframe \in Int /\ ids.point \in Int /\ ids.map \in Int
    BY <2>1 DEF TypeOK, Ids
  <2>3. ASSUME NEW n \in Int, NEW i \in Below(n) PROVE i < n
    BY <2>3 DEF Below
  <2>4. ASSUME NEW k \in KeyFrames, mpMap[k] # None \/ \E p \in Points : k \in mObservations[p]
        PROVE  k < ids.keyframe
    BY <2>1, <2>2, <2>3, <2>4 DEF MemoryIsFresh
  <2>5. ASSUME NEW p \in Points, pointMap[p] # None \/ \E m \in Maps : p \in mspMapPoints[m]
        PROVE  p < ids.point
    BY <2>1, <2>2, <2>3, <2>5 DEF MemoryIsFresh
  <2>6. \A m \in mspMaps : m < ids.map
    BY <2>1, <2>2, <2>3 DEF MemoryIsFresh
  <2> QED
    BY <2>4, <2>5, <2>6 DEF IdsAreFresh
<1> QED
  BY <1>1, InitFresh, NextFresh, PTL DEF Spec

(***************************************************************************)
(* Points that return.                                                     *)
(***************************************************************************)
Saving == phase \in {"observations", "backups", "writing"}

\* The keyframes a map holds are those that belong to it.
KeyFramesAreHome == \A m \in Maps : \A k \in mspKeyFrames[m] : mpMap[k] = m

\* Good points are observed.
GoodIsObserved == ~backup.undefined => \A p \in Good : mObservations[p] # {}

\* A map loses no keyframe while the atlas is saved.
SavedKeyFrames == Saving => \A m \in Maps : backup.keyframes[m] \subseteq mspKeyFrames[m]

\* A point that is saved, and still good, is saved with its observations, and with the map they are in.
SavedAsIs == Saving /\ ~backup.undefined =>
  \A m \in Maps : \A p \in backup.points[m] \ mbBad :
     /\ mObservations[p] = backup.observations[p] /\ p \in Good
     /\ mObservations[p] \subseteq backup.keyframes[m]

\* A point that was whole is as it was; its map has saved it, or is still to be visited, and then no other
\* map still to be visited has it.
KeptBy(m, p) ==
  /\ mObservations[p] \subseteq mspKeyFrames[m]
  /\ m \in mapsLeft => p \in mspMapPoints[m]
  /\ m \notin mapsLeft => p \in backup.points[m]
  /\ \A n \in mapsLeft : p \in mspMapPoints[n] => n = m
WholeIsKept == Saving /\ ~backup.undefined =>
  \A p \in DOMAIN backup.whole :
    p \in Good /\ mObservations[p] = backup.whole[p] /\ \E m \in Maps : KeptBy(m, p)

\* The same of the file, where the loops have ended.
FileIsWhole == ~file.backup.undefined =>
  /\ \A m \in Maps : \A p \in file.backup.points[m] \ file.bad :
       file.backup.observations[p] # {} /\ file.backup.observations[p] \subseteq file.backup.keyframes[m]
  /\ \A p \in DOMAIN file.backup.whole :
       /\ \E m \in Maps : p \in file.backup.points[m] \ file.bad
       /\ file.backup.observations[p] = file.backup.whole[p]
FileIsDisjoint == \A m, n \in Maps : m # n => file.backup.keyframes[m] \cap file.backup.keyframes[n] = {}

\* The map the loop is at work on is still to be visited, and nothing is when the file is written.
LoopIsAtWork == /\ phase = "backups" => pMi \in mapsLeft
                /\ phase = "writing" => mapsLeft = {}

SaveInv == SavedKeyFrames /\ SavedAsIs /\ WholeIsKept /\ LoopIsAtWork
FileInv == FileIsWhole /\ FileIsDisjoint
WholeInv == FreshInv /\ KeyFramesAreHome /\ GoodIsObserved /\ SaveInv /\ FileInv /\ WholePointsReturn

\* Outside of saving and loading there is little to show.
LEMMA NotSavingWhole ==
  ASSUME WholeInv, FreshInv', KeyFramesAreHome', GoodIsObserved', phase' \in {"running", "off"}, file' = file
  PROVE  WholeInv'
<1>1. SaveInv'
  BY DEF SaveInv, SavedKeyFrames, SavedAsIs, WholeIsKept, LoopIsAtWork, Saving
<1>2. FileInv' /\ WholePointsReturn'
  BY DEF WholeInv, FileInv, FileIsWhole, FileIsDisjoint, WholePointsReturn
<1> QED
  BY <1>1, <1>2 DEF WholeInv

LEMMA InitWhole == Init => WholeInv
<1> SUFFICES ASSUME Init PROVE WholeInv
  OBVIOUS
<1>1. FreshInv
  BY InitFresh
<1>2. KeyFramesAreHome /\ GoodIsObserved
  BY DEF Init, KeyFramesAreHome, GoodIsObserved, Good
<1>3. SaveInv /\ WholePointsReturn
  BY DEF Init, SaveInv, SavedKeyFrames, SavedAsIs, WholeIsKept, LoopIsAtWork, Saving, WholePointsReturn
<1>4. FileInv
  BY DEF Init, NoFile, NoBackup, FileInv, FileIsWhole, FileIsDisjoint
<1> QED
  BY <1>1, <1>2, <1>3, <1>4 DEF WholeInv

LEMMA TrackKeyFrameWhole == WholeInv /\ TrackKeyFrame => WholeInv'
<1> SUFFICES ASSUME WholeInv, TrackKeyFrame PROVE WholeInv'
  OBVIOUS
<1>1. FreshInv /\ FreshInv' /\ TypeOK /\ MemoryIsFresh /\ KeyFramesBelong /\ KeyFramesAreHome /\ GoodIsObserved
  BY TrackKeyFrameFresh DEF WholeInv, FreshInv
<1> DEFINE k == ids.keyframe
<1>2. PICK P \in NewPoints :
        /\ StereoInitialization(k, P) \/ CreateNewKeyFrame(k, P)
        /\ mpMap' = [mpMap EXCEPT ![k] = mpCurrentMap]
        /\ CreatePoints(P, {k}, k)
  BY DEF TrackKeyFrame
<1>3. k \in KeyFrames /\ mpCurrentMap \in Maps /\ phase' = "running" /\ UNCHANGED saveVars
  BY <1>1 DEF TrackKeyFrame, KeyFramesBelong
<1>4. \A m \in Maps : k \notin mspKeyFrames[m]
  BY <1>1, <1>3 DEF MemoryIsFresh, Below, KeyFrames
<1>5. \A m \in Maps : mspKeyFrames'[m] \subseteq IF m = mpCurrentMap THEN mspKeyFrames[m] \cup {k} ELSE mspKeyFrames[m]
  BY <1>1, <1>2, <1>3 DEF StereoInitialization, CreateNewKeyFrame, AddKeyFrame, TypeOK
<1>6. KeyFramesAreHome'
  BY <1>1, <1>2, <1>3, <1>4, <1>5 DEF KeyFramesAreHome, TypeOK
<1>7. GoodIsObserved'
  BY <1>1, <1>2, <1>3 DEF GoodIsObserved, Good, CreatePoints, saveVars
<1> QED
  BY <1>1, <1>3, <1>6, <1>7, NotSavingWhole DEF saveVars

LEMMA ProcessNewKeyFrameWhole == WholeInv /\ ProcessNewKeyFrame => WholeInv'
<1> SUFFICES ASSUME WholeInv, ProcessNewKeyFrame PROVE WholeInv'
  OBVIOUS
<1>1. FreshInv' /\ TypeOK /\ KeyFramesBelong /\ KeyFramesAreHome /\ GoodIsObserved
  BY ProcessNewKeyFrameFresh DEF WholeInv, FreshInv
<1> DEFINE k == Head(mlNewKeyFrames)
<1>2. mpMap[k] \in Maps
  <2>1. k = mlNewKeyFrames[1] /\ 1 \in 1..Len(mlNewKeyFrames)
    BY <1>1 DEF ProcessNewKeyFrame, TypeOK
  <2> QED
    BY <1>1, <2>1 DEF KeyFramesBelong
<1>3. /\ phase' = "running" /\ UNCHANGED <<saveVars, mpMap, pointMap, mbBad>> /\ AddKeyFrame(k, mpMap[k])
      /\ \A p \in Points : mObservations[p] \subseteq mObservations'[p]
  BY DEF ProcessNewKeyFrame
<1>4. KeyFramesAreHome'
  BY <1>1, <1>2, <1>3 DEF KeyFramesAreHome, AddKeyFrame, TypeOK
<1>5. GoodIsObserved'
  BY <1>1, <1>3 DEF GoodIsObserved, Good, saveVars
<1> QED
  BY <1>1, <1>3, <1>4, <1>5, NotSavingWhole DEF saveVars

LEMMA CreateNewMapPointsWhole == WholeInv /\ CreateNewMapPoints => WholeInv'
<1> SUFFICES ASSUME WholeInv, CreateNewMapPoints PROVE WholeInv'
  OBVIOUS
<1>1. FreshInv' /\ TypeOK /\ KeyFramesAreHome /\ GoodIsObserved
  BY CreateNewMapPointsFresh DEF WholeInv, FreshInv
<1>2. PICK P, S : S # {} /\ CreatePoints(P, S, mpCurrentKeyFrame)
  BY DEF CreateNewMapPoints
<1>3. phase' = "running" /\ UNCHANGED <<saveVars, keyFrameVars>>
  BY DEF CreateNewMapPoints
<1>4. KeyFramesAreHome'
  BY <1>1, <1>3 DEF KeyFramesAreHome, keyFrameVars
<1>5. GoodIsObserved'
  BY <1>1, <1>2, <1>3 DEF GoodIsObserved, Good, CreatePoints, saveVars
<1> QED
  BY <1>1, <1>3, <1>4, <1>5, NotSavingWhole DEF saveVars

LEMMA KeyFrameCullingWhole == WholeInv /\ KeyFrameCulling => WholeInv'
<1> SUFFICES ASSUME WholeInv, KeyFrameCulling PROVE WholeInv'
  OBVIOUS
<1>1. FreshInv' /\ TypeOK /\ KeyFramesBelong /\ KeyFramesAreHome /\ GoodIsObserved
  BY KeyFrameCullingFresh DEF WholeInv, FreshInv
<1>2. PICK k \in mspKeyFrames[mpMap[mpCurrentKeyFrame]] :
       /\ EraseObservations([p \in Points |-> IF p \in mvpMapPoints[k] THEN {k} ELSE {}])
       /\ mspKeyFrames' = [mspKeyFrames EXCEPT ![mpMap[k]] = @ \ {k}]
  BY DEF KeyFrameCulling
<1>3. phase' = "running" /\ UNCHANGED <<saveVars, mpMap>>
  BY DEF KeyFrameCulling
<1>4. k \in KeyFrames
  BY <1>1, <1>2 DEF KeyFrameCulling, KeyFramesBelong, TypeOK
<1>5. [p \in Points |-> IF p \in mvpMapPoints[k] THEN {k} ELSE {}] \in [Points -> SUBSET KeyFrames]
  BY <1>4
<1>6. KeyFramesAreHome'
  BY <1>1, <1>2, <1>3 DEF KeyFramesAreHome, TypeOK
<1>7. GoodIsObserved'
  <2> SUFFICES ASSUME ~backup.undefined, NEW p \in Good' PROVE mObservations'[p] # {}
    BY <1>3 DEF GoodIsObserved, saveVars
  <2>1. p \in Good
    BY <1>1, <1>2, <1>5, EraseLeaves DEF Good
  <2> QED
    BY <1>1, <1>2, <1>5, <2>1, StaysObserved DEF GoodIsObserved
<1> QED
  BY <1>1, <1>3, <1>6, <1>7, NotSavingWhole DEF saveVars

LEMMA MoveToIsHome ==
  ASSUME TypeOK, KeyFramesAreHome, GoodIsObserved, NEW m \in Maps, NEW n \in Maps, m # n,
         NEW P \in SUBSET Good, MoveTo(m, n, mspKeyFrames[m], P), backup' = backup
  PROVE  KeyFramesAreHome' /\ GoodIsObserved'
<1>1. mspKeyFrames' = [mspKeyFrames EXCEPT ![m] = {}, ![n] = @ \cup mspKeyFrames[m]]
  BY DEF MoveTo, TypeOK
<1>2. mpMap' = [k \in KeyFrames |-> IF k \in mspKeyFrames[m] THEN n ELSE mpMap[k]]
  BY DEF MoveTo
<1>3. KeyFramesAreHome'
  BY <1>1, <1>2 DEF KeyFramesAreHome, TypeOK
<1>4. Good' = Good /\ mObservations' = mObservations
  BY DEF MoveTo, Good, Maps, None
<1> QED
  BY <1>3, <1>4 DEF GoodIsObserved

LEMMA MergeWhole == WholeInv /\ Merge => WholeInv'
<1> SUFFICES ASSUME WholeInv, NEW m \in Maps, NEW n \in Maps, MergeLocal(m, n) \/ MergeLocal2(m, n) PROVE WholeInv'
  BY DEF Merge
<1>1. Merge
  BY DEF Merge
<1>2. FreshInv' /\ TypeOK /\ KeyFramesAreHome /\ GoodIsObserved
  BY <1>1, MergeFresh DEF WholeInv, FreshInv
<1>3. phase' = "running" /\ backup' = backup /\ file' = file /\ m # n
  BY DEF MergeLocal, MergeLocal2, Mergeable, saveVars
<1>4. CASE MergeLocal(m, n)
  <2>1. PICK W \in SUBSET Good : MoveTo(m, n, mspKeyFrames[m], (mspMapPoints[m] \cap Good) \cup W)
    BY <1>4 DEF MergeLocal
  <2>2. (mspMapPoints[m] \cap Good) \cup W \in SUBSET Good
    OBVIOUS
  <2>3. KeyFramesAreHome' /\ GoodIsObserved'
    BY <1>2, <1>3, <2>1, <2>2, MoveToIsHome
  <2> QED
    BY <1>2, <1>3, <2>3, NotSavingWhole
<1>5. CASE MergeLocal2(m, n)
  <2> DEFINE P == {p \in mspMapPoints[n] \cap Good : pointMap[p] = n}
  <2>1. MoveTo(n, m, mspKeyFrames[n], P) /\ P \in SUBSET Good
    BY <1>5 DEF MergeLocal2
  <2>2. KeyFramesAreHome' /\ GoodIsObserved'
    BY <1>2, <1>3, <2>1, MoveToIsHome
  <2> QED
    BY <1>2, <1>3, <2>2, NotSavingWhole
<1> QED
  BY <1>4, <1>5

LEMMA OthersWhole == WholeInv /\ (CreateMapInAtlas \/ EndMapping \/ Crash \/ CreateNewMap) => WholeInv'
<1> SUFFICES ASSUME WholeInv, CreateMapInAtlas \/ EndMapping \/ Crash \/ CreateNewMap PROVE WholeInv'
  OBVIOUS
<1>1. FreshInv' /\ KeyFramesAreHome /\ GoodIsObserved
  BY CreateMapInAtlasFresh, FileFresh, CreateNewMapFresh DEF WholeInv
<1>2. phase' \in {"running", "off"} /\ UNCHANGED <<keyFrameVars, pointVars, saveVars>>
  BY DEF CreateMapInAtlas, EndMapping, Crash, CreateNewMap
<1>3. KeyFramesAreHome' /\ GoodIsObserved'
  BY <1>1, <1>2 DEF KeyFramesAreHome, GoodIsObserved, Good, keyFrameVars, pointVars, saveVars
<1> QED
  BY <1>1, <1>2, <1>3, NotSavingWhole DEF saveVars

LEMMA ShutdownWhole == WholeInv /\ Shutdown => WholeInv'
<1> SUFFICES ASSUME WholeInv, Shutdown PROVE WholeInv'
  OBVIOUS
<1>1. FreshInv' /\ TypeOK /\ TypeOK' /\ KeyFramesAreHome /\ GoodIsObserved /\ FileInv
  BY ShutdownFresh DEF WholeInv, FreshInv
<1>2. /\ phase' = "observations" /\ mapsLeft' = mspMaps /\ mspMaps \subseteq Maps
      /\ UNCHANGED <<keyFrameVars, pointVars, file>>
  BY <1>1 DEF Shutdown, TypeOK
<1>3. /\ backup'.undefined = backup.undefined
      /\ \A m \in Maps : backup'.points[m] = {} /\ backup'.keyframes[m] = {}
      /\ backup'.whole = [p \in {q \in Good : Whole(q)} |-> mObservations[p]]
  BY DEF Shutdown, NoBackup
<1>4. KeyFramesAreHome' /\ GoodIsObserved'
  BY <1>1, <1>2, <1>3 DEF KeyFramesAreHome, GoodIsObserved, Good, keyFrameVars, pointVars
<1>5. SavedKeyFrames' /\ SavedAsIs' /\ LoopIsAtWork'
  BY <1>2, <1>3 DEF SavedKeyFrames, SavedAsIs, LoopIsAtWork
<1>6. WholeIsKept'
  <2> SUFFICES ASSUME NEW p \in DOMAIN backup'.whole
               PROVE  p \in Good' /\ mObservations'[p] = backup'.whole[p] /\ \E m \in Maps : KeptBy(m, p)'
    BY DEF WholeIsKept
  <2>1. p \in Good /\ Whole(p) /\ backup'.whole[p] = mObservations[p]
    BY <1>3
  <2>2. PICK m \in mspMaps : /\ \A n \in mspMaps : p \in mspMapPoints[n] <=> n = m
                             /\ mObservations[p] \subseteq mspKeyFrames[m]
    BY <2>1 DEF Whole
  <2>3. KeptBy(m, p)'
    BY <1>2, <2>2 DEF KeptBy, keyFrameVars, pointVars
  <2> QED
    BY <1>2, <2>1, <2>2, <2>3 DEF Good, keyFrameVars, pointVars
<1>7. FileInv' /\ WholePointsReturn'
  BY <1>1, <1>2 DEF FileInv, FileIsWhole, FileIsDisjoint, WholePointsReturn
<1> QED
  BY <1>1, <1>4, <1>5, <1>6, <1>7 DEF WholeInv, SaveInv

LEMMA PassEmptyMapWhole == ASSUME WholeInv, NEW m \in Maps, PassEmptyMap(m) PROVE WholeInv'
<1>1. FreshInv' /\ KeyFramesAreHome /\ GoodIsObserved /\ FileInv /\ SaveInv
  BY PassEmptyMapFresh DEF WholeInv
<1>2. /\ phase = "observations" /\ phase' = "observations" /\ mapsLeft' = mapsLeft \ {m} /\ mspKeyFrames[m] = {}
      /\ UNCHANGED <<keyFrameVars, pointVars, backup, file>>
  BY DEF PassEmptyMap
<1>3. KeyFramesAreHome' /\ GoodIsObserved'
  BY <1>1, <1>2 DEF KeyFramesAreHome, GoodIsObserved, Good, keyFrameVars, pointVars
<1>4. SavedKeyFrames' /\ SavedAsIs' /\ LoopIsAtWork'
  BY <1>1, <1>2 DEF SaveInv, SavedKeyFrames, SavedAsIs, LoopIsAtWork, Saving, Good, keyFrameVars, pointVars
<1>5. WholeIsKept'
  <2> SUFFICES ASSUME ~backup.undefined, NEW p \in DOMAIN backup.whole
               PROVE  p \in Good' /\ mObservations'[p] = backup'.whole[p] /\ \E i \in Maps : KeptBy(i, p)'
    BY <1>2 DEF WholeIsKept
  <2>1. p \in Good /\ mObservations[p] = backup.whole[p] /\ \E i \in Maps : KeptBy(i, p)
    BY <1>1, <1>2 DEF SaveInv, WholeIsKept, Saving
  <2>2. PICK i \in Maps : KeptBy(i, p)
    BY <2>1
  <2>3. i # m
    BY <1>1, <1>2, <2>1, <2>2 DEF KeptBy, GoodIsObserved
  <2>4. KeptBy(i, p)'
    BY <1>2, <2>2, <2>3 DEF KeptBy, keyFrameVars, pointVars
  <2> QED
    BY <1>2, <2>1, <2>4 DEF Good, pointVars
<1>6. FileInv' /\ WholePointsReturn'
  BY <1>1, <1>2 DEF FileInv, FileIsWhole, FileIsDisjoint, WholePointsReturn
<1> QED
  BY <1>1, <1>3, <1>4, <1>5, <1>6 DEF WholeInv, SaveInv

\* Of the points, EraseObservations changes those with an observer to erase.
LEMMA ErasedGoBad ==
  ASSUME TypeOK, NEW E \in [Points -> SUBSET KeyFrames], EraseObservations(E),
         NEW p \in Good, mObservations[p] # {}, mObservations[p] \subseteq E[p]
  PROVE  p \in mbBad'
<1>1. mObservations[p] \ E[p] = {} /\ mObservations[p] \cap E[p] # {}
  OBVIOUS
<1>2. Cardinality(mObservations[p] \ E[p]) = 0
  BY <1>1, FS_EmptySet
<1>3. GoesBad(p, E[p])
  BY <1>1, <1>2 DEF GoesBad
<1> QED
  BY <1>3, EraseLeaves

LEMMA EraseForeignWhole == ASSUME WholeInv, NEW m \in Maps, EraseForeign(m) PROVE WholeInv'
<1>1. FreshInv' /\ TypeOK /\ KeyFramesAreHome /\ GoodIsObserved /\ FileInv /\ SaveInv
  BY EraseForeignFresh DEF WholeInv, FreshInv
<1>2. /\ phase = "observations" /\ phase' = "backups" /\ m \in mapsLeft /\ pMi' = m
      /\ UNCHANGED <<keyFrameVars, mapsLeft, file>>
  BY DEF EraseForeign
<1> DEFINE erasing == {p \in mspMapPoints[m] \cap Good : pointMap[p] = m /\ GoesBad(p, Foreign(p, m))}
<1>3. PICK V \in LoopVisits(mspMapPoints[m] \cap Good, erasing) :
        EraseObservations([p \in Points |-> IF p \in V THEN Foreign(p, m) ELSE {}])
  BY DEF EraseForeign
<1> DEFINE E == [p \in Points |-> IF p \in V THEN Foreign(p, m) ELSE {}]
<1>4. E \in [Points -> SUBSET KeyFrames] /\ EraseObservations(E)
  BY <1>1, <1>3, ForeignTyped
<1>5. /\ backup'.undefined = (backup.undefined \/ erasing # {})
      /\ backup'.points = backup.points /\ backup'.keyframes = backup.keyframes /\ backup'.whole = backup.whole
      /\ backup'.observations = backup.observations
  BY <1>1 DEF EraseForeign, TypeOK, Backups
<1>6. V \subseteq mspMapPoints[m] \cap Good
  BY <1>3 DEF LoopVisits
<1>7. \A p \in Points : E[p] = IF p \in V THEN Foreign(p, m) ELSE {}
  OBVIOUS
<1> HIDE DEF E
\* What is not foreign to m is left alone.
<1>8. ASSUME NEW p \in Good, p \in V => Foreign(p, m) = {}
      PROVE  /\ p \in Good' /\ mObservations'[p] = mObservations[p]
             /\ \A i \in Maps : p \in mspMapPoints'[i] <=> p \in mspMapPoints[i]
  <2>1. E[p] \cap mObservations[p] = {}
    BY <1>7, <1>8 DEF Good
  <2> QED
    BY <1>1, <1>4, <2>1, Untouched
<1>9. KeyFramesAreHome'
  BY <1>1, <1>2 DEF KeyFramesAreHome, keyFrameVars
<1>10. GoodIsObserved'
  <2> SUFFICES ASSUME ~backup.undefined, NEW p \in Good' PROVE mObservations'[p] # {}
    BY <1>5 DEF GoodIsObserved
  <2>1. p \in Good
    BY <1>1, <1>4, EraseLeaves DEF Good
  <2> QED
    BY <1>1, <1>4, <2>1, StaysObserved DEF GoodIsObserved
<1>11. SavedKeyFrames' /\ LoopIsAtWork'
  BY <1>1, <1>2, <1>5 DEF SaveInv, SavedKeyFrames, LoopIsAtWork, Saving, keyFrameVars
<1>12. SavedAsIs'
  <2> SUFFICES ASSUME ~backup.undefined, NEW i \in Maps, NEW p \in backup.points[i] \ mbBad'
               PROVE  /\ mObservations'[p] = backup.observations[p] /\ p \in Good'
                      /\ mObservations'[p] \subseteq backup.keyframes[i]
    BY <1>5 DEF SavedAsIs
  <2>1. p \notin mbBad
    BY <1>1, <1>4, EraseLeaves
  <2>2. /\ mObservations[p] = backup.observations[p] /\ p \in Good
        /\ mObservations[p] \subseteq backup.keyframes[i] /\ mObservations[p] \subseteq mspKeyFrames[i]
    BY <1>1, <1>2, <2>1 DEF SaveInv, SavedAsIs, SavedKeyFrames, Saving
  <2>3. mObservations[p] # {} /\ \A k \in mObservations[p] : mpMap[k] = i
    BY <1>1, <2>2 DEF GoodIsObserved, KeyFramesAreHome
  <2>4. CASE p \in V /\ i # m
    <3>1. mObservations[p] \subseteq E[p]
      BY <1>7, <2>2, <2>3, <2>4 DEF Foreign, Good
    <3> QED
      BY <1>1, <1>4, <2>2, <2>3, <3>1, ErasedGoBad
  <2>5. CASE p \notin V \/ i = m
    <3>1. p \in V => Foreign(p, m) = {}
      BY <2>3, <2>5 DEF Foreign
    <3> QED
      BY <1>8, <2>2, <3>1
  <2> QED
    BY <2>4, <2>5
<1>13. WholeIsKept'
  <2> SUFFICES ASSUME ~backup.undefined, NEW p \in DOMAIN backup.whole
               PROVE  p \in Good' /\ mObservations'[p] = backup'.whole[p] /\ \E i \in Maps : KeptBy(i, p)'
    BY <1>5 DEF WholeIsKept
  <2>1. p \in Good /\ mObservations[p] = backup.whole[p] /\ \E i \in Maps : KeptBy(i, p)
    BY <1>1, <1>2 DEF SaveInv, WholeIsKept, Saving
  <2>2. PICK i \in Maps : KeptBy(i, p)
    BY <2>1
  <2>3. p \in V => i = m
    BY <1>2, <1>6, <2>2 DEF KeptBy
  <2>4. p \in V => Foreign(p, m) = {}
    BY <1>1, <2>2, <2>3 DEF KeptBy, KeyFramesAreHome, Foreign
  <2>5. /\ p \in Good' /\ mObservations'[p] = mObservations[p]
        /\ \A j \in Maps : p \in mspMapPoints'[j] <=> p \in mspMapPoints[j]
    BY <1>8, <2>1, <2>4
  <2>6. KeptBy(i, p)'
    BY <1>1, <1>2, <1>5, <2>2, <2>5 DEF KeptBy, keyFrameVars, TypeOK
  <2> QED
    BY <1>5, <2>1, <2>5, <2>6
<1>14. FileInv' /\ WholePointsReturn'
  BY <1>1, <1>2 DEF FileInv, FileIsWhole, FileIsDisjoint, WholePointsReturn
<1> QED
  BY <1>1, <1>9, <1>10, <1>11, <1>12, <1>13, <1>14 DEF WholeInv, SaveInv

\* What BackUp does where it erases nothing.
LEMMA BackUpPlain ==
  ASSUME FreshInv, NEW m \in Maps, BackUp(m), ~backup'.undefined
  PROVE  /\ ~backup.undefined
         /\ \A p \in Good : /\ p \in Good' /\ mObservations'[p] = mObservations[p]
                            /\ \A i \in Maps : p \in mspMapPoints'[i] <=> p \in mspMapPoints[i]
         /\ Good' \subseteq Good /\ mbBad \subseteq mbBad'
         /\ backup'.whole = backup.whole
         /\ backup'.keyframes = [backup.keyframes EXCEPT ![m] = mspKeyFrames[m]]
         /\ backup'.points = [backup.points EXCEPT ![m] = mspMapPoints[m] \cap Good]
         /\ backup'.observations = [p \in Points |-> IF p \in mspMapPoints[m] \cap Good THEN mObservations[p]
                                                     ELSE backup.observations[p]]
         /\ \A p \in mspMapPoints[m] \cap Good : mObservations[p] \subseteq mspKeyFrames[m]
         /\ \A p \in mspMapPoints[m] \cap Good :
              mpRefKF'[p] \in mspKeyFrames[m] => backup'.ref[p] = mpRefKF'[p]
         /\ \A p \in Points : p \notin mspMapPoints[m] \cap Good => backup'.ref[p] = backup.ref[p]
         /\ \A k \in KeyFrames : backup'.matches[k] = IF k \in mspKeyFrames[m] THEN mvpMapPoints'[k] \cap mspMapPoints'[m]
                                                       ELSE backup.matches[k]
         /\ \E E \in [Points -> SUBSET KeyFrames] : EraseObservations(E)
<1>1. TypeOK
  BY DEF FreshInv
<1>2. PICK V \in LoopVisits(mspMapPoints[m] \cap Good, Erasing(m)) :
         \E O \in [V -> SUBSET KeyFrames], E \in [V -> SUBSET KeyFrames], R \in [V -> KeyFrames \cup {None}] :
           /\ V \subseteq mspMapPoints[m] \cap Good
           /\ \A p \in V : O[p] \in SavesObservations(p, m) /\ E[p] \in Erases(p, m)
           /\ EraseObservations([p \in Points |-> IF p \in V THEN E[p] ELSE {}])
           /\ [p \in Points |-> IF p \in V THEN E[p] ELSE {}] \in [Points -> SUBSET KeyFrames]
           /\ \A p \in V : mpRefKF'[p] \in mspKeyFrames[m] => R[p] = mpRefKF'[p]
           /\ backup' = BackedUp(m, V, O, R)
  BY <1>1, BackUpIs
<1>3. PICK O \in [V -> SUBSET KeyFrames], F \in [V -> SUBSET KeyFrames], R \in [V -> KeyFrames \cup {None}] :
           /\ V \subseteq mspMapPoints[m] \cap Good
           /\ \A p \in V : O[p] \in SavesObservations(p, m) /\ F[p] \in Erases(p, m)
           /\ EraseObservations([p \in Points |-> IF p \in V THEN F[p] ELSE {}])
           /\ [p \in Points |-> IF p \in V THEN F[p] ELSE {}] \in [Points -> SUBSET KeyFrames]
           /\ \A p \in V : mpRefKF'[p] \in mspKeyFrames[m] => R[p] = mpRefKF'[p]
           /\ backup' = BackedUp(m, V, O, R)
  BY <1>2
<1> DEFINE E == [p \in Points |-> IF p \in V THEN F[p] ELSE {}]
<1>4. E \in [Points -> SUBSET KeyFrames] /\ EraseObservations(E)
  BY <1>3
<1>5. \A p \in Points : E[p] = IF p \in V THEN F[p] ELSE {}
  OBVIOUS
<1> HIDE DEF E
<1>6. BackUpTyped(V, O, R)
  <2>1. mvpMapPoints' \in [KeyFrames -> SUBSET Points]
    BY <1>1, <1>4, EraseLeaves
  <2> QED
    BY <1>3, <2>1 DEF Good, BackUpTyped
<1>7. backup' = BackedUp(m, V, O, R)
  BY <1>3
<1>8. BackUpMakes(m, V, O, R)
  BY <1>1, <1>6, <1>7, BackUpParts
<1>9. ~backup.undefined /\ Erasing(m) = {}
  BY <1>8 DEF BackUpMakes
<1>10. V = mspMapPoints[m] \cap Good
  BY <1>2, <1>9 DEF LoopVisits
<1>11. \A p \in V : Absent(p, m) = {}
  BY <1>9, <1>10 DEF Erasing
<1>12. \A p \in V : O[p] = mObservations[p] /\ F[p] = {} /\ mObservations[p] \subseteq mspKeyFrames[m]
  <2> SUFFICES ASSUME NEW p \in V
               PROVE  O[p] = mObservations[p] /\ F[p] = {} /\ mObservations[p] \subseteq mspKeyFrames[m]
    OBVIOUS
  <2>1. O[p] \in SavesObservations(p, m) /\ F[p] \in Erases(p, m) /\ Absent(p, m) = {}
    BY <1>3, <1>11
  <2>2. O[p] = mObservations[p] /\ F[p] = {}
    BY <2>1 DEF SavesObservations, Erases
  <2> QED
    BY <2>1, <2>2 DEF Absent
<1>13. ASSUME NEW p \in Good
       PROVE  /\ p \in Good' /\ mObservations'[p] = mObservations[p]
              /\ \A i \in Maps : p \in mspMapPoints'[i] <=> p \in mspMapPoints[i]
  <2>1. E[p] \cap mObservations[p] = {}
    BY <1>5, <1>12 DEF Good
  <2> QED
    BY <1>1, <1>4, <2>1, Untouched
<1>14. Good' \subseteq Good /\ mbBad \subseteq mbBad'
  BY <1>1, <1>4, EraseLeaves DEF Good
<1>15. backup'.observations = [p \in Points |-> IF p \in mspMapPoints[m] \cap Good THEN mObservations[p]
                                               ELSE backup.observations[p]]
  BY <1>8, <1>10, <1>12 DEF BackUpMakes
<1>16. /\ \A p \in V : mpRefKF'[p] \in mspKeyFrames[m] => backup'.ref[p] = mpRefKF'[p]
       /\ \A p \in Points : p \notin V => backup'.ref[p] = backup.ref[p]
  BY <1>3, <1>8, <1>10 DEF BackUpMakes, Good
<1>17. \A k \in KeyFrames : backup'.matches[k] = IF k \in mspKeyFrames[m] THEN mvpMapPoints'[k] \cap mspMapPoints'[m]
                                                 ELSE backup.matches[k]
  BY <1>8 DEF BackUpMakes
<1>18. /\ backup'.whole = backup.whole
       /\ backup'.keyframes = [backup.keyframes EXCEPT ![m] = mspKeyFrames[m]]
       /\ backup'.points = [backup.points EXCEPT ![m] = mspMapPoints[m] \cap Good]
  BY <1>8, <1>10 DEF BackUpMakes
<1> QED
  BY <1>4, <1>9, <1>10, <1>12, <1>13, <1>14, <1>15, <1>16, <1>17, <1>18

LEMMA BackUpWhole == ASSUME WholeInv, NEW m \in Maps, BackUp(m) PROVE WholeInv'
<1>1. FreshInv /\ FreshInv' /\ TypeOK /\ TypeOK' /\ KeyFramesAreHome /\ GoodIsObserved /\ FileInv /\ SaveInv
  BY BackUpFresh DEF WholeInv, FreshInv
<1>2. /\ phase = "backups" /\ phase' = "observations" /\ m \in mapsLeft /\ mapsLeft' = mapsLeft \ {m}
      /\ UNCHANGED <<keyFrameVars, file>>
  BY <1>1 DEF BackUp, SaveInv, LoopIsAtWork
<1>3. KeyFramesAreHome'
  BY <1>1, <1>2 DEF KeyFramesAreHome, keyFrameVars
<1>4. LoopIsAtWork'
  BY <1>2 DEF LoopIsAtWork
<1>5. FileInv' /\ WholePointsReturn'
  BY <1>1, <1>2 DEF FileInv, FileIsWhole, FileIsDisjoint, WholePointsReturn
<1>6. SavedKeyFrames'
  <2>1. \A i \in Maps : backup'.keyframes[i] = IF i = m THEN mspKeyFrames[m] ELSE backup.keyframes[i]
    <3>1. \E V, O, R : backup' = BackedUp(m, V, O, R)
      BY DEF BackUp
    <3>2. PICK V, O, R : backup' = BackedUp(m, V, O, R)
      BY <3>1
    <3>3. backup \in Backups /\ backup.keyframes \in [Maps -> SUBSET KeyFrames]
      BY <1>1 DEF TypeOK, Backups
    <3>4. backup'.keyframes = [backup.keyframes EXCEPT ![m] = mspKeyFrames[m]]
      <4> DEFINE o == [p \in Points |-> IF p \in V THEN O[p] ELSE backup.observations[p]]
                 r == [p \in Points |-> IF p \in V THEN R[p] ELSE backup.ref[p]]
                 t == [k \in KeyFrames |-> IF k \in mspKeyFrames[m] THEN mvpMapPoints'[k] \cap mspMapPoints'[m]
                                                                    ELSE backup.matches[k]]
      <4>1. backup' = [maps |-> backup.maps, keyframes |-> [backup.keyframes EXCEPT ![m] = mspKeyFrames[m]],
                       points |-> [backup.points EXCEPT ![m] = V], observations |-> o, ref |-> r, matches |-> t,
                       init |-> backup.init, undefined |-> backup.undefined \/ Erasing(m) # {}, whole |-> backup.whole]
        BY <3>2, <3>3 DEF BackedUp, SavedMatches, Backups
      <4> HIDE DEF o, r, t
      <4> QED
        BY <4>1
    <3> QED
      BY <3>3, <3>4
  <2> QED
    BY <1>1, <1>2, <2>1 DEF SaveInv, SavedKeyFrames, Saving, keyFrameVars
<1>7. CASE backup'.undefined
  BY <1>1, <1>3, <1>4, <1>5, <1>6, <1>7 DEF WholeInv, SaveInv, GoodIsObserved, SavedAsIs, WholeIsKept
<1>8. CASE ~backup'.undefined
  <2>1. /\ ~backup.undefined
        /\ \A p \in Good : /\ p \in Good' /\ mObservations'[p] = mObservations[p]
                           /\ \A i \in Maps : p \in mspMapPoints'[i] <=> p \in mspMapPoints[i]
        /\ Good' \subseteq Good /\ mbBad \subseteq mbBad'
        /\ backup'.whole = backup.whole
    BY <1>1, <1>8, BackUpPlain
  <2>2. \A p \in mspMapPoints[m] \cap Good : mObservations[p] \subseteq mspKeyFrames[m]
    BY <1>1, <1>8, BackUpPlain
  <2>3. \A i \in Maps :
          /\ backup'.keyframes[i] = IF i = m THEN mspKeyFrames[m] ELSE backup.keyframes[i]
          /\ backup'.points[i] = IF i = m THEN mspMapPoints[m] \cap Good ELSE backup.points[i]
    <3>1. /\ backup'.keyframes = [backup.keyframes EXCEPT ![m] = mspKeyFrames[m]]
          /\ backup'.points = [backup.points EXCEPT ![m] = mspMapPoints[m] \cap Good]
      BY <1>1, <1>8, BackUpPlain
    <3> QED
      BY <1>1, <3>1 DEF TypeOK, Backups
  <2>4. \A p \in Points : backup'.observations[p] = IF p \in mspMapPoints[m] \cap Good THEN mObservations[p]
                                                    ELSE backup.observations[p]
    <3>1. backup'.observations = [p \in Points |-> IF p \in mspMapPoints[m] \cap Good THEN mObservations[p]
                                                  ELSE backup.observations[p]]
      BY <1>1, <1>8, BackUpPlain
    <3> QED
      BY <3>1
  <2>5. GoodIsObserved'
    BY <1>1, <2>1 DEF GoodIsObserved
  <2>6. SavedAsIs'
    <3> SUFFICES ASSUME NEW i \in Maps, NEW p \in backup'.points[i] \ mbBad'
                 PROVE  /\ mObservations'[p] = backup'.observations[p] /\ p \in Good'
                        /\ mObservations'[p] \subseteq backup'.keyframes[i]
      BY DEF SavedAsIs
    <3>1. CASE i = m
      <4>1. p \in mspMapPoints[m] \cap Good /\ backup'.keyframes[i] = mspKeyFrames[m]
        BY <2>3, <3>1
      <4>2. p \in Points
        BY <4>1 DEF Good
      <4>3. backup'.observations[p] = mObservations[p] /\ mObservations[p] \subseteq mspKeyFrames[m]
        BY <2>2, <2>4, <4>1, <4>2
      <4> QED
        BY <2>1, <4>1, <4>2, <4>3 DEF Good
    <3>2. CASE i # m
      <4>1. p \in backup.points[i] \ mbBad
        BY <2>1, <2>3, <3>2
      <4>2. /\ mObservations[p] = backup.observations[p] /\ p \in Good
            /\ mObservations[p] \subseteq backup.keyframes[i]
        BY <1>1, <1>2, <2>1, <4>1 DEF SaveInv, SavedAsIs, Saving
      <4>3. p \in Points /\ p \in Good' /\ mObservations'[p] = mObservations[p]
        BY <2>1, <4>2 DEF Good
      <4>4. backup'.keyframes[i] = backup.keyframes[i]
        BY <2>3, <3>2
      <4>5. backup'.observations[p] = mObservations[p]
        BY <2>4, <4>2, <4>3
      <4> QED
        BY <4>2, <4>3, <4>4, <4>5
    <3> QED
      BY <3>1, <3>2
  <2>7. WholeIsKept'
    <3> SUFFICES ASSUME NEW p \in DOMAIN backup.whole
                 PROVE  p \in Good' /\ mObservations'[p] = backup'.whole[p] /\ \E i \in Maps : KeptBy(i, p)'
      BY <2>1 DEF WholeIsKept
    <3>1. p \in Good /\ mObservations[p] = backup.whole[p] /\ \E i \in Maps : KeptBy(i, p)
      BY <1>1, <1>2, <2>1 DEF SaveInv, WholeIsKept, Saving
    <3>2. PICK i \in Maps : KeptBy(i, p)
      BY <3>1
    <3>3. mapsLeft \subseteq Maps
      BY <1>1 DEF TypeOK
    <3>4. KeptBy(i, p)'
      BY <1>2, <2>1, <2>3, <3>1, <3>2, <3>3 DEF KeptBy, keyFrameVars
    <3> QED
      BY <2>1, <3>1, <3>4
  <2> QED
    BY <1>1, <1>3, <1>4, <1>5, <1>6, <2>5, <2>6, <2>7 DEF WholeInv, SaveInv
<1> QED
  BY <1>7, <1>8

LEMMA FileWhole == WholeInv /\ (RemoveFile \/ WriteFile) => WholeInv'
<1> SUFFICES ASSUME WholeInv, RemoveFile \/ WriteFile PROVE WholeInv'
  OBVIOUS
<1>1. FreshInv' /\ TypeOK /\ KeyFramesAreHome /\ GoodIsObserved /\ FileInv /\ SaveInv
  BY FileFresh DEF WholeInv, FreshInv
<1>2. UNCHANGED <<keyFrameVars, pointVars, mapsLeft, backup>>
  BY DEF RemoveFile, WriteFile
<1>3. KeyFramesAreHome' /\ GoodIsObserved'
  BY <1>1, <1>2 DEF KeyFramesAreHome, GoodIsObserved, Good, keyFrameVars, pointVars
<1>4. CASE RemoveFile
  <2>1. phase = "observations" /\ mapsLeft = {} /\ phase' = "writing" /\ file' = NoFile
    BY <1>4 DEF RemoveFile
  <2>2. FileInv'
    BY <2>1 DEF NoFile, NoBackup, FileInv, FileIsWhole, FileIsDisjoint
  <2>3. SaveInv' /\ WholePointsReturn'
    BY <1>1, <1>2, <2>1 DEF SaveInv, SavedKeyFrames, SavedAsIs, WholeIsKept, KeptBy, LoopIsAtWork, Saving, Good,
                            WholePointsReturn, keyFrameVars, pointVars
  <2> QED
    BY <1>1, <1>3, <2>2, <2>3 DEF WholeInv
<1>5. CASE WriteFile
  <2>1. phase = "writing" /\ phase' = "off" /\ file'.backup = backup /\ file'.bad = mbBad
    BY <1>5 DEF WriteFile
  <2>2. SaveInv' /\ WholePointsReturn'
    BY <2>1 DEF SaveInv, SavedKeyFrames, SavedAsIs, WholeIsKept, LoopIsAtWork, Saving, WholePointsReturn
  <2>3. mapsLeft = {} /\ Saving
    BY <1>1, <2>1 DEF SaveInv, LoopIsAtWork, Saving
  <2>4. FileIsDisjoint'
    BY <1>1, <2>1, <2>3 DEF FileIsDisjoint, SaveInv, SavedKeyFrames, KeyFramesAreHome
  <2>5. ASSUME ~backup.undefined, NEW m \in Maps, NEW p \in backup.points[m] \ mbBad
        PROVE  backup.observations[p] # {} /\ backup.observations[p] \subseteq backup.keyframes[m]
    BY <1>1, <2>3, <2>5 DEF SaveInv, SavedAsIs, GoodIsObserved
  <2>6. ASSUME ~backup.undefined, NEW p \in DOMAIN backup.whole
        PROVE  /\ \E m \in Maps : p \in backup.points[m] \ mbBad
               /\ backup.observations[p] = backup.whole[p]
    <3>1. p \in Good /\ mObservations[p] = backup.whole[p] /\ \E m \in Maps : KeptBy(m, p)
      BY <1>1, <2>3, <2>6 DEF SaveInv, WholeIsKept
    <3>2. PICK m \in Maps : KeptBy(m, p)
      BY <3>1
    <3>3. p \in backup.points[m] \ mbBad
      BY <2>3, <3>1, <3>2 DEF KeptBy, Good
    <3> QED
      BY <1>1, <2>3, <2>6, <3>1, <3>3 DEF SaveInv, SavedAsIs
  <2>7. FileIsWhole'
    BY <2>1, <2>5, <2>6 DEF FileIsWhole
  <2> QED
    BY <1>1, <1>3, <2>2, <2>4, <2>7 DEF WholeInv, FileInv
<1> QED
  BY <1>4, <1>5

LEMMA LoadAtlasWhole == WholeInv /\ LoadAtlas => WholeInv'
<1> SUFFICES ASSUME WholeInv, LoadAtlas PROVE WholeInv'
  OBVIOUS
<1> DEFINE b == file.backup
           good == [m \in Maps |-> b.points[m] \ file.bad]
           mapOf(p) == CHOOSE m \in Maps : p \in good[m]
           loaded == UNION Range(good)
<1>1. FreshInv' /\ TypeOK /\ FileInv
  BY LoadAtlasFresh DEF WholeInv, FreshInv
<1>2. /\ b.keyframes \in [Maps -> SUBSET KeyFrames] /\ b.points \in [Maps -> SUBSET Points]
      /\ b.observations \in [Points -> SUBSET KeyFrames]
  BY <1>1 DEF TypeOK, Backups
<1>3. /\ phase' = "loaded" /\ file' = file /\ mspKeyFrames' = b.keyframes
      /\ mbBad' = file.bad \cap UNION Range(b.points)
  BY DEF LoadAtlas, LoadedPoints, LoadedObservations, LoadedReference
<1>4. backup'.undefined = b.undefined
  BY DEF LoadAtlas, NoBackup
<1>5. mpMap' = [k \in KeyFrames |-> IF \E m \in Maps : k \in b.keyframes[m]
                                    THEN CHOOSE m \in Maps : k \in b.keyframes[m] ELSE None]
  BY DEF LoadAtlas, LoadedPoints, LoadedObservations, LoadedReference
<1>6. /\ pointMap' = [p \in Points |-> IF p \in loaded THEN mapOf(p) ELSE None]
      /\ mObservations' = [p \in Points |-> IF p \in loaded THEN b.observations[p] \cap b.keyframes[mapOf(p)] ELSE {}]
  BY DEF LoadAtlas, LoadedPoints, LoadedObservations, LoadedReference
<1>7. \A p : p \in loaded <=> \E m \in Maps : p \in b.points[m] \ file.bad
  BY DEF Range
<1>8. \A p \in loaded : mapOf(p) \in Maps /\ p \in b.points[mapOf(p)] \ file.bad
  BY <1>7
<1> HIDE DEF mapOf, loaded
<1>9. KeyFramesAreHome'
  <2> SUFFICES ASSUME NEW m \in Maps, NEW k \in b.keyframes[m] PROVE mpMap'[k] = m
    BY <1>3 DEF KeyFramesAreHome
  <2>1. k \in KeyFrames /\ \A n \in Maps : k \in b.keyframes[n] => n = m
    BY <1>1, <1>2 DEF FileInv, FileIsDisjoint
  <2>2. (CHOOSE n \in Maps : k \in b.keyframes[n]) = m
    BY <2>1
  <2> QED
    BY <1>5, <2>1, <2>2
<1>10. \A p \in loaded : ~b.undefined => mObservations'[p] = b.observations[p] /\ b.observations[p] # {}
  <2> SUFFICES ASSUME NEW p \in loaded, ~b.undefined
               PROVE  mObservations'[p] = b.observations[p] /\ b.observations[p] # {}
    OBVIOUS
  <2>1. mapOf(p) \in Maps /\ p \in b.points[mapOf(p)] \ file.bad /\ p \in Points
    BY <1>2, <1>8
  <2>2. b.observations[p] # {} /\ b.observations[p] \subseteq b.keyframes[mapOf(p)]
    BY <1>1, <2>1 DEF FileInv, FileIsWhole
  <2> QED
    BY <1>6, <2>1, <2>2
<1>11. Good' \subseteq loaded
  BY <1>6 DEF Good
<1>12. loaded \subseteq Good'
  <2> SUFFICES ASSUME NEW p \in loaded PROVE p \in Good'
    OBVIOUS
  <2>1. mapOf(p) \in Maps /\ p \notin file.bad /\ p \in Points
    BY <1>2, <1>8
  <2>2. pointMap'[p] = mapOf(p) /\ pointMap'[p] # None
    BY <1>6, <2>1 DEF Maps, None
  <2> QED
    BY <1>3, <2>1, <2>2 DEF Good
<1>13. GoodIsObserved'
  BY <1>4, <1>10, <1>11 DEF GoodIsObserved
<1>14. SaveInv'
  BY <1>3 DEF SaveInv, SavedKeyFrames, SavedAsIs, WholeIsKept, LoopIsAtWork, Saving
<1>15. WholePointsReturn'
  <2> SUFFICES ASSUME ~b.undefined, NEW p \in DOMAIN b.whole
               PROVE  p \in Good' /\ mObservations'[p] = b.whole[p]
    BY <1>3 DEF WholePointsReturn
  <2>1. (\E m \in Maps : p \in b.points[m] \ file.bad) /\ b.observations[p] = b.whole[p]
    BY <1>1 DEF FileInv, FileIsWhole
  <2> QED
    BY <1>7, <1>10, <1>12, <2>1
<1>16. FileInv'
  BY <1>1, <1>3 DEF FileInv, FileIsWhole, FileIsDisjoint
<1> QED
  BY <1>1, <1>9, <1>13, <1>14, <1>15, <1>16 DEF WholeInv

LEMMA NextWhole == WholeInv /\ [Next]_vars => WholeInv'
<1> SUFFICES ASSUME WholeInv, [Next]_vars PROVE WholeInv'
  OBVIOUS
<1>1. CASE Session
  BY <1>1, TrackKeyFrameWhole, ProcessNewKeyFrameWhole, CreateNewMapPointsWhole, KeyFrameCullingWhole, MergeWhole,
     OthersWhole DEF Session
<1>2. CASE Save
  BY <1>2, ShutdownWhole, PassEmptyMapWhole, EraseForeignWhole, BackUpWhole, FileWhole DEF Save
<1>3. CASE Crash \/ LoadAtlas \/ CreateNewMap
  BY <1>3, OthersWhole, LoadAtlasWhole
<1>4. CASE UNCHANGED vars
  <2>1. FreshInv'
    BY <1>4, NextFresh DEF WholeInv
  <2> QED
    BY <1>4, <2>1
    DEF vars, WholeInv, KeyFramesAreHome, GoodIsObserved, Good, SaveInv, SavedKeyFrames, SavedAsIs, WholeIsKept, KeptBy,
        LoopIsAtWork, Saving, FileInv, FileIsWhole, FileIsDisjoint, WholePointsReturn,
        keyFrameVars, pointVars, saveVars
<1> QED
  BY <1>1, <1>2, <1>3, <1>4 DEF Next

\* A point that one map holds with all its observers when the session is shut down comes back, with the same
\* observers, when the next session loads the file, unless a PreSave has erased from what its loop ran over
\* (Map::PreSave, MapPoint::PreSave and PostLoad, over any number of sessions and crashes).
THEOREM WholePointsComeBack == Spec => []WholePointsReturn
<1>1. WholeInv => WholePointsReturn
  BY DEF WholeInv
<1> QED
  BY <1>1, InitWhole, NextWhole, PTL DEF Spec

(***************************************************************************)
(* What is loaded fits together.                                           *)
(***************************************************************************)
\* The points that keyframes match have been made.
MatchesExist == \A k \in KeyFrames : \A p \in mvpMapPoints[k] : pointMap[p] # None

\* The reference keyframe of a good point observes it.
ReferenceKept == ~backup.undefined => \A p \in Good : mpRefKF[p] \in mObservations[p]

\* What observes a good point matches it.
ObserversMatch == ~backup.undefined => \A p \in Good : \A k \in mObservations[p] : p \in mvpMapPoints[k]

\* What matches a good point observes it once it is in a map.  While the atlas is saved, a keyframe may have
\* been erased from the observations by a map that is not its own, and then all of its map have been.
MatchersObserve == ~backup.undefined =>
  \A m \in Maps : \A k \in mspKeyFrames[m] : \A p \in mvpMapPoints[k] \cap Good :
    k \in mObservations[p] \/ (Saving /\ mObservations[p] \cap mspKeyFrames[m] = {})

\* A point that is saved, and still good, is saved with its reference keyframe, and matches are saved where
\* observations are.
Fits(b, bad, observations) ==
  \A m \in Maps : \A p \in b.points[m] \ bad :
    /\ b.ref[p] \in observations[p]
    /\ \A k \in b.keyframes[m] : p \in b.matches[k] <=> k \in observations[p]
SavedFits == Saving /\ ~backup.undefined => Fits(backup, mbBad, mObservations)
FileFits == ~file.backup.undefined => Fits(file.backup, file.bad, file.backup.observations)

MemoryFits == MatchesExist /\ ReferenceKept /\ ObserversMatch /\ (phase # "off" => MatchersObserve)
FitInv == WholeInv /\ MemoryFits /\ SavedFits /\ FileFits /\ LoadedFitsTogether

\* What EraseObservations does to a point that stays good.
LEMMA EraseExact ==
  ASSUME TypeOK, NEW E \in [Points -> SUBSET KeyFrames], EraseObservations(E), NEW p \in Good'
  PROVE  /\ p \in Good /\ mObservations'[p] = mObservations[p] \ E[p]
         /\ \A k \in KeyFrames : p \in mvpMapPoints'[k] <=> p \in mvpMapPoints[k]
         /\ mpRefKF[p] \in mObservations[p] /\ mObservations'[p] # {} => mpRefKF'[p] \in mObservations'[p]
         /\ mpRefKF[p] \in mObservations'[p] => mpRefKF'[p] = mpRefKF[p]
<1> DEFINE B == {q \in Good : GoesBad(q, E[q])}
<1>1. PICK left \in [Points -> UNION {ObserversLeft(q, E[q]) : q \in Points}] :
        /\ \A q \in Points : left[q] \in ObserversLeft(q, E[q])
        /\ mbBad' = mbBad \cup B
        /\ mObservations' = [q \in Points |-> IF q \in B THEN {} ELSE left[q]]
        /\ \E r \in [Points -> KeyFrames \cup {None}] :
              (\A q \in Points : r[q] \in ReferenceLeft(q, left[q])) /\ mpRefKF' = r
        /\ mvpMapPoints' = [k \in KeyFrames |-> mvpMapPoints[k] \ {q \in B : k \in left[q]}]
        /\ UNCHANGED pointMap
  BY DEF EraseObservations
<1>2. p \in Points /\ p \in Good /\ p \notin B
  BY <1>1 DEF Good
<1>3. ~GoesBad(p, E[p])
  BY <1>2
<1>4. left[p] = mObservations[p] \ E[p]
  <2>1. SUFFICES ASSUME mObservations[p] \ E[p] = {}, Cardinality(mObservations[p]) > 1 PROVE FALSE
    BY <1>1, <1>2 DEF ObserversLeft
  <2>2. mObservations[p] # {}
    BY <2>1, FS_EmptySet
  <2>3. mObservations[p] \cap E[p] # {} /\ Cardinality(mObservations[p] \ E[p]) = 0
    BY <2>1, <2>2, FS_EmptySet
  <2> QED
    BY <1>3, <2>3 DEF GoesBad
<1>5. mpRefKF'[p] \in ReferenceLeft(p, left[p])
  BY <1>1, <1>2
<1>6. mObservations'[p] = left[p]
  BY <1>1, <1>2
<1>7. \A k \in KeyFrames : p \in mvpMapPoints'[k] <=> p \in mvpMapPoints[k]
  BY <1>1, <1>2
<1> HIDE DEF B
<1>8. mpRefKF[p] \in mObservations[p] /\ left[p] # {} => mpRefKF'[p] \in left[p]
  BY <1>5 DEF ReferenceLeft
<1>9. mpRefKF[p] \in left[p] => mpRefKF'[p] = mpRefKF[p]
  BY <1>5 DEF ReferenceLeft
<1> QED
  BY <1>2, <1>4, <1>6, <1>7, <1>8, <1>9

\* Keyframes only lose matches by it.
LEMMA EraseKeepsMatches ==
  ASSUME TypeOK, NEW E \in [Points -> SUBSET KeyFrames], EraseObservations(E), MatchesExist
  PROVE  MatchesExist'
<1>1. pointMap' = pointMap /\ \A k \in KeyFrames : mvpMapPoints'[k] \subseteq mvpMapPoints[k]
  BY DEF EraseObservations
<1> QED
  BY <1>1 DEF MatchesExist

\* A point that keeps its reference keyframe observed, and matches where it is observed.
LEMMA EraseKeepsObservers ==
  ASSUME WholeInv, WholeInv', NEW E \in [Points -> SUBSET KeyFrames], EraseObservations(E),
         ~backup'.undefined => ~backup.undefined, ReferenceKept, ObserversMatch
  PROVE  ReferenceKept' /\ ObserversMatch'
<1>1. TypeOK /\ TypeOK'
  BY DEF WholeInv, FreshInv
<1> SUFFICES ASSUME ~backup'.undefined, NEW p \in Good'
             PROVE  mpRefKF'[p] \in mObservations'[p] /\ \A k \in mObservations'[p] : p \in mvpMapPoints'[k]
  BY DEF ReferenceKept, ObserversMatch
<1>2. /\ p \in Good /\ mObservations'[p] = mObservations[p] \ E[p]
      /\ \A k \in KeyFrames : p \in mvpMapPoints'[k] <=> p \in mvpMapPoints[k]
      /\ mpRefKF[p] \in mObservations[p] /\ mObservations'[p] # {} => mpRefKF'[p] \in mObservations'[p]
  BY <1>1, EraseExact
<1>3. mObservations'[p] # {} /\ mpRefKF[p] \in mObservations[p] /\ \A k \in mObservations[p] : p \in mvpMapPoints[k]
  BY <1>2 DEF WholeInv, GoodIsObserved, ReferenceKept, ObserversMatch
<1>4. mObservations[p] \subseteq KeyFrames
  BY <1>1, <1>2 DEF TypeOK, Good
<1> QED
  BY <1>2, <1>3, <1>4

\* Outside of saving and loading it is the memory that counts.
LEMMA NotSavingFits ==
  ASSUME FitInv, WholeInv', MemoryFits', phase' \in {"running", "off"}, file' = file
  PROVE  FitInv'
BY DEF FitInv, SavedFits, FileFits, Fits, LoadedFitsTogether, Saving

LEMMA InitFits == Init => FitInv
<1> SUFFICES ASSUME Init PROVE FitInv
  OBVIOUS
<1>1. MemoryFits
  BY DEF Init, MemoryFits, MatchesExist, ReferenceKept, ObserversMatch, MatchersObserve, Good
<1>2. SavedFits /\ LoadedFitsTogether
  BY DEF Init, SavedFits, LoadedFitsTogether, Saving
<1>3. FileFits
  BY DEF Init, FileFits, Fits, NoFile, NoBackup
<1> QED
  BY <1>1, <1>2, <1>3, InitWhole DEF FitInv

\* What a session is about to make is matched by nothing yet.
LEMMA NewPointsAreNew ==
  ASSUME FreshInv, MatchesExist, NEW P \in NewPoints
  PROVE  \A p \in P : p \in Points /\ p \notin Good /\ \A k \in KeyFrames : p \notin mvpMapPoints[k]
<1> SUFFICES ASSUME NEW p \in P
             PROVE  p \in Points /\ p \notin Good /\ \A k \in KeyFrames : p \notin mvpMapPoints[k]
  OBVIOUS
<1>1. TypeOK /\ MemoryIsFresh
  BY DEF FreshInv
<1>2. p \in Points /\ p = ids.point
  BY <1>1, NewPointsAre
<1>3. p \in Int
  BY <1>2 DEF Points
<1>4. ~(p < ids.point)
  BY <1>2, <1>3
<1>5. pointMap[p] = None
  BY <1>1, <1>2, <1>4 DEF MemoryIsFresh
<1> QED
  BY <1>2, <1>5 DEF Good, MatchesExist

LEMMA TrackKeyFrameFits == FitInv /\ TrackKeyFrame => FitInv'
<1> SUFFICES ASSUME FitInv, TrackKeyFrame PROVE FitInv'
  OBVIOUS
<1>1. /\ FreshInv /\ TypeOK /\ MemoryIsFresh /\ KeyFramesBelong /\ WholeInv' /\ MatchesExist
      /\ ReferenceKept /\ ObserversMatch /\ (phase # "off" => MatchersObserve)
  BY TrackKeyFrameWhole DEF FitInv, MemoryFits, WholeInv, FreshInv
<1> DEFINE k == ids.keyframe
<1>2. PICK P \in NewPoints : (StereoInitialization(k, P) \/ CreateNewKeyFrame(k, P)) /\ CreatePoints(P, {k}, k)
  BY DEF TrackKeyFrame
<1>3. k \in KeyFrames /\ mpCurrentMap \in Maps /\ phase = "running" /\ phase' = "running" /\ UNCHANGED saveVars
  BY <1>1 DEF TrackKeyFrame, KeyFramesBelong
<1>4. (\A m \in Maps : k \notin mspKeyFrames[m]) /\ \A p \in Points : k \notin mObservations[p]
  BY <1>1, <1>3 DEF MemoryIsFresh, Below, KeyFrames
<1>5. \A p \in P : p \in Points /\ p \notin Good /\ \A j \in KeyFrames : p \notin mvpMapPoints[j]
  BY <1>1, NewPointsAreNew
<1>6. \A p \in Points : p \notin P =>
        /\ mObservations'[p] = mObservations[p] /\ mpRefKF'[p] = mpRefKF[p] /\ pointMap'[p] = pointMap[p]
        /\ p \in Good' <=> p \in Good
  BY <1>2 DEF CreatePoints, Good
<1>7. \A p \in P : mObservations'[p] = {k} /\ mpRefKF'[p] = k /\ pointMap'[p] # None
  BY <1>2, <1>3, <1>5 DEF CreatePoints, Maps, None
<1>8. /\ \A j \in KeyFrames : j # k => mvpMapPoints'[j] = mvpMapPoints[j]
      /\ P \subseteq mvpMapPoints'[k] /\ mvpMapPoints'[k] \subseteq Good \cup P
      /\ \A m \in Maps : \A j \in mspKeyFrames'[m] : j \in mspKeyFrames[m] \/ (j = k /\ mvpMapPoints'[k] = P)
  <2>1. CASE StereoInitialization(k, P)
    BY <1>1, <1>3, <2>1 DEF StereoInitialization, AddKeyFrame, TypeOK
  <2>2. CASE CreateNewKeyFrame(k, P)
    BY <1>1, <1>3, <2>2 DEF CreateNewKeyFrame, TypeOK
  <2> QED
    BY <1>2, <2>1, <2>2
<1>9. TypeOK /\ Good \subseteq Points /\ Good' \subseteq Points /\ P \subseteq Points
      /\ \A m \in Maps : mspKeyFrames[m] \subseteq KeyFrames
  BY <1>1, <1>5 DEF Good, TypeOK
<1> HIDE DEF k
<1>10. MatchesExist'
  <2> SUFFICES ASSUME NEW j \in KeyFrames, NEW p \in mvpMapPoints'[j] PROVE pointMap'[p] # None
    BY DEF MatchesExist
  <2>1. CASE p \in P
    BY <1>7, <2>1
  <2>2. CASE p \notin P
    <3>1. p \in Points /\ pointMap[p] # None
      BY <1>1, <1>8, <1>9, <2>2 DEF MatchesExist, Good, TypeOK
    <3> QED
      BY <1>6, <2>2, <3>1
  <2> QED
    BY <2>1, <2>2
<1>11. ReferenceKept' /\ ObserversMatch'
  <2> SUFFICES ASSUME ~backup.undefined, NEW p \in Good'
               PROVE  mpRefKF'[p] \in mObservations'[p] /\ \A j \in mObservations'[p] : p \in mvpMapPoints'[j]
    BY <1>3 DEF ReferenceKept, ObserversMatch, saveVars
  <2>1. CASE p \in P
    BY <1>7, <1>8, <2>1
  <2>2. CASE p \notin P
    <3>1. p \in Good /\ mObservations'[p] = mObservations[p] /\ mpRefKF'[p] = mpRefKF[p] /\ p \in Points
      BY <1>6, <1>9, <2>2
    <3>2. mpRefKF[p] \in mObservations[p] /\ \A j \in mObservations[p] : p \in mvpMapPoints[j]
      BY <1>1, <3>1 DEF ReferenceKept, ObserversMatch
    <3>3. k \notin mObservations[p] /\ mObservations[p] \subseteq KeyFrames
      BY <1>1, <1>4, <3>1 DEF TypeOK
    <3> QED
      BY <1>8, <3>1, <3>2, <3>3
  <2> QED
    BY <2>1, <2>2
<1>12. MatchersObserve'
  <2> SUFFICES ASSUME ~backup.undefined, NEW m \in Maps, NEW j \in mspKeyFrames'[m],
                      NEW p \in mvpMapPoints'[j], p \in Good'
               PROVE  j \in mObservations'[p]
    BY <1>3 DEF MatchersObserve, saveVars
  <2>1. CASE j \in mspKeyFrames[m]
    <3>1. j # k /\ j \in KeyFrames
      BY <1>4, <1>9, <2>1
    <3>2. p \in mvpMapPoints[j] /\ p \notin P
      BY <1>5, <1>8, <3>1
    <3>3. p \in Good /\ mObservations'[p] = mObservations[p]
      BY <1>6, <1>9, <3>2
    <3> QED
      BY <1>1, <1>3, <2>1, <3>2, <3>3 DEF MatchersObserve, Saving
  <2>2. CASE j = k /\ mvpMapPoints'[k] = P
    BY <1>7, <2>2
  <2> QED
    BY <1>8, <2>1, <2>2
<1> QED
  BY <1>1, <1>3, <1>10, <1>11, <1>12, NotSavingFits DEF MemoryFits, saveVars

LEMMA ProcessNewKeyFrameFits == FitInv /\ ProcessNewKeyFrame => FitInv'
<1> SUFFICES ASSUME FitInv, ProcessNewKeyFrame PROVE FitInv'
  OBVIOUS
<1>1. /\ TypeOK /\ KeyFramesBelong /\ WholeInv' /\ MatchesExist
      /\ ReferenceKept /\ ObserversMatch /\ (phase # "off" => MatchersObserve)
  BY ProcessNewKeyFrameWhole DEF FitInv, MemoryFits, WholeInv, FreshInv
<1> DEFINE k == Head(mlNewKeyFrames)
<1>2. k \in KeyFrames /\ mpMap[k] \in Maps
  <2>1. k = mlNewKeyFrames[1] /\ 1 \in 1..Len(mlNewKeyFrames) /\ mlNewKeyFrames[1] \in KeyFrames
    BY <1>1 DEF ProcessNewKeyFrame, TypeOK
  <2> QED
    BY <1>1, <2>1 DEF KeyFramesBelong
<1>3. /\ phase = "running" /\ phase' = "running"
      /\ UNCHANGED <<saveVars, mpMap, pointMap, mbBad, mvpMapPoints, mpRefKF>> /\ AddKeyFrame(k, mpMap[k])
      /\ mObservations' = [p \in Points |-> IF p \in mvpMapPoints[k] \ mbBad THEN mObservations[p] \cup {k}
                                                                            ELSE mObservations[p]]
  BY DEF ProcessNewKeyFrame
<1>4. Good' = Good /\ Good \subseteq Points
  BY <1>3 DEF Good
<1>5. \A m \in Maps : mspKeyFrames'[m] \subseteq mspKeyFrames[m] \cup {k}
  BY <1>1, <1>2, <1>3 DEF AddKeyFrame, TypeOK
<1> HIDE DEF k
<1>6. MatchesExist' /\ ReferenceKept' /\ ObserversMatch'
  <2>1. MatchesExist'
    BY <1>1, <1>3 DEF MatchesExist
  <2>2. ReferenceKept'
    BY <1>1, <1>3, <1>4 DEF ReferenceKept, saveVars
  <2>3. ObserversMatch'
    BY <1>1, <1>3, <1>4 DEF ObserversMatch, saveVars
  <2> QED
    BY <2>1, <2>2, <2>3
<1>7. MatchersObserve'
  <2> SUFFICES ASSUME ~backup.undefined, NEW m \in Maps, NEW j \in mspKeyFrames'[m],
                      NEW p \in mvpMapPoints[j], p \in Good
               PROVE  j \in mObservations'[p]
    BY <1>3, <1>4 DEF MatchersObserve, saveVars
  <2>1. CASE j = k
    BY <1>3, <1>4, <2>1 DEF Good
  <2>2. CASE j \in mspKeyFrames[m]
    <3>1. j \in mObservations[p]
      BY <1>1, <1>3, <2>2 DEF MatchersObserve, Saving
    <3> QED
      BY <1>3, <1>4, <3>1
  <2> QED
    BY <1>5, <2>1, <2>2
<1> QED
  BY <1>1, <1>3, <1>6, <1>7, NotSavingFits DEF MemoryFits, saveVars

LEMMA CreateNewMapPointsFits == FitInv /\ CreateNewMapPoints => FitInv'
<1> SUFFICES ASSUME FitInv, CreateNewMapPoints PROVE FitInv'
  OBVIOUS
<1>1. /\ FreshInv /\ TypeOK /\ KeyFramesBelong /\ WholeInv' /\ MatchesExist
      /\ ReferenceKept /\ ObserversMatch /\ (phase # "off" => MatchersObserve)
  BY CreateNewMapPointsWhole DEF FitInv, MemoryFits, WholeInv, FreshInv
<1>2. PICK P \in NewPoints, S \in SUBSET mspKeyFrames[mpMap[mpCurrentKeyFrame]] :
       /\ mpCurrentKeyFrame \in S
       /\ CreatePoints(P, S, mpCurrentKeyFrame)
       /\ mvpMapPoints' = [k \in KeyFrames |-> IF k \in S THEN mvpMapPoints[k] \cup P ELSE mvpMapPoints[k]]
  BY DEF CreateNewMapPoints
<1>3. phase = "running" /\ phase' = "running" /\ UNCHANGED <<saveVars, keyFrameVars>> /\ mpCurrentMap \in Maps
      /\ S \subseteq KeyFrames
  BY <1>1, <1>2 DEF CreateNewMapPoints, KeyFramesBelong, TypeOK
<1>4. \A p \in P : p \in Points /\ p \notin Good /\ \A j \in KeyFrames : p \notin mvpMapPoints[j]
  BY <1>1, NewPointsAreNew
<1>5. \A p \in Points : p \notin P =>
        /\ mObservations'[p] = mObservations[p] /\ mpRefKF'[p] = mpRefKF[p] /\ pointMap'[p] = pointMap[p]
        /\ p \in Good' <=> p \in Good
  BY <1>2 DEF CreatePoints, Good
<1>6. \A p \in P : mObservations'[p] = S /\ mpRefKF'[p] = mpCurrentKeyFrame /\ pointMap'[p] # None
  BY <1>2, <1>3, <1>4 DEF CreatePoints, Maps, None
<1>7. \A k \in KeyFrames : mvpMapPoints'[k] = IF k \in S THEN mvpMapPoints[k] \cup P ELSE mvpMapPoints[k]
  BY <1>2
<1>8. Good \subseteq Points /\ Good' \subseteq Points /\ \A k \in KeyFrames : mvpMapPoints[k] \subseteq Points
  BY <1>1 DEF Good, TypeOK
<1>9. MatchesExist'
  <2> SUFFICES ASSUME NEW j \in KeyFrames, NEW p \in mvpMapPoints'[j] PROVE pointMap'[p] # None
    BY DEF MatchesExist
  <2>1. p \in P \/ (p \notin P /\ p \in mvpMapPoints[j] /\ p \in Points)
    BY <1>7, <1>8
  <2> QED
    BY <1>1, <1>5, <1>6, <2>1 DEF MatchesExist
<1>10. ReferenceKept' /\ ObserversMatch'
  <2> SUFFICES ASSUME ~backup.undefined, NEW p \in Good'
               PROVE  mpRefKF'[p] \in mObservations'[p] /\ \A j \in mObservations'[p] : p \in mvpMapPoints'[j]
    BY <1>3 DEF ReferenceKept, ObserversMatch, saveVars
  <2>1. CASE p \in P
    BY <1>2, <1>3, <1>6, <1>7, <2>1
  <2>2. CASE p \notin P
    <3>1. p \in Good /\ mObservations'[p] = mObservations[p] /\ mpRefKF'[p] = mpRefKF[p] /\ p \in Points
      BY <1>5, <1>8, <2>2
    <3>2. mpRefKF[p] \in mObservations[p] /\ \A j \in mObservations[p] : p \in mvpMapPoints[j]
      BY <1>1, <3>1 DEF ReferenceKept, ObserversMatch
    <3>3. mObservations[p] \subseteq KeyFrames
      BY <1>1, <3>1 DEF TypeOK
    <3> QED
      BY <1>7, <3>1, <3>2, <3>3
  <2> QED
    BY <2>1, <2>2
<1>11. MatchersObserve'
  <2> SUFFICES ASSUME ~backup.undefined, NEW m \in Maps, NEW j \in mspKeyFrames[m],
                      NEW p \in mvpMapPoints'[j], p \in Good'
               PROVE  j \in mObservations'[p]
    BY <1>3 DEF MatchersObserve, saveVars, keyFrameVars
  <2>0. j \in KeyFrames
    BY <1>1 DEF TypeOK
  <2>1. CASE p \in P
    BY <1>4, <1>6, <1>7, <2>0, <2>1
  <2>2. CASE p \notin P
    <3>1. p \in Good /\ mObservations'[p] = mObservations[p] /\ p \in mvpMapPoints[j]
      BY <1>5, <1>7, <1>8, <2>0, <2>2
    <3> QED
      BY <1>1, <1>3, <3>1 DEF MatchersObserve, Saving
  <2> QED
    BY <2>1, <2>2
<1> QED
  BY <1>1, <1>3, <1>9, <1>10, <1>11, NotSavingFits DEF MemoryFits, saveVars

LEMMA KeyFrameCullingFits == FitInv /\ KeyFrameCulling => FitInv'
<1> SUFFICES ASSUME FitInv, KeyFrameCulling PROVE FitInv'
  OBVIOUS
<1>1. /\ TypeOK /\ KeyFramesBelong /\ KeyFramesAreHome /\ WholeInv /\ WholeInv' /\ MatchesExist
      /\ ReferenceKept /\ ObserversMatch /\ (phase # "off" => MatchersObserve)
  BY KeyFrameCullingWhole DEF FitInv, MemoryFits, WholeInv, FreshInv
<1>2. PICK k \in mspKeyFrames[mpMap[mpCurrentKeyFrame]] :
       /\ EraseObservations([p \in Points |-> IF p \in mvpMapPoints[k] THEN {k} ELSE {}])
       /\ mspKeyFrames' = [mspKeyFrames EXCEPT ![mpMap[k]] = @ \ {k}]
  BY DEF KeyFrameCulling
<1>3. phase = "running" /\ phase' = "running" /\ UNCHANGED <<saveVars, mpMap>>
  BY DEF KeyFrameCulling
<1>4. k \in KeyFrames
  BY <1>1, <1>2 DEF KeyFrameCulling, KeyFramesBelong, TypeOK
<1> DEFINE E == [p \in Points |-> IF p \in mvpMapPoints[k] THEN {k} ELSE {}]
<1>5. E \in [Points -> SUBSET KeyFrames] /\ EraseObservations(E) /\ \A p \in Points : E[p] \subseteq {k}
  BY <1>2, <1>4
<1> HIDE DEF E
<1>6. MatchesExist' /\ ReferenceKept' /\ ObserversMatch'
  BY <1>1, <1>3, <1>5, EraseKeepsMatches, EraseKeepsObservers DEF saveVars
<1>7. \A m \in Maps : \A j \in mspKeyFrames'[m] : j \in mspKeyFrames[m] /\ j # k
  BY <1>1, <1>2 DEF TypeOK, KeyFramesAreHome
<1>8. MatchersObserve'
  <2> SUFFICES ASSUME ~backup.undefined, NEW m \in Maps, NEW j \in mspKeyFrames'[m],
                      NEW p \in mvpMapPoints'[j], p \in Good'
               PROVE  j \in mObservations'[p]
    BY <1>3 DEF MatchersObserve, saveVars
  <2>1. j \in mspKeyFrames[m] /\ j # k /\ j \in KeyFrames /\ p \in Points
    BY <1>1, <1>7 DEF TypeOK, Good
  <2>2. /\ p \in Good /\ mObservations'[p] = mObservations[p] \ E[p]
        /\ \A i \in KeyFrames : p \in mvpMapPoints'[i] <=> p \in mvpMapPoints[i]
    BY <1>1, <1>5, EraseExact
  <2>3. j \in mObservations[p]
    BY <1>1, <1>3, <2>1, <2>2 DEF MatchersObserve, Saving
  <2> QED
    BY <1>5, <2>1, <2>2, <2>3
<1> QED
  BY <1>1, <1>3, <1>6, <1>8, NotSavingFits DEF MemoryFits, saveVars

LEMMA MergeFits == FitInv /\ Merge => FitInv'
<1> SUFFICES ASSUME FitInv, NEW m \in Maps, NEW n \in Maps, MergeLocal(m, n) \/ MergeLocal2(m, n) PROVE FitInv'
  BY DEF Merge
<1>1. Merge
  BY DEF Merge
<1>2. /\ TypeOK /\ WholeInv' /\ MatchesExist
      /\ ReferenceKept /\ ObserversMatch /\ (phase # "off" => MatchersObserve)
  BY <1>1, MergeWhole DEF FitInv, MemoryFits, WholeInv, FreshInv
<1>3. phase = "running" /\ phase' = "running" /\ backup' = backup /\ file' = file
  BY DEF MergeLocal, MergeLocal2, Mergeable, saveVars
<1>4. PICK a \in Maps, c \in Maps, P \in SUBSET Good : MoveTo(a, c, mspKeyFrames[a], P)
  <2>1. CASE MergeLocal(m, n)
    <3>1. PICK W \in SUBSET Good : MoveTo(m, n, mspKeyFrames[m], (mspMapPoints[m] \cap Good) \cup W)
      BY <2>1 DEF MergeLocal
    <3> QED
      BY <3>1
  <2>2. CASE MergeLocal2(m, n)
    BY <2>2 DEF MergeLocal2
  <2> QED
    BY <2>1, <2>2
<1>5. UNCHANGED <<mvpMapPoints, mbBad, mObservations, mpRefKF>> /\ Good' = Good
      /\ \A p \in Points : pointMap[p] # None => pointMap'[p] # None
  BY <1>4 DEF MoveTo, Good, Maps, None
<1>6. \A i \in Maps : \A k \in mspKeyFrames'[i] : \E j \in Maps : k \in mspKeyFrames[j]
  BY <1>2, <1>4 DEF MoveTo, TypeOK
<1>7. MatchesExist' /\ ReferenceKept' /\ ObserversMatch'
  BY <1>2, <1>3, <1>5 DEF MatchesExist, ReferenceKept, ObserversMatch, TypeOK
<1>8. MatchersObserve'
  <2> SUFFICES ASSUME ~backup.undefined, NEW i \in Maps, NEW k \in mspKeyFrames'[i],
                      NEW p \in mvpMapPoints[k], p \in Good
               PROVE  k \in mObservations[p]
    BY <1>3, <1>5 DEF MatchersObserve
  <2>1. PICK j \in Maps : k \in mspKeyFrames[j]
    BY <1>6
  <2> QED
    BY <1>2, <1>3, <2>1 DEF MatchersObserve, Saving
<1> QED
  BY <1>2, <1>3, <1>7, <1>8, NotSavingFits DEF MemoryFits

LEMMA OthersFit == FitInv /\ (CreateMapInAtlas \/ EndMapping \/ Crash \/ CreateNewMap) => FitInv'
<1> SUFFICES ASSUME FitInv, CreateMapInAtlas \/ EndMapping \/ Crash \/ CreateNewMap PROVE FitInv'
  OBVIOUS
<1>1. WholeInv' /\ MemoryFits
  BY OthersWhole DEF FitInv
<1>2. /\ phase' = "off" \/ (phase \in {"running", "loaded"} /\ phase' = "running")
      /\ UNCHANGED <<keyFrameVars, pointVars, saveVars>>
  BY DEF CreateMapInAtlas, EndMapping, Crash, CreateNewMap
<1>3. MatchesExist' /\ ReferenceKept' /\ ObserversMatch'
  BY <1>1, <1>2 DEF MemoryFits, MatchesExist, ReferenceKept, ObserversMatch, Good, pointVars, saveVars
<1>4. phase' # "off" => MatchersObserve'
  <2> SUFFICES ASSUME phase' # "off" PROVE MatchersObserve'
    OBVIOUS
  <2>1. ~Saving /\ ~Saving' /\ MatchersObserve
    BY <1>1, <1>2 DEF MemoryFits, Saving
  <2> QED
    BY <1>2, <2>1 DEF MatchersObserve, Good, keyFrameVars, pointVars, saveVars
<1> QED
  BY <1>1, <1>2, <1>3, <1>4, NotSavingFits DEF MemoryFits, saveVars

LEMMA ShutdownFits == FitInv /\ Shutdown => FitInv'
<1> SUFFICES ASSUME FitInv, Shutdown PROVE FitInv'
  OBVIOUS
<1>1. WholeInv' /\ MemoryFits /\ FileFits
  BY ShutdownWhole DEF FitInv
<1>2. phase = "running" /\ phase' = "observations" /\ UNCHANGED <<keyFrameVars, pointVars, file>>
  BY DEF Shutdown
<1>3. backup'.undefined = backup.undefined /\ \A m \in Maps : backup'.points[m] = {}
  BY DEF Shutdown, NoBackup
<1>4. MatchesExist' /\ ReferenceKept' /\ ObserversMatch'
  BY <1>1, <1>2, <1>3 DEF MemoryFits, MatchesExist, ReferenceKept, ObserversMatch, Good, pointVars
<1>5. MatchersObserve'
  <2>1. ~Saving /\ MatchersObserve
    BY <1>1, <1>2 DEF MemoryFits, Saving
  <2> QED
    BY <1>2, <1>3, <2>1 DEF MatchersObserve, Good, keyFrameVars, pointVars
<1>6. SavedFits' /\ FileFits' /\ LoadedFitsTogether'
  BY <1>1, <1>2, <1>3 DEF SavedFits, FileFits, Fits, LoadedFitsTogether
<1> QED
  BY <1>1, <1>4, <1>5, <1>6 DEF FitInv, MemoryFits

LEMMA PassEmptyMapFits == ASSUME FitInv, NEW m \in Maps, PassEmptyMap(m) PROVE FitInv'
<1>1. WholeInv' /\ MemoryFits /\ FileFits /\ SavedFits
  BY PassEmptyMapWhole DEF FitInv
<1>2. phase' = "observations" /\ phase = "observations" /\ UNCHANGED <<keyFrameVars, pointVars, backup, file>>
  BY DEF PassEmptyMap
<1>3. Saving /\ Saving'
  BY <1>2 DEF Saving
<1>4. MatchesExist' /\ ReferenceKept' /\ ObserversMatch'
  BY <1>1, <1>2 DEF MemoryFits, MatchesExist, ReferenceKept, ObserversMatch, Good, pointVars
<1>5. MatchersObserve'
  BY <1>1, <1>2, <1>3 DEF MemoryFits, MatchersObserve, Good, keyFrameVars, pointVars
<1>6. SavedFits' /\ FileFits' /\ LoadedFitsTogether'
  BY <1>1, <1>2, <1>3 DEF SavedFits, FileFits, Fits, LoadedFitsTogether, pointVars
<1> QED
  BY <1>1, <1>4, <1>5, <1>6 DEF FitInv, MemoryFits

LEMMA EraseForeignFits == ASSUME FitInv, NEW m \in Maps, EraseForeign(m) PROVE FitInv'
<1>1. /\ TypeOK /\ TypeOK' /\ KeyFramesAreHome /\ WholeInv /\ WholeInv' /\ MatchesExist
      /\ ReferenceKept /\ ObserversMatch /\ (phase # "off" => MatchersObserve) /\ SavedFits /\ FileFits
      /\ SaveInv /\ SaveInv'
  BY EraseForeignWhole DEF FitInv, MemoryFits, WholeInv, FreshInv
<1>2. /\ phase = "observations" /\ phase' = "backups" /\ Saving /\ Saving'
      /\ UNCHANGED <<keyFrameVars, file>>
  BY DEF EraseForeign, Saving
<1>3. PICK V : EraseObservations([p \in Points |-> IF p \in V THEN Foreign(p, m) ELSE {}])
  BY DEF EraseForeign
<1> DEFINE E == [p \in Points |-> IF p \in V THEN Foreign(p, m) ELSE {}]
<1>4. E \in [Points -> SUBSET KeyFrames] /\ EraseObservations(E)
  BY <1>1, <1>3, ForeignTyped
<1>5. /\ ~backup'.undefined => ~backup.undefined
      /\ backup'.points = backup.points /\ backup'.keyframes = backup.keyframes
      /\ backup'.observations = backup.observations /\ backup'.ref = backup.ref /\ backup'.matches = backup.matches
  BY <1>1 DEF EraseForeign, TypeOK, Backups
<1>6. \A p \in Points : E[p] = {} \/ E[p] = Foreign(p, m)
  OBVIOUS
<1> HIDE DEF E
<1>7. MatchesExist' /\ ReferenceKept' /\ ObserversMatch'
  BY <1>1, <1>4, <1>5, EraseKeepsMatches, EraseKeepsObservers
\* Of the keyframes of one map, either all are foreign or none is.
<1>8. MatchersObserve'
  <2> SUFFICES ASSUME ~backup.undefined, NEW i \in Maps, NEW k \in mspKeyFrames[i],
                      NEW p \in mvpMapPoints'[k], p \in Good'
               PROVE  k \in mObservations'[p] \/ mObservations'[p] \cap mspKeyFrames[i] = {}
    BY <1>2, <1>5 DEF MatchersObserve, keyFrameVars
  <2>1. k \in KeyFrames /\ p \in Points
    BY <1>1 DEF TypeOK, Good
  <2>2. /\ p \in Good /\ mObservations'[p] = mObservations[p] \ E[p] /\ p \in mvpMapPoints[k]
    BY <1>1, <1>4, <2>1, EraseExact
  <2>3. k \in mObservations[p] \/ mObservations[p] \cap mspKeyFrames[i] = {}
    BY <1>1, <1>2, <2>2 DEF MatchersObserve
  <2>4. \A j \in mspKeyFrames[i] : mpMap[j] = i
    BY <1>1 DEF KeyFramesAreHome
  <2> QED
    BY <1>6, <2>1, <2>2, <2>3, <2>4 DEF Foreign
<1>9. SavedFits'
  <2> SUFFICES ASSUME ~backup'.undefined, NEW i \in Maps, NEW p \in backup.points[i] \ mbBad'
               PROVE  /\ backup.ref[p] \in mObservations'[p]
                      /\ \A k \in backup.keyframes[i] : p \in backup.matches[k] <=> k \in mObservations'[p]
    BY <1>5 DEF SavedFits, Fits
  <2>1. p \notin mbBad
    BY <1>1, <1>4, EraseLeaves
  <2>2. mObservations[p] = backup.observations[p] /\ mObservations'[p] = backup.observations[p]
    BY <1>1, <1>2, <1>5, <2>1 DEF SaveInv, SavedAsIs
  <2> QED
    BY <1>1, <1>2, <1>5, <2>1, <2>2 DEF SavedFits, Fits
<1>10. FileFits' /\ LoadedFitsTogether'
  BY <1>1, <1>2 DEF FileFits, Fits, LoadedFitsTogether
<1> QED
  BY <1>1, <1>7, <1>8, <1>9, <1>10 DEF FitInv, MemoryFits

LEMMA BackUpFits == ASSUME FitInv, NEW m \in Maps, BackUp(m) PROVE FitInv'
<1>1. /\ FreshInv /\ TypeOK /\ TypeOK' /\ KeyFramesAreHome /\ WholeInv /\ WholeInv' /\ MatchesExist
      /\ ReferenceKept /\ ObserversMatch /\ (phase # "off" => MatchersObserve) /\ SavedFits /\ FileFits
      /\ SaveInv /\ GoodIsObserved
  BY BackUpWhole DEF FitInv, MemoryFits, WholeInv, FreshInv
<1>2. /\ phase = "backups" /\ phase' = "observations" /\ Saving /\ Saving'
      /\ UNCHANGED <<keyFrameVars, file>>
  BY DEF BackUp, Saving
<1>3. FileFits' /\ LoadedFitsTogether'
  BY <1>1, <1>2 DEF FileFits, Fits, LoadedFitsTogether
<1>4. PICK E \in [Points -> SUBSET KeyFrames] : EraseObservations(E)
  BY <1>1, BackUpIs
<1>5. MatchesExist'
  BY <1>1, <1>4, EraseKeepsMatches
<1>6. CASE backup'.undefined
  <2>1. ReferenceKept' /\ ObserversMatch' /\ MatchersObserve' /\ SavedFits'
    BY <1>6 DEF ReferenceKept, ObserversMatch, MatchersObserve, SavedFits
  <2> QED
    BY <1>1, <1>3, <1>5, <2>1 DEF FitInv, MemoryFits
<1>7. CASE ~backup'.undefined
  <2> DEFINE V == mspMapPoints[m] \cap Good
  <2>1. /\ ~backup.undefined
        /\ \A p \in Good : /\ p \in Good' /\ mObservations'[p] = mObservations[p]
                           /\ \A i \in Maps : p \in mspMapPoints'[i] <=> p \in mspMapPoints[i]
        /\ Good' \subseteq Good /\ mbBad \subseteq mbBad'
        /\ backup'.keyframes = [backup.keyframes EXCEPT ![m] = mspKeyFrames[m]]
        /\ backup'.points = [backup.points EXCEPT ![m] = V]
    BY <1>1, <1>7, BackUpPlain
  <2>2. /\ \A p \in V : mObservations[p] \subseteq mspKeyFrames[m]
        /\ \A p \in V : mpRefKF'[p] \in mspKeyFrames[m] => backup'.ref[p] = mpRefKF'[p]
        /\ \A p \in Points : p \notin V => backup'.ref[p] = backup.ref[p]
        /\ \A k \in KeyFrames : backup'.matches[k] = IF k \in mspKeyFrames[m] THEN mvpMapPoints'[k] \cap mspMapPoints'[m]
                                                     ELSE backup.matches[k]
    BY <1>1, <1>7, BackUpPlain
  <2>3. \A i \in Maps : /\ backup'.keyframes[i] = IF i = m THEN mspKeyFrames[m] ELSE backup.keyframes[i]
                        /\ backup'.points[i] = IF i = m THEN V ELSE backup.points[i]
    BY <1>1, <2>1 DEF TypeOK, Backups
  <2>4. \A p \in Good' : \A k \in KeyFrames : p \in mvpMapPoints'[k] <=> p \in mvpMapPoints[k]
    BY <1>1, <1>4, EraseExact
  <2>5. ReferenceKept' /\ ObserversMatch'
    BY <1>1, <1>4, <2>1, EraseKeepsObservers
  <2>6. MatchersObserve'
    <3> SUFFICES ASSUME NEW i \in Maps, NEW k \in mspKeyFrames[i], NEW p \in mvpMapPoints'[k], p \in Good'
                 PROVE  k \in mObservations'[p] \/ mObservations'[p] \cap mspKeyFrames[i] = {}
      BY <1>2 DEF MatchersObserve, keyFrameVars
    <3>1. k \in KeyFrames
      BY <1>1 DEF TypeOK
    <3>2. p \in Good /\ p \in mvpMapPoints[k] /\ mObservations'[p] = mObservations[p]
      BY <2>1, <2>4, <3>1
    <3> QED
      BY <1>1, <1>2, <2>1, <3>2 DEF MatchersObserve
  <2>7. ASSUME NEW p \in V
        PROVE  /\ backup'.ref[p] \in mObservations'[p]
               /\ \A k \in mspKeyFrames[m] : p \in backup'.matches[k] <=> k \in mObservations'[p]
    <3>1. p \in Good /\ p \in Good' /\ mObservations'[p] = mObservations[p] /\ p \in mspMapPoints'[m]
          /\ mObservations[p] \subseteq mspKeyFrames[m] /\ mObservations[p] # {}
      BY <1>1, <2>1, <2>2, <2>7 DEF GoodIsObserved
    <3>2. backup'.ref[p] \in mObservations'[p]
      BY <1>7, <2>2, <2>5, <3>1 DEF ReferenceKept
    <3> SUFFICES ASSUME NEW k \in mspKeyFrames[m] PROVE p \in backup'.matches[k] <=> k \in mObservations[p]
      BY <3>1, <3>2
    <3>3. k \in KeyFrames
      BY <1>1 DEF TypeOK
    <3>4. p \in backup'.matches[k] <=> p \in mvpMapPoints[k]
      <4>1. backup'.matches[k] = mvpMapPoints'[k] \cap mspMapPoints'[m]
        BY <2>2, <3>3
      <4>2. p \in mvpMapPoints'[k] <=> p \in mvpMapPoints[k]
        BY <2>4, <3>1, <3>3
      <4> QED
        BY <3>1, <4>1, <4>2
    <3>5. k \in mObservations[p] => p \in mvpMapPoints[k]
      BY <1>1, <2>1, <3>1 DEF ObserversMatch
    <3>6. p \in mvpMapPoints[k] => k \in mObservations[p]
      BY <1>1, <1>2, <2>1, <3>1 DEF MatchersObserve
    <3> QED
      BY <3>4, <3>5, <3>6
  <2>8. ASSUME NEW i \in Maps, i # m, NEW p \in backup.points[i] \ mbBad'
        PROVE  /\ backup'.ref[p] \in mObservations'[p]
               /\ \A k \in backup.keyframes[i] : p \in backup'.matches[k] <=> k \in mObservations'[p]
    <3>1. p \in backup.points[i] \ mbBad
      BY <2>1
    <3>2. /\ p \in Good /\ mObservations[p] \subseteq backup.keyframes[i]
          /\ backup.keyframes[i] \subseteq mspKeyFrames[i] /\ mspKeyFrames[i] \cap mspKeyFrames[m] = {}
      BY <1>1, <1>2, <2>1, <2>8, <3>1 DEF SaveInv, SavedAsIs, SavedKeyFrames, KeyFramesAreHome
    <3>3. mObservations[p] # {} /\ mObservations'[p] = mObservations[p] /\ p \in Points
      BY <1>1, <2>1, <3>2 DEF GoodIsObserved, Good
    <3>4. p \notin V
      BY <2>2, <3>2, <3>3
    <3>5. backup'.ref[p] = backup.ref[p]
      BY <2>2, <3>3, <3>4
    <3>6. \A k \in backup.keyframes[i] : k \in KeyFrames /\ backup'.matches[k] = backup.matches[k]
      BY <1>1, <2>2, <3>2 DEF TypeOK
    <3>7. /\ backup.ref[p] \in mObservations[p]
          /\ \A k \in backup.keyframes[i] : p \in backup.matches[k] <=> k \in mObservations[p]
      BY <1>1, <1>2, <2>1, <3>1 DEF SavedFits, Fits
    <3> QED
      BY <3>3, <3>5, <3>6, <3>7
  <2> HIDE DEF V
  <2>9. SavedFits'
    <3> SUFFICES ASSUME NEW i \in Maps, NEW p \in backup'.points[i] \ mbBad'
                 PROVE  /\ backup'.ref[p] \in mObservations'[p]
                        /\ \A k \in backup'.keyframes[i] : p \in backup'.matches[k] <=> k \in mObservations'[p]
      BY DEF SavedFits, Fits
    <3>1. CASE i = m
      BY <2>3, <2>7, <3>1
    <3>2. CASE i # m
      BY <2>3, <2>8, <3>2
    <3> QED
      BY <3>1, <3>2
  <2> QED
    BY <1>1, <1>3, <1>5, <2>5, <2>6, <2>9 DEF FitInv, MemoryFits
<1> QED
  BY <1>6, <1>7

LEMMA FileFitsStep == FitInv /\ (RemoveFile \/ WriteFile) => FitInv'
<1> SUFFICES ASSUME FitInv, RemoveFile \/ WriteFile PROVE FitInv'
  OBVIOUS
<1>1. WholeInv' /\ SaveInv /\ MemoryFits /\ SavedFits
  BY FileWhole DEF FitInv, WholeInv
<1>2. UNCHANGED <<keyFrameVars, pointVars, backup>>
  BY DEF RemoveFile, WriteFile
<1>3. MatchesExist' /\ ReferenceKept' /\ ObserversMatch'
  BY <1>1, <1>2 DEF MemoryFits, MatchesExist, ReferenceKept, ObserversMatch, Good, pointVars
<1>4. CASE RemoveFile
  <2>1. phase = "observations" /\ phase' = "writing" /\ file' = NoFile /\ Saving /\ Saving'
    BY <1>4 DEF RemoveFile, Saving
  <2>2. MatchersObserve'
    BY <1>1, <1>2, <2>1 DEF MemoryFits, MatchersObserve, Good, keyFrameVars, pointVars
  <2>3. SavedFits'
    BY <1>1, <1>2, <2>1 DEF SavedFits, Fits, pointVars
  <2>4. FileFits' /\ LoadedFitsTogether'
    BY <2>1 DEF FileFits, Fits, NoFile, NoBackup, LoadedFitsTogether
  <2> QED
    BY <1>1, <1>3, <2>1, <2>2, <2>3, <2>4 DEF FitInv, MemoryFits
<1>5. CASE WriteFile
  <2>1. phase = "writing" /\ phase' = "off" /\ file'.backup = backup /\ file'.bad = mbBad /\ Saving /\ ~Saving'
    BY <1>5 DEF WriteFile, Saving
  <2>2. FileFits'
    <3> SUFFICES ASSUME ~backup.undefined, NEW i \in Maps, NEW p \in backup.points[i] \ mbBad
                 PROVE  /\ backup.ref[p] \in backup.observations[p]
                        /\ \A k \in backup.keyframes[i] : p \in backup.matches[k] <=> k \in backup.observations[p]
      BY <2>1 DEF FileFits, Fits
    <3>1. mObservations[p] = backup.observations[p]
      BY <1>1, <2>1 DEF SaveInv, SavedAsIs
    <3> QED
      BY <1>1, <2>1, <3>1 DEF SavedFits, Fits
  <2>3. SavedFits' /\ LoadedFitsTogether'
    BY <2>1 DEF SavedFits, LoadedFitsTogether
  <2> QED
    BY <1>1, <1>3, <2>1, <2>2, <2>3 DEF FitInv, MemoryFits
<1> QED
  BY <1>4, <1>5

LEMMA LoadAtlasFits == FitInv /\ LoadAtlas => FitInv'
<1> SUFFICES ASSUME FitInv, LoadAtlas PROVE FitInv'
  OBVIOUS
<1> DEFINE b == file.backup
           good == [m \in Maps |-> b.points[m] \ file.bad]
           mapOf(p) == CHOOSE m \in Maps : p \in good[m]
           loaded == UNION Range(good)
<1>1. WholeInv' /\ KeyFramesAreHome' /\ TypeOK /\ FileIsWhole /\ FileIsDisjoint /\ FileFits
  BY LoadAtlasWhole DEF FitInv, WholeInv, FreshInv, FileInv
<1>2. /\ b.keyframes \in [Maps -> SUBSET KeyFrames] /\ b.points \in [Maps -> SUBSET Points]
      /\ b.observations \in [Points -> SUBSET KeyFrames] /\ b.matches \in [KeyFrames -> SUBSET Points]
  BY <1>1 DEF TypeOK, Backups
<1>3. phase' = "loaded" /\ file' = file /\ mspKeyFrames' = b.keyframes
  BY DEF LoadAtlas
<1>4. backup'.undefined = b.undefined
  BY DEF LoadAtlas, NoBackup
<1>5. /\ pointMap' = [p \in Points |-> IF p \in loaded THEN mapOf(p) ELSE None]
      /\ mObservations' = [p \in Points |-> IF p \in loaded THEN b.observations[p] \cap b.keyframes[mapOf(p)] ELSE {}]
      /\ mpRefKF' = [p \in Points |-> IF p \in loaded /\ b.ref[p] \in b.keyframes[mapOf(p)] THEN b.ref[p] ELSE None]
  BY DEF LoadAtlas, LoadedPoints, LoadedObservations, LoadedReference
<1>6. mvpMapPoints' = [k \in KeyFrames |-> LoadedMatches(good, k)]
  BY DEF LoadAtlas, LoadedPoints, LoadedObservations, LoadedReference
<1>7. \A p : p \in loaded <=> \E m \in Maps : p \in b.points[m] \ file.bad
  BY DEF Range
<1>8. \A p \in loaded : mapOf(p) \in Maps /\ p \in b.points[mapOf(p)] \ file.bad /\ p \in Points
  BY <1>2, <1>7
<1>9. \A k \in KeyFrames : \A p : p \in LoadedMatches(good, k) <=>
        \E m \in Maps : k \in b.keyframes[m] /\ p \in b.matches[k] /\ p \in b.points[m] \ file.bad
  BY DEF LoadedMatches
<1> HIDE DEF good, mapOf, loaded
<1>10. \A p \in Points : p \in loaded <=> pointMap'[p] # None
  BY <1>5, <1>8 DEF Maps, None
<1>11. Good' \subseteq loaded
  BY <1>10 DEF Good
<1>12. MatchesExist'
  <2> SUFFICES ASSUME NEW k \in KeyFrames, NEW p \in LoadedMatches(good, k) PROVE pointMap'[p] # None
    BY <1>6 DEF MatchesExist
  <2>1. p \in loaded
    BY <1>7, <1>9
  <2> QED
    BY <1>8, <1>10, <2>1
<1>13. ASSUME ~b.undefined, NEW p \in loaded
       PROVE  /\ mObservations'[p] = b.observations[p] /\ b.observations[p] \subseteq b.keyframes[mapOf(p)]
              /\ pointMap'[p] = mapOf(p) /\ b.observations[p] # {}
              /\ mpRefKF'[p] = b.ref[p] /\ b.ref[p] \in b.observations[p]
  <2>1. mapOf(p) \in Maps /\ p \in b.points[mapOf(p)] \ file.bad /\ p \in Points
    BY <1>8
  <2>2. b.observations[p] # {} /\ b.observations[p] \subseteq b.keyframes[mapOf(p)] /\ b.ref[p] \in b.observations[p]
    BY <1>1, <1>13, <2>1 DEF FileIsWhole, FileFits, Fits
  <2> QED
    BY <1>5, <2>1, <2>2
\* One map has a good point, and its observers are there.
<1>14. ASSUME ~b.undefined, NEW p \in loaded, NEW m \in Maps, p \in b.points[m] \ file.bad
       PROVE  m = mapOf(p)
  <2>1. b.observations[p] # {} /\ b.observations[p] \subseteq b.keyframes[m] /\ b.observations[p] \subseteq b.keyframes[mapOf(p)]
    BY <1>1, <1>13, <1>14 DEF FileIsWhole
  <2> QED
    BY <1>1, <1>8, <2>1 DEF FileIsDisjoint
<1>15. ASSUME ~b.undefined, NEW p \in loaded, NEW k \in KeyFrames
       PROVE  p \in mvpMapPoints'[k] <=> k \in mObservations'[p]
  <2>1. p \in mvpMapPoints'[k] <=>
          \E m \in Maps : k \in b.keyframes[m] /\ p \in b.matches[k] /\ p \in b.points[m] \ file.bad
    BY <1>6, <1>9
  <2>2. mapOf(p) \in Maps /\ p \in b.points[mapOf(p)] \ file.bad
    BY <1>8
  <2>3. k \in b.keyframes[mapOf(p)] => (p \in b.matches[k] <=> k \in b.observations[p])
    BY <1>1, <1>15, <2>2 DEF FileFits, Fits
  <2>4. p \in mvpMapPoints'[k] <=> k \in b.keyframes[mapOf(p)] /\ p \in b.matches[k]
    BY <1>14, <1>15, <2>1, <2>2
  <2> QED
    BY <1>13, <1>15, <2>3, <2>4
<1>16. ReferenceKept' /\ ObserversMatch'
  <2> SUFFICES ASSUME ~b.undefined, NEW p \in Good'
               PROVE  mpRefKF'[p] \in mObservations'[p] /\ \A k \in mObservations'[p] : p \in mvpMapPoints'[k]
    BY <1>4 DEF ReferenceKept, ObserversMatch
  <2>1. p \in loaded /\ p \in Points
    BY <1>8, <1>11
  <2>2. mObservations'[p] \subseteq KeyFrames
    BY <1>2, <1>13, <2>1
  <2> QED
    BY <1>13, <1>15, <2>1, <2>2
<1>17. MatchersObserve'
  <2> SUFFICES ASSUME ~b.undefined, NEW m \in Maps, NEW k \in b.keyframes[m], NEW p \in mvpMapPoints'[k], p \in Good'
               PROVE  k \in mObservations'[p]
    BY <1>3, <1>4 DEF MatchersObserve
  <2>1. p \in loaded /\ k \in KeyFrames
    BY <1>2, <1>11
  <2> QED
    BY <1>15, <2>1
<1>18. LoadedFitsTogether'
  <2> SUFFICES ASSUME ~b.undefined
               PROVE  /\ \A p \in Good' : /\ mpRefKF'[p] \in mObservations'[p]
                                          /\ mObservations'[p] \subseteq mspKeyFrames'[pointMap'[p]]
                      /\ \A p \in Points, k \in KeyFrames : k \in mObservations'[p] <=> p \in mvpMapPoints'[k]
    BY <1>3 DEF LoadedFitsTogether
  <2>1. ASSUME NEW p \in Good'
        PROVE  mpRefKF'[p] \in mObservations'[p] /\ mObservations'[p] \subseteq mspKeyFrames'[pointMap'[p]]
    BY <1>3, <1>11, <1>13, <2>1
  <2>2. ASSUME NEW p \in Points, NEW k \in KeyFrames PROVE k \in mObservations'[p] <=> p \in mvpMapPoints'[k]
    <3>1. CASE p \in loaded
      BY <1>15, <3>1
    <3>2. CASE p \notin loaded
      <4>1. mObservations'[p] = {}
        BY <1>5, <3>2
      <4>2. p \notin mvpMapPoints'[k]
        BY <1>6, <1>7, <1>9, <3>2
      <4> QED
        BY <4>1, <4>2
    <3> QED
      BY <3>1, <3>2
  <2> QED
    BY <2>1, <2>2
<1>19. SavedFits' /\ FileFits'
  BY <1>1, <1>3 DEF SavedFits, Saving, FileFits, Fits
<1> QED
  BY <1>1, <1>12, <1>16, <1>17, <1>18, <1>19 DEF FitInv, MemoryFits

LEMMA NextFits == FitInv /\ [Next]_vars => FitInv'
<1> SUFFICES ASSUME FitInv, [Next]_vars PROVE FitInv'
  OBVIOUS
<1>1. CASE Session
  BY <1>1, TrackKeyFrameFits, ProcessNewKeyFrameFits, CreateNewMapPointsFits, KeyFrameCullingFits, MergeFits,
     OthersFit DEF Session
<1>2. CASE Save
  BY <1>2, ShutdownFits, PassEmptyMapFits, EraseForeignFits, BackUpFits, FileFitsStep DEF Save
<1>3. CASE Crash \/ LoadAtlas \/ CreateNewMap
  BY <1>3, OthersFit, LoadAtlasFits
<1>4. CASE UNCHANGED vars
  <2>1. WholeInv'
    BY <1>4, NextWhole DEF FitInv
  <2>2. /\ MemoryFits' /\ SavedFits' /\ FileFits' /\ LoadedFitsTogether'
    BY <1>4 DEF vars, FitInv, MemoryFits, MatchesExist, ReferenceKept, ObserversMatch, MatchersObserve, Good, SavedFits,
        FileFits, Fits, LoadedFitsTogether, Saving, keyFrameVars, pointVars, saveVars
  <2> QED
    BY <2>1, <2>2 DEF FitInv
<1> QED
  BY <1>1, <1>2, <1>3, <1>4 DEF Next

\* What a session loads fits together, unless a PreSave has erased from what its loop ran over: keyframes and
\* points know each other, in one map, and every good point has a reference keyframe among its observers
\* (Map::PreSave, MapPoint::PreSave, KeyFrame::PreSave and their PostLoad, over any number of sessions).
THEOREM LoadedFits == Spec => []LoadedFitsTogether
<1>1. FitInv => LoadedFitsTogether
  BY DEF FitInv
<1> QED
  BY <1>1, InitFits, NextFits, PTL DEF Spec
=============================================================================

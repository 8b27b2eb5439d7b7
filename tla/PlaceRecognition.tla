---------------------------- MODULE PlaceRecognition ----------------------------
(***************************************************************************)
(* Place recognition (NewDetectCommonRegions and Run in LoopClosing.cc)    *)
(* beside local mapping: a loop, or a merge with another map, is carried   *)
(* out when three keyframes agree on the matched one, and until then loop  *)
(* closing protects keyframes from being erased.                           *)
(*                                                                         *)
(* That a correction has local mapping stopped is the subject of           *)
(* SlamThreads; here a correction takes place between two iterations of    *)
(* local mapping.                                                          *)
(***************************************************************************)
EXTENDS KeyFrameGraph, Sequences

CONSTANTS
  Kinds,        \* what is searched for: "loop", "merge"
  Inertial,     \* merges go by MergeLocal2 and may be refused for their scale
  MinKeyFrames, \* keyframes a map needs before loops are searched for (12)
  MaxQueue,     \* bound: keyframes that wait for loop closing when local mapping goes on
  BoWMatches    \* bound: coincidences a new candidate may have at once

ASSUME KindsAssumption == Kinds \subseteq {"loop", "merge"}
ASSUME InertialAssumption == Inertial \in BOOLEAN
ASSUME MinKeyFramesAssumption == MinKeyFrames \in Nat
ASSUME MaxQueueAssumption == MaxQueue \in Nat
ASSUME BoWMatchesAssumption == BoWMatches \subseteq 0 .. 3

VARIABLES
  lcPc,                  \* where loop closing is in its iteration
  mlpLoopKeyFrameQueue,
  mpCurrentKF,
  candidate,             \* per kind: the candidate that is being confirmed
  confirmedInKF,         \* history: the kinds confirmed with the current keyframe
  wellJoined,            \* history: every keyframe came into its map with connections, and
                         \* only live keyframes of two different maps were welded
  toSetErase,            \* calls of SetErase that are still to be made
  keyFrameDB             \* how often each keyframe is in the inverted file

lcVars == <<lcPc, mlpLoopKeyFrameQueue, mpCurrentKF, candidate, confirmedInKF, toSetErase, keyFrameDB,
            wellJoined>>
vars   == <<graphVars, lcVars>>

NoCandidate == [coincidences |-> 0, notFound |-> 0, last |-> Null, matched |-> Null, detected |-> FALSE]

TypeOK ==
  /\ GraphTypeOK
  /\ lcPc \in {"check", "small", "loop", "merge", "bow", "act", "weld", "correct"}
  /\ mlpLoopKeyFrameQueue \in Seq(KeyFrames)
  /\ mpCurrentKF \in KeyFrames \cup {Null}
  /\ candidate \in [Kinds -> [coincidences : 0 .. 3, notFound : 0 .. 1, last : KeyFrames \cup {Null},
                              matched : KeyFrames \cup {Null}, detected : BOOLEAN]]
  /\ confirmedInKF \subseteq Kinds /\ wellJoined \in BOOLEAN
  /\ toSetErase \in Seq(KeyFrames)
  /\ keyFrameDB \in [KeyFrames -> Nat]

Init ==
  /\ GraphInit
  /\ lcPc = "check" /\ mlpLoopKeyFrameQueue = <<>> /\ mpCurrentKF = Null
  /\ candidate = [kind \in Kinds |-> NoCandidate]
  /\ confirmedInKF = {} /\ wellJoined = TRUE /\ toSetErase = <<>>
  /\ keyFrameDB = [k \in KeyFrames |-> 0]

-----------------------------------------------------------------------------
(* NewDetectCommonRegions.                                                  *)

\* Loop closing goes on when the calls of SetErase it made have returned.
LcReady == toSetErase = <<>> /\ eraser["LC"] = Idle
LcGoto(from, to) == lcPc = from /\ LcReady /\ lcPc' = to

indexed == {k \in KeyFrames : keyFrameDB[k] > 0}
MapOf(k) == {j \in mspKeyFrames : mpMap[j] = mpMap[k]}
AddToDatabase == keyFrameDB' = [keyFrameDB EXCEPT ![mpCurrentKF] = @ + 1]

PopKeyFrame ==
  /\ mlpLoopKeyFrameQueue # <<>>
  /\ LcGoto("check", "small")
  /\ mpCurrentKF' = Head(mlpLoopKeyFrameQueue)
  /\ mlpLoopKeyFrameQueue' = Tail(mlpLoopKeyFrameQueue)
  /\ SetNotErase({mpCurrentKF'})
  /\ confirmedInKF' = {}
  /\ UNCHANGED <<mapVars, covVars, treeVars, mbToBeErased, mspLoopEdges, mbBad, eraser, lmVars,
                 candidate, toSetErase, keyFrameDB, wellJoined>>

\* The map is too small, or inertial and its second initialisation still to come:
\* the keyframe is only added to the database.
SkipSmallMap ==
  /\ \/ /\ LcGoto("small", "check")
        /\ Inertial \/ Cardinality(MapOf(mpCurrentKF)) < MinKeyFrames
        /\ AddToDatabase
        /\ toSetErase' = <<mpCurrentKF>>
     \/ /\ LcGoto("small", "loop")
        /\ Cardinality(MapOf(mpCurrentKF)) >= MinKeyFrames
        /\ UNCHANGED <<toSetErase, keyFrameDB>>
  /\ UNCHANGED <<graphVars, mlpLoopKeyFrameQueue, mpCurrentKF, candidate, confirmedInKF, wellJoined>>

\* The candidate is found again from the current keyframe.
FoundAgain(kind) ==
  LET c == candidate[kind] IN
  /\ candidate' = [candidate EXCEPT ![kind] =
       [c EXCEPT !.coincidences = IF @ < 3 THEN @ + 1 ELSE 3,   \* bound: more count as three
                 !.last = mpCurrentKF, !.detected = c.coincidences >= 2,
                 !.notFound = IF kind = "loop" THEN 0 ELSE @]]
  /\ confirmedInKF' = confirmedInKF \cup {kind}
  /\ toSetErase' = <<c.last>>

\* It is not: after the second time in a row it is given up.  Only a merge is
\* marked as not detected.
NotFound(kind) ==
  LET c == candidate[kind]
      d == IF kind = "merge" THEN FALSE ELSE c.detected
  IN /\ IF c.notFound = 1
          THEN /\ candidate' = [candidate EXCEPT ![kind] =
                     [c EXCEPT !.coincidences = 0, !.notFound = 0, !.detected = d]]
               /\ toSetErase' = <<c.last, c.matched>>
          ELSE /\ candidate' = [candidate EXCEPT ![kind] = [c EXCEPT !.notFound = 1, !.detected = d]]
               /\ UNCHANGED toSetErase
     /\ UNCHANGED confirmedInKF

AfterSearch(kind) == IF kind = "loop" THEN "merge" ELSE "bow"

\* Search from the keyframe the candidate was last found with.
SearchFromLast(kind) ==
  /\ LcGoto(kind, AfterSearch(kind))
  /\ \/ kind \in Kinds /\ candidate[kind].coincidences > 0 /\ FoundAgain(kind)
     \/ kind \in Kinds /\ candidate[kind].coincidences > 0 /\ NotFound(kind)
     \/ /\ kind \in Kinds => candidate[kind].coincidences = 0
        /\ UNCHANGED <<candidate, confirmedInKF, toSetErase>>
  /\ UNCHANGED <<graphVars, mlpLoopKeyFrameQueue, mpCurrentKF, keyFrameDB, wellJoined>>

Detected == \E kind \in Kinds : candidate[kind].detected

\* Confirmed from the last keyframe: the bag of words is not searched.
SkipBoW ==
  /\ Detected
  /\ LcGoto("bow", "act")
  /\ AddToDatabase
  /\ UNCHANGED <<graphVars, mlpLoopKeyFrameQueue, mpCurrentKF, candidate, confirmedInKF, toSetErase, wellJoined>>

\* Keyframes that DetectCommonRegionsFromBoW may match: live ones around those in
\* the database, not connected to the current keyframe, of its map for a loop and
\* of another map for a merge.
Matches(kind) ==
  {m \in (indexed \cup UNION {mvpOrderedConnectedKeyFrames[k] : k \in indexed}) \ mbBad :
     /\ m # mpCurrentKF /\ mConnectedKeyFrameWeights[mpCurrentKF][m] = 0
     /\ (mpMap[m] = mpMap[mpCurrentKF]) = (kind = "loop")}

NewCandidate(kind, m, n) ==
  [candidate[kind] EXCEPT !.last = mpCurrentKF, !.matched = m, !.coincidences = n,
                          !.detected = (n >= 3)]

\* What the bag of words yields for a kind: the candidate it had, or a new one
\* with up to three coincidences at once.
BoWOutcomes(kind) ==
  {candidate[kind]} \cup
  (IF kind \in confirmedInKF THEN {}
   ELSE {NewCandidate(kind, m, n) : m \in Matches(kind), n \in BoWMatches})

NewlyMatched(outcome) ==
  {outcome[kind].matched : kind \in {x \in Kinds : outcome[x] # candidate[x] /\ outcome[x].last = mpCurrentKF}}

\* The keyframe is added to the database after the search, and released when
\* nothing was detected.
SearchBoW ==
  /\ LcReady /\ lcPc = "bow" /\ ~Detected
  /\ \E outcome \in [Kinds -> UNION {BoWOutcomes(kind) : kind \in Kinds}] :
       /\ \A kind \in Kinds : outcome[kind] \in BoWOutcomes(kind)
       /\ candidate' = outcome
       /\ SetNotErase(NewlyMatched(outcome) \ {Null})
       /\ IF \E kind \in Kinds : outcome[kind].detected
            THEN /\ lcPc' = "act"
                 /\ confirmedInKF' = confirmedInKF \cup {kind \in Kinds : outcome[kind].detected}
                 /\ UNCHANGED toSetErase
            ELSE /\ lcPc' = "check"
                 /\ toSetErase' = <<mpCurrentKF>>
                 /\ UNCHANGED confirmedInKF
  /\ AddToDatabase
  /\ UNCHANGED <<mapVars, covVars, treeVars, mbToBeErased, mspLoopEdges, mbBad, eraser, lmVars,
                 mlpLoopKeyFrameQueue, mpCurrentKF, wellJoined>>

-----------------------------------------------------------------------------
(* Run, once something was detected: a merge goes before a loop.            *)

\* Mutant of Forget: what was detected stays so.
ForgetCounts(kinds) ==
  candidate' = [kind \in Kinds |->
                  IF kind \in kinds THEN [candidate[kind] EXCEPT !.coincidences = 0, !.notFound = 0]
                                    ELSE candidate[kind]]

Forget(kinds) ==
  candidate' = [kind \in Kinds |->
                  IF kind \in kinds
                    THEN [candidate[kind] EXCEPT !.coincidences = 0, !.notFound = 0, !.detected = FALSE]
                    ELSE candidate[kind]]
Protected(kind) == <<candidate[kind].last, candidate[kind].matched>>

DetectedKind(kind) == kind \in Kinds /\ candidate[kind].detected

\* The scale of a merge of inertial maps is bad: the iteration ends at once, and
\* what was found out about a loop stays as it is.
RefuseMerge ==
  /\ Inertial /\ DetectedKind("merge")
  /\ LcGoto("act", "check")
  /\ Forget({"merge"})
  /\ toSetErase' = Protected("merge")
  /\ UNCHANGED <<graphVars, mlpLoopKeyFrameQueue, mpCurrentKF, confirmedInKF, keyFrameDB, wellJoined>>

BeginMerge ==
  /\ DetectedKind("merge")
  /\ LcGoto("act", "weld")
  /\ UNCHANGED <<graphVars, mlpLoopKeyFrameQueue, mpCurrentKF, candidate, confirmedInKF,
                 toSetErase, keyFrameDB, wellJoined>>

\* The keyframe that moves below the other one, and that one: MergeLocal takes the
\* current map into the matched one, MergeLocal2 the matched map into the current.
Welded == IF Inertial THEN candidate["merge"].matched ELSE mpCurrentKF
WeldedTo == IF Inertial THEN mpCurrentKF ELSE candidate["merge"].matched

\* Its connections and those of the selected neighbours.
Recount(k, c, selected) ==
  LET weights == [j \in KeyFrames |->
                    IF j = k THEN c
                    ELSE IF j \in selected THEN [mConnectedKeyFrameWeights[j] EXCEPT ![k] = c[j]]
                    ELSE mConnectedKeyFrameWeights[j]]
  IN /\ mConnectedKeyFrameWeights' = weights
     /\ mvpOrderedConnectedKeyFrames' =
          [j \in KeyFrames |->
             IF j = k THEN selected
             ELSE IF weights[j] # mConnectedKeyFrameWeights[j] THEN Covisibles(weights[j])
             ELSE mvpOrderedConnectedKeyFrames[j]]

TreeBecomes(parent, childrens, firstConnection) ==
  mpParent' = parent /\ mspChildrens' = childrens /\ mbFirstConnection' = firstConnection

\* UpdateConnections of keyframe k, with shared points among others or with none, in
\* the tree given: one that came into its map without a parent gets one now.
Reconnect(k, others, parent, childrens, firstConnection) ==
  \/ UNCHANGED covVars /\ TreeBecomes(parent, childrens, firstConnection)
  \/ \E c \in CountersAmong(k, others) \ {NoWeights} : \E selected \in Selections(c) :
       /\ Recount(k, c, selected)
       /\ IF k \in firstConnection /\ k # mnInitKFid[mpMap[k]]
            THEN \E p \in Heaviest(c) \cap selected :
                   TreeBecomes([parent EXCEPT ![k] = p], [childrens EXCEPT ![p] = @ \cup {k}],
                               firstConnection \ {k})
            ELSE TreeBecomes(parent, childrens, firstConnection)

\* The path from the welded keyframe to the first one of its map is turned round;
\* then every keyframe of that map moves over, and the connections around the seam
\* are counted anew (bound: those of the keyframe it is welded to).  Bound: a path
\* that runs into a circle is not turned (one that came in alone may close it).
WeldMaps ==
  LET w == Welded
      path == Ancestors(w)
      below(a) == {b \in KeyFrames \cap path : mpParent[b] = a}
      turned == [a \in KeyFrames |->
                   IF a = w THEN WeldedTo
                   ELSE IF below(a) # {} THEN CHOOSE b \in below(a) : TRUE ELSE mpParent[a]]
      turnedChildrens == [a \in KeyFrames |->
                            (mspChildrens[a] \ below(a))
                              \cup (IF a \in path THEN {mpParent[a]} \ {Null} ELSE {})
                              \cup (IF a = WeldedTo THEN {w} ELSE {})]
  IN /\ lcPc = "weld" /\ LcReady /\ lmPc = "idle"
     /\ lcPc' = "check"
     /\ \E a \in path : mpParent[a] = Null
     /\ mpMap' = [a \in KeyFrames |-> IF mpMap[a] = mpMap[w] /\ a \in mspKeyFrames \ mbBad
                                        THEN mpMap[WeldedTo] ELSE mpMap[a]]
     /\ Reconnect(WeldedTo, (LiveOf(mpMap[w]) \cup LiveOf(mpMap[WeldedTo])) \ {WeldedTo},
                  turned, turnedChildrens, mbFirstConnection \ {mnInitKFid[mpMap[w]]})
     /\ currentMap' = IF Inertial THEN currentMap ELSE mpMap[WeldedTo]
     /\ mbNotErase' = mbNotErase \cup {w, WeldedTo}      \* AddMergeEdge of both
     /\ wellJoined' = (wellJoined /\ {w, WeldedTo} \cap mbBad = {} /\ mpMap[w] # mpMap[WeldedTo])
     /\ Forget({"merge"} \cup {kind \in Kinds : candidate[kind].detected})
     /\ toSetErase' = Protected("merge") \o IF DetectedKind("loop") THEN Protected("loop") ELSE <<>>
     /\ UNCHANGED <<created, mnInitKFid, mspKeyFrames, mbToBeErased, mspLoopEdges, mbBad,
                    eraser, lmVars, mlpLoopKeyFrameQueue, mpCurrentKF, confirmedInKF, keyFrameDB>>

\* A loop is refused when the rotation of an inertial map does not fit.
BeginLoop ==
  /\ DetectedKind("loop") /\ ~DetectedKind("merge")
  /\ \/ LcGoto("act", "correct") /\ UNCHANGED <<candidate, toSetErase>>
     \/ /\ Inertial
        /\ LcGoto("act", "check")
        /\ Forget({"loop"})
        /\ toSetErase' = Protected("loop")
  /\ UNCHANGED <<graphVars, mlpLoopKeyFrameQueue, mpCurrentKF, confirmedInKF, keyFrameDB, wellJoined>>

\* The correction counts the connections around the current keyframe anew
\* (bound: those of at most one keyframe).
CloseLoop ==
  /\ lmPc = "idle"
  /\ LcGoto("correct", "check")
  /\ \/ \E k \in ({mpCurrentKF} \cup mvpOrderedConnectedKeyFrames[mpCurrentKF]) \ mbBad :
          Reconnect(k, LiveOf(mpMap[k]) \ {k}, mpParent, mspChildrens, mbFirstConnection)
     \/ UNCHANGED <<covVars, treeVars>>
  /\ AddLoopEdges(candidate["loop"].matched, mpCurrentKF)
  /\ Forget({"loop"})
  /\ toSetErase' = Protected("loop")
  /\ UNCHANGED <<mapVars, mbBad, eraser, lmVars,
                 mlpLoopKeyFrameQueue, mpCurrentKF, confirmedInKF, keyFrameDB, wellJoined>>

\* The next of the calls of SetErase.
CallSetErase ==
  /\ toSetErase # <<>>
  /\ SetErase("LC", Head(toSetErase))
  /\ toSetErase' = Tail(toSetErase)
  /\ UNCHANGED <<mapVars, covVars, treeVars, mbToBeErased, mspLoopEdges, mbBad, lmVars,
                 lcPc, mlpLoopKeyFrameQueue, mpCurrentKF, candidate, confirmedInKF, keyFrameDB, wellJoined>>

-----------------------------------------------------------------------------

\* KeyFrameDatabase::erase, the last step of SetBadFlag.
EraseFromDatabase(t) ==
  /\ eraser[t].pc = "eraseDB"
  /\ keyFrameDB' = [keyFrameDB EXCEPT ![eraser[t].kf] = IF @ = 0 THEN 0 ELSE @ - 1]
  /\ eraser' = [eraser EXCEPT ![t] = Idle]
  /\ UNCHANGED <<mapVars, covVars, treeVars, flagVars, mbBad, lmVars, lcPc, mlpLoopKeyFrameQueue,
                 mpCurrentKF, candidate, confirmedInKF, toSetErase, wellJoined>>

SetBadFlagStep == \E t \in Erasers : (EraseStep(t) /\ UNCHANGED lcVars) \/ EraseFromDatabase(t)

\* During a correction local mapping is stopped.
Correcting == lcPc \in {"weld", "correct"}

HandOver ==
  /\ EndIteration
  /\ mlpLoopKeyFrameQueue' = IF mpCurrentKeyFrame = 1 THEN mlpLoopKeyFrameQueue
                             ELSE Append(mlpLoopKeyFrameQueue, mpCurrentKeyFrame)
  /\ UNCHANGED <<lcPc, mpCurrentKF, candidate, confirmedInKF, toSetErase, keyFrameDB, wellJoined>>

LocalMappingStep ==
  \/ ~Correcting /\ Len(mlpLoopKeyFrameQueue) < MaxQueue /\ (NewMapKeyFrame \/ TakeKeyFrame) /\ UNCHANGED lcVars
  \/ /\ LmGraphStep
     /\ wellJoined' = (wellJoined /\ ~EntersAlone)
     /\ UNCHANGED <<lcPc, mlpLoopKeyFrameQueue, mpCurrentKF, candidate, confirmedInKF, toSetErase, keyFrameDB>>
  \/ HandOver

DetectionStep ==
  \/ PopKeyFrame \/ SkipSmallMap \/ (\E kind \in {"loop", "merge"} : SearchFromLast(kind))
  \/ SkipBoW \/ SearchBoW \/ CallSetErase

OperationStep ==
  RefuseMerge \/ BeginMerge \/ WeldMaps \/ BeginLoop \/ CloseLoop

Next == LocalMappingStep \/ SetBadFlagStep \/ DetectionStep \/ OperationStep
Spec == Init /\ [][Next]_vars

-----------------------------------------------------------------------------
(* Properties.                                                              *)

\* While local mapping alone has erased keyframes (no erasure was ever deferred to
\* loop closing, which makes it at any time), every keyframe came into its map with
\* connections and only live keyframes of different maps were welded, the spanning
\* tree is sound: the children of what was erased found live parents, and welding two
\* maps turned the path to the welded keyframe round without losing or doubling a child.
TreeSound == mbToBeErased = {} /\ wellJoined => SpanningTree

\* Between two iterations of local mapping and outside of SetBadFlag.
Quiet == lmPc = "idle" /\ \A t \in Erasers : eraser[t] = Idle

\* The correction after a global bundle adjustment starts at the first keyframe
\* and goes from children to children ("We need to propagate the correction
\* through the spanning tree"): every live keyframe must be reached.
CorrectionReachesAll == Quiet => \A k \in mspKeyFrames \ mbBad : k \in ReachedFromFirst(mpMap[k])

\* A live keyframe with loop edges, which the essential graph optimisation relies
\* on, is never erased: neither by a culling that began before the loop was
\* closed nor when its protection by place recognition ends.
LoopEdgesKept ==
  [][\A k \in KeyFrames : mspLoopEdges[k] # {} /\ k \notin mbBad => k \notin mbBad']_vars

\* A merge goes ahead only when the keyframe being processed has itself confirmed
\* it, never on what an earlier keyframe left behind.
MergeVerified == lcPc = "weld" => "merge" \in confirmedInKF

\* The same of a loop: the last candidates are checked with geometric validation.
LoopVerified == lcPc = "correct" => "loop" \in confirmedInKF

\* An erasure that was put off while the keyframe was protected is not forgotten:
\* once the protection is gone the keyframe is erased, or some thread is at it.
DeferredErasureIsMade ==
  \A k \in mbToBeErased \ (mbNotErase \cup mbBad) : \E t \in Erasers : eraser[t].kf = k
=============================================================================

------------------------- MODULE PlaceRecognition_proofs -------------------------
(***************************************************************************)
(* Place recognition beside local mapping, for any number of keyframes,    *)
(* maps and weights.                                                       *)
(*                                                                         *)
(* Loop edges.  LoopEdgesKept is about a single step, FinishErase, which   *)
(* comes long after the test of mbNotErase that must rule it out.  The     *)
(* invariant says what carries the test over to that step: a keyframe with *)
(* loop edges is protected, and no call of SetBadFlag for it has got past  *)
(* its test.  The second half holds when the edges are made because loop   *)
(* closing has no call of its own under way then (LcReady) and local       *)
(* mapping, which calls SetBadFlag only while it culls, is between two     *)
(* iterations.                                                             *)
(*                                                                         *)
(* Confirmation.  A merge - without inertial sensor a loop as well - is    *)
(* carried out only when the current keyframe confirmed it.                *)
(*                                                                         *)
(* Types, and with them that no thread meets a null keyframe where it      *)
(* takes one for granted.                                                  *)
(*                                                                         *)
(* The spanning tree stays one, through cullings and welded maps.          *)
(*                                                                         *)
(* Deferred erasures.  What was put off while loop closing protected the   *)
(* keyframe is made up for.  SetBadFlag would drop it if the keyframe had  *)
(* become the first of its map: the first keyframes stay what they are.    *)
(***************************************************************************)
EXTENDS PlaceRecognition, Selection_proofs, FiniteSetTheorems, TLAPS

EraserShape ==
  /\ DOMAIN eraser = Erasers
  /\ \A t \in Erasers : DOMAIN eraser[t] = {"pc", "kf", "candidates"}

EdgesShape == DOMAIN mspLoopEdges = KeyFrames

\* Local mapping calls SetBadFlag only while it culls.
ErasesWhenCulling == lmPc # "handOff" => eraser["LM"].pc = "none"

\* A live keyframe with loop edges is protected, and not being erased.
EdgesProtect ==
  \A k \in KeyFrames :
    mspLoopEdges[k] # {} /\ k \notin mbBad =>
      /\ k \in mbNotErase
      /\ \A t \in Erasers : eraser[t].kf = k => eraser[t].pc \in {"none", "test"}

EdgeInv == EraserShape /\ EdgesShape /\ ErasesWhenCulling /\ EdgesProtect

-----------------------------------------------------------------------------
LEMMA EdgeInit == Init => EdgeInv
BY DEF Init, GraphInit, EdgeInv, EraserShape, EdgesShape, ErasesWhenCulling, EdgesProtect, Idle,
       Erasers

(* A step that leaves the calls of SetBadFlag, the edges and the erased       *)
(* keyframes alone, protects no keyframe less, and does not take local        *)
(* mapping out of its culling.                                                *)
LEMMA NothingErased ==
  ASSUME EdgeInv, UNCHANGED <<eraser, mspLoopEdges, mbBad>>, mbNotErase \subseteq mbNotErase',
         lmPc = "handOff" => lmPc' = "handOff" \/ eraser["LM"] = Idle
  PROVE  EdgeInv'
BY DEF EdgeInv, EraserShape, EdgesShape, ErasesWhenCulling, EdgesProtect, Idle

(* The same for a step of an eraser that does not leave its test.             *)
LEMMA EraserMoves ==
  ASSUME EdgeInv, NEW t \in Erasers, UNCHANGED <<mspLoopEdges, mbNotErase, lmPc>>,
         mbBad \subseteq mbBad', EraserShape',
         eraser[t].pc # "none",
         \A o \in Erasers \ {t} : eraser'[o] = eraser[o],
         \/ eraser'[t].pc = "none"
         \/ eraser'[t].kf = eraser[t].kf /\ (eraser[t].pc # "test" \/ eraser[t].kf \notin mbNotErase)
  PROVE  EdgeInv'
<1>1. EdgesShape'
  BY DEF EdgeInv, EdgesShape
<1>2. ErasesWhenCulling'
  BY DEF EdgeInv, ErasesWhenCulling, Erasers
<1>3. EdgesProtect'
  BY DEF EdgeInv, EdgesProtect
<1>. QED  BY <1>1, <1>2, <1>3 DEF EdgeInv

LEMMA GotoMoves ==
  ASSUME EraserShape, NEW t \in Erasers, NEW from, NEW to, EraseGoto(t, from, to)
  PROVE  /\ EraserShape'
         /\ eraser[t].pc = from /\ eraser'[t].pc = to /\ eraser'[t].kf = eraser[t].kf
         /\ \A o \in Erasers \ {t} : eraser'[o] = eraser[o]
BY DEF EraserShape, EraseGoto

-----------------------------------------------------------------------------
(* The steps of SetBadFlag.                                                   *)
LEMMA EdgeEraseStep ==
  ASSUME EdgeInv, NEW t \in Erasers, EraseStep(t)
  PROVE  EdgeInv'
<1>0. EraserShape
  BY DEF EdgeInv
<1>1. CASE TestErase(t)
  <2>1. CASE eraser' = [eraser EXCEPT ![t] = Idle]
    <3>1. /\ EraserShape' /\ eraser'[t].pc = "none"
          /\ \A o \in Erasers \ {t} : eraser'[o] = eraser[o]
      BY <2>1, <1>0 DEF EraserShape, Idle
    <3>2. /\ UNCHANGED <<mspLoopEdges, mbNotErase, lmPc>> /\ mbBad' = mbBad
          /\ eraser[t].pc # "none"
      BY <1>1 DEF TestErase, lmVars
    <3>. QED  BY <3>1, <3>2, EraserMoves
  <2>2. CASE EraseGoto(t, "test", "detach") /\ eraser[t].kf \notin mbNotErase
    <3>1. UNCHANGED <<mspLoopEdges, mbNotErase, lmPc>> /\ mbBad' = mbBad
      BY <1>1 DEF TestErase, lmVars
    <3>. QED  BY <2>2, <3>1, <1>0, GotoMoves, EraserMoves
  <2>. QED  BY <1>1, <2>1, <2>2 DEF TestErase
<1>2. CASE DetachErased(t)
  <2>1. EraseGoto(t, "detach", "lock")
    BY <1>2 DEF DetachErased
  <2>2. UNCHANGED <<mspLoopEdges, mbNotErase, lmPc>> /\ mbBad' = mbBad
    BY <1>2 DEF DetachErased, flagVars, lmVars
  <2>. QED  BY <2>1, <2>2, <1>0, GotoMoves, EraserMoves
<1>3. CASE LockErased(t)
  <2>1. /\ EraserShape' /\ eraser[t].pc = "lock"
        /\ eraser'[t].kf = eraser[t].kf
        /\ \A o \in Erasers \ {t} : eraser'[o] = eraser[o]
    BY <1>3, <1>0 DEF LockErased, EraserShape
  <2>2. UNCHANGED <<mspLoopEdges, mbNotErase, lmPc>> /\ mbBad' = mbBad
    BY <1>3 DEF LockErased, flagVars, lmVars
  <2>. QED  BY <2>1, <2>2, EraserMoves
<1>4. CASE AdoptChild(t)
  <2>1. /\ EraserShape' /\ eraser[t].pc = "assign"
        /\ eraser'[t].kf = eraser[t].kf
        /\ \A o \in Erasers \ {t} : eraser'[o] = eraser[o]
    BY <1>4, <1>0 DEF AdoptChild, EraserShape
  <2>2. UNCHANGED <<mspLoopEdges, mbNotErase, lmPc>> /\ mbBad' = mbBad
    BY <1>4 DEF AdoptChild, flagVars, lmVars
  <2>. QED  BY <2>1, <2>2, EraserMoves
<1>5. CASE FinishErase(t)
  <2>1. EraseGoto(t, "assign", "eraseMap")
    BY <1>5 DEF FinishErase
  <2>2. UNCHANGED <<mspLoopEdges, mbNotErase, lmPc>> /\ mbBad \subseteq mbBad'
    BY <1>5 DEF FinishErase, flagVars, lmVars
  <2>. QED  BY <2>1, <2>2, <1>0, GotoMoves, EraserMoves
<1>6. CASE EraseFromMap(t)
  <2>1. EraseGoto(t, "eraseMap", "eraseDB")
    BY <1>6 DEF EraseFromMap
  <2>2. UNCHANGED <<mspLoopEdges, mbNotErase, lmPc>> /\ mbBad' = mbBad
    BY <1>6 DEF EraseFromMap, flagVars, lmVars
  <2>. QED  BY <2>1, <2>2, <1>0, GotoMoves, EraserMoves
<1>. QED  BY <1>1, <1>2, <1>3, <1>4, <1>5, <1>6 DEF EraseStep

LEMMA EdgeEraseFromDatabase ==
  ASSUME EdgeInv, NEW t \in Erasers, EraseFromDatabase(t)
  PROVE  EdgeInv'
<1>1. EraserShape
  BY DEF EdgeInv
<1>2. /\ EraserShape' /\ eraser'[t].pc = "none"
      /\ \A o \in Erasers \ {t} : eraser'[o] = eraser[o]
  BY <1>1 DEF EraseFromDatabase, EraserShape, Idle
<1>3. /\ UNCHANGED <<mspLoopEdges, mbNotErase, lmPc>> /\ mbBad' = mbBad
      /\ eraser[t].pc # "none"
  BY DEF EraseFromDatabase, flagVars, lmVars
<1>. QED  BY <1>2, <1>3, EraserMoves

-----------------------------------------------------------------------------
(* Local mapping.                                                             *)
LEMMA EdgeLocalMapping ==
  ASSUME EdgeInv, LocalMappingStep
  PROVE  EdgeInv'
<1>1. CASE NewMapKeyFrame
  BY <1>1, NothingErased DEF NewMapKeyFrame, LmGoto, flagVars
<1>2. CASE TakeKeyFrame
  BY <1>2, NothingErased DEF TakeKeyFrame, LmGoto, flagVars
<1>3. CASE CountConnections
  BY <1>3, NothingErased DEF CountConnections, LmGoto, flagVars
<1>4. CASE LinkParent
  BY <1>4, NothingErased DEF LinkParent, flagVars
<1>5. CASE StartCulling
  BY <1>5, NothingErased DEF StartCulling, flagVars
<1>6. CASE CullKeyFrame
  <2>1. /\ lmPc = "handOff" /\ eraser["LM"].pc = "none"
        /\ UNCHANGED <<mspLoopEdges, mbNotErase, mbBad, lmPc>>
    BY <1>6 DEF CullKeyFrame, Idle, flagVars
  <2>2. /\ EraserShape' /\ eraser'["LM"].pc \in {"none", "test"}
        /\ eraser'["LC"] = eraser["LC"]
    <3>1. CASE UNCHANGED eraser
      BY <3>1, <2>1 DEF EdgeInv, EraserShape
    <3>2. ASSUME NEW k, eraser' = [eraser EXCEPT !["LM"] = [Idle EXCEPT !.pc = "test", !.kf = k]]
          PROVE  /\ EraserShape' /\ eraser'["LM"].pc = "test"
                 /\ eraser'["LC"] = eraser["LC"]
      BY <3>2 DEF EdgeInv, EraserShape, Idle, Erasers
    <3>. QED  BY <1>6, <3>1, <3>2 DEF CullKeyFrame
  <2>. QED  BY <2>1, <2>2 DEF EdgeInv, EdgesShape, ErasesWhenCulling, EdgesProtect, Erasers
<1>7. CASE HandOver
  BY <1>7, NothingErased DEF HandOver, EndIteration, LmGoto, flagVars
<1>. QED  BY <1>1, <1>2, <1>3, <1>4, <1>5, <1>6, <1>7 DEF LocalMappingStep, LmGraphStep

-----------------------------------------------------------------------------
(* Loop closing.                                                              *)
LEMMA EdgeCallSetErase ==
  ASSUME EdgeInv, CallSetErase
  PROVE  EdgeInv'
<1>. DEFINE k == Head(toSetErase)
<1>1. /\ eraser["LC"].pc = "none" /\ UNCHANGED <<mspLoopEdges, mbBad, lmPc>>
      /\ mbNotErase' = IF mspLoopEdges[k] = {} THEN mbNotErase \ {k} ELSE mbNotErase
  BY DEF CallSetErase, SetErase, Idle, lmVars
<1>2. /\ EraserShape' /\ eraser'["LC"].pc \in {"none", "test"}
      /\ eraser'["LM"] = eraser["LM"]
  BY DEF CallSetErase, SetErase, EdgeInv, EraserShape, Idle, Erasers
<1>. QED  BY <1>1, <1>2 DEF EdgeInv, EdgesShape, ErasesWhenCulling, EdgesProtect, Erasers

LEMMA EdgeDetection ==
  ASSUME EdgeInv, DetectionStep
  PROVE  EdgeInv'
<1>1. CASE PopKeyFrame
  BY <1>1, NothingErased DEF PopKeyFrame, SetNotErase, lmVars
<1>2. CASE SkipSmallMap
  BY <1>2, NothingErased DEF SkipSmallMap, graphVars, flagVars, lmVars
<1>3. ASSUME NEW kind \in {"loop", "merge"}, SearchFromLast(kind)  PROVE EdgeInv'
  BY <1>3, NothingErased DEF SearchFromLast, graphVars, flagVars, lmVars
<1>4. CASE SkipBoW
  BY <1>4, NothingErased DEF SkipBoW, graphVars, flagVars, lmVars
<1>5. CASE SearchBoW
  BY <1>5, NothingErased DEF SearchBoW, SetNotErase, lmVars
<1>6. CASE CallSetErase
  BY <1>6, EdgeCallSetErase
<1>. QED  BY <1>1, <1>2, <1>3, <1>4, <1>5, <1>6 DEF DetectionStep

LEMMA EdgeCloseLoop ==
  ASSUME EdgeInv, CloseLoop
  PROVE  EdgeInv'
<1>. DEFINE a == candidate["loop"].matched
            b == mpCurrentKF
<1>1. /\ lmPc = "idle" /\ eraser["LC"].pc = "none"
      /\ UNCHANGED <<eraser, mbBad, lmPc>>
      /\ mbNotErase' = mbNotErase \cup {a, b}
  BY DEF CloseLoop, LcGoto, LcReady, AddLoopEdges, Idle, lmVars
<1>2. /\ DOMAIN mspLoopEdges' = KeyFrames
      /\ \A k \in KeyFrames \ {a, b} : mspLoopEdges'[k] = mspLoopEdges[k]
  BY DEF CloseLoop, AddLoopEdges, EdgeInv, EdgesShape
<1>3. eraser["LM"].pc = "none"
  BY <1>1 DEF EdgeInv, ErasesWhenCulling
<1>4. EdgesProtect'
  BY <1>1, <1>2, <1>3 DEF EdgeInv, EdgesProtect, Erasers
<1>. QED  BY <1>1, <1>2, <1>4 DEF EdgeInv, EraserShape, EdgesShape, ErasesWhenCulling

LEMMA EdgeOperation ==
  ASSUME EdgeInv, OperationStep
  PROVE  EdgeInv'
<1>1. CASE RefuseMerge
  BY <1>1, NothingErased DEF RefuseMerge, graphVars, flagVars, lmVars
<1>2. CASE BeginMerge
  BY <1>2, NothingErased DEF BeginMerge, graphVars, flagVars, lmVars
<1>3. CASE WeldMaps
  BY <1>3, NothingErased DEF WeldMaps, lmVars
<1>4. CASE BeginLoop
  BY <1>4, NothingErased DEF BeginLoop, graphVars, flagVars, lmVars
<1>5. CASE CloseLoop
  BY <1>5, EdgeCloseLoop
<1>. QED  BY <1>1, <1>2, <1>3, <1>4, <1>5 DEF OperationStep

-----------------------------------------------------------------------------
LEMMA EdgeNext == EdgeInv /\ [Next]_vars => EdgeInv'
<1>. SUFFICES ASSUME EdgeInv, [Next]_vars  PROVE EdgeInv'
  OBVIOUS
<1>1. CASE LocalMappingStep
  BY <1>1, EdgeLocalMapping
<1>2. CASE SetBadFlagStep
  BY <1>2, EdgeEraseStep, EdgeEraseFromDatabase DEF SetBadFlagStep
<1>3. CASE DetectionStep
  BY <1>3, EdgeDetection
<1>4. CASE OperationStep
  BY <1>4, EdgeOperation
<1>5. CASE UNCHANGED vars
  BY <1>5, NothingErased DEF vars, graphVars, flagVars, lmVars
<1>. QED  BY <1>1, <1>2, <1>3, <1>4, <1>5 DEF Next

\* A keyframe with loop edges is always protected, and not being erased.
THEOREM EdgesAlwaysProtect == Spec => []EdgeInv
BY EdgeInit, EdgeNext, PTL DEF Spec

\* Only a call of SetBadFlag that is past its test erases a keyframe.
LEMMA ErasedByFinish ==
  ASSUME [Next]_vars, NEW k \in KeyFrames, k \notin mbBad, k \in mbBad'
  PROVE  \E t \in Erasers : eraser[t].pc = "assign" /\ eraser[t].kf = k
<1>1. mbBad' # mbBad
  OBVIOUS
<1>2. ~ LocalMappingStep
  BY <1>1 DEF LocalMappingStep, NewMapKeyFrame, TakeKeyFrame, LmGraphStep, CountConnections,
              LinkParent, StartCulling, CullKeyFrame, HandOver, EndIteration
<1>3. ~ DetectionStep
  BY <1>1 DEF DetectionStep, PopKeyFrame, SkipSmallMap, SearchFromLast, SkipBoW, SearchBoW,
              CallSetErase, graphVars
<1>4. ~ OperationStep
  BY <1>1 DEF OperationStep, RefuseMerge, BeginMerge, WeldMaps, BeginLoop, CloseLoop, graphVars
<1>5. PICK t \in Erasers : FinishErase(t)
  BY <1>1, <1>2, <1>3, <1>4
     DEF Next, SetBadFlagStep, EraseStep, EraseFromDatabase, TestErase, DetachErased, LockErased,
         AdoptChild, EraseFromMap, vars, graphVars
<1>. QED  BY <1>5 DEF FinishErase, EraseGoto

\* A live keyframe with loop edges is never erased, however many keyframes, maps
\* and threads' steps there are.
THEOREM LoopEdgesAreKept == Spec => LoopEdgesKept
<1>1. EdgeInv /\ [Next]_vars =>
        [\A k \in KeyFrames : mspLoopEdges[k] # {} /\ k \notin mbBad => k \notin mbBad']_vars
  <2>. SUFFICES ASSUME EdgeInv, [Next]_vars, NEW k \in KeyFrames,
                       mspLoopEdges[k] # {}, k \notin mbBad, k \in mbBad'
                PROVE  FALSE
    OBVIOUS
  <2>1. PICK t \in Erasers : eraser[t].pc = "assign" /\ eraser[t].kf = k
    BY ErasedByFinish
  <2>. QED  BY <2>1 DEF EdgeInv, EdgesProtect
<1>. QED  BY <1>1, EdgesAlwaysProtect, PTL DEF Spec, LoopEdgesKept

-----------------------------------------------------------------------------
(* What is carried out was confirmed.  No candidate is detected when an       *)
(* iteration begins; an inertial merge that is refused breaks this for loops. *)

\* Kinds whose candidate is never left detected by an iteration.
Trusted(kind) == kind = "merge" \/ ~Inertial

Fields == {"coincidences", "notFound", "last", "matched", "detected"}

CandidateShape ==
  /\ DOMAIN candidate = Kinds
  /\ \A kind \in Kinds : DOMAIN candidate[kind] = Fields

\* Where in the iteration a candidate of the kind may be detected.
DetectedAt(kind) == {"bow", "act", "weld"} \cup IF kind = "loop" THEN {"merge", "correct"} ELSE {}

Confirmed ==
  \A kind \in Kinds : Trusted(kind) /\ candidate[kind].detected =>
    kind \in confirmedInKF /\ lcPc \in DetectedAt(kind)

CarriedOut == /\ lcPc = "weld" => DetectedKind("merge")
              /\ lcPc = "correct" => DetectedKind("loop")

VerifiedInv == CandidateShape /\ Confirmed /\ CarriedOut

LEMMA VerifiedInit == Init => VerifiedInv
BY DEF Init, VerifiedInv, CandidateShape, Fields, Confirmed, CarriedOut, NoCandidate

LEMMA ForgetShape ==
  ASSUME CandidateShape, NEW K, Forget(K)
  PROVE  /\ CandidateShape'
         /\ \A kind \in Kinds : candidate'[kind].detected <=> candidate[kind].detected /\ kind \notin K
<1>1. ASSUME NEW kind \in Kinds
      PROVE  /\ DOMAIN candidate'[kind] = Fields
             /\ candidate'[kind].detected <=> candidate[kind].detected /\ kind \notin K
  <2>1. CASE kind \in K
    BY <2>1 DEF Forget, CandidateShape, Fields
  <2>2. CASE kind \notin K
    BY <2>2 DEF Forget, CandidateShape
  <2>. QED  BY <2>1, <2>2
<1>. QED  BY <1>1 DEF Forget, CandidateShape

LEMMA VerifiedSearchFromLast ==
  ASSUME VerifiedInv, NEW kind \in {"loop", "merge"}, SearchFromLast(kind)
  PROVE  VerifiedInv'
<1>1. lcPc = kind /\ lcPc' = AfterSearch(kind)
  BY DEF SearchFromLast, LcGoto
<1>2. CASE kind \in Kinds /\ FoundAgain(kind)
  BY <1>1, <1>2
     DEF FoundAgain, VerifiedInv, CandidateShape, Fields, Confirmed, CarriedOut, DetectedAt, AfterSearch
<1>3. CASE kind \in Kinds /\ NotFound(kind)
  <2>1. /\ CandidateShape' /\ confirmedInKF' = confirmedInKF
        /\ \A other \in Kinds : candidate'[other].detected => candidate[other].detected
    <3>1. CandidateShape /\ kind \in Kinds
      BY <1>3 DEF VerifiedInv
    <3>2. confirmedInKF' = confirmedInKF /\ DOMAIN candidate' = Kinds
      BY <1>3, <3>1, Zenon DEF NotFound, CandidateShape
    <3>3. \A other \in Kinds \ {kind} : candidate'[other] = candidate[other]
      BY <1>3, <3>1 DEF NotFound, CandidateShape
    <3>4. DOMAIN candidate'[kind] = Fields
      BY <1>3, <3>1 DEF NotFound, CandidateShape, Fields
    <3>5. candidate'[kind].detected => candidate[kind].detected
      <4>. DEFINE d == IF kind = "merge" THEN FALSE ELSE candidate[kind].detected
      <4>1. "detected" \in DOMAIN candidate[kind] /\ kind \in DOMAIN candidate
        BY <3>1 DEF CandidateShape, Fields
      <4>2. candidate'[kind].detected = d
        BY <1>3, <4>1 DEF NotFound
      <4>. QED  BY <4>2
    <3>. QED  BY <3>1, <3>2, <3>3, <3>4, <3>5 DEF CandidateShape
  <2>. QED
    BY <1>1, <2>1 DEF VerifiedInv, Confirmed, CarriedOut, DetectedAt, AfterSearch
<1>4. CASE UNCHANGED <<candidate, confirmedInKF, toSetErase>>
  BY <1>1, <1>4 DEF VerifiedInv, CandidateShape, Confirmed, CarriedOut, DetectedAt, AfterSearch
<1>. QED  BY <1>2, <1>3, <1>4 DEF SearchFromLast

LEMMA VerifiedSearchBoW ==
  ASSUME VerifiedInv, SearchBoW
  PROVE  VerifiedInv'
<1>1. PICK outcome \in [Kinds -> UNION {BoWOutcomes(kind) : kind \in Kinds}] :
        /\ \A kind \in Kinds : outcome[kind] \in BoWOutcomes(kind)
        /\ candidate' = outcome
        /\ IF \E kind \in Kinds : outcome[kind].detected
             THEN /\ lcPc' = "act"
                  /\ confirmedInKF' = confirmedInKF \cup {kind \in Kinds : outcome[kind].detected}
             ELSE lcPc' = "check"
  BY DEF SearchBoW
<1>2. ASSUME NEW kind \in Kinds
      PROVE  DOMAIN outcome[kind] = Fields
  <2>1. DOMAIN candidate[kind] = Fields
    BY DEF VerifiedInv, CandidateShape
  <2>2. \A m, n : DOMAIN NewCandidate(kind, m, n) = Fields
    BY <2>1 DEF NewCandidate
  <2>3. outcome[kind] \in BoWOutcomes(kind)
    BY <1>1
  <2>. QED  BY ONLY <2>1, <2>2, <2>3 DEF BoWOutcomes
<1>3. CandidateShape'
  BY <1>1, <1>2 DEF CandidateShape
<1>4. Confirmed'
  BY <1>1 DEF Confirmed, DetectedAt
<1>. QED  BY <1>1, <1>3, <1>4 DEF VerifiedInv, CarriedOut

LEMMA VerifiedOperation ==
  ASSUME VerifiedInv, OperationStep
  PROVE  VerifiedInv'
<1>0. CandidateShape
  BY DEF VerifiedInv
<1>1. CASE RefuseMerge
  BY <1>0, <1>1, ForgetShape
     DEF RefuseMerge, LcGoto, VerifiedInv, Confirmed, CarriedOut, DetectedAt, Trusted
<1>2. CASE BeginMerge
  BY <1>2
     DEF BeginMerge, LcGoto, VerifiedInv, CandidateShape, Confirmed, CarriedOut, DetectedAt, DetectedKind
<1>3. CASE WeldMaps
  <2>. DEFINE K == {"merge"} \cup {kind \in Kinds : candidate[kind].detected}
  <2>1. Forget(K) /\ lcPc' = "check"
    BY <1>3 DEF WeldMaps
  <2>2. CandidateShape' /\ \A kind \in Kinds : ~candidate'[kind].detected
    BY <1>0, <2>1, ForgetShape
  <2>. QED  BY <2>1, <2>2 DEF VerifiedInv, Confirmed, CarriedOut
<1>4. CASE BeginLoop
  <2>1. CASE LcGoto("act", "correct") /\ UNCHANGED <<candidate, toSetErase>>
    <3>1. /\ lcPc = "act" /\ lcPc' = "correct" /\ UNCHANGED <<candidate, confirmedInKF>>
          /\ DetectedKind("loop") /\ ~DetectedKind("merge")
      BY <1>4, <2>1 DEF BeginLoop, LcGoto
    <3>2. Confirmed'
      BY <3>1, KindsAssumption DEF VerifiedInv, Confirmed, DetectedAt, DetectedKind
    <3>. QED  BY <3>1, <3>2 DEF VerifiedInv, CandidateShape, CarriedOut, DetectedKind
  <2>2. CASE LcGoto("act", "check") /\ Forget({"loop"})
    <3>1. Kinds \subseteq {"loop", "merge"}
      BY KindsAssumption
    <3>2. CandidateShape' /\ \A kind \in Kinds : ~candidate'[kind].detected
      BY <1>0, <1>4, <2>2, <3>1, ForgetShape DEF BeginLoop, DetectedKind
    <3>. QED  BY <2>2, <3>2 DEF LcGoto, VerifiedInv, Confirmed, CarriedOut
  <2>. QED  BY <1>4, <2>1, <2>2 DEF BeginLoop
<1>5. CASE CloseLoop
  <2>1. lcPc = "correct" /\ lcPc' = "check" /\ Forget({"loop"})
    BY <1>5 DEF CloseLoop, LcGoto
  <2>2. CandidateShape' /\ \A kind \in Kinds : Trusted(kind) => ~candidate'[kind].detected
    BY <1>0, <2>1, KindsAssumption, ForgetShape DEF VerifiedInv, Confirmed, DetectedAt
  <2>. QED  BY <2>1, <2>2 DEF VerifiedInv, Confirmed, CarriedOut
<1>. QED  BY <1>1, <1>2, <1>3, <1>4, <1>5 DEF OperationStep

LEMMA VerifiedNext == VerifiedInv /\ [Next]_vars => VerifiedInv'
<1>. SUFFICES ASSUME VerifiedInv, [Next]_vars  PROVE VerifiedInv'
  OBVIOUS
<1>0. ASSUME UNCHANGED <<candidate, confirmedInKF, lcPc>>  PROVE VerifiedInv'
  BY <1>0 DEF VerifiedInv, CandidateShape, Confirmed, CarriedOut, DetectedKind
<1>1. CASE LocalMappingStep
  BY <1>0, <1>1 DEF LocalMappingStep, HandOver, lcVars
<1>2. CASE SetBadFlagStep
  BY <1>0, <1>2 DEF SetBadFlagStep, EraseFromDatabase, lcVars
<1>3. CASE DetectionStep
  <2>1. CASE PopKeyFrame
    <3>1. lcPc = "check" /\ lcPc' = "small" /\ UNCHANGED candidate
      BY <2>1 DEF PopKeyFrame, LcGoto
    <3>. QED  BY <3>1 DEF VerifiedInv, CandidateShape, Confirmed, CarriedOut, DetectedAt
  <2>2. CASE SkipSmallMap
    <3>1. /\ lcPc = "small" /\ lcPc' \in {"check", "loop"}
          /\ UNCHANGED <<candidate, confirmedInKF>>
      BY <2>2 DEF SkipSmallMap, LcGoto
    <3>. QED  BY <3>1 DEF VerifiedInv, CandidateShape, Confirmed, CarriedOut, DetectedAt
  <2>3. ASSUME NEW kind \in {"loop", "merge"}, SearchFromLast(kind)  PROVE VerifiedInv'
    BY <2>3, VerifiedSearchFromLast
  <2>4. CASE SkipBoW
    <3>1. lcPc = "bow" /\ lcPc' = "act" /\ UNCHANGED <<candidate, confirmedInKF>>
      BY <2>4 DEF SkipBoW, LcGoto
    <3>. QED  BY <3>1 DEF VerifiedInv, CandidateShape, Confirmed, CarriedOut, DetectedAt
  <2>5. CASE SearchBoW
    BY <2>5, VerifiedSearchBoW
  <2>6. CASE CallSetErase
    BY <1>0, <2>6 DEF CallSetErase
  <2>. QED  BY <1>3, <2>1, <2>2, <2>3, <2>4, <2>5, <2>6 DEF DetectionStep
<1>4. CASE OperationStep
  BY <1>4, VerifiedOperation
<1>5. CASE UNCHANGED vars
  BY <1>0, <1>5 DEF vars, lcVars
<1>. QED  BY <1>1, <1>2, <1>3, <1>4, <1>5 DEF Next

LEMMA AlwaysVerified == Spec => []VerifiedInv
BY VerifiedInit, VerifiedNext, PTL DEF Spec

\* A merge is carried out only when the current keyframe confirmed it.
THEOREM MergesAreVerified == Spec => []MergeVerified
<1>1. VerifiedInv => MergeVerified
  BY DEF VerifiedInv, Confirmed, CarriedOut, DetectedKind, Trusted, MergeVerified
<1>. QED  BY <1>1, AlwaysVerified, PTL

\* Without inertial sensor a loop is, too.
THEOREM LoopsAreVerified == ~Inertial => (Spec => []LoopVerified)
<1>. SUFFICES ASSUME ~Inertial  PROVE Spec => []LoopVerified
  OBVIOUS
<1>1. VerifiedInv => LoopVerified
  BY DEF VerifiedInv, Confirmed, CarriedOut, DetectedKind, Trusted, LoopVerified
<1>. QED  BY <1>1, AlwaysVerified, PTL

-----------------------------------------------------------------------------
(* Type correctness.  TypeOK is not inductive: what a step stores is a        *)
(* keyframe, and not a null pointer, only because of where the threads are    *)
(* (GraphPlaced, LcPlaced) and because a candidate that counts has both of    *)
(* its keyframes (Candidates).                                                *)
CandidateType == [coincidences : 0 .. 3, notFound : 0 .. 1, last : KeyFrames \cup {Null},
                  matched : KeyFrames \cup {Null}, detected : BOOLEAN]

\* The part of TypeOK that is not about the graph.
LcTypeOK ==
  /\ lcPc \in {"check", "small", "loop", "merge", "bow", "act", "weld", "correct"}
  /\ mlpLoopKeyFrameQueue \in Seq(KeyFrames)
  /\ mpCurrentKF \in KeyFrames \cup {Null}
  /\ candidate \in [Kinds -> CandidateType]
  /\ confirmedInKF \subseteq Kinds
  /\ toSetErase \in Seq(KeyFrames)
  /\ keyFrameDB \in [KeyFrames -> Nat]

\* A thread at work on a keyframe has one.
GraphPlaced ==
  /\ lmPc # "idle" => mpCurrentKeyFrame \in KeyFrames
  /\ \A t \in Erasers : eraser[t].pc # "none" => eraser[t].kf \in KeyFrames
LcPlaced == lcPc # "check" => mpCurrentKF \in KeyFrames

Candidates ==
  \A kind \in Kinds :
    candidate[kind].coincidences > 0 \/ candidate[kind].detected =>
      candidate[kind].last \in KeyFrames /\ candidate[kind].matched \in KeyFrames

GraphInv == GraphTypeOK /\ GraphPlaced
LcInv    == LcTypeOK /\ LcPlaced /\ Candidates
TypeInv  == GraphInv /\ LcInv

LEMMA NullIsNoKeyFrame == Null \notin KeyFrames /\ KeyFrames \subseteq Nat
BY BoundsAssumption DEF Null, KeyFrames

LEMMA TypeInit == Init => TypeInv
<1>. SUFFICES ASSUME Init  PROVE TypeInv
  OBVIOUS
<1>1. 0 \in 0 .. MaxKeyFrames /\ 1 \in Maps /\ NoWeights \in Weights
  BY BoundsAssumption DEF Maps, NoWeights, Weights
<1>2. GraphTypeOK
  BY <1>1 DEF Init, GraphInit, GraphTypeOK, Idle, Erasers, ErasePcs
<1>3. GraphPlaced
  BY DEF Init, GraphInit, GraphPlaced, Idle
<1>4. LcInv
  BY DEF Init, LcInv, LcTypeOK, LcPlaced, Candidates, CandidateType, NoCandidate
<1>. QED  BY <1>2, <1>3, <1>4 DEF TypeInv, GraphInv

-----------------------------------------------------------------------------
(* What the operations on the covisibility graph return.                      *)
CovTypeOK ==
  /\ mConnectedKeyFrameWeights \in [KeyFrames -> Weights]
  /\ mvpOrderedConnectedKeyFrames \in [KeyFrames -> SUBSET KeyFrames]

LEMMA CovisiblesAreKeyFrames == ASSUME NEW w  PROVE Covisibles(w) \subseteq KeyFrames
BY DEF Covisibles

LEMMA SelectionsAreKeyFrames ==
  ASSUME NEW c, NEW selected \in Selections(c)  PROVE selected \subseteq KeyFrames
BY DEF Selections, Heaviest

LEMMA CountersAreWeights ==
  ASSUME NEW k, NEW others, NEW c \in CountersAmong(k, others)  PROVE c \in Weights
BY DEF CountersAmong

LEMMA AddConnectionsType ==
  ASSUME CovTypeOK, NEW k \in KeyFrames, NEW c \in Weights, NEW selected, AddConnections(k, c, selected)
  PROVE  CovTypeOK'
<1>. DEFINE weights == [j \in KeyFrames |->
                          IF j \in selected THEN [mConnectedKeyFrameWeights[j] EXCEPT ![k] = c[j]]
                                            ELSE mConnectedKeyFrameWeights[j]]
<1>1. weights \in [KeyFrames -> Weights]
  BY DEF CovTypeOK, Weights
<1>2. mConnectedKeyFrameWeights' = weights
  BY DEF AddConnections
<1>3. mvpOrderedConnectedKeyFrames' \in [KeyFrames -> SUBSET KeyFrames]
  BY CovisiblesAreKeyFrames DEF AddConnections, CovTypeOK
<1>. QED  BY <1>1, <1>2, <1>3 DEF CovTypeOK

LEMMA RecountType ==
  ASSUME CovTypeOK, NEW k \in KeyFrames, NEW c \in Weights, NEW selected \in SUBSET KeyFrames,
         Recount(k, c, selected)
  PROVE  CovTypeOK'
<1>1. mConnectedKeyFrameWeights' \in [KeyFrames -> Weights]
  BY DEF Recount, CovTypeOK, Weights
<1>2. mvpOrderedConnectedKeyFrames' \in [KeyFrames -> SUBSET KeyFrames]
  BY CovisiblesAreKeyFrames DEF Recount, CovTypeOK
<1>. QED  BY <1>1, <1>2 DEF CovTypeOK

TreeTypeOK ==
  /\ mpParent \in [KeyFrames -> KeyFrames \cup {Null}]
  /\ mspChildrens \in [KeyFrames -> SUBSET KeyFrames]
  /\ mbFirstConnection \subseteq KeyFrames

(* What recounting a keyframe does: nothing, or it counts some connections; and *)
(* the tree given changes only for a keyframe without a parent.                 *)
LEMMA ReconnectMeans ==
  ASSUME NEW k, NEW others, NEW parent, NEW childrens, NEW firstConnection,
         Reconnect(k, others, parent, childrens, firstConnection)
  PROVE  /\ \/ UNCHANGED covVars
            \/ \E c \in CountersAmong(k, others) : \E selected \in Selections(c) : Recount(k, c, selected)
         /\ \/ TreeBecomes(parent, childrens, firstConnection)
            \/ /\ k \in firstConnection /\ k # mnInitKFid[mpMap[k]]
               /\ \E p \in KeyFrames :
                    TreeBecomes([parent EXCEPT ![k] = p], [childrens EXCEPT ![p] = @ \cup {k}],
                                firstConnection \ {k})
<1>1. CASE UNCHANGED covVars /\ TreeBecomes(parent, childrens, firstConnection)
  BY <1>1
<1>2. ASSUME NEW c \in CountersAmong(k, others), NEW selected \in Selections(c),
             Recount(k, c, selected),
             IF k \in firstConnection /\ k # mnInitKFid[mpMap[k]]
               THEN \E p \in Heaviest(c) \cap selected :
                      TreeBecomes([parent EXCEPT ![k] = p], [childrens EXCEPT ![p] = @ \cup {k}],
                                  firstConnection \ {k})
               ELSE TreeBecomes(parent, childrens, firstConnection)
      PROVE  /\ \E d \in CountersAmong(k, others) : \E s \in Selections(d) : Recount(k, d, s)
             /\ \/ TreeBecomes(parent, childrens, firstConnection)
                \/ /\ k \in firstConnection /\ k # mnInitKFid[mpMap[k]]
                   /\ \E p \in KeyFrames :
                        TreeBecomes([parent EXCEPT ![k] = p], [childrens EXCEPT ![p] = @ \cup {k}],
                                    firstConnection \ {k})
  <2>1. Heaviest(c) \subseteq KeyFrames
    BY DEF Heaviest
  <2>. QED  BY <1>2, <2>1, Zenon
<1>. QED  BY <1>1, <1>2 DEF Reconnect

LEMMA ReconnectType ==
  ASSUME CovTypeOK, NEW k \in KeyFrames, NEW others,
         NEW parent \in [KeyFrames -> KeyFrames \cup {Null}], NEW childrens \in [KeyFrames -> SUBSET KeyFrames],
         NEW firstConnection \in SUBSET KeyFrames,
         Reconnect(k, others, parent, childrens, firstConnection)
  PROVE  CovTypeOK' /\ TreeTypeOK'
<1>1. CovTypeOK'
  <2>1. CASE UNCHANGED covVars
    BY <2>1 DEF CovTypeOK, covVars
  <2>2. ASSUME NEW c \in CountersAmong(k, others), NEW selected \in Selections(c), Recount(k, c, selected)
        PROVE  CovTypeOK'
    BY <2>2, CountersAreWeights, SelectionsAreKeyFrames, RecountType
  <2>. QED  BY <2>1, <2>2, ReconnectMeans
<1>2. TreeTypeOK'
  <2>1. CASE TreeBecomes(parent, childrens, firstConnection)
    BY <2>1 DEF TreeBecomes, TreeTypeOK
  <2>2. ASSUME NEW p \in KeyFrames,
               TreeBecomes([parent EXCEPT ![k] = p], [childrens EXCEPT ![p] = @ \cup {k}], firstConnection \ {k})
        PROVE  TreeTypeOK'
    BY <2>2 DEF TreeBecomes, TreeTypeOK
  <2>. QED  BY <2>1, <2>2, ReconnectMeans
<1>. QED  BY <1>1, <1>2

\* The correction of a loop counts the connections of one keyframe at most.
LEMMA LoopRecounts ==
  ASSUME CloseLoop
  PROVE  \/ UNCHANGED covVars
         \/ \E k \in ({mpCurrentKF} \cup mvpOrderedConnectedKeyFrames[mpCurrentKF]) \ mbBad :
              \E c \in CountersAmong(k, LiveOf(mpMap[k]) \ {k}) : \E selected \in Selections(c) :
                Recount(k, c, selected)
<1>1. CASE UNCHANGED covVars
  BY <1>1
<1>2. ASSUME NEW k \in ({mpCurrentKF} \cup mvpOrderedConnectedKeyFrames[mpCurrentKF]) \ mbBad,
             Reconnect(k, LiveOf(mpMap[k]) \ {k}, mpParent, mspChildrens, mbFirstConnection)
      PROVE  \/ UNCHANGED covVars
             \/ \E c \in CountersAmong(k, LiveOf(mpMap[k]) \ {k}) : \E selected \in Selections(c) :
                  Recount(k, c, selected)
  BY <1>2, ReconnectMeans
<1>. QED  BY <1>1, <1>2 DEF CloseLoop

-----------------------------------------------------------------------------
(* SetBadFlag.                                                                *)
EraserType == [pc : ErasePcs, kf : KeyFrames \cup {Null}, candidates : SUBSET KeyFrames]

LEMMA IdleType == Idle \in EraserType
BY DEF Idle, EraserType, ErasePcs

LEMMA EraseGotoType ==
  ASSUME GraphInv, NEW t \in Erasers, NEW from, NEW to \in ErasePcs, from # "none",
         EraseGoto(t, from, to), lmPc' = lmPc, mpCurrentKeyFrame' = mpCurrentKeyFrame
  PROVE  eraser' \in [Erasers -> EraserType] /\ GraphPlaced' /\ eraser[t].kf \in KeyFrames
BY DEF GraphInv, GraphTypeOK, GraphPlaced, EraseGoto, EraserType

LEMMA EraseStepType ==
  ASSUME GraphInv, NEW t \in Erasers, EraseStep(t)
  PROVE  GraphInv'
<1>. DEFINE k == eraser[t].kf
<1>0. GraphTypeOK /\ GraphPlaced
  BY DEF GraphInv
<1>1. CASE TestErase(t)
  <2>1. k \in KeyFrames
    BY <1>0, <1>1 DEF TestErase, GraphPlaced
  <2>2. eraser' \in [Erasers -> EraserType] /\ GraphPlaced'
    <3>1. CASE eraser' = [eraser EXCEPT ![t] = Idle]
      BY <1>0, <1>1, <3>1, IdleType DEF TestErase, GraphTypeOK, GraphPlaced, EraserType, Idle, lmVars
    <3>2. CASE EraseGoto(t, "test", "detach")
      BY <1>1, <3>2, EraseGotoType DEF TestErase, ErasePcs, lmVars
    <3>. QED  BY <1>1, <3>1, <3>2 DEF TestErase
  <2>3. mbToBeErased' \subseteq KeyFrames
    BY <1>0, <1>1, <2>1 DEF TestErase, GraphTypeOK
  <2>. QED  BY <1>0, <1>1, <2>2, <2>3
            DEF TestErase, GraphInv, GraphTypeOK, EraserType, mapVars, covVars, treeVars, lmVars
<1>2. CASE DetachErased(t)
  <2>1. eraser' \in [Erasers -> EraserType] /\ GraphPlaced' /\ k \in KeyFrames
    BY <1>2, EraseGotoType DEF DetachErased, ErasePcs, lmVars
  <2>2. mConnectedKeyFrameWeights' \in [KeyFrames -> Weights]
    BY <1>0, <1>2, <2>1, BoundsAssumption DEF DetachErased, GraphTypeOK, Weights
  <2>3. mvpOrderedConnectedKeyFrames' \in [KeyFrames -> SUBSET KeyFrames]
    BY <1>0, <1>2, CovisiblesAreKeyFrames DEF DetachErased, GraphTypeOK
  <2>. QED  BY <1>0, <1>2, <2>1, <2>2, <2>3
            DEF DetachErased, GraphInv, GraphTypeOK, EraserType, mapVars, treeVars, flagVars, lmVars
<1>3. CASE LockErased(t)
  <2>1. k \in KeyFrames
    BY <1>0, <1>3 DEF LockErased, GraphPlaced
  <2>2. {mpParent[k]} \ {Null} \subseteq KeyFrames
    BY <1>0, <2>1 DEF GraphTypeOK
  <2>3. eraser' \in [Erasers -> EraserType] /\ GraphPlaced'
    <3>. DEFINE held == [eraser[t] EXCEPT !.pc = "assign", !.candidates = {mpParent[k]} \ {Null}]
    <3>1. eraser[t] \in EraserType
      BY <1>0 DEF GraphTypeOK, EraserType
    <3>2. held \in EraserType /\ held.kf = k
      BY <2>1, <2>2, <3>1 DEF EraserType, ErasePcs
    <3>3. eraser' = [eraser EXCEPT ![t] = held]
      BY <1>3 DEF LockErased
    <3>. HIDE DEF held
    <3>. QED  BY <1>0, <1>3, <2>1, <3>2, <3>3 DEF LockErased, GraphTypeOK, GraphPlaced, EraserType, lmVars
  <2>4. NoWeights \in Weights
    BY BoundsAssumption DEF NoWeights, Weights
  <2>5. CovTypeOK'
    BY <1>0, <1>3, <2>4 DEF LockErased, GraphTypeOK, CovTypeOK
  <2>. QED  BY <1>0, <1>3, <2>3, <2>5
            DEF LockErased, GraphInv, GraphTypeOK, CovTypeOK, EraserType, mapVars, treeVars, flagVars, lmVars
<1>4. CASE AdoptChild(t)
  <2>1. k \in KeyFrames
    BY <1>0, <1>4 DEF AdoptChild, GraphPlaced
  <2>2. PICK a \in Adoptions(t) :
          /\ mpParent' = [mpParent EXCEPT ![a[1]] = a[2]]
          /\ mspChildrens' = [mspChildrens EXCEPT ![a[2]] = @ \cup {a[1]}, ![k] = @ \ {a[1]}]
          /\ eraser' = [eraser EXCEPT ![t].candidates = @ \cup {a[1]}]
    BY <1>4 DEF AdoptChild
  <2>3. a[1] \in KeyFrames /\ a[2] \in KeyFrames
    BY <1>0, <2>1 DEF Adoptions, GraphTypeOK
  <2>4. mpParent' \in [KeyFrames -> KeyFrames \cup {Null}]
    BY <1>0, <2>2, <2>3 DEF GraphTypeOK
  <2>5. mspChildrens' \in [KeyFrames -> SUBSET KeyFrames]
    BY <1>0, <2>2, <2>3, <2>1 DEF GraphTypeOK
  <2>6. eraser' \in [Erasers -> EraserType] /\ GraphPlaced'
    BY <1>0, <1>4, <2>2, <2>3 DEF AdoptChild, GraphTypeOK, GraphPlaced, EraserType, lmVars
  <2>. QED  BY <1>0, <1>4, <2>4, <2>5, <2>6
            DEF AdoptChild, GraphInv, GraphTypeOK, EraserType, mapVars, covVars, flagVars, lmVars
<1>5. CASE FinishErase(t)
  <2>1. eraser' \in [Erasers -> EraserType] /\ GraphPlaced' /\ k \in KeyFrames
    BY <1>5, EraseGotoType DEF FinishErase, ErasePcs, lmVars
  <2>2. mpParent' \in [KeyFrames -> KeyFrames \cup {Null}]
    BY <1>0, <1>5, <2>1 DEF FinishErase, GraphTypeOK
  <2>3. mspChildrens' \in [KeyFrames -> SUBSET KeyFrames] /\ mbBad' \subseteq KeyFrames
    BY <1>0, <1>5, <2>1 DEF FinishErase, GraphTypeOK
  <2>. QED  BY <1>0, <1>5, <2>1, <2>2, <2>3
            DEF FinishErase, GraphInv, GraphTypeOK, EraserType, mapVars, covVars, flagVars, lmVars
<1>6. CASE EraseFromMap(t)
  <2>1. eraser' \in [Erasers -> EraserType] /\ GraphPlaced'
    BY <1>6, EraseGotoType DEF EraseFromMap, ErasePcs, lmVars
  <2>. QED  BY <1>0, <1>6, <2>1
            DEF EraseFromMap, GraphInv, GraphTypeOK, EraserType, covVars, treeVars, flagVars, lmVars
<1>. QED  BY <1>1, <1>2, <1>3, <1>4, <1>5, <1>6 DEF EraseStep
-----------------------------------------------------------------------------
(* Local mapping.                                                             *)
LEMMA NextKeyFrame ==
  ASSUME GraphTypeOK, created < MaxKeyFrames
  PROVE  created + 1 \in KeyFrames /\ created + 1 \in 0 .. MaxKeyFrames
BY BoundsAssumption DEF GraphTypeOK, KeyFrames

LEMMA LocalMappingType ==
  ASSUME GraphInv, NewMapKeyFrame \/ TakeKeyFrame \/ LmGraphStep \/ EndIteration
  PROVE  GraphInv'
<1>0. GraphTypeOK /\ GraphPlaced
  BY DEF GraphInv
<1>1. CASE NewMapKeyFrame
  <2>1. created' \in KeyFrames /\ created' \in 0 .. MaxKeyFrames /\ currentMap' \in Maps
    BY <1>0, <1>1, NextKeyFrame DEF NewMapKeyFrame
  <2>2. mpMap' \in [KeyFrames -> Maps] /\ mnInitKFid' \in [Maps -> KeyFrames \cup {Null}]
    BY <1>0, <1>1, <2>1 DEF NewMapKeyFrame, GraphTypeOK
  <2>. QED  BY <1>0, <1>1, <2>1, <2>2
            DEF NewMapKeyFrame, LmGoto, GraphInv, GraphTypeOK, GraphPlaced, covVars, treeVars, flagVars
<1>2. CASE TakeKeyFrame
  <2>1. created' \in KeyFrames /\ created' \in 0 .. MaxKeyFrames
    BY <1>0, <1>2, NextKeyFrame DEF TakeKeyFrame
  <2>2. mpMap' \in [KeyFrames -> Maps]
    BY <1>0, <1>2, <2>1 DEF TakeKeyFrame, GraphTypeOK
  <2>. QED  BY <1>0, <1>2, <2>1, <2>2
            DEF TakeKeyFrame, LmGoto, GraphInv, GraphTypeOK, GraphPlaced, covVars, treeVars, flagVars
<1>3. CASE CountConnections
  <2>0. PICK c \in Counters(mpCurrentKeyFrame) : \E selected \in Selections(c) :
          AddConnections(mpCurrentKeyFrame, c, selected) /\ KFcounter' = c /\ vPairs' = selected
    BY <1>3 DEF CountConnections
  <2>1. PICK selected \in Selections(c) :
          AddConnections(mpCurrentKeyFrame, c, selected) /\ KFcounter' = c /\ vPairs' = selected
    BY <2>0
  <2>2. c \in Weights /\ selected \subseteq KeyFrames /\ mpCurrentKeyFrame \in KeyFrames
    BY <1>0, <1>3, <2>0, <2>1, CountersAreWeights, SelectionsAreKeyFrames
       DEF Counters, CountConnections, LmGoto, GraphPlaced
  <2>3. CovTypeOK'
    BY <1>0, <2>1, <2>2, AddConnectionsType DEF GraphTypeOK, CovTypeOK
  <2>. QED  BY <1>0, <1>3, <2>1, <2>2, <2>3
            DEF CountConnections, LmGoto, GraphInv, GraphTypeOK, GraphPlaced, CovTypeOK, mapVars, treeVars, flagVars
<1>4. CASE LinkParent
  <2>. DEFINE k == mpCurrentKeyFrame
  <2>1. k \in KeyFrames /\ NoWeights \in Weights
    BY <1>0, <1>4, BoundsAssumption DEF LinkParent, GraphPlaced, NoWeights, Weights
  <2>2. CovTypeOK'
    <3>1. CASE UNCHANGED covVars
      BY <1>0, <3>1 DEF GraphTypeOK, CovTypeOK, covVars
    <3>2. CASE /\ mConnectedKeyFrameWeights' = [mConnectedKeyFrameWeights EXCEPT ![k] = KFcounter]
               /\ mvpOrderedConnectedKeyFrames' = [mvpOrderedConnectedKeyFrames EXCEPT ![k] = vPairs]
      BY <1>0, <2>1, <3>2 DEF GraphTypeOK, CovTypeOK
    <3>. QED  BY <1>4, <3>1, <3>2 DEF LinkParent
  <2>3. /\ mpParent' \in [KeyFrames -> KeyFrames \cup {Null}]
        /\ mspChildrens' \in [KeyFrames -> SUBSET KeyFrames]
        /\ mbFirstConnection' \subseteq KeyFrames
    <3>1. CASE UNCHANGED treeVars
      BY <1>0, <3>1 DEF GraphTypeOK, treeVars
    <3>2. ASSUME NEW q \in Heaviest(KFcounter) \cap vPairs,
                 mpParent' = [mpParent EXCEPT ![k] = q],
                 mspChildrens' = [mspChildrens EXCEPT ![q] = @ \cup {k}],
                 mbFirstConnection' = mbFirstConnection \ {k}
          PROVE  /\ mpParent' \in [KeyFrames -> KeyFrames \cup {Null}]
                 /\ mspChildrens' \in [KeyFrames -> SUBSET KeyFrames]
                 /\ mbFirstConnection' \subseteq KeyFrames
      BY <1>0, <2>1, <3>2 DEF GraphTypeOK
    <3>. QED  BY <1>4, <3>1, <3>2 DEF LinkParent
  <2>4. lmPc' \in {"count", "cull"}
    BY <1>4 DEF LinkParent
  <2>. QED  BY <1>0, <1>4, <2>1, <2>2, <2>3, <2>4
            DEF LinkParent, GraphInv, GraphTypeOK, GraphPlaced, CovTypeOK, flagVars
<1>5. CASE StartCulling
  <2>1. mpCurrentKeyFrame \in KeyFrames /\ lmPc' = "handOff"
    BY <1>0, <1>5 DEF StartCulling, GraphPlaced
  <2>2. /\ mvpOrderedConnectedKeyFrames' \in [KeyFrames -> SUBSET KeyFrames]
        /\ vpLocalKeyFrames' \subseteq KeyFrames
    BY <1>0, <1>5, <2>1, CovisiblesAreKeyFrames DEF StartCulling, GraphTypeOK
  <2>. QED  BY <1>0, <1>5, <2>1, <2>2
            DEF StartCulling, GraphInv, GraphTypeOK, GraphPlaced, mapVars, treeVars, flagVars
<1>6. CASE CullKeyFrame
  <2>1. /\ eraser' \in [Erasers -> EraserType]
        /\ \A t \in Erasers : eraser'[t].pc # "none" => eraser'[t].kf \in KeyFrames
    <3>1. CASE UNCHANGED eraser
      BY <1>0, <3>1 DEF GraphTypeOK, GraphPlaced, EraserType
    <3>2. ASSUME NEW k \in KeyFrames, eraser' = [eraser EXCEPT !["LM"] = [Idle EXCEPT !.pc = "test", !.kf = k]]
          PROVE  /\ eraser' \in [Erasers -> EraserType]
                 /\ \A t \in Erasers : eraser'[t].pc # "none" => eraser'[t].kf \in KeyFrames
      <4>. DEFINE begun == [Idle EXCEPT !.pc = "test", !.kf = k]
      <4>1. begun \in EraserType /\ begun.kf = k
        BY DEF Idle, EraserType, ErasePcs
      <4>2. eraser' = [eraser EXCEPT !["LM"] = begun]
        BY <3>2
      <4>. HIDE DEF begun
      <4>. QED  BY <1>0, <4>1, <4>2 DEF GraphTypeOK, GraphPlaced, EraserType
    <3>3. vpLocalKeyFrames \subseteq KeyFrames
      BY <1>0 DEF GraphTypeOK
    <3>. QED  BY <1>6, <3>1, <3>2, <3>3 DEF CullKeyFrame
  <2>. QED  BY <1>0, <1>6, <2>1
            DEF CullKeyFrame, GraphInv, GraphTypeOK, GraphPlaced, EraserType, mapVars, covVars, treeVars, flagVars
<1>7. CASE EndIteration
  BY <1>0, <1>7
     DEF EndIteration, LmGoto, GraphInv, GraphTypeOK, GraphPlaced, mapVars, covVars, treeVars, flagVars
<1>. QED  BY <1>1, <1>2, <1>3, <1>4, <1>5, <1>6, <1>7 DEF LmGraphStep

-----------------------------------------------------------------------------
(* Steps that leave one of the two halves alone.                              *)
LEMMA GraphUnchanged == ASSUME GraphInv, UNCHANGED graphVars  PROVE GraphInv'
BY DEF GraphInv, GraphTypeOK, GraphPlaced, graphVars, mapVars, covVars, treeVars, flagVars, lmVars

LEMMA LcUnchanged == ASSUME LcInv, UNCHANGED lcVars  PROVE LcInv'
BY DEF LcInv, LcTypeOK, LcPlaced, Candidates, lcVars

\* What the steps of local mapping leave alone of loop closing.
LcKept == UNCHANGED <<lcPc, mlpLoopKeyFrameQueue, mpCurrentKF, candidate, confirmedInKF, toSetErase, keyFrameDB>>

\* Protection alone changes.
LEMMA ProtectionType ==
  ASSUME GraphInv, NEW K \in SUBSET KeyFrames, SetNotErase(K),
         UNCHANGED <<mapVars, covVars, treeVars, mbToBeErased, mspLoopEdges, mbBad, eraser, lmVars>>
  PROVE  GraphInv'
BY DEF SetNotErase, GraphInv, GraphTypeOK, GraphPlaced, mapVars, covVars, treeVars, lmVars

LEMMA SetBadFlagType ==
  ASSUME TypeInv, SetBadFlagStep
  PROVE  TypeInv'
<1>1. ASSUME NEW t \in Erasers, EraseStep(t), UNCHANGED lcVars  PROVE TypeInv'
  BY <1>1, EraseStepType, LcUnchanged DEF TypeInv
<1>2. ASSUME NEW t \in Erasers, EraseFromDatabase(t)  PROVE TypeInv'
  <2>1. eraser' \in [Erasers -> EraserType] /\ GraphPlaced'
    <3>1. eraser' = [eraser EXCEPT ![t] = Idle] /\ UNCHANGED lmVars
      BY <1>2 DEF EraseFromDatabase
    <3>2. Idle.pc = "none"
      BY DEF Idle
    <3>. QED  BY <3>1, <3>2, IdleType DEF TypeInv, GraphInv, GraphTypeOK, GraphPlaced, EraserType, lmVars
  <2>2. GraphInv'
    BY <1>2, <2>1 DEF EraseFromDatabase, TypeInv, GraphInv, GraphTypeOK, EraserType, mapVars, covVars, treeVars, flagVars, lmVars
  <2>3. keyFrameDB' \in [KeyFrames -> Nat]
    <3>1. keyFrameDB \in [KeyFrames -> Nat] /\ eraser[t].kf \in KeyFrames
      BY <1>2 DEF EraseFromDatabase, TypeInv, GraphInv, GraphPlaced, LcInv, LcTypeOK
    <3>2. \A n \in Nat : (IF n = 0 THEN 0 ELSE n - 1) \in Nat
      OBVIOUS
    <3>. QED  BY <1>2, <3>1, <3>2 DEF EraseFromDatabase
  <2>4. LcInv'
    BY <1>2, <2>3 DEF EraseFromDatabase, TypeInv, LcInv, LcTypeOK, LcPlaced, Candidates
  <2>. QED  BY <2>2, <2>4 DEF TypeInv
<1>. QED  BY <1>1, <1>2 DEF SetBadFlagStep

LEMMA LocalMappingStepType ==
  ASSUME TypeInv, LocalMappingStep
  PROVE  TypeInv'
<1>1. CASE (NewMapKeyFrame \/ TakeKeyFrame) /\ UNCHANGED lcVars
  BY <1>1, LocalMappingType, LcUnchanged DEF TypeInv
<1>3. CASE LmGraphStep /\ LcKept /\ wellJoined' = (wellJoined /\ ~EntersAlone)
  <2>1. GraphInv'
    BY <1>3, LocalMappingType DEF TypeInv
  <2>. QED  BY <1>3, <2>1 DEF LcKept, TypeInv, LcInv, LcTypeOK, LcPlaced, Candidates
<1>2. CASE HandOver
  <2>1. GraphInv'
    BY <1>2, LocalMappingType DEF HandOver, TypeInv
  <2>2. mpCurrentKeyFrame \in KeyFrames
    BY <1>2 DEF HandOver, EndIteration, LmGoto, TypeInv, GraphInv, GraphPlaced
  <2>3. mlpLoopKeyFrameQueue' \in Seq(KeyFrames)
    BY <1>2, <2>2 DEF HandOver, TypeInv, LcInv, LcTypeOK
  <2>. QED  BY <1>2, <2>1, <2>3 DEF HandOver, TypeInv, LcInv, LcTypeOK, LcPlaced, Candidates
<1>. QED  BY <1>1, <1>2, <1>3 DEF LocalMappingStep, LcKept
-----------------------------------------------------------------------------
(* Loop closing.                                                              *)
LEMMA FieldType ==
  ASSUME LcInv, NEW kind \in Kinds
  PROVE  /\ candidate[kind] \in CandidateType
         /\ candidate[kind].last \in KeyFrames \cup {Null}
         /\ candidate[kind].matched \in KeyFrames \cup {Null}
BY DEF LcInv, LcTypeOK, CandidateType

\* What becomes of LcInv when one candidate is replaced.
LEMMA CandidateReplaced ==
  ASSUME LcInv, NEW kind \in Kinds, NEW c \in CandidateType,
         c.coincidences > 0 \/ c.detected => c.last \in KeyFrames /\ c.matched \in KeyFrames,
         candidate' = [candidate EXCEPT ![kind] = c]
  PROVE  candidate' \in [Kinds -> CandidateType] /\ Candidates'
BY DEF LcInv, LcTypeOK, Candidates

\* The values NotFound and Forget store, abstracted: literals are hard on the solver.
Lowered(c, n, f, b) == [c EXCEPT !.coincidences = n, !.notFound = f, !.detected = b]
Marked(c, f, b)     == [c EXCEPT !.notFound = f, !.detected = b]

LEMMA LoweredType ==
  ASSUME NEW c \in CandidateType, NEW n \in 0 .. 3, NEW f \in 0 .. 1, NEW b \in BOOLEAN
  PROVE  /\ Lowered(c, n, f, b) \in CandidateType /\ Lowered(c, n, f, b).coincidences = n
         /\ Lowered(c, n, f, b).last = c.last /\ Lowered(c, n, f, b).matched = c.matched
BY DEF CandidateType, Lowered

LEMMA MarkedType ==
  ASSUME NEW c \in CandidateType, NEW f \in 0 .. 1, NEW b \in BOOLEAN
  PROVE  /\ Marked(c, f, b) \in CandidateType
         /\ Marked(c, f, b).last = c.last /\ Marked(c, f, b).matched = c.matched
BY DEF CandidateType, Marked

LEMMA FoundAgainType ==
  ASSUME LcInv, lcPc # "check", NEW kind \in Kinds, candidate[kind].coincidences > 0, FoundAgain(kind)
  PROVE  /\ candidate' \in [Kinds -> CandidateType] /\ Candidates'
         /\ confirmedInKF' \subseteq Kinds /\ toSetErase' \in Seq(KeyFrames)
<1>. DEFINE c == candidate[kind]
            n == IF c.coincidences < 3 THEN c.coincidences + 1 ELSE 3
            f == IF kind = "loop" THEN 0 ELSE c.notFound
            b == c.coincidences >= 2
            d == [c EXCEPT !.coincidences = n, !.last = mpCurrentKF, !.detected = b, !.notFound = f]
<1>1. c \in CandidateType /\ c.last \in KeyFrames /\ c.matched \in KeyFrames /\ mpCurrentKF \in KeyFrames
  BY DEF LcInv, LcTypeOK, LcPlaced, Candidates
<1>2. d \in CandidateType /\ d.last = mpCurrentKF /\ d.matched = c.matched
  <2>1. n \in 0 .. 3 /\ f \in 0 .. 1 /\ b \in BOOLEAN
    BY <1>1 DEF CandidateType
  <2>. HIDE DEF c, n, f, b
  <2>. QED  BY <1>1, <2>1 DEF CandidateType
<1>3. candidate' = [candidate EXCEPT ![kind] = d]
  BY DEF FoundAgain
<1>4. candidate' \in [Kinds -> CandidateType] /\ Candidates'
  <2>. HIDE DEF d
  <2>. QED  BY <1>1, <1>2, <1>3, CandidateReplaced
<1>5. confirmedInKF' \subseteq Kinds /\ toSetErase' \in Seq(KeyFrames)
  BY <1>1 DEF FoundAgain, LcInv, LcTypeOK
<1>. QED  BY <1>4, <1>5

LEMMA NotFoundType ==
  ASSUME LcInv, NEW kind \in Kinds, candidate[kind].coincidences > 0, NotFound(kind)
  PROVE  /\ candidate' \in [Kinds -> CandidateType] /\ Candidates'
         /\ confirmedInKF' \subseteq Kinds /\ toSetErase' \in Seq(KeyFrames)
<1>. DEFINE c == candidate[kind]
            b == IF kind = "merge" THEN FALSE ELSE c.detected
            given == Lowered(c, 0, 0, b)
            kept  == Marked(c, 1, b)
<1>1. c \in CandidateType /\ c.last \in KeyFrames /\ c.matched \in KeyFrames
  BY DEF LcInv, LcTypeOK, Candidates
<1>2. /\ given \in CandidateType /\ given.last = c.last /\ given.matched = c.matched
      /\ kept \in CandidateType /\ kept.last = c.last /\ kept.matched = c.matched
  <2>1. b \in BOOLEAN
    BY <1>1 DEF CandidateType
  <2>2. 0 \in 0 .. 3 /\ 0 \in 0 .. 1 /\ 1 \in 0 .. 1
    OBVIOUS
  <2>. HIDE DEF c, b
  <2>. QED  BY <1>1, <2>1, <2>2, LoweredType, MarkedType
<1>4. candidate' = [candidate EXCEPT ![kind] = given] \/ candidate' = [candidate EXCEPT ![kind] = kept]
  BY DEF NotFound, Lowered, Marked
<1>5. candidate' \in [Kinds -> CandidateType] /\ Candidates'
  <2>. HIDE DEF given, kept
  <2>. QED  BY <1>1, <1>2, <1>4, CandidateReplaced
<1>6. confirmedInKF' \subseteq Kinds /\ toSetErase' \in Seq(KeyFrames)
  <2>1. UNCHANGED confirmedInKF /\ (toSetErase' = <<c.last, c.matched>> \/ UNCHANGED toSetErase)
    BY DEF NotFound
  <2>2. <<c.last, c.matched>> \in Seq(KeyFrames)
    <3>. HIDE DEF c
    <3>. QED  BY <1>1
  <2>. QED  BY <2>1, <2>2 DEF LcInv, LcTypeOK
<1>. QED  BY <1>5, <1>6

LEMMA ForgetType ==
  ASSUME LcInv, NEW K, Forget(K)
  PROVE  candidate' \in [Kinds -> CandidateType] /\ Candidates'
<1>0. \A kind \in Kinds : candidate'[kind].detected => candidate[kind].detected
  BY ForgetShape DEF LcInv, LcTypeOK, CandidateShape, CandidateType, Fields
<1>1. ASSUME NEW kind \in Kinds
      PROVE  /\ candidate'[kind] \in CandidateType
             /\ candidate'[kind].last = candidate[kind].last
             /\ candidate'[kind].matched = candidate[kind].matched
             /\ candidate'[kind].coincidences > 0 => candidate[kind].coincidences > 0
  <2>. DEFINE c == candidate[kind]
              d == Lowered(c, 0, 0, FALSE)
  <2>1. c \in CandidateType
    BY FieldType
  <2>2. /\ d \in CandidateType /\ d.last = c.last /\ d.matched = c.matched
        /\ ~(d.coincidences > 0)
    <3>1. 0 \in 0 .. 3 /\ 0 \in 0 .. 1 /\ FALSE \in BOOLEAN /\ ~(0 > 0)
      OBVIOUS
    <3>. HIDE DEF c
    <3>. QED  BY <2>1, <3>1, LoweredType
  <2>3. candidate'[kind] = d \/ candidate'[kind] = c
    BY DEF Forget, Lowered
  <2>. HIDE DEF d
  <2>. QED  BY <2>1, <2>2, <2>3
<1>. QED  BY <1>0, <1>1 DEF Forget, LcInv, Candidates

LEMMA ProtectedType ==
  ASSUME LcInv, NEW kind \in Kinds, candidate[kind].detected
  PROVE  Protected(kind) \in Seq(KeyFrames) /\ candidate[kind].matched \in KeyFrames
BY DEF LcInv, Candidates, Protected

LEMMA MatchesAreKeyFrames ==
  ASSUME GraphInv, NEW kind  PROVE Matches(kind) \subseteq KeyFrames
BY DEF Matches, indexed, GraphInv, GraphTypeOK

LEMMA NewCandidateType ==
  ASSUME LcInv, lcPc # "check", NEW kind \in Kinds, NEW m \in KeyFrames, NEW n \in BoWMatches
  PROVE  /\ NewCandidate(kind, m, n) \in CandidateType
         /\ NewCandidate(kind, m, n).last \in KeyFrames /\ NewCandidate(kind, m, n).matched \in KeyFrames
<1>1. n \in 0 .. 3 /\ mpCurrentKF \in KeyFrames /\ candidate[kind] \in CandidateType
  BY BoWMatchesAssumption, FieldType DEF LcInv, LcPlaced
<1>. DEFINE b == n >= 3
<1>2. b \in BOOLEAN
  BY <1>1
<1>3. NewCandidate(kind, m, n) =
        [candidate[kind] EXCEPT !.last = mpCurrentKF, !.matched = m, !.coincidences = n, !.detected = b]
  BY DEF NewCandidate
<1>. DEFINE c == candidate[kind]
            l == mpCurrentKF
            d == [c EXCEPT !.last = l, !.matched = m, !.coincidences = n, !.detected = b]
<1>4. d \in CandidateType /\ d.last = l /\ d.matched = m
  <2>1. c \in CandidateType /\ l \in KeyFrames
    BY <1>1
  <2>. HIDE DEF b, c, l
  <2>. QED  BY <1>1, <1>2, <2>1 DEF CandidateType
<1>. QED  BY <1>1, <1>3, <1>4

LEMMA BoWOutcomeType ==
  ASSUME TypeInv, lcPc # "check", NEW kind \in Kinds, NEW o \in BoWOutcomes(kind)
  PROVE  /\ o \in CandidateType
         /\ o.coincidences > 0 \/ o.detected => o.last \in KeyFrames /\ o.matched \in KeyFrames
<1>1. CASE o = candidate[kind]
  BY <1>1 DEF TypeInv, LcInv, LcTypeOK, Candidates
<1>2. ASSUME NEW m \in Matches(kind), NEW n \in BoWMatches, o = NewCandidate(kind, m, n)
      PROVE  o \in CandidateType /\ o.last \in KeyFrames /\ o.matched \in KeyFrames
  BY <1>2, MatchesAreKeyFrames, NewCandidateType DEF TypeInv
<1>. QED  BY <1>1, <1>2 DEF BoWOutcomes
-----------------------------------------------------------------------------
LEMMA OneKeyFrame == \A k \in KeyFrames : <<k>> \in Seq(KeyFrames)
OBVIOUS

LEMMA DatabaseType ==
  ASSUME LcInv, mpCurrentKF \in KeyFrames, AddToDatabase \/ UNCHANGED keyFrameDB
  PROVE  keyFrameDB' \in [KeyFrames -> Nat]
<1>1. \A n \in Nat : n + 1 \in Nat
  OBVIOUS
<1>2. keyFrameDB \in [KeyFrames -> Nat]
  BY DEF LcInv, LcTypeOK
<1>. QED  BY <1>1, <1>2 DEF AddToDatabase

\* Place recognition, while the graph but for the protection stays as it is.
LEMMA DetectionType ==
  ASSUME TypeInv, DetectionStep
  PROVE  TypeInv'
<1>0. GraphInv /\ LcInv
  BY DEF TypeInv
<1>1. CASE PopKeyFrame
  <2>1. mpCurrentKF' \in KeyFrames /\ mlpLoopKeyFrameQueue' \in Seq(KeyFrames)
    BY <1>0, <1>1 DEF PopKeyFrame, LcInv, LcTypeOK
  <2>2. GraphInv'
    BY <1>0, <1>1, <2>1, ProtectionType DEF PopKeyFrame
  <2>. QED  BY <1>0, <1>1, <2>1, <2>2
            DEF PopKeyFrame, LcGoto, TypeInv, LcInv, LcTypeOK, LcPlaced, Candidates
<1>2. CASE SkipSmallMap
  <2>1. mpCurrentKF \in KeyFrames /\ lcPc' \in {"check", "loop"} /\ UNCHANGED mpCurrentKF
    BY <1>0, <1>2 DEF SkipSmallMap, LcGoto, LcInv, LcPlaced
  <2>2. keyFrameDB' \in [KeyFrames -> Nat]
    BY <1>0, <1>2, <2>1, DatabaseType DEF SkipSmallMap
  <2>3. toSetErase' \in Seq(KeyFrames)
    <3>1. toSetErase' = <<mpCurrentKF>> \/ UNCHANGED toSetErase
      BY <1>2 DEF SkipSmallMap
    <3>. QED  BY <1>0, <2>1, <3>1, OneKeyFrame DEF LcInv, LcTypeOK
  <2>. QED  BY <1>0, <1>2, <2>1, <2>2, <2>3, GraphUnchanged
            DEF SkipSmallMap, TypeInv, LcInv, LcTypeOK, LcPlaced, Candidates
<1>3. ASSUME NEW kind \in {"loop", "merge"}, SearchFromLast(kind)  PROVE TypeInv'
  <2>1. lcPc # "check" /\ lcPc' \in {"merge", "bow"} /\ UNCHANGED mpCurrentKF
    BY <1>3 DEF SearchFromLast, LcGoto, AfterSearch
  <2>2. /\ candidate' \in [Kinds -> CandidateType] /\ Candidates'
        /\ confirmedInKF' \subseteq Kinds /\ toSetErase' \in Seq(KeyFrames)
    <3>1. CASE kind \in Kinds /\ candidate[kind].coincidences > 0 /\ FoundAgain(kind)
      BY <1>0, <2>1, <3>1, FoundAgainType
    <3>2. CASE kind \in Kinds /\ candidate[kind].coincidences > 0 /\ NotFound(kind)
      BY <1>0, <3>2, NotFoundType
    <3>3. CASE UNCHANGED <<candidate, confirmedInKF, toSetErase>>
      BY <1>0, <3>3 DEF LcInv, LcTypeOK, Candidates
    <3>. QED  BY <1>3, <3>1, <3>2, <3>3 DEF SearchFromLast
  <2>. QED  BY <1>0, <1>3, <2>1, <2>2, GraphUnchanged
            DEF SearchFromLast, TypeInv, LcInv, LcTypeOK, LcPlaced
<1>4. CASE SkipBoW
  <2>1. mpCurrentKF \in KeyFrames /\ lcPc' = "act" /\ UNCHANGED mpCurrentKF
    BY <1>0, <1>4 DEF SkipBoW, LcGoto, LcInv, LcPlaced
  <2>2. keyFrameDB' \in [KeyFrames -> Nat]
    BY <1>0, <1>4, <2>1, DatabaseType DEF SkipBoW
  <2>. QED  BY <1>0, <1>4, <2>1, <2>2, GraphUnchanged
            DEF SkipBoW, TypeInv, LcInv, LcTypeOK, LcPlaced, Candidates
<1>5. CASE SearchBoW
  <2>1. mpCurrentKF \in KeyFrames /\ lcPc = "bow" /\ UNCHANGED mpCurrentKF
    BY <1>0, <1>5 DEF SearchBoW, LcInv, LcPlaced
  <2>2. PICK outcome \in [Kinds -> UNION {BoWOutcomes(kind) : kind \in Kinds}] :
          /\ \A kind \in Kinds : outcome[kind] \in BoWOutcomes(kind)
          /\ candidate' = outcome
          /\ SetNotErase(NewlyMatched(outcome) \ {Null})
          /\ lcPc' \in {"act", "check"}
          /\ confirmedInKF' \in {confirmedInKF, confirmedInKF \cup {kind \in Kinds : outcome[kind].detected}}
          /\ toSetErase' \in {toSetErase, <<mpCurrentKF>>}
    <3>1. PICK outcome \in [Kinds -> UNION {BoWOutcomes(kind) : kind \in Kinds}] :
            /\ \A kind \in Kinds : outcome[kind] \in BoWOutcomes(kind)
            /\ candidate' = outcome
            /\ SetNotErase(NewlyMatched(outcome) \ {Null})
            /\ IF \E kind \in Kinds : outcome[kind].detected
                 THEN /\ lcPc' = "act"
                      /\ confirmedInKF' = confirmedInKF \cup {kind \in Kinds : outcome[kind].detected}
                      /\ UNCHANGED toSetErase
                 ELSE /\ lcPc' = "check"
                      /\ toSetErase' = <<mpCurrentKF>>
                      /\ UNCHANGED confirmedInKF
      BY <1>5 DEF SearchBoW
    <3>. QED  BY <3>1
  <2>3. ASSUME NEW kind \in Kinds
        PROVE  /\ outcome[kind] \in CandidateType
               /\ outcome[kind].coincidences > 0 \/ outcome[kind].detected =>
                    outcome[kind].last \in KeyFrames /\ outcome[kind].matched \in KeyFrames
    BY <2>1, <2>2, BoWOutcomeType
  <2>4. candidate' \in [Kinds -> CandidateType] /\ Candidates'
    BY <2>2, <2>3 DEF Candidates
  <2>5. NewlyMatched(outcome) \ {Null} \subseteq KeyFrames
    BY <2>3 DEF NewlyMatched, CandidateType
  <2>6. GraphInv'
    BY <1>0, <1>5, <2>2, <2>5, ProtectionType DEF SearchBoW
  <2>7. keyFrameDB' \in [KeyFrames -> Nat]
    BY <1>0, <1>5, <2>1, DatabaseType DEF SearchBoW
  <2>8. confirmedInKF' \subseteq Kinds /\ toSetErase' \in Seq(KeyFrames)
    <3>1. confirmedInKF \subseteq Kinds /\ toSetErase \in Seq(KeyFrames)
      BY <1>0 DEF LcInv, LcTypeOK
    <3>. QED  BY <2>1, <2>2, <3>1, OneKeyFrame
  <2>. QED  BY <1>0, <1>5, <2>1, <2>2, <2>4, <2>6, <2>7, <2>8
            DEF SearchBoW, TypeInv, LcInv, LcTypeOK, LcPlaced
<1>6. CASE CallSetErase
  <2>. DEFINE k == Head(toSetErase)
  <2>1. k \in KeyFrames /\ toSetErase' \in Seq(KeyFrames)
    BY <1>0, <1>6 DEF CallSetErase, LcInv, LcTypeOK
  <2>2. /\ eraser' \in [Erasers -> EraserType]
        /\ \A t \in Erasers : eraser'[t].pc # "none" => eraser'[t].kf \in KeyFrames
    <3>. DEFINE begun == [Idle EXCEPT !.pc = "test", !.kf = k]
    <3>1. begun \in EraserType /\ begun.kf = k
      BY <2>1 DEF Idle, EraserType, ErasePcs
    <3>2. eraser' = [eraser EXCEPT !["LC"] = begun] \/ UNCHANGED eraser
      BY <1>6 DEF CallSetErase, SetErase
    <3>. HIDE DEF begun
    <3>a. eraser \in [Erasers -> EraserType]
      BY <1>0 DEF GraphInv, GraphTypeOK, EraserType
    <3>b. \A t \in Erasers : eraser[t].pc # "none" => eraser[t].kf \in KeyFrames
      BY <1>0 DEF GraphInv, GraphPlaced
    <3>3. eraser \in [Erasers -> EraserType] /\ \A t \in Erasers : eraser[t].pc # "none" => eraser[t].kf \in KeyFrames
      BY <3>a, <3>b
    <3>4. CASE UNCHANGED eraser
      BY <3>3, <3>4
    <3>5. CASE eraser' = [eraser EXCEPT !["LC"] = begun]
      <4>1. \A t \in Erasers : eraser'[t] = begun \/ eraser'[t] = eraser[t]
        BY <3>3, <3>5
      <4>2. eraser' \in [Erasers -> EraserType]
        BY <3>1, <3>3, <3>5
      <4>. QED  BY <2>1, <3>1, <3>3, <4>1, <4>2
    <3>. QED  BY <3>2, <3>4, <3>5
  <2>3. mbNotErase' \subseteq KeyFrames
    BY <1>0, <1>6 DEF CallSetErase, SetErase, GraphInv, GraphTypeOK
  <2>4. GraphInv'
    BY <1>0, <1>6, <2>2, <2>3
       DEF CallSetErase, GraphInv, GraphTypeOK, GraphPlaced, EraserType, mapVars, covVars, treeVars, lmVars
  <2>. QED  BY <1>0, <1>6, <2>1, <2>4 DEF CallSetErase, TypeInv, LcInv, LcTypeOK, LcPlaced, Candidates
<1>. QED  BY <1>1, <1>2, <1>3, <1>4, <1>5, <1>6 DEF DetectionStep

-----------------------------------------------------------------------------
LEMMA WeldMapsType ==
  ASSUME TypeInv, VerifiedInv, WeldMaps
  PROVE  TypeInv'
<1>. DEFINE w == Welded
            path == Ancestors(w)
            below(a) == {b \in KeyFrames \cap path : mpParent[b] = a}
<1>0. GraphTypeOK /\ GraphPlaced /\ LcInv
  BY DEF TypeInv, GraphInv
<1>1. "merge" \in Kinds /\ candidate["merge"].detected
  BY DEF WeldMaps, VerifiedInv, CarriedOut, DetectedKind
<1>2. w \in KeyFrames /\ WeldedTo \in KeyFrames
  BY <1>0, <1>1, ProtectedType DEF Welded, WeldedTo, WeldMaps, LcInv, LcPlaced
<1>. DEFINE turned == [a \in KeyFrames |->
                         IF a = w THEN WeldedTo
                         ELSE IF below(a) # {} THEN CHOOSE b \in below(a) : TRUE ELSE mpParent[a]]
            turnedChildrens == [a \in KeyFrames |->
                                  (mspChildrens[a] \ below(a))
                                    \cup (IF a \in path THEN {mpParent[a]} \ {Null} ELSE {})
                                    \cup (IF a = WeldedTo THEN {w} ELSE {})]
<1>3. turned \in [KeyFrames -> KeyFrames \cup {Null}]
  <2>1. \A a \in KeyFrames : below(a) # {} => (CHOOSE b \in below(a) : TRUE) \in KeyFrames
    <3>. TAKE a \in KeyFrames
    <3>1. \A S \in SUBSET KeyFrames : S # {} => (CHOOSE b \in S : TRUE) \in KeyFrames
      OBVIOUS
    <3>2. below(a) \in SUBSET KeyFrames
      OBVIOUS
    <3>. HIDE DEF below
    <3>. QED  BY <3>1, <3>2
  <2>. HIDE DEF below, w
  <2>. QED  BY <1>0, <1>2, <2>1 DEF GraphTypeOK
<1>4. turnedChildrens \in [KeyFrames -> SUBSET KeyFrames]
  <2>. HIDE DEF below, w, path
  <2>. QED  BY <1>0, <1>2 DEF GraphTypeOK
<1>5. CovTypeOK' /\ TreeTypeOK'
  <2>1. PICK others, firstConnection : /\ firstConnection = mbFirstConnection \ {mnInitKFid[mpMap[w]]}
                                       /\ Reconnect(WeldedTo, others, turned, turnedChildrens, firstConnection)
    BY DEF WeldMaps
  <2>2. firstConnection \in SUBSET KeyFrames /\ CovTypeOK
    BY <1>0, <2>1 DEF GraphTypeOK, CovTypeOK
  <2>. HIDE DEF turned, turnedChildrens
  <2>. QED  BY <1>2, <1>3, <1>4, <2>1, <2>2, ReconnectType
<1>6. mpMap' \in [KeyFrames -> Maps] /\ currentMap' \in Maps
  BY <1>0, <1>2 DEF WeldMaps, GraphTypeOK
<1>7. mbNotErase' \subseteq KeyFrames
  BY <1>0, <1>2 DEF WeldMaps, GraphTypeOK
<1>8. GraphInv'
  BY <1>0, <1>5, <1>6, <1>7
     DEF WeldMaps, GraphInv, GraphTypeOK, GraphPlaced, CovTypeOK, TreeTypeOK, lmVars
<1>9. candidate' \in [Kinds -> CandidateType] /\ Candidates'
  BY <1>0, ForgetType DEF WeldMaps
<1>10. toSetErase' \in Seq(KeyFrames)
  <2>1. Protected("merge") \in Seq(KeyFrames)
    BY <1>0, <1>1, ProtectedType
  <2>2. DetectedKind("loop") => Protected("loop") \in Seq(KeyFrames)
    BY <1>0, ProtectedType DEF DetectedKind
  <2>3. toSetErase' = Protected("merge") \o IF DetectedKind("loop") THEN Protected("loop") ELSE <<>>
    BY DEF WeldMaps
  <2>. QED  BY <2>1, <2>2, <2>3
<1>. QED  BY <1>0, <1>8, <1>9, <1>10 DEF WeldMaps, TypeInv, LcInv, LcTypeOK, LcPlaced

LEMMA CloseLoopType ==
  ASSUME TypeInv, VerifiedInv, CloseLoop
  PROVE  TypeInv'
<1>0. GraphTypeOK /\ GraphPlaced /\ LcInv
  BY DEF TypeInv, GraphInv
<1>1. /\ "loop" \in Kinds /\ candidate["loop"].detected
      /\ lcPc = "correct" /\ lcPc' = "check" /\ lmPc = "idle" /\ mpCurrentKF \in KeyFrames
  BY <1>0 DEF CloseLoop, LcGoto, VerifiedInv, CarriedOut, DetectedKind, LcInv, LcPlaced
<1>2. candidate["loop"].matched \in KeyFrames /\ toSetErase' \in Seq(KeyFrames)
  BY <1>0, <1>1, ProtectedType DEF CloseLoop
<1>3. CovTypeOK' /\ TreeTypeOK'
  <2>0. CovTypeOK /\ TreeTypeOK
    BY <1>0 DEF GraphTypeOK, CovTypeOK, TreeTypeOK
  <2>1. ASSUME NEW k \in ({mpCurrentKF} \cup mvpOrderedConnectedKeyFrames[mpCurrentKF]) \ mbBad,
               NEW others, Reconnect(k, others, mpParent, mspChildrens, mbFirstConnection)
        PROVE  CovTypeOK' /\ TreeTypeOK'
    <3>1. k \in KeyFrames
      BY <1>0, <1>1, <2>1 DEF GraphTypeOK
    <3>. QED  BY <2>0, <2>1, <3>1, ReconnectType DEF TreeTypeOK
  <2>2. CASE UNCHANGED <<covVars, treeVars>>
    BY <2>0, <2>2 DEF CovTypeOK, TreeTypeOK, covVars, treeVars
  <2>. QED  BY <2>1, <2>2 DEF CloseLoop
<1>4. mbNotErase' \subseteq KeyFrames /\ mspLoopEdges' \in [KeyFrames -> SUBSET KeyFrames]
  BY <1>0, <1>1, <1>2 DEF CloseLoop, AddLoopEdges, GraphTypeOK
<1>5. GraphInv'
  BY <1>0, <1>3, <1>4
     DEF CloseLoop, AddLoopEdges, GraphInv, GraphTypeOK, GraphPlaced, CovTypeOK, TreeTypeOK, mapVars, lmVars
<1>6. candidate' \in [Kinds -> CandidateType] /\ Candidates'
  BY <1>0, ForgetType DEF CloseLoop
<1>. QED  BY <1>0, <1>1, <1>2, <1>5, <1>6 DEF CloseLoop, TypeInv, LcInv, LcTypeOK, LcPlaced

LEMMA OperationType ==
  ASSUME TypeInv, VerifiedInv, OperationStep
  PROVE  TypeInv'
<1>0. LcInv
  BY DEF TypeInv
<1>1. CASE RefuseMerge
  <2>1. candidate' \in [Kinds -> CandidateType] /\ Candidates' /\ toSetErase' \in Seq(KeyFrames)
    BY <1>0, <1>1, ForgetType, ProtectedType DEF RefuseMerge, DetectedKind
  <2>. QED  BY <1>0, <1>1, <2>1, GraphUnchanged DEF RefuseMerge, LcGoto, TypeInv, LcInv, LcTypeOK, LcPlaced
<1>2. CASE BeginMerge
  BY <1>0, <1>2, GraphUnchanged DEF BeginMerge, LcGoto, TypeInv, LcInv, LcTypeOK, LcPlaced, Candidates
<1>3. CASE WeldMaps
  BY <1>3, WeldMapsType
<1>4. CASE BeginLoop
  <2>1. CASE LcGoto("act", "correct") /\ UNCHANGED <<candidate, toSetErase>>
    BY <1>0, <1>4, <2>1, GraphUnchanged DEF BeginLoop, LcGoto, TypeInv, LcInv, LcTypeOK, LcPlaced, Candidates
  <2>2. CASE LcGoto("act", "check") /\ Forget({"loop"}) /\ toSetErase' = Protected("loop")
    <3>1. candidate' \in [Kinds -> CandidateType] /\ Candidates' /\ toSetErase' \in Seq(KeyFrames)
      BY <1>0, <1>4, <2>2, ForgetType, ProtectedType DEF BeginLoop, DetectedKind
    <3>. QED  BY <1>0, <1>4, <2>2, <3>1, GraphUnchanged
              DEF BeginLoop, LcGoto, TypeInv, LcInv, LcTypeOK, LcPlaced
  <2>. QED  BY <1>4, <2>1, <2>2 DEF BeginLoop
<1>5. CASE CloseLoop
  BY <1>5, CloseLoopType
<1>. QED  BY <1>1, <1>2, <1>3, <1>4, <1>5 DEF OperationStep

-----------------------------------------------------------------------------
LEMMA TypeNext == TypeInv /\ VerifiedInv /\ [Next]_vars => TypeInv'
<1>. SUFFICES ASSUME TypeInv, VerifiedInv, [Next]_vars  PROVE TypeInv'
  OBVIOUS
<1>1. CASE UNCHANGED vars
  BY <1>1, GraphUnchanged, LcUnchanged DEF vars, TypeInv
<1>. QED  BY <1>1, LocalMappingStepType, SetBadFlagType, DetectionType, OperationType DEF Next

\* Every variable keeps its type, for any number of keyframes, maps and weights:
\* no thread stores a null keyframe where another one takes a keyframe for granted.
THEOREM TypesAreKept == Spec => []TypeOK
<1>1. TypeInv /\ wellJoined \in BOOLEAN => TypeOK
  BY DEF TypeInv, GraphInv, LcInv, LcTypeOK, CandidateType, TypeOK
<1>2. Init => wellJoined \in BOOLEAN
  BY DEF Init
<1>3. wellJoined \in BOOLEAN /\ [Next]_vars => (wellJoined \in BOOLEAN)'
  <2>1. [Next]_vars => WeldMaps \/ wellJoined' = (wellJoined /\ ~EntersAlone) \/ UNCHANGED wellJoined
    BY DEF Next, LocalMappingStep, HandOver, SetBadFlagStep, EraseFromDatabase, DetectionStep,
           PopKeyFrame, SkipSmallMap, SearchFromLast, SkipBoW, SearchBoW, CallSetErase,
           OperationStep, RefuseMerge, BeginMerge, BeginLoop, CloseLoop, lcVars, vars
  <2>2. WeldMaps => wellJoined' \in BOOLEAN
    BY Zenon DEF WeldMaps
  <2>3. wellJoined' = (wellJoined /\ ~EntersAlone) => wellJoined' \in BOOLEAN
    BY Zenon
  <2>. QED  BY <2>1, <2>2, <2>3, Zenon
<1>. QED  BY <1>1, <1>2, <1>3, TypeInit, TypeNext, AlwaysVerified, PTL DEF Spec

-----------------------------------------------------------------------------
(* The spanning tree.  What a step of SetBadFlag or of WeldMaps does to the    *)
(* ancestors of every keyframe cannot be read off the recursion that defines   *)
(* them; it can be off the sets closed under parents, the smallest of which    *)
(* they are.  Three steps, then: that is proved once (AncestorsLeast); the     *)
(* tree is an invariant about closed sets (Hanging); and from it follows what  *)
(* TreeSound says about ancestors (TreeSpans).                                 *)
Parents(S) == {mpParent[j] : j \in S} \ {Null}
Closed(S) == \A x \in S : mpParent[x] = Null \/ mpParent[x] \in S
ParentType == mpParent \in [KeyFrames -> KeyFrames \cup {Null}]

Climbs(k, up) ==
  /\ up \in [0 .. MaxKeyFrames -> SUBSET KeyFrames]
  /\ up[0] = {k}
  /\ \A n \in 1 .. MaxKeyFrames : up[n] = up[n - 1] \cup Parents(up[n - 1])

LEMMA AncestorsUnfold ==
  ASSUME ParentType, NEW k \in KeyFrames
  PROVE  \E up : Climbs(k, up) /\ Ancestors(k) = up[MaxKeyFrames]
<1>. DEFINE N == MaxKeyFrames
            V == SUBSET KeyFrames
            body(g) == [n \in 0 .. N |-> IF n = 0 THEN {k} ELSE g[n - 1] \cup Parents(g[n - 1])]
            up == CHOOSE g : g = body(g)
            step == [n \in 1 .. N |-> [S \in V |-> S \cup Parents(S)]]
            prior(f, n) == IF n = 1 THEN {k} ELSE f[n - 1]
<1>1. N \in Nat /\ {k} \in V
  BY BoundsAssumption
<1>2. \A S \in V : S \cup Parents(S) \in V
  BY DEF ParentType, Parents
<1>3. step \in [1 .. N -> [V -> V]]
  BY <1>2
<1>4. PICK f \in [1 .. N -> V] : \A n \in 1 .. N : f[n] = step[n][prior(f, n)]
  <2>. HIDE DEF N, V, step
  <2>1. Unfolding(N, V, {k}, step) # {}
    BY <1>1, <1>3, Recursion
  <2>. QED  BY <2>1 DEF Unfolding
<1>. DEFINE g == [n \in 0 .. N |-> IF n = 0 THEN {k} ELSE f[n]]
<1>5. g \in [0 .. N -> V] /\ g[0] = {k} /\ \A n \in 1 .. N : g[n] = f[n] /\ g[n - 1] = prior(f, n)
  BY <1>1, <1>4
<1>6. \A n \in 1 .. N : g[n] = g[n - 1] \cup Parents(g[n - 1])
  <2>1. \A n \in 1 .. N : prior(f, n) \in V
    BY <1>1, <1>4
  <2>. HIDE DEF prior, V, g
  <2>. QED  BY <1>4, <1>5, <2>1
<1>7. Climbs(k, g)
  <2>. HIDE DEF g
  <2>. QED  BY <1>5, <1>6 DEF Climbs
<1>8. g = body(g)
  <2>1. g = [n \in 0 .. N |-> g[n]]
    BY <1>5
  <2>2. \A n \in 0 .. N : n # 0 => n \in 1 .. N
    BY <1>1
  <2>3. \A n \in 0 .. N : g[n] = IF n = 0 THEN {k} ELSE g[n - 1] \cup Parents(g[n - 1])
    <3>. HIDE DEF g
    <3>. QED  BY <1>5, <1>6, <2>2
  <2>. HIDE DEF g
  <2>. QED  BY <2>1, <2>3, Zenon
<1>. HIDE DEF g
<1>9. up = body(up)
  <2>. HIDE DEF body
  <2>. QED  BY <1>8
<1>10. up[0] = {k} /\ \A n \in 1 .. N : up[n] = up[n - 1] \cup Parents(up[n - 1])
  <2>. HIDE DEF up
  <2>1. \A n \in 0 .. N : up[n] = IF n = 0 THEN {k} ELSE up[n - 1] \cup Parents(up[n - 1])
    BY <1>9
  <2>2. 0 \in 0 .. N /\ \A n \in 1 .. N : n \in 0 .. N /\ n # 0
    BY <1>1
  <2>. QED  BY <2>1, <2>2
<1>11. Climbs(k, up)
  <2>. DEFINE T == {n \in 1 .. N : up[n] \in V /\ up[n - 1] \in V}
  <2>. HIDE DEF up
  <2>1. N # 0 => 1 \in T
    <3>. SUFFICES ASSUME N # 0  PROVE 1 \in T
      OBVIOUS
    <3>1. 1 \in 1 .. N /\ 1 - 1 = 0
      BY <1>1
    <3>. QED  BY <1>1, <1>2, <1>10, <3>1
  <2>2. ASSUME NEW i \in 1 .. N - 1, i \in T  PROVE i + 1 \in T
    <3>1. i + 1 \in 1 .. N /\ (i + 1) - 1 = i
      BY <1>1
    <3>. QED  BY <1>2, <1>10, <2>2, <3>1
  <2>3. 1 .. N \subseteq T
    <3>. HIDE DEF T
    <3>. QED  BY <1>1, <2>1, <2>2, Induction
  <2>4. up = [n \in 0 .. N |-> IF n = 0 THEN {k} ELSE up[n - 1] \cup Parents(up[n - 1])]
    BY <1>9
  <2>5. \A n \in 0 .. N : up[n] \in V
    <3>1. \A n \in 0 .. N : n = 0 \/ n \in 1 .. N
      BY <1>1
    <3>. QED  BY <1>1, <1>10, <2>3, <3>1
  <2>6. up \in [0 .. N -> V]
    <3>. DEFINE b == [n \in 0 .. N |-> IF n = 0 THEN {k} ELSE up[n - 1] \cup Parents(up[n - 1])]
    <3>1. \A n \in 0 .. N : b[n] \in V
      BY <2>4, <2>5
    <3>2. b \in [0 .. N -> V]
      <4>1. DOMAIN b = 0 .. N /\ b = [n \in 0 .. N |-> b[n]]
        OBVIOUS
      <4>. HIDE DEF b, V
      <4>. QED  BY <3>1, <4>1
    <3>. QED  BY <2>4, <3>2
  <2>. QED  BY <1>10, <2>6 DEF Climbs
<1>12. Ancestors(k) = up[N]
  BY Zenon DEF Ancestors, Parents
<1>. QED  BY <1>11, <1>12

LEMMA FromZero ==
  ASSUME NEW N \in Nat, NEW S, 0 \in S, \A n \in 1 .. N : n - 1 \in S => n \in S
  PROVE  0 .. N \subseteq S
<1>1. N # 0 => 1 \in S
  <2>1. N # 0 => 1 \in 1 .. N /\ 1 - 1 = 0
    OBVIOUS
  <2>. QED  BY <2>1
<1>2. ASSUME NEW i \in 1 .. N - 1, i \in S  PROVE i + 1 \in S
  <2>1. i + 1 \in 1 .. N /\ (i + 1) - 1 = i
    OBVIOUS
  <2>. QED  BY <1>2, <2>1
<1>3. 1 .. N \subseteq S
  BY <1>1, <1>2, Induction
<1>. QED  BY <1>3

\* The ancestors are the smallest set with k that is closed under parents.
LEMMA AncestorsLeast ==
  ASSUME ParentType, NEW k \in KeyFrames
  PROVE  /\ k \in Ancestors(k) /\ Ancestors(k) \subseteq KeyFrames /\ Closed(Ancestors(k))
         /\ \A U : k \in U /\ Closed(U) => Ancestors(k) \subseteq U
<1>. DEFINE N == MaxKeyFrames
<1>1. PICK up : Climbs(k, up) /\ Ancestors(k) = up[N]
  BY AncestorsUnfold
<1>2. N \in Nat /\ N # 0 /\ KeyFrames = 1 .. N
  BY BoundsAssumption DEF KeyFrames
<1>3. N \in 0 .. N /\ 0 \in 0 .. N /\ (\A n \in 1 .. N : n \in 0 .. N /\ n - 1 \in 0 .. N) /\ N \in 1 .. N
  BY <1>2
<1>4. /\ up \in [0 .. N -> SUBSET KeyFrames] /\ up[0] = {k}
      /\ \A n \in 1 .. N : up[n] = up[n - 1] \cup Parents(up[n - 1])
  BY <1>1 DEF Climbs
<1>. HIDE DEF N
<1>5. \A n \in 0 .. N : up[n] \subseteq KeyFrames
  BY <1>4
<1>6. \A S : S \subseteq KeyFrames => (Closed(S) <=> Parents(S) \subseteq S)
  BY DEF Closed, Parents
<1>7. k \in up[N] /\ \A n \in 0 .. N : k \in up[n]
  <2>. DEFINE T == {n \in 0 .. N : k \in up[n]}
  <2>1. 0 \in T /\ \A n \in 1 .. N : n - 1 \in T => n \in T
    BY <1>3, <1>4
  <2>. HIDE DEF T
  <2>2. 0 .. N \subseteq T
    BY <1>2, <2>1, FromZero
  <2>. QED  BY <1>3, <2>2 DEF T
<1>8. ASSUME NEW U, k \in U, Closed(U)  PROVE up[N] \subseteq U
  <2>. DEFINE T == {n \in 0 .. N : up[n] \subseteq U}
  <2>1. 0 \in T
    BY <1>3, <1>4, <1>8
  <2>2. ASSUME NEW n \in 1 .. N, n - 1 \in T  PROVE n \in T
    <3>1. Parents(up[n - 1]) \subseteq U
      BY <1>8, <2>2 DEF Closed, Parents
    <3>. QED  BY <1>3, <1>4, <2>2, <3>1
  <2>. HIDE DEF T
  <2>3. 0 .. N \subseteq T
    BY <1>2, <2>1, <2>2, FromZero
  <2>. QED  BY <1>3, <2>3 DEF T
(* As long as a set that was reached is not closed, it has grown in each step; *)
(* it cannot grow beyond the keyframes there are.                              *)
<1>9. Closed(up[N])
  <2>1. IsFiniteSet(KeyFrames) /\ Cardinality(KeyFrames) = N
    BY <1>2, FS_Interval
  <2>2. \A n \in 0 .. N : IsFiniteSet(up[n]) /\ Cardinality(up[n]) \in Nat /\ Cardinality(up[n]) <= N
    BY <1>5, <2>1, FS_Subset, FS_CardinalityType
  <2>. DEFINE T == {n \in 0 .. N : Closed(up[n]) \/ Cardinality(up[n]) > n}
  <2>3. 0 \in T
    <3>1. Cardinality(up[0]) = 1
      BY <1>4, FS_Singleton
    <3>. QED  BY <1>3, <3>1
  <2>4. ASSUME NEW n \in 1 .. N, n - 1 \in T  PROVE n \in T
    <3>1. n \in 0 .. N /\ n - 1 \in 0 .. N /\ n \in Nat
      BY <1>2, <1>3
    <3>2. CASE Closed(up[n - 1])
      <4>1. Parents(up[n - 1]) \subseteq up[n - 1]
        BY <1>5, <1>6, <3>1, <3>2
      <4>2. up[n] = up[n - 1]
        BY <1>4, <4>1
      <4>. QED  BY <3>1, <3>2, <4>2
    <3>3. CASE ~ Closed(up[n - 1])
      <4>1. up[n - 1] \subseteq up[n] /\ up[n - 1] # up[n]
        BY <1>4, <1>5, <1>6, <3>1, <3>3
      <4>2. Cardinality(up[n - 1]) < Cardinality(up[n])
        BY <2>2, <3>1, <4>1, FS_Subset
      <4>3. Cardinality(up[n - 1]) > n - 1
        BY <2>4, <3>3
      <4>. QED  BY <2>2, <3>1, <4>2, <4>3
    <3>. QED  BY <3>2, <3>3
  <2>. HIDE DEF T
  <2>5. 0 .. N \subseteq T
    BY <1>2, <2>3, <2>4, FromZero
  <2>6. Closed(up[N]) \/ Cardinality(up[N]) > N
    BY <1>3, <2>5 DEF T
  <2>. QED  BY <1>2, <1>3, <2>2, <2>6
<1>. QED  BY <1>1, <1>3, <1>5, <1>7, <1>8, <1>9

-----------------------------------------------------------------------------
Live == mspKeyFrames \ mbBad
First(k) == mnInitKFid[mpMap[k]]

\* The first keyframe of a map is the only one without a parent; the others have
\* a live one in the same map.
Rooted ==
  \A k \in Live : /\ First(k) \in Live /\ mpMap[First(k)] = mpMap[k] /\ mpParent[First(k)] = Null
                  /\ k # First(k) => mpParent[k] \in Live /\ mpMap[mpParent[k]] = mpMap[k]

\* No live keyframes hang on each other only.
Hanging == \A U \in SUBSET Live : Closed(U) => \A k \in U : First(k) \in U

Agree ==
  /\ \A j \in KeyFrames \ mbBad, c \in Live : c \in mspChildrens[j] <=> mpParent[c] = j
  /\ \A j \in KeyFrames : mspChildrens[j] \subseteq mspKeyFrames \cup mbBad

Tree == Rooted /\ Hanging /\ Agree

LEMMA LiveIsClosed ==
  ASSUME GraphTypeOK, Tree
  PROVE  /\ Live \subseteq KeyFrames /\ Null \notin Live /\ ParentType /\ Closed(Live)
         /\ \A k \in Live : mpParent[k] = Null <=> k = First(k)
         /\ \A k \in Live : First(First(k)) = First(k)
<1>1. Live \subseteq KeyFrames /\ Null \notin Live /\ ParentType
  BY NullIsNoKeyFrame DEF GraphTypeOK, Live, ParentType
<1>. QED  BY <1>1 DEF Tree, Rooted, Closed, First

LEMMA AncestorsAreLive ==
  ASSUME GraphTypeOK, Tree, NEW k \in Live
  PROVE  /\ Ancestors(k) \subseteq Live /\ k \in Ancestors(k) /\ First(k) \in Ancestors(k)
         /\ Closed(Ancestors(k))
         /\ \A U : k \in U /\ Closed(U) => Ancestors(k) \subseteq U
         /\ \A a \in Ancestors(k) : mpMap[a] = mpMap[k]
<1>1. /\ k \in KeyFrames /\ ParentType /\ Closed(Live)
  BY LiveIsClosed
<1>2. /\ k \in Ancestors(k) /\ Closed(Ancestors(k))
      /\ \A U : k \in U /\ Closed(U) => Ancestors(k) \subseteq U
  BY <1>1, AncestorsLeast
<1>3. Ancestors(k) \subseteq Live
  BY <1>1, <1>2
<1>. DEFINE Same == {a \in Live : mpMap[a] = mpMap[k]}
<1>4. Closed(Same)
  BY LiveIsClosed DEF Closed, Tree, Rooted
<1>5. Ancestors(k) \subseteq Same
  BY <1>2, <1>4
<1>. QED  BY <1>2, <1>3, <1>5 DEF Tree, Hanging

LEMMA ParentOfAncestor ==
  ASSUME GraphTypeOK, Tree, NEW k \in Live
  PROVE  IF mpParent[k] = Null THEN Ancestors(k) = {k}
                               ELSE mpParent[k] \in Live /\ Ancestors(k) \subseteq {k} \cup Ancestors(mpParent[k])
<1>1. CASE mpParent[k] = Null
  <2>1. Closed({k})
    BY <1>1 DEF Closed
  <2>. QED  BY <1>1, <2>1, AncestorsAreLive
<1>2. CASE mpParent[k] # Null
  <2>. DEFINE p == mpParent[k]
  <2>1. p \in Live
    BY <1>2, LiveIsClosed DEF Closed
  <2>2. p \in Ancestors(p) /\ Closed(Ancestors(p))
    BY <2>1, AncestorsAreLive
  <2>3. Closed({k} \cup Ancestors(p))
    BY <2>2 DEF Closed
  <2>. QED  BY <1>2, <2>1, <2>3, AncestorsAreLive
<1>. QED  BY <1>1, <1>2

\* A keyframe is not above its own parent.
LEMMA Acyclic ==
  ASSUME GraphTypeOK, Tree, NEW k \in Live, mpParent[k] # Null
  PROVE  mpParent[k] \in Live /\ k \notin Ancestors(mpParent[k])
<1>. DEFINE p == mpParent[k]
            C == {y \in Ancestors(k) : k \in Ancestors(y)}
<1>1. p \in Live
  BY LiveIsClosed DEF Closed
<1>. SUFFICES ASSUME k \in Ancestors(p)  PROVE FALSE
  BY <1>1
<1>2. /\ Ancestors(k) \subseteq Live /\ k \in Ancestors(k) /\ Closed(Ancestors(k))
  BY AncestorsAreLive
<1>3. Closed(C)
  <2>. SUFFICES ASSUME NEW y \in C, mpParent[y] # Null  PROVE mpParent[y] \in C
    BY DEF Closed
  <2>1. mpParent[y] \in Ancestors(k)
    BY <1>2 DEF Closed
  <2>2. k \in Ancestors(mpParent[y])
    BY <1>2, ParentOfAncestor
  <2>. QED  BY <2>1, <2>2
<1>4. k \in C /\ C \subseteq Live
  BY <1>2
<1>5. First(k) \in C
  BY <1>3, <1>4 DEF Tree, Hanging
<1>6. First(k) \in Live /\ mpParent[First(k)] = Null /\ k # First(k)
  BY <1>2, <1>5, LiveIsClosed DEF Tree, Rooted
<1>7. Ancestors(First(k)) = {First(k)}
  BY <1>6, ParentOfAncestor
<1>. QED  BY <1>5, <1>6, <1>7

\* Of two ancestors one is above the other, so no two have the same parent.
LEMMA OneChildBelow ==
  ASSUME GraphTypeOK, Tree, NEW w \in Live, NEW a \in Ancestors(w), NEW b \in Ancestors(w),
         mpParent[a] = mpParent[b], mpParent[a] # Null
  PROVE  a = b
<1>1. /\ Ancestors(w) \subseteq Live /\ w \in Ancestors(w) /\ Closed(Ancestors(w))
  BY AncestorsAreLive
<1>2. ASSUME NEW x \in Ancestors(w), NEW y \in Ancestors(w), x \in Ancestors(y),
             mpParent[x] = mpParent[y], mpParent[x] # Null
      PROVE  x = y
  BY <1>1, <1>2, ParentOfAncestor, Acyclic
<1>. DEFINE N == {x \in Ancestors(w) : a \in Ancestors(x) /\ b \in Ancestors(x)}
<1>3. CASE a \in Ancestors(b) \/ b \in Ancestors(a)
  BY <1>2, <1>3
<1>4. CASE a \notin Ancestors(b) /\ b \notin Ancestors(a)
  <2>1. ASSUME NEW x \in N  PROVE mpParent[x] # Null /\ mpParent[x] \in N
    <3>1. x # a /\ x # b /\ x \in Live
      BY <1>1, <1>4
    <3>2. mpParent[x] # Null
      BY <3>1, ParentOfAncestor
    <3>. QED  BY <1>1, <3>1, <3>2, ParentOfAncestor DEF Closed
  <2>2. w \in N /\ N \subseteq Live /\ Closed(N)
    BY <1>1, <2>1 DEF Closed
  <2>3. First(w) \in N
    BY <2>2 DEF Tree, Hanging
  <2>. QED  BY <2>1, <2>2, <2>3 DEF Tree, Rooted
<1>. QED  BY <1>3, <1>4

LEMMA TreeSpans == ASSUME GraphTypeOK, Tree  PROVE SpanningTree
<1>. SUFFICES ASSUME NEW k \in Live
              PROVE  /\ First(k) \in Ancestors(k)
                     /\ \A a \in Ancestors(k) : a \in Live /\ mpMap[a] = mpMap[k]
                     /\ \A c \in Live : c \in mspChildrens[k] <=> mpParent[c] = k
  BY DEF SpanningTree, Live, First
<1>1. k \in KeyFrames \ mbBad
  BY LiveIsClosed DEF Live
<1>. QED  BY <1>1, AncestorsAreLive DEF Tree, Agree
-----------------------------------------------------------------------------
(* Keyframes other threads may have heard of: those of the maps, those erased, *)
(* and the one local mapping connects before it is put into its map.           *)
Known == mspKeyFrames \cup mbBad \cup IF lmPc \in {"count", "link"} THEN {mpCurrentKeyFrame} ELSE {}

ConnectionsKnown ==
  /\ \A j, m \in KeyFrames : mConnectedKeyFrameWeights[j][m] > 0 => m \in Known
  /\ \A j \in KeyFrames : mvpOrderedConnectedKeyFrames[j] \subseteq Known
  /\ \A m \in KeyFrames : KFcounter[m] > 0 => m \in Known
  /\ vPairs \subseteq Known /\ vpLocalKeyFrames \subseteq Known
  /\ lmPc # "idle" => mpCurrentKeyFrame \in Known

ErasuresKnown ==
  /\ mbToBeErased \subseteq Known
  /\ \A t \in Erasers : /\ eraser[t].pc # "none" => eraser[t].kf \in Known
                        /\ eraser[t].pc \in {"eraseMap", "eraseDB"} => eraser[t].kf \in mbBad

SearchesKnown ==
  /\ indexed \subseteq Known
  /\ \A i \in 1 .. Len(mlpLoopKeyFrameQueue) : mlpLoopKeyFrameQueue[i] \in Known
  /\ mpCurrentKF \in Known \cup {Null}
  /\ \A kind \in Kinds : candidate[kind].matched \in Known \cup {Null}

KnownInv ==
  Known \subseteq 1 .. created /\ ConnectionsKnown /\ ErasuresKnown /\ SearchesKnown

-----------------------------------------------------------------------------
Undisturbed == mbToBeErased = {} /\ wellJoined

\* The keyframe local mapping erases, and the candidates to adopt its children.
ErasureInTree ==
  LET k == eraser["LM"].kf
      candidates == eraser["LM"].candidates
  IN /\ eraser["LC"].pc = "none"
     /\ eraser["LM"].pc \in {"test", "detach", "lock", "assign"} => k \in Live /\ k # First(k)
     /\ eraser["LM"].pc = "assign" =>
          \A x \in candidates : /\ x \in Live /\ x # k /\ mpMap[x] = mpMap[k]
                                /\ x = mpParent[k] \/ mpParent[x] \in candidates

\* The keyframe local mapping connects, and those not created yet; the live ones but
\* the first of a map have been connected.
NewcomerFits ==
  LET k == mpCurrentKeyFrame IN
  /\ lmPc \in {"count", "link"} =>
       /\ k \in mspKeyFrames <=> k \notin mbFirstConnection
       /\ k \notin mspKeyFrames => k \notin mbBad
  /\ lmPc = "link" => \A p \in vPairs : p \in Live /\ p # k /\ mpMap[p] = mpMap[k]
  /\ \A f \in KeyFrames : f > created => f \in mbFirstConnection /\ mpParent[f] = Null
  /\ \A f \in Live : f \in mbFirstConnection => f = First(f)

TreeInv == Undisturbed => Tree /\ ErasureInTree /\ NewcomerFits
-----------------------------------------------------------------------------
LEMMA KnownSame ==
  ASSUME KnownInv, UNCHANGED <<mspKeyFrames, mbBad, lmPc, mpCurrentKeyFrame, created>>
  PROVE  Known' = Known /\ Known' \subseteq 1 .. created'
BY DEF KnownInv, Known

LEMMA ConnectionsKept ==
  ASSUME ConnectionsKnown, Known \subseteq Known', UNCHANGED <<covVars, KFcounter, vPairs, vpLocalKeyFrames>>,
         lmPc' # "idle" => mpCurrentKeyFrame' \in Known'
  PROVE  ConnectionsKnown'
BY DEF ConnectionsKnown, covVars

LEMMA ErasuresKept ==
  ASSUME ErasuresKnown, Known \subseteq Known', UNCHANGED <<mbToBeErased, eraser, mbBad>>
  PROVE  ErasuresKnown'
BY DEF ErasuresKnown

LEMMA SearchesKept ==
  ASSUME SearchesKnown, Known \subseteq Known', LcKept \/ UNCHANGED lcVars
  PROVE  SearchesKnown'
BY DEF SearchesKnown, LcKept, lcVars, indexed

LEMMA CountersKnown ==
  ASSUME NEW k, NEW others, NEW c \in CountersAmong(k, others), NEW selected \in Selections(c)
  PROVE  /\ \A j \in KeyFrames : c[j] > 0 => j \in others
         /\ selected \subseteq {j \in KeyFrames : c[j] > 0}
<1>1. \A j \in KeyFrames : c[j] \in Nat /\ (c[j] > 0 => j \in others)
  BY BoundsAssumption DEF CountersAmong, Weights
<1>2. selected \subseteq {j \in KeyFrames : c[j] > 0}
  <2>1. CASE {j \in KeyFrames : c[j] >= Threshold} # {}
    BY <1>1, <2>1, ThresholdAssumption DEF Selections
  <2>2. CASE {j \in KeyFrames : c[j] >= Threshold} = {}
    BY <1>1, <2>2 DEF Selections, Heaviest
  <2>. QED  BY <2>1, <2>2
<1>. QED  BY <1>1, <1>2

LEMMA AddConnectionsKnown ==
  ASSUME GraphTypeOK, ConnectionsKnown, NEW k \in Known, k \in KeyFrames, NEW c, NEW selected \in SUBSET KeyFrames,
         AddConnections(k, c, selected)
  PROVE  /\ \A j, m \in KeyFrames : mConnectedKeyFrameWeights'[j][m] > 0 => m \in Known
         /\ \A j \in KeyFrames : mvpOrderedConnectedKeyFrames'[j] \subseteq Known
<1>. DEFINE weights == [j \in KeyFrames |->
                          IF j \in selected THEN [mConnectedKeyFrameWeights[j] EXCEPT ![k] = c[j]]
                                            ELSE mConnectedKeyFrameWeights[j]]
<1>1. /\ mConnectedKeyFrameWeights' = weights
      /\ mvpOrderedConnectedKeyFrames' =
           [j \in KeyFrames |-> IF weights[j] # mConnectedKeyFrameWeights[j] THEN Covisibles(weights[j])
                                                                            ELSE mvpOrderedConnectedKeyFrames[j]]
  BY DEF AddConnections
<1>2. \A j, m \in KeyFrames : m # k => weights[j][m] = mConnectedKeyFrameWeights[j][m]
  BY DEF GraphTypeOK, Weights
<1>3. \A j, m \in KeyFrames : weights[j][m] > 0 => m \in Known
  BY <1>2 DEF ConnectionsKnown
<1>. HIDE DEF weights
<1>4. \A j \in KeyFrames : Covisibles(weights[j]) \subseteq Known
  BY <1>3 DEF Covisibles
<1>. QED  BY <1>1, <1>3, <1>4 DEF ConnectionsKnown

LEMMA RecountKnown ==
  ASSUME GraphTypeOK, ConnectionsKnown, NEW k \in Known, k \in KeyFrames, NEW others \in SUBSET Known,
         NEW c \in CountersAmong(k, others), NEW selected \in Selections(c), Recount(k, c, selected)
  PROVE  /\ \A j, m \in KeyFrames : mConnectedKeyFrameWeights'[j][m] > 0 => m \in Known
         /\ \A j \in KeyFrames : mvpOrderedConnectedKeyFrames'[j] \subseteq Known
<1>. DEFINE weights == [j \in KeyFrames |->
                          IF j = k THEN c
                          ELSE IF j \in selected THEN [mConnectedKeyFrameWeights[j] EXCEPT ![k] = c[j]]
                          ELSE mConnectedKeyFrameWeights[j]]
<1>2. /\ mConnectedKeyFrameWeights' = weights
      /\ mvpOrderedConnectedKeyFrames' =
           [j \in KeyFrames |->
              IF j = k THEN selected
              ELSE IF weights[j] # mConnectedKeyFrameWeights[j] THEN Covisibles(weights[j])
              ELSE mvpOrderedConnectedKeyFrames[j]]
  BY DEF Recount
<1>3. \A j \in KeyFrames : c[j] > 0 => j \in Known
  BY CountersKnown
<1>4. selected \subseteq Known
  BY <1>3, CountersKnown
<1>5. \A j, m \in KeyFrames : m # k /\ j # k => weights[j][m] = mConnectedKeyFrameWeights[j][m]
  BY DEF GraphTypeOK, Weights
<1>6. \A j, m \in KeyFrames : weights[j][m] > 0 => m \in Known
  BY <1>3, <1>5 DEF ConnectionsKnown
<1>. HIDE DEF weights
<1>7. \A j \in KeyFrames : Covisibles(weights[j]) \subseteq Known
  BY <1>6 DEF Covisibles
<1>. QED  BY <1>2, <1>4, <1>6, <1>7 DEF ConnectionsKnown
-----------------------------------------------------------------------------
LEMMA KnownLocalMapping ==
  ASSUME TypeInv, KnownInv, LocalMappingStep
  PROVE  KnownInv'
<1>. DEFINE k == mpCurrentKeyFrame
<1>0. /\ GraphTypeOK /\ GraphPlaced
      /\ Known \subseteq 1 .. created /\ ConnectionsKnown /\ ErasuresKnown /\ SearchesKnown
      /\ created \in Nat
  BY DEF TypeInv, GraphInv, GraphTypeOK, KnownInv
<1>1. ASSUME NewMapKeyFrame \/ TakeKeyFrame, UNCHANGED lcVars  PROVE KnownInv'
  <2>1. /\ lmPc = "idle" /\ lmPc' \in {"cull", "count"} /\ mpCurrentKeyFrame' = created + 1
        /\ created' = created + 1 /\ mbBad' = mbBad
        /\ \/ lmPc' = "cull" /\ mspKeyFrames' = mspKeyFrames \cup {created + 1}
           \/ lmPc' = "count" /\ mspKeyFrames' = mspKeyFrames
        /\ UNCHANGED <<covVars, KFcounter, vPairs, vpLocalKeyFrames, mbToBeErased, eraser>>
    BY <1>1 DEF NewMapKeyFrame, TakeKeyFrame, LmGoto, flagVars
  <2>2. Known' = Known \cup {created + 1}
    BY <2>1 DEF Known
  <2>3. Known' \subseteq 1 .. created'
    BY <1>0, <2>1, <2>2
  <2>. QED  BY <1>0, <1>1, <2>1, <2>2, <2>3, ConnectionsKept, ErasuresKept, SearchesKept DEF KnownInv
<1>2. ASSUME CountConnections, LcKept  PROVE KnownInv'
  <2>1. /\ lmPc = "count" /\ lmPc' = "link"
        /\ UNCHANGED <<mspKeyFrames, mbBad, mpCurrentKeyFrame, created, vpLocalKeyFrames, mbToBeErased, eraser>>
    BY <1>2 DEF CountConnections, LmGoto, mapVars, flagVars
  <2>2. Known' = Known /\ k \in Known /\ k \in KeyFrames
    BY <1>0, <2>1 DEF Known, GraphPlaced
  <2>3. PICK c \in Counters(k) : \E selected \in Selections(c) :
          AddConnections(k, c, selected) /\ KFcounter' = c /\ vPairs' = selected
    BY <1>2 DEF CountConnections
  <2>4. PICK selected \in Selections(c) :
          AddConnections(k, c, selected) /\ KFcounter' = c /\ vPairs' = selected
    BY <2>3
  <2>5. /\ \A j \in KeyFrames : c[j] > 0 => j \in Known
        /\ selected \subseteq KeyFrames /\ selected \subseteq Known
    BY <2>3, <2>4, CountersKnown DEF Counters, LiveOf, Known
  <2>6. /\ \A j, m \in KeyFrames : mConnectedKeyFrameWeights'[j][m] > 0 => m \in Known
        /\ \A j \in KeyFrames : mvpOrderedConnectedKeyFrames'[j] \subseteq Known
    BY <1>0, <2>2, <2>4, <2>5, AddConnectionsKnown
  <2>7. ConnectionsKnown'
    BY <1>0, <2>1, <2>2, <2>4, <2>5, <2>6 DEF ConnectionsKnown
  <2>. QED  BY <1>0, <1>2, <2>1, <2>2, <2>7, ErasuresKept, SearchesKept DEF KnownInv
<1>3. ASSUME LinkParent, LcKept  PROVE KnownInv'
  <2>1. /\ lmPc = "link" /\ lmPc' \in {"count", "cull"}
        /\ mspKeyFrames' = mspKeyFrames \cup {k}
        /\ KFcounter' = NoWeights /\ vPairs' = {}
        /\ UNCHANGED <<mbBad, mpCurrentKeyFrame, created, vpLocalKeyFrames, mbToBeErased, eraser>>
    BY <1>3 DEF LinkParent, flagVars
  <2>2. Known' = Known /\ k \in Known /\ k \in KeyFrames
    BY <1>0, <2>1 DEF Known, GraphPlaced
  <2>3. \A m \in KeyFrames : ~ (KFcounter'[m] > 0)
    BY <2>1 DEF NoWeights
  <2>7. ASSUME mConnectedKeyFrameWeights' = [mConnectedKeyFrameWeights EXCEPT ![k] = KFcounter],
               mvpOrderedConnectedKeyFrames' = [mvpOrderedConnectedKeyFrames EXCEPT ![k] = vPairs]
        PROVE  /\ \A j, m \in KeyFrames : mConnectedKeyFrameWeights'[j][m] > 0 => m \in Known
               /\ \A j \in KeyFrames : mvpOrderedConnectedKeyFrames'[j] \subseteq Known
    <3>1. \A j, m \in KeyFrames : mConnectedKeyFrameWeights'[j][m] > 0 => m \in Known
      BY <1>0, <2>2, <2>7 DEF GraphTypeOK, ConnectionsKnown
    <3>2. \A j \in KeyFrames : mvpOrderedConnectedKeyFrames'[j] \subseteq Known
      BY <1>0, <2>2, <2>7 DEF GraphTypeOK, ConnectionsKnown
    <3>. QED  BY <3>1, <3>2
  <2>8. ASSUME UNCHANGED covVars
        PROVE  /\ \A j, m \in KeyFrames : mConnectedKeyFrameWeights'[j][m] > 0 => m \in Known
               /\ \A j \in KeyFrames : mvpOrderedConnectedKeyFrames'[j] \subseteq Known
    BY <1>0, <2>8 DEF ConnectionsKnown, covVars
  <2>4. /\ \A j, m \in KeyFrames : mConnectedKeyFrameWeights'[j][m] > 0 => m \in Known
        /\ \A j \in KeyFrames : mvpOrderedConnectedKeyFrames'[j] \subseteq Known
    BY <1>3, <2>7, <2>8 DEF LinkParent
  <2>6. ConnectionsKnown'
    BY <1>0, <2>1, <2>2, <2>3, <2>4 DEF ConnectionsKnown
  <2>. QED  BY <1>0, <1>3, <2>1, <2>2, <2>6, ErasuresKept, SearchesKept DEF KnownInv
<1>4. ASSUME StartCulling, LcKept  PROVE KnownInv'
  <2>. DEFINE best == Covisibles(mConnectedKeyFrameWeights[k])
  <2>1. /\ lmPc = "cull" /\ lmPc' = "handOff"
        /\ UNCHANGED <<mspKeyFrames, mConnectedKeyFrameWeights, KFcounter, vPairs, mbBad, mpCurrentKeyFrame,
                       created, mbToBeErased, eraser>>
        /\ \/ /\ mvpOrderedConnectedKeyFrames' = [mvpOrderedConnectedKeyFrames EXCEPT ![k] = best]
              /\ vpLocalKeyFrames' = best
           \/ UNCHANGED <<mvpOrderedConnectedKeyFrames, vpLocalKeyFrames>>
    BY <1>4 DEF StartCulling, mapVars, flagVars
  <2>2. Known' = Known /\ k \in KeyFrames
    BY <1>0, <2>1 DEF Known, GraphPlaced
  <2>3. best \subseteq Known
    BY <1>0, <2>2 DEF Covisibles, ConnectionsKnown
  <2>. HIDE DEF best
  <2>4. \A j \in KeyFrames : mvpOrderedConnectedKeyFrames'[j] \subseteq Known
    <3>1. \A j \in KeyFrames : mvpOrderedConnectedKeyFrames'[j] \in {mvpOrderedConnectedKeyFrames[j], best}
      BY <1>0, <2>1, <2>2 DEF GraphTypeOK
    <3>2. \A j \in KeyFrames : mvpOrderedConnectedKeyFrames[j] \subseteq Known
      BY <1>0 DEF ConnectionsKnown
    <3>. QED  BY <2>3, <3>1, <3>2
  <2>5. ConnectionsKnown'
    BY <1>0, <2>1, <2>2, <2>3, <2>4 DEF ConnectionsKnown
  <2>. QED  BY <1>0, <1>4, <2>1, <2>2, <2>5, ErasuresKept, SearchesKept DEF KnownInv
<1>5. ASSUME CullKeyFrame, LcKept  PROVE KnownInv'
  <2>1. PICK e \in vpLocalKeyFrames :
          /\ vpLocalKeyFrames' = vpLocalKeyFrames \ {e}
          /\ \/ eraser' = [eraser EXCEPT !["LM"] = [Idle EXCEPT !.pc = "test", !.kf = e]]
             \/ UNCHANGED eraser
    BY <1>5 DEF CullKeyFrame
  <2>2. /\ UNCHANGED <<mspKeyFrames, covVars, KFcounter, vPairs, mbBad, lmPc, mpCurrentKeyFrame,
                       created, mbToBeErased>>
    BY <1>5 DEF CullKeyFrame, mapVars, flagVars
  <2>3. Known' = Known /\ Known' \subseteq 1 .. created'
    BY <2>2, KnownSame
  <2>4. ConnectionsKnown'
    BY <1>0, <2>1, <2>2, <2>3 DEF ConnectionsKnown, covVars
  <2>5. ErasuresKnown'
    <3>1. e \in Known
      BY <1>0, <2>1 DEF ConnectionsKnown
    <3>2. \A t \in Erasers : \/ eraser'[t] = eraser[t]
                             \/ eraser'[t].kf = e /\ eraser'[t].pc = "test"
      BY <1>0, <2>1 DEF GraphTypeOK, Idle
    <3>. QED  BY <1>0, <2>2, <2>3, <3>1, <3>2 DEF ErasuresKnown
  <2>. QED  BY <1>0, <1>5, <2>3, <2>4, <2>5, SearchesKept DEF KnownInv
<1>6. ASSUME HandOver  PROVE KnownInv'
  <2>1. /\ lmPc = "handOff" /\ lmPc' = "idle"
        /\ UNCHANGED <<mspKeyFrames, covVars, KFcounter, vPairs, vpLocalKeyFrames, mbBad, mpCurrentKeyFrame,
                       created, mbToBeErased, eraser, mpCurrentKF, candidate, keyFrameDB>>
        /\ mlpLoopKeyFrameQueue' \in {mlpLoopKeyFrameQueue, Append(mlpLoopKeyFrameQueue, k)}
    BY <1>6 DEF HandOver, EndIteration, LmGoto, mapVars, flagVars
  <2>2. Known' = Known /\ k \in Known /\ k \in KeyFrames
    BY <1>0, <2>1 DEF Known, GraphPlaced, ConnectionsKnown
  <2>3. \A i \in 1 .. Len(mlpLoopKeyFrameQueue') : mlpLoopKeyFrameQueue'[i] \in Known
    <3>1. mlpLoopKeyFrameQueue \in Seq(KeyFrames)
      BY DEF TypeInv, LcInv, LcTypeOK
    <3>2. \A i \in 1 .. Len(mlpLoopKeyFrameQueue) : mlpLoopKeyFrameQueue[i] \in Known
      BY <1>0 DEF SearchesKnown
    <3>3. \A i \in 1 .. Len(Append(mlpLoopKeyFrameQueue, k)) : Append(mlpLoopKeyFrameQueue, k)[i] \in Known
      BY <2>2, <3>1, <3>2, AppendProperties
    <3>. QED  BY <2>1, <3>2, <3>3
  <2>4. SearchesKnown'
    BY <1>0, <2>1, <2>2, <2>3 DEF SearchesKnown, indexed
  <2>. QED  BY <1>0, <2>1, <2>2, <2>4, ConnectionsKept, ErasuresKept DEF KnownInv
<1>. QED  BY <1>1, <1>2, <1>3, <1>4, <1>5, <1>6 DEF LocalMappingStep, LmGraphStep, LcKept
-----------------------------------------------------------------------------
LEMMA EraserKnown ==
  ASSUME ErasuresKnown, NEW t \in Erasers, Known \subseteq Known', mbBad \subseteq mbBad', mbToBeErased' \subseteq Known,
         \A o \in Erasers \ {t} : eraser'[o] = eraser[o],
         \/ eraser'[t].pc = "none"
         \/ /\ eraser'[t].kf = eraser[t].kf /\ eraser[t].pc # "none"
            /\ eraser'[t].pc \in {"eraseMap", "eraseDB"} => eraser[t].kf \in mbBad'
  PROVE  ErasuresKnown'
BY DEF ErasuresKnown

LEMMA KnownEraseStep ==
  ASSUME TypeInv, EraserShape, KnownInv, NEW t \in Erasers, EraseStep(t), UNCHANGED lcVars
  PROVE  KnownInv'
<1>. DEFINE k == eraser[t].kf
<1>0. /\ GraphTypeOK /\ GraphPlaced
      /\ Known \subseteq 1 .. created /\ ConnectionsKnown /\ ErasuresKnown /\ SearchesKnown
  BY DEF TypeInv, GraphInv, KnownInv
<1>a. eraser[t].pc # "none" => k \in Known
  BY <1>0 DEF ErasuresKnown
<1>1. CASE TestErase(t)
  <2>1. UNCHANGED <<mspKeyFrames, covVars, KFcounter, vPairs, vpLocalKeyFrames, mbBad, lmPc, mpCurrentKeyFrame, created>>
    BY <1>1 DEF TestErase, mapVars, lmVars
  <2>2. Known' = Known /\ Known' \subseteq 1 .. created'
    BY <2>1, KnownSame
  <2>3. eraser[t].pc = "test" /\ k \in Known /\ mbToBeErased' \subseteq mbToBeErased \cup {k}
    BY <1>a, <1>1 DEF TestErase
  <2>4. mbToBeErased' \subseteq Known
    BY <1>0, <2>3 DEF ErasuresKnown
  <2>5. /\ \A o \in Erasers \ {t} : eraser'[o] = eraser[o]
        /\ eraser'[t].pc = "none" \/ (eraser'[t].kf = k /\ eraser'[t].pc = "detach")
    <3>1. CASE eraser' = [eraser EXCEPT ![t] = Idle]
      BY <3>1 DEF EraserShape, Idle
    <3>2. CASE EraseGoto(t, "test", "detach")
      BY <3>2, GotoMoves
    <3>. QED  BY <1>1, <3>1, <3>2 DEF TestErase
  <2>6. ErasuresKnown'
    BY <1>0, <2>1, <2>2, <2>3, <2>4, <2>5, EraserKnown
  <2>. QED  BY <1>0, <2>1, <2>2, <2>6, ConnectionsKept, SearchesKept DEF KnownInv, ConnectionsKnown
<1>2. CASE DetachErased(t)
  <2>. DEFINE neighbours == {j \in KeyFrames : mConnectedKeyFrameWeights[k][j] > 0}
              weights == [j \in KeyFrames |->
                            IF j \in neighbours THEN [mConnectedKeyFrameWeights[j] EXCEPT ![k] = 0]
                                                ELSE mConnectedKeyFrameWeights[j]]
  <2>1. /\ UNCHANGED <<mspKeyFrames, KFcounter, vPairs, vpLocalKeyFrames, mbBad, lmPc, mpCurrentKeyFrame, created,
                       mbToBeErased>>
        /\ mConnectedKeyFrameWeights' = weights
        /\ mvpOrderedConnectedKeyFrames' =
             [j \in KeyFrames |-> IF weights[j] # mConnectedKeyFrameWeights[j] THEN Covisibles(weights[j])
                                                                              ELSE mvpOrderedConnectedKeyFrames[j]]
        /\ EraseGoto(t, "detach", "lock")
    BY <1>2 DEF DetachErased, mapVars, flagVars, lmVars
  <2>2. Known' = Known /\ Known' \subseteq 1 .. created'
    BY <2>1, KnownSame
  <2>3. \A j, m \in KeyFrames : weights[j][m] > 0 => m \in Known
    <3>1. \A j, m \in KeyFrames : weights[j][m] \in {0, mConnectedKeyFrameWeights[j][m]}
      BY <1>0 DEF GraphTypeOK, Weights
    <3>2. \A j, m \in KeyFrames : mConnectedKeyFrameWeights[j][m] > 0 => m \in Known
      BY <1>0 DEF ConnectionsKnown
    <3>. HIDE DEF weights
    <3>. QED  BY <3>1, <3>2
  <2>. HIDE DEF weights
  <2>4. \A j \in KeyFrames : Covisibles(weights[j]) \subseteq Known
    BY <2>3 DEF Covisibles
  <2>5. ConnectionsKnown'
    BY <1>0, <2>1, <2>2, <2>3, <2>4 DEF ConnectionsKnown
  <2>6. ErasuresKnown'
    BY <1>0, <2>1, <2>2, GotoMoves, EraserKnown DEF ErasuresKnown
  <2>. QED  BY <1>0, <2>2, <2>5, <2>6, SearchesKept DEF KnownInv
<1>3. CASE LockErased(t)
  <2>1. /\ UNCHANGED <<mspKeyFrames, KFcounter, vPairs, vpLocalKeyFrames, mbBad, lmPc, mpCurrentKeyFrame, created,
                       mbToBeErased>>
        /\ mConnectedKeyFrameWeights' = [mConnectedKeyFrameWeights EXCEPT ![k] = NoWeights]
        /\ mvpOrderedConnectedKeyFrames' = [mvpOrderedConnectedKeyFrames EXCEPT ![k] = {}]
    BY <1>3 DEF LockErased, mapVars, flagVars, lmVars
  <2>2. Known' = Known /\ Known' \subseteq 1 .. created'
    BY <2>1, KnownSame
  <2>3. \A j, m \in KeyFrames : mConnectedKeyFrameWeights'[j][m] \in {0, mConnectedKeyFrameWeights[j][m]}
    BY <1>0, <2>1 DEF GraphTypeOK, NoWeights
  <2>4. \A j \in KeyFrames : mvpOrderedConnectedKeyFrames'[j] \in {{}, mvpOrderedConnectedKeyFrames[j]}
    BY <1>0, <2>1 DEF GraphTypeOK
  <2>5. ConnectionsKnown'
    BY <1>0, <2>1, <2>2, <2>3, <2>4 DEF ConnectionsKnown
  <2>6. /\ eraser[t].pc = "lock" /\ eraser'[t].kf = k /\ eraser'[t].pc = "assign"
        /\ \A o \in Erasers \ {t} : eraser'[o] = eraser[o]
    BY <1>3 DEF LockErased, EraserShape
  <2>7. ErasuresKnown'
    BY <1>0, <2>1, <2>2, <2>6, EraserKnown DEF ErasuresKnown
  <2>. QED  BY <1>0, <2>2, <2>5, <2>7, SearchesKept DEF KnownInv
<1>4. CASE AdoptChild(t)
  <2>1. UNCHANGED <<mspKeyFrames, covVars, KFcounter, vPairs, vpLocalKeyFrames, mbBad, lmPc, mpCurrentKeyFrame, created,
                    mbToBeErased>>
    BY <1>4 DEF AdoptChild, mapVars, flagVars, lmVars
  <2>2. Known' = Known /\ Known' \subseteq 1 .. created'
    BY <2>1, KnownSame
  <2>3. /\ eraser[t].pc = "assign" /\ eraser'[t].kf = k /\ eraser'[t].pc = "assign"
        /\ \A o \in Erasers \ {t} : eraser'[o] = eraser[o]
    BY <1>4 DEF AdoptChild, EraserShape
  <2>4. ErasuresKnown'
    BY <1>0, <2>1, <2>2, <2>3, EraserKnown DEF ErasuresKnown
  <2>. QED  BY <1>0, <2>1, <2>2, <2>4, ConnectionsKept, SearchesKept DEF KnownInv, ConnectionsKnown
<1>5. CASE FinishErase(t)
  <2>1. /\ UNCHANGED <<mspKeyFrames, covVars, KFcounter, vPairs, vpLocalKeyFrames, lmPc, mpCurrentKeyFrame, created,
                       mbToBeErased>>
        /\ mbBad' = mbBad \cup {k} /\ EraseGoto(t, "assign", "eraseMap")
    BY <1>5 DEF FinishErase, mapVars, flagVars, lmVars
  <2>2. k \in Known /\ eraser[t].pc = "assign" /\ eraser'[t].kf = k /\ \A o \in Erasers \ {t} : eraser'[o] = eraser[o]
    BY <1>a, <2>1, GotoMoves
  <2>3. Known' = Known
    BY <2>1, <2>2 DEF Known
  <2>4. ErasuresKnown'
    BY <1>0, <2>1, <2>2, <2>3, EraserKnown DEF ErasuresKnown
  <2>. QED  BY <1>0, <2>1, <2>3, <2>4, ConnectionsKept, SearchesKept DEF KnownInv, ConnectionsKnown
<1>6. CASE EraseFromMap(t)
  <2>1. /\ UNCHANGED <<covVars, KFcounter, vPairs, vpLocalKeyFrames, mbBad, lmPc, mpCurrentKeyFrame, created,
                       mbToBeErased>>
        /\ mspKeyFrames' = mspKeyFrames \ {k} /\ EraseGoto(t, "eraseMap", "eraseDB")
    BY <1>6 DEF EraseFromMap, mapVars, flagVars, lmVars
  <2>2. eraser[t].pc = "eraseMap" /\ eraser'[t].kf = k /\ \A o \in Erasers \ {t} : eraser'[o] = eraser[o]
    BY <2>1, GotoMoves
  <2>3. k \in mbBad
    BY <1>0, <2>2 DEF ErasuresKnown
  <2>4. Known' = Known
    BY <2>1, <2>3 DEF Known
  <2>5. ErasuresKnown'
    BY <1>0, <2>1, <2>2, <2>3, <2>4, EraserKnown DEF ErasuresKnown
  <2>. QED  BY <1>0, <2>1, <2>4, <2>5, ConnectionsKept, SearchesKept DEF KnownInv, ConnectionsKnown
<1>. QED  BY <1>1, <1>2, <1>3, <1>4, <1>5, <1>6 DEF EraseStep

LEMMA KnownEraseFromDatabase ==
  ASSUME TypeInv, EraserShape, KnownInv, NEW t \in Erasers, EraseFromDatabase(t)
  PROVE  KnownInv'
<1>0. ConnectionsKnown /\ ErasuresKnown /\ SearchesKnown
  BY DEF KnownInv
<1>1. /\ UNCHANGED <<mspKeyFrames, covVars, KFcounter, vPairs, vpLocalKeyFrames, mbBad, lmPc, mpCurrentKeyFrame, created,
                     mbToBeErased, mlpLoopKeyFrameQueue, mpCurrentKF, candidate>>
      /\ eraser' = [eraser EXCEPT ![t] = Idle]
      /\ keyFrameDB' = [keyFrameDB EXCEPT ![eraser[t].kf] = IF @ = 0 THEN 0 ELSE @ - 1]
  BY DEF EraseFromDatabase, mapVars, flagVars, lmVars
<1>2. Known' = Known /\ Known' \subseteq 1 .. created'
  BY <1>1, KnownSame
<1>3. /\ eraser'[t].pc = "none" /\ \A o \in Erasers \ {t} : eraser'[o] = eraser[o]
  BY <1>1 DEF EraserShape, Idle
<1>4. ErasuresKnown'
  BY <1>0, <1>1, <1>2, <1>3, EraserKnown DEF ErasuresKnown
<1>5. indexed' \subseteq indexed
  <2>1. keyFrameDB \in [KeyFrames -> Nat]
    BY DEF TypeInv, LcInv, LcTypeOK
  <2>2. \A k \in KeyFrames : keyFrameDB'[k] > 0 => keyFrameDB[k] > 0
    BY <1>1, <2>1
  <2>. QED  BY <2>2 DEF indexed
<1>6. SearchesKnown'
  BY <1>0, <1>1, <1>2, <1>5 DEF SearchesKnown
<1>. QED  BY <1>0, <1>1, <1>2, <1>4, <1>6, ConnectionsKept DEF KnownInv, ConnectionsKnown
-----------------------------------------------------------------------------
LEMMA MatchesKnown ==
  ASSUME ConnectionsKnown, SearchesKnown, GraphTypeOK, NEW kind, NEW m \in Matches(kind)
  PROVE  m \in Known
BY DEF Matches, ConnectionsKnown, SearchesKnown, indexed

LEMMA IndexedKnown ==
  ASSUME TypeInv, SearchesKnown, lcPc # "check", AddToDatabase \/ UNCHANGED keyFrameDB
  PROVE  indexed' \subseteq Known /\ mpCurrentKF \in Known /\ mpCurrentKF \in KeyFrames
<1>1. /\ keyFrameDB \in [KeyFrames -> Nat] /\ mpCurrentKF \in KeyFrames /\ mpCurrentKF # Null
      /\ indexed \subseteq Known /\ mpCurrentKF \in Known \cup {Null}
  BY NullIsNoKeyFrame DEF TypeInv, LcInv, LcTypeOK, LcPlaced, SearchesKnown
<1>2. \A k \in KeyFrames \ {mpCurrentKF} : keyFrameDB'[k] = keyFrameDB[k]
  BY <1>1 DEF AddToDatabase
<1>. QED  BY <1>1, <1>2 DEF indexed

LEMMA KnownDetection ==
  ASSUME TypeInv, EraserShape, VerifiedInv, KnownInv, DetectionStep
  PROVE  KnownInv'
<1>0. /\ GraphTypeOK /\ ConnectionsKnown /\ ErasuresKnown /\ SearchesKnown
  BY DEF TypeInv, GraphInv, KnownInv
<1>1. /\ UNCHANGED <<mspKeyFrames, covVars, KFcounter, vPairs, vpLocalKeyFrames, mbBad, lmPc, mpCurrentKeyFrame,
                     created, mbToBeErased>>
      /\ CallSetErase \/ UNCHANGED eraser
  BY DEF DetectionStep, PopKeyFrame, SkipSmallMap, SearchFromLast, SkipBoW, SearchBoW, CallSetErase,
         graphVars, mapVars, flagVars, lmVars
<1>2. Known' = Known /\ Known' \subseteq 1 .. created'
  BY <1>1, KnownSame
<1>3. ConnectionsKnown'
  BY <1>0, <1>1, <1>2, ConnectionsKept DEF ConnectionsKnown
<1>4. ASSUME ErasuresKnown', SearchesKnown'  PROVE KnownInv'
  BY <1>2, <1>3, <1>4 DEF KnownInv
<1>5. ASSUME UNCHANGED eraser  PROVE ErasuresKnown'
  BY <1>0, <1>1, <1>2, <1>5, ErasuresKept
<1>6. CASE PopKeyFrame
  <2>1. /\ mlpLoopKeyFrameQueue # <<>> /\ mlpLoopKeyFrameQueue \in Seq(KeyFrames)
        /\ mpCurrentKF' = Head(mlpLoopKeyFrameQueue) /\ mlpLoopKeyFrameQueue' = Tail(mlpLoopKeyFrameQueue)
        /\ UNCHANGED <<candidate, keyFrameDB, eraser>>
    BY <1>6 DEF PopKeyFrame, TypeInv, LcInv, LcTypeOK
  <2>2. \A i \in 1 .. Len(mlpLoopKeyFrameQueue) : mlpLoopKeyFrameQueue[i] \in Known
    BY <1>0 DEF SearchesKnown
  <2>3. mpCurrentKF' \in Known /\ \A i \in 1 .. Len(mlpLoopKeyFrameQueue') : mlpLoopKeyFrameQueue'[i] \in Known
    <3>. DEFINE q == mlpLoopKeyFrameQueue
    <3>1. Head(q) = q[1] /\ 1 \in 1 .. Len(q)
      BY <2>1
    <3>2. \A i \in 1 .. Len(Tail(q)) : i + 1 \in 1 .. Len(q) /\ Tail(q)[i] = q[i + 1]
      BY <2>1
    <3>. QED  BY <2>1, <2>2, <3>1, <3>2
  <2>4. SearchesKnown'
    BY <1>0, <1>2, <2>1, <2>3 DEF SearchesKnown, indexed
  <2>. QED  BY <1>4, <1>5, <2>1, <2>4
<1>7. CASE SkipSmallMap \/ SkipBoW
  <2>1. /\ UNCHANGED <<eraser, mlpLoopKeyFrameQueue, mpCurrentKF, candidate>>
        /\ AddToDatabase \/ UNCHANGED keyFrameDB
        /\ lcPc # "check"
    BY <1>7 DEF SkipSmallMap, SkipBoW, graphVars, LcGoto
  <2>2. indexed' \subseteq Known
    BY <1>0, <2>1, IndexedKnown
  <2>3. SearchesKnown'
    BY <1>0, <1>2, <2>1, <2>2 DEF SearchesKnown
  <2>. QED  BY <1>4, <1>5, <2>1, <2>3
<1>8. ASSUME NEW kind \in {"loop", "merge"}, SearchFromLast(kind)  PROVE KnownInv'
  <2>1. UNCHANGED <<eraser, mlpLoopKeyFrameQueue, mpCurrentKF, keyFrameDB>>
    BY <1>8 DEF SearchFromLast, graphVars
  <2>2. \A x \in Kinds : candidate'[x].matched = candidate[x].matched
    <3>0. candidate \in [Kinds -> CandidateType]
      BY DEF TypeInv, LcInv, LcTypeOK
    <3>1. CASE kind \in Kinds /\ FoundAgain(kind)
      BY <3>0, <3>1 DEF FoundAgain, CandidateType
    <3>2. CASE kind \in Kinds /\ NotFound(kind)
      <4>. DEFINE c == candidate[kind]
                  d == IF kind = "merge" THEN FALSE ELSE c.detected
                  given == [c EXCEPT !.coincidences = 0, !.notFound = 0, !.detected = d]
                  missed == [c EXCEPT !.notFound = 1, !.detected = d]
      <4>1. candidate' \in {[candidate EXCEPT ![kind] = given], [candidate EXCEPT ![kind] = missed]}
        BY <3>2 DEF NotFound
      <4>2. given.matched = c.matched /\ missed.matched = c.matched
        <5>1. c \in CandidateType
          BY <3>0, <3>2
        <5>. HIDE DEF c, d
        <5>. QED  BY <5>1 DEF CandidateType
      <4>. HIDE DEF given, missed
      <4>. QED  BY <3>0, <4>1, <4>2
    <3>. QED  BY <1>8, <3>1, <3>2 DEF SearchFromLast
  <2>3. SearchesKnown'
    BY <1>0, <1>2, <2>1, <2>2 DEF SearchesKnown, indexed
  <2>. QED  BY <1>4, <1>5, <2>1, <2>3
<1>9. CASE SearchBoW
  <2>1. PICK outcome \in [Kinds -> UNION {BoWOutcomes(kind) : kind \in Kinds}] :
          /\ \A kind \in Kinds : outcome[kind] \in BoWOutcomes(kind)
          /\ candidate' = outcome
    BY <1>9 DEF SearchBoW
  <2>2. /\ UNCHANGED <<eraser, mlpLoopKeyFrameQueue, mpCurrentKF>> /\ lcPc # "check"
        /\ AddToDatabase
    BY <1>9 DEF SearchBoW
  <2>3. indexed' \subseteq Known
    BY <1>0, <2>2, IndexedKnown
  <2>4. ASSUME NEW kind \in Kinds  PROVE outcome[kind].matched \in Known \cup {Null}
    <3>0. candidate[kind].matched \in Known \cup {Null} /\ candidate[kind] \in CandidateType
      BY <1>0 DEF SearchesKnown, TypeInv, LcInv, LcTypeOK
    <3>1. CASE outcome[kind] = candidate[kind]
      BY <3>0, <3>1
    <3>2. ASSUME NEW m \in Matches(kind), NEW n \in BoWMatches, outcome[kind] = NewCandidate(kind, m, n)
          PROVE  outcome[kind].matched \in Known
      <4>1. NewCandidate(kind, m, n).matched = m
        BY <3>0 DEF NewCandidate, CandidateType
      <4>. QED  BY <1>0, <3>2, <4>1, MatchesKnown
    <3>3. outcome[kind] \in BoWOutcomes(kind)
      BY <2>1
    <3>. QED  BY <3>1, <3>2, <3>3 DEF BoWOutcomes
  <2>5. SearchesKnown'
    BY <1>0, <1>2, <2>1, <2>2, <2>3, <2>4 DEF SearchesKnown
  <2>. QED  BY <1>4, <1>5, <2>2, <2>5
<1>10. CASE CallSetErase
  <2>. DEFINE k == Head(toSetErase)
  <2>1. UNCHANGED <<mlpLoopKeyFrameQueue, mpCurrentKF, candidate, keyFrameDB>>
    BY <1>10 DEF CallSetErase
  <2>2. SearchesKnown'
    BY <1>0, <1>2, <2>1 DEF SearchesKnown, indexed
  <2>3. /\ eraser'["LM"] = eraser["LM"]
        /\ \/ eraser'["LC"] = eraser["LC"]
           \/ k \in mbToBeErased /\ eraser'["LC"].kf = k /\ eraser'["LC"].pc = "test"
    BY <1>10 DEF CallSetErase, SetErase, EraserShape, Idle, Erasers
  <2>4. ErasuresKnown'
    BY <1>0, <1>1, <1>2, <2>3 DEF ErasuresKnown, Erasers
  <2>. QED  BY <1>4, <2>2, <2>4
<1>. QED  BY <1>6, <1>7, <1>8, <1>9, <1>10 DEF DetectionStep

LEMMA ForgetKnown ==
  ASSUME VerifiedInv, SearchesKnown, NEW K, Forget(K), Known' = Known,
         UNCHANGED <<mlpLoopKeyFrameQueue, mpCurrentKF, keyFrameDB>>
  PROVE  SearchesKnown'
<1>1. \A kind \in Kinds : candidate'[kind].matched = candidate[kind].matched
  BY DEF Forget, VerifiedInv, CandidateShape, Fields
<1>. QED  BY <1>1 DEF SearchesKnown, indexed

LEMMA WeldedKnown ==
  ASSUME TypeInv, VerifiedInv, KnownInv, lcPc = "weld"
  PROVE  Welded \in Known /\ WeldedTo \in Known /\ Welded \in KeyFrames /\ WeldedTo \in KeyFrames
<1>1. "merge" \in Kinds /\ candidate["merge"].detected
  BY DEF VerifiedInv, CarriedOut, DetectedKind
<1>2. candidate["merge"].matched \in KeyFrames /\ mpCurrentKF \in KeyFrames
  BY <1>1 DEF TypeInv, LcInv, LcPlaced, Candidates
<1>3. candidate["merge"].matched \in Known /\ mpCurrentKF \in Known
  BY <1>1, <1>2, NullIsNoKeyFrame DEF KnownInv, SearchesKnown
<1>. QED  BY <1>2, <1>3 DEF Welded, WeldedTo

LEMMA KnownOperation ==
  ASSUME TypeInv, VerifiedInv, KnownInv, OperationStep
  PROVE  KnownInv'
<1>0. /\ GraphTypeOK /\ ConnectionsKnown /\ ErasuresKnown /\ SearchesKnown
  BY DEF TypeInv, GraphInv, KnownInv
<1>1. UNCHANGED <<mspKeyFrames, KFcounter, vPairs, vpLocalKeyFrames, mbBad, lmPc, mpCurrentKeyFrame,
                  created, mbToBeErased, eraser, mlpLoopKeyFrameQueue, mpCurrentKF, keyFrameDB>>
  BY DEF OperationStep, RefuseMerge, BeginMerge, WeldMaps, BeginLoop, CloseLoop, AddLoopEdges,
         graphVars, mapVars, flagVars, lmVars
<1>2. Known' = Known /\ Known' \subseteq 1 .. created'
  BY <1>1, KnownSame
<1>3. ErasuresKnown'
  BY <1>0, <1>1, <1>2, ErasuresKept
<1>4. SearchesKnown'
  <2>1. CASE \E K : Forget(K)
    BY <1>0, <1>1, <1>2, <2>1, ForgetKnown
  <2>2. CASE UNCHANGED candidate
    BY <1>0, <1>1, <1>2, <2>2 DEF SearchesKnown, indexed
  <2>3. (\E K : Forget(K)) \/ UNCHANGED candidate
    BY DEF OperationStep, RefuseMerge, BeginMerge, WeldMaps, BeginLoop, CloseLoop
  <2>. QED  BY <2>1, <2>2, <2>3
<1>5. /\ \A j, m \in KeyFrames : mConnectedKeyFrameWeights'[j][m] > 0 => m \in Known
      /\ \A j \in KeyFrames : mvpOrderedConnectedKeyFrames'[j] \subseteq Known
  <2>1. CASE WeldMaps
    <3>. DEFINE others == (LiveOf(mpMap[Welded]) \cup LiveOf(mpMap[WeldedTo])) \ {WeldedTo}
    <3>1. \/ UNCHANGED covVars
          \/ \E c \in CountersAmong(WeldedTo, others) : \E selected \in Selections(c) : Recount(WeldedTo, c, selected)
      BY <2>1, ReconnectMeans DEF WeldMaps
    <3>2. others \subseteq Known /\ WeldedTo \in Known /\ WeldedTo \in KeyFrames
      BY <2>1, WeldedKnown DEF LiveOf, Known, WeldMaps
    <3>3. CASE UNCHANGED covVars
      BY <1>0, <3>3 DEF ConnectionsKnown, covVars
    <3>. HIDE DEF others
    <3>. QED  BY <1>0, <3>1, <3>2, <3>3, RecountKnown
  <2>2. CASE CloseLoop
    <3>2. mpCurrentKF \in KeyFrames /\ mpCurrentKF \in Known
      BY <1>0, <2>2, NullIsNoKeyFrame DEF CloseLoop, LcGoto, TypeInv, LcInv, LcPlaced, SearchesKnown
    <3>5. ASSUME NEW k \in ({mpCurrentKF} \cup mvpOrderedConnectedKeyFrames[mpCurrentKF]) \ mbBad,
                 NEW others, others = LiveOf(mpMap[k]) \ {k},
                 NEW c \in CountersAmong(k, others), NEW selected \in Selections(c), Recount(k, c, selected)
          PROVE  /\ \A j, m \in KeyFrames : mConnectedKeyFrameWeights'[j][m] > 0 => m \in Known
                 /\ \A j \in KeyFrames : mvpOrderedConnectedKeyFrames'[j] \subseteq Known
      <4>1. k \in KeyFrames /\ k \in Known
        BY <1>0, <3>2, <3>5 DEF GraphTypeOK, ConnectionsKnown
      <4>2. others \subseteq Known
        BY <3>5 DEF LiveOf, Known
      <4>. QED  BY <1>0, <3>5, <4>1, <4>2, RecountKnown
    <3>6. CASE UNCHANGED covVars
      BY <1>0, <3>6 DEF ConnectionsKnown, covVars
    <3>. QED  BY <2>2, <3>5, <3>6, LoopRecounts
  <2>3. CASE UNCHANGED covVars
    BY <1>0, <2>3 DEF ConnectionsKnown, covVars
  <2>4. WeldMaps \/ CloseLoop \/ UNCHANGED covVars
    BY DEF OperationStep, RefuseMerge, BeginMerge, BeginLoop, graphVars
  <2>. QED  BY <2>1, <2>2, <2>3, <2>4
<1>6. ConnectionsKnown'
  BY <1>0, <1>1, <1>2, <1>5 DEF ConnectionsKnown
<1>. QED  BY <1>2, <1>3, <1>4, <1>6 DEF KnownInv

LEMMA KnownInit == Init => KnownInv
<1>. SUFFICES ASSUME Init  PROVE KnownInv
  OBVIOUS
<1>1. Known = {}
  BY DEF Init, GraphInit, Known
<1>2. ConnectionsKnown /\ ErasuresKnown
  BY <1>1 DEF Init, GraphInit, ConnectionsKnown, ErasuresKnown, NoWeights, Idle
<1>3. SearchesKnown
  BY <1>1 DEF Init, SearchesKnown, NoCandidate, indexed
<1>. QED  BY <1>1, <1>2, <1>3 DEF KnownInv

LEMMA KnownNext == TypeInv /\ EdgeInv /\ VerifiedInv /\ KnownInv /\ [Next]_vars => KnownInv'
<1>. SUFFICES ASSUME TypeInv, EdgeInv, VerifiedInv, KnownInv, [Next]_vars  PROVE KnownInv'
  OBVIOUS
<1>0. EraserShape
  BY DEF EdgeInv
<1>1. CASE LocalMappingStep
  BY <1>1, KnownLocalMapping
<1>2. CASE SetBadFlagStep
  BY <1>0, <1>2, KnownEraseStep, KnownEraseFromDatabase DEF SetBadFlagStep
<1>3. CASE DetectionStep
  BY <1>0, <1>3, KnownDetection
<1>4. CASE OperationStep
  BY <1>4, KnownOperation
<1>5. CASE UNCHANGED vars
  <2>1. UNCHANGED <<mspKeyFrames, covVars, KFcounter, vPairs, vpLocalKeyFrames, mbBad, lmPc, mpCurrentKeyFrame,
                    created, mbToBeErased, eraser, lcVars>>
    BY <1>5 DEF vars, graphVars, mapVars, flagVars, lmVars
  <2>2. Known' = Known /\ Known' \subseteq 1 .. created'
    BY <2>1, KnownSame
  <2>. QED  BY <2>1, <2>2, ConnectionsKept, ErasuresKept, SearchesKept DEF KnownInv, ConnectionsKnown
<1>. QED  BY <1>1, <1>2, <1>3, <1>4, <1>5 DEF Next
-----------------------------------------------------------------------------
(* Steps that leave the tree alone.                                           *)
LEMMA TreeKept ==
  ASSUME Tree, UNCHANGED <<mspKeyFrames, mbBad, mpMap, mnInitKFid, mpParent, mspChildrens>>
  PROVE  Tree' /\ Live' = Live
BY DEF Tree, Rooted, Hanging, Agree, Live, First, Closed

LEMMA ErasureKept ==
  ASSUME ErasureInTree, UNCHANGED <<mspKeyFrames, mbBad, mpMap, mnInitKFid, mpParent, eraser>>
  PROVE  ErasureInTree'
BY DEF ErasureInTree, Live, First

LEMMA NewcomerKept ==
  ASSUME NewcomerFits, UNCHANGED <<mspKeyFrames, mbBad, mpMap, mnInitKFid, mpParent, mbFirstConnection, lmPc,
                                   mpCurrentKeyFrame, vPairs, created>>
  PROVE  NewcomerFits'
BY DEF NewcomerFits, Live, First

\* While local mapping does not cull, nobody erases.
LEMMA NothingInErasure ==
  ASSUME EdgeInv, ErasureInTree, lmPc # "handOff", eraser' = eraser
  PROVE  ErasureInTree'
<1>1. eraser["LM"].pc = "none" /\ eraser["LC"].pc = "none"
  BY DEF EdgeInv, ErasesWhenCulling, ErasureInTree
<1>. QED  BY <1>1 DEF ErasureInTree

-----------------------------------------------------------------------------
LEMMA TreeNewMap ==
  ASSUME TypeInv, EdgeInv, KnownInv, Tree, ErasureInTree, NewcomerFits, NewMapKeyFrame
  PROVE  Tree' /\ ErasureInTree' /\ NewcomerFits'
<1>n. PICK n : n = created + 1
  OBVIOUS
<1>0. GraphTypeOK /\ created \in Nat /\ Known \subseteq 1 .. created
  BY DEF TypeInv, GraphInv, GraphTypeOK, KnownInv
<1>1. /\ lmPc = "idle" /\ lmPc' = "cull" /\ created' = n /\ n \in KeyFrames
      /\ mpMap' = [mpMap EXCEPT ![n] = currentMap']
      /\ mnInitKFid' = [mnInitKFid EXCEPT ![currentMap'] = n]
      /\ mspKeyFrames' = mspKeyFrames \cup {n}
      /\ currentMap' \in Maps /\ mnInitKFid[currentMap'] = Null
      /\ UNCHANGED <<mpParent, mspChildrens, mbFirstConnection, mbBad, eraser>>
  <2>1. PICK m \in Maps : /\ \A other \in Maps : mnInitKFid[other] = Null <=> other >= m
                          /\ currentMap' = m
    BY DEF NewMapKeyFrame
  <2>2. m >= m
    BY <2>1 DEF Maps
  <2>. QED  BY <1>n, <1>0, <2>1, <2>2, NextKeyFrame DEF NewMapKeyFrame, LmGoto, treeVars
<1>2. /\ n \notin mspKeyFrames /\ n \notin mbBad /\ n \notin Live /\ mpParent[n] = Null
      /\ Live' = Live \cup {n} /\ Live \subseteq KeyFrames /\ Null \notin Live
  <2>1. n \notin 1 .. created /\ n > created
    BY <1>n, <1>0
  <2>2. n \notin Known
    BY <1>0, <2>1
  <2>. QED  BY <1>0, <1>1, <2>1, <2>2, LiveIsClosed DEF Known, Live, NewcomerFits
<1>3. \A k \in Live : mpMap'[k] = mpMap[k] /\ First(k)' = First(k)
  <2>. SUFFICES ASSUME NEW k \in Live  PROVE mpMap'[k] = mpMap[k] /\ First(k)' = First(k)
    OBVIOUS
  <2>1. k # n /\ mpMap'[k] = mpMap[k] /\ mpMap[k] \in Maps
    BY <1>0, <1>1, <1>2 DEF GraphTypeOK
  <2>2. First(k) # Null
    BY <1>2 DEF Tree, Rooted
  <2>3. mpMap[k] # currentMap'
    BY <1>1, <2>2 DEF First
  <2>. QED  BY <1>0, <1>1, <2>1, <2>3 DEF First, GraphTypeOK
<1>4. First(n)' = n
  BY <1>0, <1>1 DEF First, GraphTypeOK
<1>5. Rooted'
  BY <1>1, <1>2, <1>3, <1>4 DEF Tree, Rooted
<1>6. Hanging'
  <2>. SUFFICES ASSUME NEW U \in SUBSET Live', Closed(U)', NEW k \in U  PROVE First(k)' \in U
    BY DEF Hanging
  <2>1. Closed(U \ {n})
    BY <1>0, <1>1, <1>2, LiveIsClosed DEF Closed
  <2>. QED  BY <1>2, <1>3, <1>4, <2>1 DEF Tree, Hanging
<1>7. Agree'
  BY <1>1, <1>2, NullIsNoKeyFrame DEF Tree, Agree
<1>8. NewcomerFits'
  <2>1. \A f \in KeyFrames : f > n => f > created
    BY <1>n, <1>0 DEF KeyFrames
  <2>2. \A f \in Live' : f \in mbFirstConnection => f = First(f)'
    BY <1>2, <1>3, <1>4 DEF NewcomerFits
  <2>. QED  BY <1>1, <2>1, <2>2 DEF NewcomerFits
<1>. QED  BY <1>1, <1>5, <1>6, <1>7, <1>8, NothingInErasure DEF Tree

LEMMA TreeTake ==
  ASSUME TypeInv, EdgeInv, KnownInv, Tree, ErasureInTree, NewcomerFits, TakeKeyFrame
  PROVE  Tree' /\ ErasureInTree' /\ NewcomerFits'
<1>. DEFINE n == created + 1
<1>0. GraphTypeOK /\ created \in Nat /\ Known \subseteq 1 .. created
  BY DEF TypeInv, GraphInv, GraphTypeOK, KnownInv
<1>1. /\ lmPc = "idle" /\ lmPc' = "count" /\ created' = n /\ n \in KeyFrames /\ mpCurrentKeyFrame' = n
      /\ mpMap' = [mpMap EXCEPT ![n] = currentMap]
      /\ UNCHANGED <<mnInitKFid, mspKeyFrames, mpParent, mspChildrens, mbFirstConnection, mbBad, eraser>>
  BY <1>0, NextKeyFrame DEF TakeKeyFrame, LmGoto, treeVars
<1>2. n \notin mspKeyFrames /\ n \notin mbBad /\ n > created /\ Live \subseteq KeyFrames
  <2>1. n \notin 1 .. created /\ n > created
    BY <1>0
  <2>. QED  BY <1>0, <2>1, LiveIsClosed DEF Known
<1>3. Live' = Live /\ \A k \in Live : mpMap'[k] = mpMap[k] /\ First(k)' = First(k)
  BY <1>0, <1>1, <1>2 DEF Live, First, GraphTypeOK
<1>4. Tree'
  <2>1. Rooted'
    BY <1>1, <1>3 DEF Tree, Rooted
  <2>2. Hanging'
    BY <1>1, <1>3 DEF Tree, Hanging, Closed
  <2>3. Agree'
    BY <1>1, <1>3 DEF Tree, Agree
  <2>. QED  BY <2>1, <2>2, <2>3 DEF Tree
<1>5. NewcomerFits'
  <2>1. \A f \in KeyFrames : f > n => f > created
    BY <1>0 DEF KeyFrames
  <2>2. \A f \in Live' : f \in mbFirstConnection' => f = First(f)'
    BY <1>1, <1>3 DEF NewcomerFits
  <2>. QED  BY <1>1, <1>2, <2>1, <2>2 DEF NewcomerFits
<1>. QED  BY <1>1, <1>4, <1>5, NothingInErasure

\* A new leaf.
LEMMA TreeLinked ==
  ASSUME TypeInv, EdgeInv, KnownInv, Tree, ErasureInTree, NewcomerFits, LinkParent, ~EntersAlone
  PROVE  Tree' /\ ErasureInTree' /\ NewcomerFits'
<1>. DEFINE k == mpCurrentKeyFrame
<1>0. GraphTypeOK /\ GraphPlaced /\ Known \subseteq 1 .. created
  BY DEF TypeInv, GraphInv, KnownInv
<1>1. /\ lmPc = "link" /\ lmPc' \in {"count", "cull"} /\ k \in KeyFrames /\ k \in Known
      /\ UNCHANGED <<mpMap, mnInitKFid, mbBad, eraser, mpCurrentKeyFrame, created>>
      /\ mspKeyFrames' = mspKeyFrames \cup {k}
  BY <1>0 DEF LinkParent, GraphPlaced, Known
<1>2. /\ k \in mspKeyFrames <=> k \notin mbFirstConnection
      /\ k \notin mspKeyFrames => k \notin mbBad
      /\ \A p \in vPairs : p \in Live /\ p # k /\ mpMap[p] = mpMap[k]
      /\ \A f \in KeyFrames : f > created => f \in mbFirstConnection /\ mpParent[f] = Null
      /\ \A f \in Live : f \in mbFirstConnection => f = First(f)
  BY <1>1 DEF NewcomerFits
<1>3. ErasureInTree'
  BY <1>1, NothingInErasure
<1>4. CASE k \notin mbFirstConnection /\ UNCHANGED treeVars
  <2>1. UNCHANGED <<mspKeyFrames, mbBad, mpMap, mnInitKFid, mpParent, mspChildrens, mbFirstConnection>>
    BY <1>1, <1>2, <1>4 DEF treeVars
  <2>2. NewcomerFits'
    <3>1. Live' = Live /\ \A f : First(f)' = First(f)
      BY <2>1 DEF Live, First
    <3>. QED  BY <1>1, <1>2, <2>1, <3>1 DEF NewcomerFits
  <2>. QED  BY <1>3, <2>1, <2>2, TreeKept
<1>5. ASSUME NEW p \in Heaviest(KFcounter) \cap vPairs, k \in mbFirstConnection,
             mpParent' = [mpParent EXCEPT ![k] = p],
             mspChildrens' = [mspChildrens EXCEPT ![p] = @ \cup {k}],
             mbFirstConnection' = mbFirstConnection \ {k}
      PROVE  Tree' /\ NewcomerFits'
  <2>1. /\ p \in Live /\ p # k /\ mpMap[p] = mpMap[k] /\ p \in KeyFrames
        /\ k \notin mspKeyFrames /\ k \notin mbBad /\ k \notin Live /\ Live' = Live \cup {k}
        /\ Live \subseteq KeyFrames /\ Null \notin Live
    BY <1>0, <1>1, <1>2, <1>5, LiveIsClosed DEF Live
  <2>2. /\ \A x \in KeyFrames \ {k} : mpParent'[x] = mpParent[x]
        /\ mpParent'[k] = p
    BY <1>0, <1>1, <1>5 DEF GraphTypeOK
  <2>3. \A x : First(x)' = First(x)
    BY <1>1 DEF First
  <2>4. First(k) = First(p)
    BY <2>1 DEF First
  <2>5. Rooted'
    BY <1>1, <2>1, <2>2, <2>3, <2>4 DEF Tree, Rooted
  <2>6. Hanging'
    <3>. SUFFICES ASSUME NEW U \in SUBSET Live', Closed(U)', NEW u \in U  PROVE First(u)' \in U
      BY DEF Hanging
    <3>1. \A x \in U \ {k} : mpParent[x] = Null \/ mpParent[x] \in U \ {k}
      BY <1>0, <2>1, <2>2, LiveIsClosed DEF Closed
    <3>2. Closed(U \ {k})
      BY <3>1 DEF Closed
    <3>3. \A x \in U \ {k} : First(x) \in U
      BY <2>1, <3>2 DEF Tree, Hanging
    <3>4. u = k => p \in U \ {k}
      BY <2>1, <2>2 DEF Closed
    <3>. QED  BY <2>3, <2>4, <3>3, <3>4
  <2>7. Agree'
    <3>1. \A j \in KeyFrames : /\ mspChildrens'[j] = IF j = p THEN mspChildrens[j] \cup {k} ELSE mspChildrens[j]
                               /\ k \notin mspChildrens[j]
      <4>1. \A j \in KeyFrames : k \notin mspChildrens[j]
        BY <2>1 DEF Tree, Agree
      <4>2. mspChildrens \in [KeyFrames -> SUBSET KeyFrames]
        BY <1>0 DEF GraphTypeOK
      <4>. QED  BY <1>5, <2>1, <4>1, <4>2
    <3>2. \A j \in KeyFrames \ mbBad, c \in Live : c \in mspChildrens'[j] <=> mpParent'[c] = j
      <4>. TAKE j \in KeyFrames \ mbBad, c \in Live
      <4>1. c # k /\ mpParent'[c] = mpParent[c] /\ (c \in mspChildrens[j] <=> mpParent[c] = j)
        BY <2>1, <2>2 DEF Tree, Agree
      <4>. QED  BY <3>1, <4>1
    <3>3. \A j \in KeyFrames : k \in mspChildrens'[j] <=> mpParent'[k] = j
      BY <2>2, <3>1
    <3>4. \A j \in KeyFrames : mspChildrens'[j] \subseteq mspKeyFrames' \cup mbBad'
      <4>1. \A j \in KeyFrames : mspChildrens[j] \subseteq mspKeyFrames \cup mbBad
        BY DEF Tree, Agree
      <4>2. \A j \in KeyFrames : mspChildrens'[j] \subseteq mspChildrens[j] \cup {k}
        BY <3>1
      <4>3. mspKeyFrames' \cup mbBad' = (mspKeyFrames \cup mbBad) \cup {k}
        BY <1>1
      <4>. HIDE DEF k
      <4>. QED  BY <4>1, <4>2, <4>3
    <3>. QED  BY <1>1, <2>1, <3>2, <3>3, <3>4 DEF Agree
  <2>8. NewcomerFits'
    <3>1. \A f \in KeyFrames : f > created => f # k
      BY <1>0, <1>1 DEF KeyFrames, GraphTypeOK
    <3>2. \A f \in Live' : f \in mbFirstConnection' => f = First(f)'
      BY <1>2, <1>5, <2>1, <2>3
    <3>. QED  BY <1>1, <1>2, <1>5, <2>2, <3>1, <3>2 DEF NewcomerFits
  <2>. QED  BY <2>5, <2>6, <2>7, <2>8 DEF Tree
<1>6. \/ k \notin mbFirstConnection /\ UNCHANGED treeVars
      \/ \E p \in Heaviest(KFcounter) \cap vPairs :
           /\ k \in mbFirstConnection
           /\ mpParent' = [mpParent EXCEPT ![k] = p]
           /\ mspChildrens' = [mspChildrens EXCEPT ![p] = @ \cup {k}]
           /\ mbFirstConnection' = mbFirstConnection \ {k}
  BY <1>1 DEF LinkParent, EntersAlone
<1>. QED  BY <1>3, <1>4, <1>5, <1>6

LEMMA TreeLocalMapping ==
  ASSUME TypeInv, EdgeInv, KnownInv, Tree, ErasureInTree, NewcomerFits, LocalMappingStep, wellJoined'
  PROVE  Tree' /\ ErasureInTree' /\ NewcomerFits'
<1>1. CASE NewMapKeyFrame \/ TakeKeyFrame
  BY <1>1, TreeNewMap, TreeTake
<1>5. ASSUME LinkParent, wellJoined' = (wellJoined /\ ~EntersAlone)
      PROVE  Tree' /\ ErasureInTree' /\ NewcomerFits'
  <2>1. ~EntersAlone
    BY <1>5 DEF EntersAlone
  <2>. QED  BY <1>5, <2>1, TreeLinked
<1>2. CASE CountConnections
  <2>. DEFINE k == mpCurrentKeyFrame
  <2>1. /\ lmPc = "count"
        /\ UNCHANGED <<mspKeyFrames, mbBad, mpMap, mnInitKFid, mpParent, mspChildrens, mbFirstConnection, eraser,
                       mpCurrentKeyFrame, created>>
    BY <1>2 DEF CountConnections, LmGoto, mapVars, treeVars
  <2>2. PICK c \in Counters(k) : \E selected \in Selections(c) : vPairs' = selected
    BY <1>2 DEF CountConnections
  <2>3. \A p \in vPairs' : p \in Live /\ p # k /\ mpMap[p] = mpMap[k]
    BY <2>2, CountersKnown DEF Counters, LiveOf, Live
  <2>4. NewcomerFits'
    <3>1. Live' = Live /\ \A f : First(f)' = First(f)
      BY <2>1 DEF Live, First
    <3>. QED  BY <2>1, <2>3, <3>1 DEF NewcomerFits
  <2>. QED  BY <2>1, <2>4, TreeKept, ErasureKept
<1>3. CASE StartCulling \/ HandOver
  <2>1. UNCHANGED <<mspKeyFrames, mbBad, mpMap, mnInitKFid, mpParent, mspChildrens, mbFirstConnection, eraser, created>>
    BY <1>3 DEF StartCulling, HandOver, EndIteration, mapVars, treeVars
  <2>2. lmPc' \in {"handOff", "idle"}
    BY <1>3 DEF StartCulling, HandOver, EndIteration, LmGoto
  <2>3. NewcomerFits'
    <3>1. Live' = Live /\ \A f : First(f)' = First(f)
      BY <2>1 DEF Live, First
    <3>. QED  BY <2>1, <2>2, <3>1 DEF NewcomerFits
  <2>. QED  BY <2>1, <2>3, TreeKept, ErasureKept
<1>4. CASE CullKeyFrame
  <2>1. /\ lmPc = "handOff"
        /\ UNCHANGED <<mspKeyFrames, mbBad, mpMap, mnInitKFid, mpParent, mspChildrens, mbFirstConnection, created,
                       lmPc, mpCurrentKeyFrame, vPairs>>
    BY <1>4 DEF CullKeyFrame, mapVars, treeVars
  <2>2. CASE UNCHANGED eraser
    BY <2>1, <2>2, TreeKept, ErasureKept, NewcomerKept
  <2>3. ASSUME NEW e \in vpLocalKeyFrames, e # mnInitKFid[mpMap[e]], e \notin mbBad,
               eraser' = [eraser EXCEPT !["LM"] = [Idle EXCEPT !.pc = "test", !.kf = e]]
        PROVE  ErasureInTree'
    <3>1. e \in Live /\ e # First(e)
      BY <2>1, <2>3 DEF KnownInv, ConnectionsKnown, Known, Live, First
    <3>2. eraser'["LM"].kf = e /\ eraser'["LM"].pc = "test" /\ eraser'["LC"] = eraser["LC"]
      BY <2>3 DEF EdgeInv, EraserShape, Erasers, Idle
    <3>3. Live' = Live /\ First(e)' = First(e)
      BY <2>1 DEF Live, First
    <3>. QED  BY <3>1, <3>2, <3>3 DEF ErasureInTree
  <2>. QED  BY <1>4, <2>1, <2>2, <2>3, TreeKept, NewcomerKept DEF CullKeyFrame
<1>. QED  BY <1>1, <1>2, <1>3, <1>4, <1>5 DEF LocalMappingStep, LmGraphStep
-----------------------------------------------------------------------------
(* The steps of an erasure by local mapping.                                  *)
\* A child of the keyframe that is erased hangs on the candidate p instead.
LEMMA TreeAdopt ==
  ASSUME TypeInv, EdgeInv, Tree, ErasureInTree, AdoptChild("LM")
  PROVE  Tree' /\ ErasureInTree'
<1>. DEFINE k == eraser["LM"].kf
            q == mpParent[k]
            K == eraser["LM"].candidates
<1>0. GraphTypeOK /\ GraphPlaced
  BY DEF TypeInv, GraphInv
<1>1. /\ eraser["LM"].pc = "assign"
      /\ UNCHANGED <<mspKeyFrames, mbBad, mpMap, mnInitKFid>>
  BY DEF AdoptChild, mapVars
<1>2. PICK a \in Adoptions("LM") :
        /\ mpParent' = [mpParent EXCEPT ![a[1]] = a[2]]
        /\ mspChildrens' = [mspChildrens EXCEPT ![a[2]] = @ \cup {a[1]}, ![k] = @ \ {a[1]}]
        /\ eraser' = [eraser EXCEPT !["LM"].candidates = @ \cup {a[1]}]
  BY DEF AdoptChild
<1>3. PICK c, p : /\ c \in mspChildrens[k] \ mbBad /\ p \in K
                  /\ mpParent' = [mpParent EXCEPT ![c] = p]
                  /\ mspChildrens' = [mspChildrens EXCEPT ![p] = @ \cup {c}, ![k] = @ \ {c}]
                  /\ eraser' = [eraser EXCEPT !["LM"].candidates = @ \cup {c}]
  BY <1>2 DEF Adoptions
<1>4. /\ k \in Live /\ k # First(k) /\ q \in Live /\ q # Null
      /\ \A x \in K : /\ x \in Live /\ x # k /\ mpMap[x] = mpMap[k]
                      /\ x = q \/ mpParent[x] \in K
      /\ Live \subseteq KeyFrames /\ Null \notin Live /\ k \in KeyFrames \ mbBad
  BY <1>1, <1>0, LiveIsClosed DEF ErasureInTree, Tree, Rooted, Live
<1>5. /\ p \in Live /\ p # k /\ mpMap[p] = mpMap[k]
      /\ c \in Live /\ mpParent[c] = k
  <2>1. c \in KeyFrames /\ c \in Live
    BY <1>0, <1>3, <1>4 DEF Tree, Agree, Live, GraphTypeOK
  <2>. QED  BY <1>3, <1>4, <2>1 DEF Tree, Agree
<1>6. /\ k \in Ancestors(k) /\ q \in Ancestors(q)
      /\ k \notin Ancestors(q) /\ k # Null
  BY <1>0, <1>4, AncestorsAreLive, Acyclic
<1>7. c # k /\ c # q /\ c \notin K
  <2>1. c # k
    BY <1>5, <1>6
  <2>2. c # q
    <3>. SUFFICES ASSUME c = q  PROVE FALSE
      OBVIOUS
    <3>1. Closed(Ancestors(q)) /\ q \in Ancestors(q)
      BY <1>0, <1>4, AncestorsAreLive
    <3>. QED  BY <1>5, <1>6, <3>1 DEF Closed
  <2>3. k \notin K
    BY <1>4
  <2>. QED  BY <1>4, <1>5, <2>1, <2>2, <2>3
<1>8. /\ \A x \in KeyFrames \ {c} : mpParent'[x] = mpParent[x]
      /\ mpParent'[c] = p
      /\ Live' = Live /\ \A x : First(x)' = First(x)
  BY <1>0, <1>1, <1>3, <1>4, <1>5 DEF GraphTypeOK, Live, First
<1>9. c # First(c) /\ mpMap[c] = mpMap[k] /\ \A x \in Live : First(x) # c
  BY <1>4, <1>5 DEF Tree, Rooted
<1>10. Rooted'
  BY <1>1, <1>4, <1>5, <1>8, <1>9 DEF Tree, Rooted
<1>11. Hanging'
  <2>. SUFFICES ASSUME NEW U \in SUBSET Live, Closed(U)'  PROVE \A u \in U : First(u) \in U
    BY <1>8 DEF Hanging
  <2>0. \A x \in U : mpParent'[x] = Null \/ mpParent'[x] \in U
    BY DEF Closed
  <2>1. CASE c \notin U
    <3>1. Closed(U)
      BY <1>4, <1>8, <2>0, <2>1 DEF Closed
    <3>. QED  BY <3>1 DEF Tree, Hanging
  <2>2. CASE c \in U
    <3>1. p \in U
      BY <1>4, <1>5, <1>8, <2>0, <2>2
    (* From the candidate p upwards everything is a candidate, up to q.       *)
    <3>2. q \in U
      <4>. SUFFICES ASSUME q \notin U  PROVE FALSE
        OBVIOUS
      <4>. DEFINE W == K \cap U
      <4>1. \A x \in W : mpParent[x] \in W
        <5>. TAKE x \in W
        <5>1. mpParent[x] \in K /\ mpParent[x] # Null
          BY <1>4
        <5>2. mpParent'[x] = mpParent[x]
          BY <1>4, <1>7, <1>8
        <5>. QED  BY <2>0, <5>1, <5>2
      <4>2. p \in W /\ W \subseteq Live /\ Closed(W)
        BY <1>3, <3>1, <4>1 DEF Closed
      <4>3. First(p) \in W
        BY <4>2 DEF Tree, Hanging
      <4>. QED  BY <1>4, <1>5, <4>1, <4>2, <4>3 DEF Tree, Rooted
    <3>. DEFINE V == U \cup {k}
    <3>3. V \subseteq Live /\ Closed(V)
      BY <1>4, <1>5, <1>8, <2>0, <3>2 DEF Closed
    <3>4. \A u \in U : First(u) \in V /\ First(u) # k
      BY <1>4, <3>3 DEF Tree, Hanging, Rooted
    <3>. QED  BY <3>4
  <2>. QED  BY <2>1, <2>2
<1>12. Agree'
  <2>1. \A j \in KeyFrames : mspChildrens'[j] = IF j = k THEN mspChildrens[j] \ {c}
                                                ELSE IF j = p THEN mspChildrens[j] \cup {c}
                                                ELSE mspChildrens[j]
    <3>1. mspChildrens \in [KeyFrames -> SUBSET KeyFrames] /\ p \in KeyFrames /\ k \in KeyFrames /\ p # k
      BY <1>0, <1>4, <1>5 DEF GraphTypeOK
    <3>. HIDE DEF k
    <3>. QED  BY <1>3, <3>1
  <2>2. \A j \in KeyFrames \ mbBad, x \in Live : x \in mspChildrens'[j] <=> mpParent'[x] = j
    <3>. TAKE j \in KeyFrames \ mbBad, x \in Live
    <3>1. x \in mspChildrens[j] <=> mpParent[x] = j
      BY DEF Tree, Agree
    <3>2. CASE x # c
      <4>1. x \in mspChildrens'[j] <=> x \in mspChildrens[j]
        BY <2>1, <3>2, Zenon
      <4>2. mpParent'[x] = mpParent[x]
        BY <1>4, <1>8, <3>2
      <4>. QED  BY <3>1, <4>1, <4>2
    <3>3. CASE x = c
      BY <1>5, <1>8, <2>1, <3>1, <3>3
    <3>. QED  BY <3>2, <3>3
  <2>3. \A j \in KeyFrames : mspChildrens'[j] \subseteq mspKeyFrames \cup mbBad
    <3>1. \A j \in KeyFrames : mspChildrens[j] \subseteq mspKeyFrames \cup mbBad
      BY DEF Tree, Agree
    <3>2. c \in mspKeyFrames
      BY <1>5 DEF Live
    <3>. QED  BY <2>1, <3>1, <3>2
  <2>. QED  BY <1>1, <1>8, <2>2, <2>3 DEF Agree
<1>13. ErasureInTree'
  <2>1. /\ eraser'["LC"] = eraser["LC"]
        /\ eraser'["LM"].pc = "assign" /\ eraser'["LM"].kf = k /\ eraser'["LM"].candidates = K \cup {c}
    <3>1. eraser \in [Erasers -> EraserType] /\ "LM" \in Erasers /\ "LC" \in Erasers
      BY <1>0 DEF GraphTypeOK, EraserType, Erasers
    <3>2. eraser' = [eraser EXCEPT !["LM"].candidates = @ \cup {c}]
      BY <1>3
    <3>. QED  BY <1>1, <3>1, <3>2 DEF EraserType
  <2>2. \A x \in K : x # c /\ x \in KeyFrames
    BY <1>4, <1>7
  <2>3. mpParent'[k] = q
    BY <1>4, <1>7, <1>8
  <2>. HIDE DEF k, q, K
  <2>4. \A x \in K \cup {c} : /\ x \in Live /\ x # k /\ mpMap'[x] = mpMap'[k]
                              /\ x = q \/ mpParent'[x] \in K \cup {c}
    BY <1>1, <1>3, <1>4, <1>5, <1>7, <1>8, <1>9, <2>2
  <2>5. eraser["LC"].pc = "none"
    BY DEF ErasureInTree
  <2>. QED  BY <1>4, <1>8, <2>1, <2>3, <2>4, <2>5 DEF ErasureInTree
<1>. QED  BY <1>10, <1>11, <1>12, <1>13 DEF Tree

\* The keyframe leaves the tree, its children go to its parent.
LEMMA TreeErase ==
  ASSUME TypeInv, EdgeInv, Tree, ErasureInTree, FinishErase("LM")
  PROVE  Tree' /\ ErasureInTree'
         /\ \A f \in KeyFrames \ (mspKeyFrames \cup mbBad) : mpParent'[f] = mpParent[f]
<1>. DEFINE k == eraser["LM"].kf
            p == mpParent[k]
            left == mspChildrens[k]
<1>0. GraphTypeOK
  BY DEF TypeInv, GraphInv
<1>1. /\ eraser["LM"].pc = "assign" /\ EraseGoto("LM", "assign", "eraseMap")
      /\ mpParent' = [c \in KeyFrames |-> IF c \in left THEN p ELSE mpParent[c]]
      /\ mspChildrens' = [j \in KeyFrames |-> IF j = p THEN (mspChildrens[j] \cup left) \ {k}
                                                       ELSE mspChildrens[j]]
      /\ mbBad' = mbBad \cup {k}
      /\ UNCHANGED <<mspKeyFrames, mpMap, mnInitKFid>>
  BY DEF FinishErase, EraseGoto, mapVars
<1>2. /\ k \in Live /\ k # First(k) /\ p \in Live /\ p # Null /\ mpMap[p] = mpMap[k]
      /\ Live \subseteq KeyFrames /\ Null \notin Live /\ k \in KeyFrames \ mbBad
  BY <1>1, <1>0, LiveIsClosed DEF ErasureInTree, Tree, Rooted, Live
<1>3. p # k /\ k # Null
  <2>1. k \notin Ancestors(p) /\ p \in Ancestors(p)
    BY <1>0, <1>2, AncestorsAreLive, Acyclic
  <2>. QED  BY <1>2, <2>1
<1>4. \A c \in Live : c \in left <=> mpParent[c] = k
  BY <1>2 DEF Tree, Agree
<1>5. /\ \A x \in Live : mpParent'[x] = IF mpParent[x] = k THEN p ELSE mpParent[x]
      /\ Live' = Live \ {k} /\ \A x : First(x)' = First(x)
  <2>1. Live' = Live \ {k} /\ \A x : First(x)' = First(x)
    BY <1>1 DEF Live, First
  <2>2. \A x \in Live : x \in KeyFrames /\ (x \in left <=> mpParent[x] = k)
    BY <1>2, <1>4
  <2>. HIDE DEF k, p, left
  <2>. QED  BY <1>1, <2>1, <2>2
<1>6. \A x \in Live : First(x) # k
  BY <1>2, <1>3 DEF Tree, Rooted
<1>7. Rooted'
  <2>. SUFFICES ASSUME NEW x \in Live \ {k}
                PROVE  /\ First(x) \in Live \ {k} /\ mpMap[First(x)] = mpMap[x] /\ mpParent'[First(x)] = Null
                       /\ x # First(x) => mpParent'[x] \in Live \ {k} /\ mpMap[mpParent'[x]] = mpMap[x]
    BY <1>1, <1>5 DEF Rooted
  <2>1. /\ First(x) \in Live /\ mpMap[First(x)] = mpMap[x] /\ mpParent[First(x)] = Null
        /\ x # First(x) => mpParent[x] \in Live /\ mpMap[mpParent[x]] = mpMap[x]
    BY DEF Tree, Rooted
  <2>2. mpParent'[First(x)] = Null
    BY <1>3, <1>5, <2>1
  <2>. QED  BY <1>2, <1>3, <1>5, <1>6, <2>1, <2>2
<1>8. Hanging'
  <2>. SUFFICES ASSUME NEW U \in SUBSET (Live \ {k}), Closed(U)'  PROVE \A u \in U : First(u) \in U
    BY <1>5 DEF Hanging
  <2>0. \A x \in U : mpParent'[x] = Null \/ mpParent'[x] \in U
    BY DEF Closed
  <2>1. CASE \A x \in U : mpParent[x] # k
    <3>1. Closed(U)
      BY <1>5, <2>0, <2>1 DEF Closed
    <3>. QED  BY <3>1 DEF Tree, Hanging
  <2>2. ASSUME NEW x \in U, mpParent[x] = k  PROVE \A u \in U : First(u) \in U
    <3>1. p \in U
      BY <1>2, <1>5, <2>0, <2>2
    <3>. DEFINE V == U \cup {k}
    <3>2. V \subseteq Live /\ Closed(V)
      BY <1>2, <1>5, <2>0, <3>1 DEF Closed
    <3>. QED  BY <1>6, <3>2 DEF Tree, Hanging
  <2>. QED  BY <2>1, <2>2
<1>9. Agree'
  <2>1. \A j \in KeyFrames : mspChildrens'[j] = IF j = p THEN (mspChildrens[j] \cup left) \ {k}
                                                         ELSE mspChildrens[j]
    BY <1>1
  <2>2. \A j \in KeyFrames \ mbBad', x \in Live \ {k} : x \in mspChildrens'[j] <=> mpParent'[x] = j
    <3>. TAKE j \in KeyFrames \ mbBad', x \in Live \ {k}
    <3>1. j # k /\ j \in KeyFrames \ mbBad
      BY <1>1
    <3>2. x \in mspChildrens[j] <=> mpParent[x] = j
      BY <3>1 DEF Tree, Agree
    <3>3. x \in left <=> mpParent[x] = k
      BY <1>4
    <3>4. mpParent'[x] = IF mpParent[x] = k THEN p ELSE mpParent[x]
      BY <1>5
    <3>5. x \in mspChildrens'[j] <=> x \in mspChildrens[j] \/ (j = p /\ x \in left)
      BY <2>1, <3>1, Zenon
    <3>. HIDE DEF k, p, left
    <3>. QED  BY <3>1, <3>2, <3>3, <3>4, <3>5
  <2>3. \A j \in KeyFrames : mspChildrens'[j] \subseteq mspKeyFrames \cup mbBad
    <3>1. \A j \in KeyFrames : mspChildrens[j] \subseteq mspKeyFrames \cup mbBad
      BY DEF Tree, Agree
    <3>2. left \subseteq mspKeyFrames \cup mbBad
      BY <1>2, <3>1
    <3>. HIDE DEF k, p, left
    <3>. QED  BY <2>1, <3>1, <3>2
  <2>. QED  BY <1>1, <1>5, <2>2, <2>3 DEF Agree
<1>10. ErasureInTree'
  <2>1. eraser'["LC"] = eraser["LC"] /\ eraser'["LM"].pc = "eraseMap"
    BY <1>1, GotoMoves DEF EdgeInv, Erasers
  <2>. QED  BY <2>1 DEF ErasureInTree
<1>11. \A f \in KeyFrames \ (mspKeyFrames \cup mbBad) : mpParent'[f] = mpParent[f]
  <2>1. left \subseteq mspKeyFrames \cup mbBad
    BY <1>2 DEF Tree, Agree
  <2>. HIDE DEF p, left
  <2>. QED  BY <1>1, <2>1
<1>. QED  BY <1>7, <1>8, <1>9, <1>10, <1>11 DEF Tree
-----------------------------------------------------------------------------
LEMMA TreeSetBadFlag ==
  ASSUME TypeInv, EdgeInv, KnownInv, Tree, ErasureInTree, NewcomerFits, NEW t \in Erasers,
         EraseStep(t) \/ EraseFromDatabase(t), mbToBeErased' = {}
  PROVE  Tree' /\ ErasureInTree' /\ NewcomerFits'
<1>. DEFINE k == eraser["LM"].kf
<1>0. GraphTypeOK /\ EraserShape
  BY DEF TypeInv, GraphInv, EdgeInv
<1>1. t = "LM" /\ eraser["LM"].pc # "none" /\ lmPc = "handOff"
  <2>1. eraser[t].pc # "none"
    BY DEF EraseStep, TestErase, DetachErased, LockErased, AdoptChild, FinishErase, EraseFromMap,
           EraseGoto, EraseFromDatabase
  <2>. QED  BY <2>1 DEF ErasureInTree, Erasers, EdgeInv, ErasesWhenCulling
<1>2. UNCHANGED <<created, mpMap, mnInitKFid, mbFirstConnection, lmPc, mpCurrentKeyFrame>>
  BY DEF EraseStep, TestErase, DetachErased, LockErased, AdoptChild, FinishErase, EraseFromMap,
         EraseFromDatabase, mapVars, treeVars, lmVars
<1>3. ASSUME \A f \in KeyFrames : f > created => mpParent'[f] = mpParent[f]
      PROVE  NewcomerFits'
  <2>1. mspKeyFrames' \subseteq mspKeyFrames /\ mbBad \subseteq mbBad'
    BY DEF EraseStep, TestErase, DetachErased, LockErased, AdoptChild, FinishErase, EraseFromMap,
           EraseFromDatabase, mapVars
  <2>2. Live' \subseteq Live /\ \A f : First(f)' = First(f)
    BY <1>2, <2>1 DEF Live, First
  <2>3. \A f \in Live' : f \in mbFirstConnection' => f = First(f)'
    BY <1>2, <2>2 DEF NewcomerFits
  <2>. QED  BY <1>1, <1>2, <1>3, <2>3 DEF NewcomerFits
<1>4. CASE TestErase(t) \/ DetachErased(t)
  <2>1. UNCHANGED <<mspKeyFrames, mbBad, mpParent, mspChildrens>>
    BY <1>4 DEF TestErase, DetachErased, mapVars, treeVars
  <2>2. /\ eraser'["LC"] = eraser["LC"]
        /\ \/ eraser'["LM"].pc = "none"
           \/ eraser'["LM"].kf = k /\ eraser'["LM"].pc \in {"detach", "lock"} /\ eraser["LM"].pc \in {"test", "detach"}
    <3>1. CASE eraser' = [eraser EXCEPT ![t] = Idle]
      BY <1>0, <1>1, <3>1 DEF EraserShape, Idle, Erasers
    <3>2. CASE EraseGoto(t, "test", "detach") \/ EraseGoto(t, "detach", "lock")
      BY <1>0, <1>1, <3>2 DEF EraserShape, EraseGoto, Erasers
    <3>. QED  BY <1>4, <3>1, <3>2 DEF TestErase, DetachErased
  <2>3. Tree' /\ Live' = Live
    BY <1>2, <2>1, TreeKept
  <2>4. ErasureInTree'
    BY <1>2, <2>2, <2>3 DEF ErasureInTree, First
  <2>. QED  BY <1>3, <2>1, <2>3, <2>4
<1>5. CASE LockErased(t)
  <2>1. UNCHANGED <<mspKeyFrames, mbBad, mpParent, mspChildrens>>
    BY <1>5 DEF LockErased, mapVars, treeVars
  <2>2. /\ eraser'["LC"] = eraser["LC"] /\ eraser["LM"].pc = "lock"
        /\ eraser'["LM"].kf = k /\ eraser'["LM"].candidates = {mpParent[k]} \ {Null}
    BY <1>0, <1>1, <1>5 DEF LockErased, EraserShape, Erasers
  <2>3. Tree' /\ Live' = Live
    BY <1>2, <2>1, TreeKept
  <2>4. /\ k \in Live /\ k # First(k) /\ mpParent[k] \in Live /\ mpParent[k] # Null
        /\ mpMap[mpParent[k]] = mpMap[k]
    BY <1>0, <2>2, LiveIsClosed DEF ErasureInTree, Tree, Rooted
  <2>5. mpParent[k] # k
    BY <1>0, <2>4, AncestorsAreLive, Acyclic
  <2>6. ErasureInTree'
    <3>. HIDE DEF k
    <3>. QED  BY <1>2, <2>1, <2>2, <2>3, <2>4, <2>5 DEF ErasureInTree, First
  <2>. QED  BY <1>3, <2>1, <2>3, <2>6
<1>6. CASE AdoptChild(t)
  <2>1. Tree' /\ ErasureInTree'
    BY <1>0, <1>1, <1>6, TreeAdopt
  <2>2. PICK a \in Adoptions("LM") : mpParent' = [mpParent EXCEPT ![a[1]] = a[2]]
    BY <1>1, <1>6 DEF AdoptChild
  <2>3. a[1] \in KeyFrames /\ a[1] \in mspKeyFrames \cup mbBad
    <3>1. a[1] \in mspChildrens[k] /\ k \in KeyFrames
      BY <1>1, <2>2 DEF Adoptions, TypeInv, GraphInv, GraphPlaced, Erasers
    <3>2. mspChildrens[k] \subseteq KeyFrames
      BY <1>0, <3>1 DEF GraphTypeOK
    <3>. QED  BY <3>1, <3>2 DEF Tree, Agree
  <2>4. \A f \in KeyFrames : f > created => f # a[1]
    <3>1. a[1] \in 1 .. created /\ created \in Nat
      BY <1>0, <2>3 DEF KnownInv, Known, GraphTypeOK
    <3>. QED  BY <3>1 DEF KeyFrames
  <2>5. \A f \in KeyFrames : f > created => mpParent'[f] = mpParent[f]
    BY <1>0, <2>2, <2>4 DEF GraphTypeOK
  <2>. QED  BY <1>3, <2>1, <2>5
<1>7. CASE FinishErase(t)
  <2>1. /\ Tree' /\ ErasureInTree'
        /\ \A f \in KeyFrames \ (mspKeyFrames \cup mbBad) : mpParent'[f] = mpParent[f]
    BY <1>0, <1>1, <1>7, TreeErase
  <2>2. \A f \in KeyFrames : f > created => f \notin mspKeyFrames \cup mbBad
    <3>1. mspKeyFrames \cup mbBad \subseteq 1 .. created /\ created \in Nat
      BY <1>0 DEF KnownInv, Known, GraphTypeOK
    <3>. QED  BY <3>1 DEF KeyFrames
  <2>. QED  BY <1>3, <2>1, <2>2
<1>8. CASE EraseFromMap(t)
  <2>1. /\ UNCHANGED <<mbBad, mpParent, mspChildrens>> /\ mspKeyFrames' = mspKeyFrames \ {k}
        /\ EraseGoto("LM", "eraseMap", "eraseDB")
    BY <1>1, <1>8 DEF EraseFromMap, treeVars
  <2>2. k \in mbBad
    BY <1>1, <2>1 DEF KnownInv, ErasuresKnown, EraseGoto
  <2>3. Live' = Live
    BY <2>1, <2>2 DEF Live
  <2>4. Rooted' /\ Hanging'
    BY <1>2, <2>1, <2>3 DEF Tree, Rooted, Hanging, First, Closed
  <2>5. Agree'
    <3>1. mspKeyFrames' \cup mbBad' = mspKeyFrames \cup mbBad
      BY <2>1, <2>2
    <3>. QED  BY <2>1, <2>3, <3>1 DEF Tree, Agree
  <2>6. eraser'["LC"] = eraser["LC"] /\ eraser'["LM"].pc = "eraseDB"
    BY <1>0, <2>1, GotoMoves DEF Erasers
  <2>. QED  BY <1>3, <2>1, <2>4, <2>5, <2>6 DEF Tree, ErasureInTree
<1>9. CASE EraseFromDatabase(t)
  <2>1. UNCHANGED <<mspKeyFrames, mbBad, mpParent, mspChildrens>>
    BY <1>9 DEF EraseFromDatabase, mapVars, treeVars
  <2>2. /\ eraser'["LC"] = eraser["LC"] /\ eraser'["LM"].pc = "none"
    BY <1>0, <1>1, <1>9 DEF EraseFromDatabase, EraserShape, Idle, Erasers
  <2>. QED  BY <1>2, <1>3, <2>1, <2>2, TreeKept DEF ErasureInTree
<1>. QED  BY <1>4, <1>5, <1>6, <1>7, <1>8, <1>9 DEF EraseStep

LEMMA TreeDetection ==
  ASSUME TypeInv, EdgeInv, Tree, ErasureInTree, NewcomerFits, DetectionStep, mbToBeErased = {}
  PROVE  Tree' /\ ErasureInTree' /\ NewcomerFits'
<1>1. UNCHANGED <<mspKeyFrames, mbBad, mpMap, mnInitKFid, mpParent, mspChildrens, mbFirstConnection,
                  lmPc, mpCurrentKeyFrame, vPairs, created>>
  BY DEF DetectionStep, PopKeyFrame, SkipSmallMap, SearchFromLast, SkipBoW, SearchBoW, CallSetErase,
         graphVars, mapVars, treeVars, lmVars
<1>2. UNCHANGED eraser
  BY DEF DetectionStep, PopKeyFrame, SkipSmallMap, SearchFromLast, SkipBoW, SearchBoW, CallSetErase,
         SetErase, graphVars
<1>. QED  BY <1>1, <1>2, TreeKept, ErasureKept, NewcomerKept
-----------------------------------------------------------------------------
(* Two maps are welded.  The path from the welded keyframe to the first one    *)
(* of its map is turned round: what was below becomes what is above.           *)
LEMMA PathTurned ==
  ASSUME GraphTypeOK, Tree, NEW w \in Live
  PROVE  LET path == Ancestors(w)
             below(a) == {b \in KeyFrames \cap path : mpParent[b] = a}
         IN /\ \A a \in KeyFrames \ path : below(a) = {}
            /\ \A a \in path \ {w} : \E b \in path : below(a) = {b} /\ mpParent[b] = a
            /\ below(w) = {}
<1>. DEFINE path == Ancestors(w)
            below(a) == {b \in KeyFrames \cap path : mpParent[b] = a}
<1>1. /\ path \subseteq Live /\ w \in path /\ Closed(path) /\ Live \subseteq KeyFrames /\ Null \notin Live
      /\ \A U : w \in U /\ Closed(U) => path \subseteq U
  BY LiveIsClosed, AncestorsAreLive
<1>2. \A a \in KeyFrames \ path : below(a) = {}
  BY <1>1, NullIsNoKeyFrame DEF Closed
<1>3. ASSUME NEW a \in path \ {w}  PROVE \E b \in path : below(a) = {b} /\ mpParent[b] = a
  <2>1. PICK b \in path : mpParent[b] = a
    <3>1. CASE \A b \in path : mpParent[b] # a
      <4>1. Closed(path \ {a}) /\ w \in path \ {a}
        BY <1>1, <3>1 DEF Closed
      <4>. QED  BY <1>1, <4>1
    <3>. QED  BY <3>1
  <2>2. a # Null /\ b \in KeyFrames
    BY <1>1
  <2>3. \A x \in path : mpParent[x] = a => x = b
    BY <2>1, <2>2, OneChildBelow
  <2>. QED  BY <1>1, <2>1, <2>2, <2>3
<1>4. below(w) = {}
  <2>. SUFFICES ASSUME NEW b \in path, mpParent[b] = w  PROVE FALSE
    OBVIOUS
  <2>. QED  BY <1>1, Acyclic
<1>. QED  BY <1>2, <1>3, <1>4

LEMMA TreeWelded ==
  ASSUME TypeInv, EdgeInv, VerifiedInv, KnownInv, Tree, ErasureInTree, NewcomerFits, WeldMaps, wellJoined'
  PROVE  Tree' /\ ErasureInTree' /\ NewcomerFits'
<1>1. PICK w, o, path : w = Welded /\ o = WeldedTo /\ path = Ancestors(w)
  OBVIOUS
<1>. DEFINE below(a) == {b \in KeyFrames \cap path : mpParent[b] = a}
            X == {a \in Live : mpMap[a] = mpMap[w]}
<1>0. GraphTypeOK
  BY DEF TypeInv, GraphInv
<1>. DEFINE turned == [a \in KeyFrames |->
                         IF a = w THEN o
                         ELSE IF below(a) # {} THEN CHOOSE b \in below(a) : TRUE ELSE mpParent[a]]
            turnedChildrens == [a \in KeyFrames |->
                                  (mspChildrens[a] \ below(a))
                                    \cup (IF a \in path THEN {mpParent[a]} \ {Null} ELSE {})
                                    \cup (IF a = o THEN {w} ELSE {})]
<1>a. w \in Live /\ o \in Live /\ mpMap[w] # mpMap[o]
  <2>1. w \in Known /\ o \in Known
    BY <1>1, WeldedKnown DEF WeldMaps
  <2>2. {w, o} \cap mbBad = {} /\ mpMap[w] # mpMap[o] /\ lmPc = "idle"
    BY <1>1 DEF WeldMaps
  <2>. QED  BY <2>1, <2>2 DEF Known, Live
(* The keyframe welded to has a parent, or is the first of its map.            *)
<1>b. TreeBecomes(turned, turnedChildrens, mbFirstConnection \ {First(w)})
  <2>1. PICK others, firstConnection : /\ firstConnection = mbFirstConnection \ {First(w)}
                                       /\ Reconnect(o, others, turned, turnedChildrens, firstConnection)
    <3>1. Reconnect(o, (LiveOf(mpMap[w]) \cup LiveOf(mpMap[o])) \ {o}, turned, turnedChildrens,
                    mbFirstConnection \ {First(w)})
      BY <1>1 DEF WeldMaps, First
    <3>. HIDE DEF turned, turnedChildrens
    <3>. QED  BY <3>1
  <2>2. ~(o \in firstConnection /\ o # mnInitKFid[mpMap[o]])
    BY <1>a, <2>1 DEF NewcomerFits, First
  <2>. HIDE DEF turned, turnedChildrens
  <2>. QED  BY <2>1, <2>2, ReconnectMeans
<1>2. /\ mpParent' = [a \in KeyFrames |->
                        IF a = w THEN o
                        ELSE IF below(a) # {} THEN CHOOSE b \in below(a) : TRUE ELSE mpParent[a]]
      /\ mspChildrens' = [a \in KeyFrames |->
                            (mspChildrens[a] \ below(a))
                              \cup (IF a \in path THEN {mpParent[a]} \ {Null} ELSE {})
                              \cup (IF a = o THEN {w} ELSE {})]
      /\ mbFirstConnection' = mbFirstConnection \ {First(w)}
      /\ mpMap' = [a \in KeyFrames |-> IF mpMap[a] = mpMap[w] /\ a \in Live THEN mpMap[o] ELSE mpMap[a]]
      /\ lmPc = "idle"
      /\ UNCHANGED <<created, mnInitKFid, mspKeyFrames, mbBad, eraser, lmPc>>
  <2>1. /\ mpParent' = turned /\ mspChildrens' = turnedChildrens
        /\ mbFirstConnection' = mbFirstConnection \ {First(w)}
    BY <1>b DEF TreeBecomes
  <2>2. /\ mpMap' = [a \in KeyFrames |-> IF mpMap[a] = mpMap[w] /\ a \in Live THEN mpMap[o] ELSE mpMap[a]]
        /\ lmPc = "idle"
        /\ UNCHANGED <<created, mnInitKFid, mspKeyFrames, mbBad, eraser, lmPc>>
    BY <1>1 DEF WeldMaps, Live, lmVars
  <2>. QED  BY <2>1, <2>2
<1>. HIDE DEF turned, turnedChildrens
<1>3. w \in Live /\ o \in Live /\ mpMap[w] # mpMap[o]
  BY <1>a
<1>4. /\ path \subseteq X /\ w \in path /\ Closed(path) /\ First(w) \in path
      /\ Live \subseteq KeyFrames /\ Null \notin Live /\ Null \notin path
      /\ \A U : w \in U /\ Closed(U) => path \subseteq U
      /\ \A a \in path : a \in KeyFrames
  BY <1>0, <1>1, <1>3, LiveIsClosed, AncestorsAreLive
<1>5. /\ \A a \in KeyFrames \ path : below(a) = {}
      /\ \A a \in path \ {w} : \E b \in path : below(a) = {b} /\ mpParent[b] = a
      /\ below(w) = {}
  BY <1>0, <1>1, <1>3, PathTurned
<1>6. /\ mpParent'[w] = o
      /\ \A a \in path \ {w} : mpParent'[a] \in path /\ mpParent[mpParent'[a]] = a
      /\ \A a \in KeyFrames \ path : mpParent'[a] = mpParent[a]
  <2>1. mpParent'[w] = o
    BY <1>2, <1>3, <1>4
  <2>2. ASSUME NEW a \in path \ {w}  PROVE mpParent'[a] \in path /\ mpParent[mpParent'[a]] = a
    <3>1. PICK b \in path : below(a) = {b} /\ mpParent[b] = a
      BY <1>5
    <3>2. mpParent'[a] = CHOOSE x \in {b} : TRUE
      BY <1>2, <1>4, <3>1
    <3>. QED  BY <3>1, <3>2
  <2>3. ASSUME NEW a \in KeyFrames \ path  PROVE mpParent'[a] = mpParent[a]
    BY <1>2, <1>4, <1>5, <2>3
  <2>. QED  BY <2>1, <2>2, <2>3
<1>7. /\ Live' = Live
      /\ \A a \in X : mpMap'[a] = mpMap[o]
      /\ \A a \in KeyFrames \ X : mpMap'[a] = mpMap[a]
      /\ \A a \in X : First(a)' = First(o)
      /\ \A a \in KeyFrames \ X : First(a)' = First(a)
  <2>1. Live' = Live
    BY <1>2 DEF Live
  <2>2. /\ \A a \in X : mpMap'[a] = mpMap[o]
        /\ \A a \in KeyFrames \ X : mpMap'[a] = mpMap[a]
    BY <1>2, <1>4
  <2>. HIDE DEF X
  <2>. QED  BY <1>2, <2>1, <2>2 DEF First
<1>8. \A k \in Live : /\ First(k) \in Live /\ mpMap[First(k)] = mpMap[k] /\ mpParent[First(k)] = Null
                      /\ k # First(k) => mpParent[k] \in Live /\ mpMap[mpParent[k]] = mpMap[k]
  BY DEF Tree, Rooted
<1>9. \A x \in X : First(x) = First(w)
  BY DEF First
<1>10. o \notin X /\ First(o) \notin X /\ First(o) \in KeyFrames \ path /\ o \in KeyFrames
  BY <1>3, <1>4, <1>8
<1>. HIDE DEF below
<1>11. Rooted'
  <2>1. ASSUME NEW k \in X
        PROVE  /\ First(o) \in Live /\ mpMap'[First(o)] = mpMap'[k] /\ mpParent'[First(o)] = Null
               /\ mpParent'[k] \in Live /\ mpMap'[mpParent'[k]] = mpMap'[k]
    <3>1. First(o) \in Live /\ mpMap'[First(o)] = mpMap'[k] /\ mpParent'[First(o)] = Null
      BY <1>3, <1>6, <1>7, <1>8, <1>10
    <3>2. CASE k = w
      <4>1. mpParent'[k] = o
        BY <1>6, <3>2
      <4>. HIDE DEF X
      <4>. QED  BY <1>3, <1>7, <1>10, <3>1, <4>1
    <3>3. CASE k \in path \ {w}
      <4>1. mpParent'[k] \in path
        BY <1>6, <3>3
      <4>2. mpParent'[k] \in X /\ mpParent'[k] \in Live
        BY <1>4, <4>1
      <4>. HIDE DEF X
      <4>. QED  BY <1>7, <3>1, <4>2
    <3>4. CASE k \notin path
      <4>1. k # First(k)
        BY <1>4, <1>9, <3>4
      <4>2. mpParent[k] \in X
        BY <1>8, <4>1
      <4>3. mpParent'[k] = mpParent[k]
        BY <1>4, <1>6, <3>4
      <4>. QED  BY <1>7, <3>1, <4>2, <4>3
    <3>. QED  BY <3>1, <3>2, <3>3, <3>4
  <2>2. ASSUME NEW k \in Live \ X
        PROVE  /\ First(k) \in Live /\ mpMap'[First(k)] = mpMap'[k] /\ mpParent'[First(k)] = Null
               /\ k # First(k) => mpParent'[k] \in Live /\ mpMap'[mpParent'[k]] = mpMap'[k]
    <3>1. k \in KeyFrames \ path /\ First(k) \in Live \ X /\ First(k) \in KeyFrames \ path
      BY <1>4, <1>8
    <3>2. k # First(k) => mpParent[k] \in Live \ X /\ mpParent[k] \in KeyFrames
      BY <1>4, <1>8
    <3>. QED  BY <1>4, <1>6, <1>7, <1>8, <3>1, <3>2
  <2>. QED  BY <1>4, <1>7, <2>1, <2>2 DEF Rooted
<1>12. Hanging'
  <2>. SUFFICES ASSUME NEW U \in SUBSET Live, Closed(U)', NEW u \in U  PROVE First(u)' \in U
    BY <1>7 DEF Hanging
  <2>0. \A x \in U : mpParent'[x] = Null \/ mpParent'[x] \in U
    BY DEF Closed
  (* Outside of the welded map parents and first keyframes are what they were. *)
  <2>1. \A y \in U \ X : First(y) \in U
    <3>1. Closed(U \ X)
      BY <1>4, <1>6, <1>8, <2>0 DEF Closed, Tree, Rooted
    <3>. QED  BY <3>1 DEF Tree, Hanging
  <2>2. CASE u \notin X
    BY <1>4, <1>7, <2>1, <2>2
  <2>3. CASE u \in X /\ o \in U
    BY <1>7, <1>10, <2>1, <2>3
  (* A part of the welded map that does not lead to its new parent holds nothing *)
  (* of the path, and hung on nothing before.                                    *)
  <2>4. CASE u \in X /\ o \notin U
    <3>1. w \notin U
      BY <1>3, <1>4, <1>6, <2>0, <2>4
    <3>2. Closed(path \ U)
      <4>. SUFFICES ASSUME NEW x \in path \ U, mpParent[x] # Null  PROVE mpParent[x] \in path \ U
        BY DEF Closed
      <4>1. mpParent[x] \in path
        BY <1>4 DEF Closed
      <4>2. ASSUME mpParent[x] \in U  PROVE FALSE
        <5>. DEFINE q == mpParent[x]
        <5>1. q \in path \ {w} /\ q # Null
          BY <1>4, <3>1, <4>1, <4>2
        <5>2. mpParent'[q] \in path /\ mpParent[mpParent'[q]] = q
          BY <1>6, <5>1
        <5>3. mpParent'[q] = x
          BY <1>0, <1>1, <1>3, <5>1, <5>2, OneChildBelow
        <5>4. mpParent'[q] \in U
          BY <1>4, <2>0, <4>2, <5>2
        <5>. QED  BY <5>3, <5>4
      <4>. QED  BY <4>1, <4>2
    <3>3. path \cap U = {}
      BY <1>4, <3>1, <3>2
    <3>4. Closed(U \cap X)
      BY <1>4, <1>6, <1>8, <2>0, <3>3 DEF Closed, Tree, Rooted
    <3>5. First(u) \in U
      BY <2>4, <3>4 DEF Tree, Hanging
    <3>. QED  BY <1>4, <1>9, <2>4, <3>3, <3>5
  <2>. QED  BY <2>2, <2>3, <2>4
<1>13. Agree'
  <2>1. \A j \in KeyFrames : \A c : c \in mspChildrens'[j] <=>
          \/ c \in mspChildrens[j] /\ c \notin below(j)
          \/ j \in path /\ mpParent[j] = c /\ c # Null
          \/ j = o /\ c = w
    BY <1>2
  <2>2. \A j : \A c \in KeyFrames : c \in below(j) <=> c \in path /\ mpParent[c] = j
    BY DEF below
  <2>3. \A j \in KeyFrames \ mbBad, c \in Live : c \in mspChildrens[j] <=> mpParent[c] = j
    BY DEF Tree, Agree
  <2>4. ASSUME NEW j \in KeyFrames \ mbBad, NEW c \in Live
        PROVE  c \in mspChildrens'[j] <=> mpParent'[c] = j
    <3>1. c \in KeyFrames /\ c # Null
      BY <1>4
    <3>2. CASE c = w
      <4>1. j \in path => mpParent[j] # w
        BY <1>4, <1>5 DEF below
      <4>. QED  BY <1>4, <1>6, <2>1, <2>2, <2>3, <3>1, <3>2, <4>1
    <3>3. CASE c \in path \ {w}
      <4>1. mpParent'[c] \in path /\ mpParent[mpParent'[c]] = c
        BY <1>6, <3>3
      <4>2. j \in path /\ mpParent[j] = c => j = mpParent'[c]
        BY <1>0, <1>1, <1>3, <3>1, <4>1, OneChildBelow
      <4>. QED  BY <2>1, <2>2, <2>3, <3>1, <3>3, <4>1, <4>2
    <3>4. CASE c \notin path
      <4>1. mpParent'[c] = mpParent[c] /\ c # w
        BY <1>4, <1>6, <3>1, <3>4
      <4>2. j \in path => mpParent[j] # c
        BY <1>4, <3>1, <3>4 DEF Closed
      <4>. QED  BY <2>1, <2>2, <2>3, <3>1, <3>4, <4>1, <4>2
    <3>. QED  BY <3>2, <3>3, <3>4
  <2>5. ASSUME NEW j \in KeyFrames  PROVE mspChildrens'[j] \subseteq mspKeyFrames \cup mbBad
    <3>1. mspChildrens[j] \subseteq mspKeyFrames \cup mbBad
      BY DEF Tree, Agree
    <3>2. j \in path => mpParent[j] = Null \/ mpParent[j] \in mspKeyFrames
      BY <1>4 DEF Closed, Live
    <3>3. w \in mspKeyFrames
      BY <1>3 DEF Live
    <3>. QED  BY <2>1, <3>1, <3>2, <3>3
  <2>. QED  BY <1>2, <1>7, <2>4, <2>5 DEF Agree
<1>14. ErasureInTree'
  BY <1>2, NothingInErasure
<1>15. NewcomerFits'
  <2>1. \A f \in KeyFrames : f > created => f \notin Live
    <3>1. Live \subseteq 1 .. created /\ created \in Nat
      BY <1>0 DEF KnownInv, Known, Live, GraphTypeOK
    <3>. QED  BY <3>1 DEF KeyFrames
  <2>2. First(w) \in Live
    BY <1>4
  <2>3. \A f \in Live' : f \in mbFirstConnection' => f = First(f)'
    <3>. SUFFICES ASSUME NEW f \in Live, f \in mbFirstConnection, f # First(w)  PROVE f = First(f)'
      BY <1>2, <1>7
    <3>1. f = First(f)
      BY DEF NewcomerFits
    <3>2. f \notin X
      BY <1>9, <3>1
    <3>. HIDE DEF X
    <3>. QED  BY <1>4, <1>7, <3>1, <3>2
  <2>. QED  BY <1>2, <1>4, <1>6, <2>1, <2>2, <2>3 DEF NewcomerFits
<1>. QED  BY <1>11, <1>12, <1>13, <1>14, <1>15 DEF Tree
-----------------------------------------------------------------------------
\* Recounting connections finds no keyframe without a parent to give one to.
LEMMA TreeAtLoop ==
  ASSUME TypeInv, KnownInv, NewcomerFits, CloseLoop
  PROVE  UNCHANGED treeVars
<1>1. mpCurrentKF \in KeyFrames /\ mpCurrentKF \in Known /\ lmPc = "idle"
  BY NullIsNoKeyFrame DEF CloseLoop, LcGoto, TypeInv, LcInv, LcPlaced, KnownInv, SearchesKnown
<1>2. ASSUME NEW k \in ({mpCurrentKF} \cup mvpOrderedConnectedKeyFrames[mpCurrentKF]) \ mbBad,
             NEW others, Reconnect(k, others, mpParent, mspChildrens, mbFirstConnection)
      PROVE  UNCHANGED treeVars
  <2>1. k \in Live
    BY <1>1, <1>2 DEF KnownInv, ConnectionsKnown, Known, Live
  <2>2. ~(k \in mbFirstConnection /\ k # mnInitKFid[mpMap[k]])
    BY <2>1 DEF NewcomerFits, First
  <2>3. TreeBecomes(mpParent, mspChildrens, mbFirstConnection)
    BY <1>2, <2>2, ReconnectMeans
  <2>. QED  BY <2>3 DEF TreeBecomes, treeVars
<1>. QED  BY <1>2 DEF CloseLoop, treeVars

\* What was once disturbed stays so.
LEMMA UndisturbedBefore ==
  ASSUME TypeInv, [Next]_vars, Undisturbed'
  PROVE  Undisturbed
<1>1. mbToBeErased \subseteq mbToBeErased'
  BY DEF Next, LocalMappingStep, NewMapKeyFrame, TakeKeyFrame, LmGraphStep, CountConnections, LinkParent,
         StartCulling, CullKeyFrame, HandOver, EndIteration, SetBadFlagStep, EraseStep, TestErase,
         DetachErased, LockErased, AdoptChild, FinishErase, EraseFromMap, EraseFromDatabase,
         DetectionStep, PopKeyFrame, SkipSmallMap, SearchFromLast, SkipBoW, SearchBoW, CallSetErase,
         OperationStep, RefuseMerge, BeginMerge, WeldMaps, BeginLoop, CloseLoop, AddLoopEdges,
         flagVars, graphVars, vars
<1>2. wellJoined' => wellJoined
  BY DEF Next, LocalMappingStep, HandOver, SetBadFlagStep, EraseFromDatabase, DetectionStep,
         PopKeyFrame, SkipSmallMap, SearchFromLast, SkipBoW, SearchBoW, CallSetErase,
         OperationStep, RefuseMerge, BeginMerge, WeldMaps, BeginLoop, CloseLoop, lcVars, vars
<1>. QED  BY <1>1, <1>2 DEF Undisturbed

LEMMA TreeInit == Init => TreeInv
<1>. SUFFICES ASSUME Init  PROVE TreeInv
  OBVIOUS
<1>1. Live = {}
  BY DEF Init, GraphInit, Live
<1>2. Tree
  BY <1>1 DEF Init, GraphInit, Tree, Rooted, Hanging, Agree
<1>3. ErasureInTree
  BY DEF Init, GraphInit, ErasureInTree, Erasers, Idle
<1>4. NewcomerFits
  BY <1>1 DEF Init, GraphInit, NewcomerFits
<1>. QED  BY <1>2, <1>3, <1>4 DEF TreeInv

LEMMA TreeNext ==
  TypeInv /\ EdgeInv /\ VerifiedInv /\ KnownInv /\ TreeInv /\ [Next]_vars => TreeInv'
<1>. SUFFICES ASSUME TypeInv, EdgeInv, VerifiedInv, KnownInv, TreeInv, [Next]_vars, Undisturbed'
              PROVE  Tree' /\ ErasureInTree' /\ NewcomerFits'
  BY DEF TreeInv
<1>1. Tree /\ ErasureInTree /\ NewcomerFits /\ mbToBeErased = {} /\ mbToBeErased' = {} /\ wellJoined'
  BY UndisturbedBefore DEF TreeInv, Undisturbed
<1>2. CASE LocalMappingStep
  BY <1>1, <1>2, TreeLocalMapping
<1>3. CASE SetBadFlagStep
  BY <1>1, <1>3, TreeSetBadFlag DEF SetBadFlagStep
<1>4. CASE DetectionStep
  BY <1>1, <1>4, TreeDetection
<1>5. CASE WeldMaps
  BY <1>1, <1>5, TreeWelded
<1>6. CASE RefuseMerge \/ BeginMerge \/ BeginLoop \/ CloseLoop \/ UNCHANGED vars
  <2>1. UNCHANGED <<mspKeyFrames, mbBad, mpMap, mnInitKFid, lmPc, mpCurrentKeyFrame, vPairs, created, eraser>>
    BY <1>6 DEF RefuseMerge, BeginMerge, BeginLoop, CloseLoop, LcGoto, vars, graphVars, mapVars, lmVars
  <2>2. UNCHANGED treeVars
    BY <1>1, <1>6, TreeAtLoop DEF RefuseMerge, BeginMerge, BeginLoop, vars, graphVars
  <2>. QED  BY <1>1, <2>1, <2>2, TreeKept, ErasureKept, NewcomerKept DEF treeVars
<1>. QED  BY <1>2, <1>3, <1>4, <1>5, <1>6 DEF Next, OperationStep

\* The keyframes of each map hang together, whatever was culled and welded, as long as
\* no erasure was left to loop closing, no keyframe came in without connections and no
\* erased keyframe was welded.
THEOREM TreesAreSound == Spec => []TreeSound
<1>1. Spec => [](TypeInv /\ EdgeInv /\ VerifiedInv /\ KnownInv /\ TreeInv)
  <2>1. TypeInv /\ EdgeInv /\ VerifiedInv /\ KnownInv /\ TreeInv /\ [Next]_vars =>
          (TypeInv /\ EdgeInv /\ VerifiedInv /\ KnownInv /\ TreeInv)'
    BY TypeNext, EdgeNext, VerifiedNext, KnownNext, TreeNext
  <2>. QED  BY <2>1, TypeInit, EdgeInit, VerifiedInit, KnownInit, TreeInit, PTL DEF Spec
<1>2. TypeInv /\ TreeInv => TreeSound
  BY TreeSpans DEF TypeInv, GraphInv, TreeInv, Undisturbed, TreeSound
<1>. QED  BY <1>1, <1>2, PTL
(***************************************************************************)
(* Deferred erasures.                                                      *)
(***************************************************************************)
\* The first keyframe of map x is still in it.
HasFirst(x) == mnInitKFid[x] # Null /\ mpMap[mnInitKFid[x]] = x

Sought == "merge" \in Kinds /\ (candidate["merge"].coincidences > 0 \/ candidate["merge"].detected)

FirstsKept ==
  /\ \A x \in Maps : mnInitKFid[x] <= created
  /\ created > 0 => HasFirst(currentMap)
  /\ \A k \in Known : First(k) # Null
  /\ \A k \in Known \ mbBad : HasFirst(mpMap[k])
  /\ Sought => HasFirst(mpMap[candidate["merge"].matched])

\* A keyframe whose erasure was deferred is not the first of its map, and does not become it.
NoneIsFirst == \A k \in mbToBeErased \ mbBad : k # First(k)

\* Nobody erases the keyframe that local mapping connects.
NewcomerAlone ==
  lmPc \in {"count", "link"} =>
    /\ mpCurrentKeyFrame \notin mbBad \cup mbToBeErased
    /\ \A t \in Erasers : eraser[t].pc # "none" => eraser[t].kf # mpCurrentKeyFrame

\* What is bad and still in a map is about to be taken out of it.
BadLeave == \A k \in mspKeyFrames \cap mbBad : \E t \in Erasers : eraser[t].kf = k /\ eraser[t].pc = "eraseMap"

\* What loop closing has still to work on or is at work on.
Pending == {mlpLoopKeyFrameQueue[i] : i \in 1 .. Len(mlpLoopKeyFrameQueue)}
             \cup (IF lcPc = "check" THEN {} ELSE {mpCurrentKF})
InCurrent(k) == mpMap[k] = currentMap
Near(k) == {k} \cup mvpOrderedConnectedKeyFrames[k] \cup {j \in KeyFrames : mConnectedKeyFrameWeights[k][j] > 0}

\* The keyframes of the current map come last.
NewestLast ==
  /\ \A i, j \in 1 .. Len(mlpLoopKeyFrameQueue) :
       i < j /\ InCurrent(mlpLoopKeyFrameQueue[i]) => InCurrent(mlpLoopKeyFrameQueue[j])
  /\ lcPc # "check" /\ InCurrent(mpCurrentKF) =>
       \A i \in 1 .. Len(mlpLoopKeyFrameQueue) : InCurrent(mlpLoopKeyFrameQueue[i])
  /\ lmPc # "idle" => InCurrent(mpCurrentKeyFrame)

\* While keyframes of other maps are pending, the search finds none of the current map.
Older == \E p \in Pending : ~InCurrent(p)
OlderApart ==
  Older =>
    /\ \A k \in indexed \cup {q \in Pending : ~InCurrent(q)} : \A j \in Near(k) \ mbBad : ~InCurrent(j)
    /\ Sought => ~InCurrent(candidate["merge"].matched)

\* Loop closing goes on only in a map that has its first keyframe.
SearchedHasFirst == lcPc \notin {"check", "small"} => HasFirst(mpMap[mpCurrentKF])

DeferInv ==
  /\ FirstsKept /\ NoneIsFirst /\ NewcomerAlone /\ BadLeave /\ DeferredErasureIsMade
  /\ Inertial => NewestLast /\ OlderApart /\ SearchedHasFirst
-----------------------------------------------------------------------------
\* Maps come into being, grow and merge in three actions.
LEMMA MapsMove ==
  ASSUME [Next]_vars
  PROVE  (NewMapKeyFrame /\ UNCHANGED lcVars) \/ (TakeKeyFrame /\ UNCHANGED lcVars) \/ WeldMaps
           \/ UNCHANGED <<created, currentMap, mpMap, mnInitKFid>>
<1>1. CASE LocalMappingStep
  <2>1. CASE CountConnections \/ StartCulling \/ CullKeyFrame \/ HandOver
    BY <2>1 DEF CountConnections, StartCulling, CullKeyFrame, HandOver, EndIteration, mapVars
  <2>2. CASE LinkParent
    BY <2>2 DEF LinkParent
  <2>. QED  BY <1>1, <2>1, <2>2 DEF LocalMappingStep, LmGraphStep
<1>2. ASSUME NEW t \in Erasers, EraseStep(t) \/ EraseFromDatabase(t)
      PROVE  UNCHANGED <<created, currentMap, mpMap, mnInitKFid>>
  <2>1. CASE TestErase(t) \/ DetachErased(t) \/ LockErased(t) \/ AdoptChild(t)
    BY <2>1 DEF TestErase, DetachErased, LockErased, AdoptChild, mapVars
  <2>2. CASE FinishErase(t) \/ EraseFromMap(t) \/ EraseFromDatabase(t)
    BY <2>2 DEF FinishErase, EraseFromMap, EraseFromDatabase, mapVars
  <2>. QED  BY <1>2, <2>1, <2>2 DEF EraseStep
<1>3. CASE DetectionStep
  BY <1>3 DEF DetectionStep, PopKeyFrame, SkipSmallMap, SearchFromLast, SkipBoW, SearchBoW, CallSetErase, graphVars,
              mapVars
<1>4. CASE OperationStep
  BY <1>4 DEF OperationStep, RefuseMerge, BeginMerge, BeginLoop, CloseLoop, graphVars, mapVars
<1>5. CASE UNCHANGED vars
  BY <1>5 DEF vars, graphVars, mapVars
<1>. QED  BY <1>1, <1>2, <1>3, <1>4, <1>5 DEF Next, SetBadFlagStep

\* A keyframe becomes known only when it is created; none comes back to life.
LEMMA LiveKnown ==
  ASSUME TypeInv, EdgeInv, KnownInv, [Next]_vars
  PROVE  /\ mbBad \subseteq mbBad'
         /\ \/ (NewMapKeyFrame \/ TakeKeyFrame) /\ Known' = Known \cup {created'} /\ created' = created + 1
               /\ mbBad' = mbBad
            \/ Known' \subseteq Known /\ UNCHANGED created
<1>1. CASE NewMapKeyFrame \/ TakeKeyFrame
  BY <1>1 DEF NewMapKeyFrame, TakeKeyFrame, LmGoto, Known
<1>2. CASE LmGraphStep
  BY <1>2 DEF LmGraphStep, CountConnections, LinkParent, StartCulling, CullKeyFrame, LmGoto, mapVars, Known
<1>3. CASE HandOver
  BY <1>3 DEF HandOver, EndIteration, LmGoto, mapVars, Known
<1>4. ASSUME NEW t \in Erasers, EraseStep(t) \/ EraseFromDatabase(t)
      PROVE  mbBad \subseteq mbBad' /\ Known' \subseteq Known /\ UNCHANGED created
  <2>1. CASE FinishErase(t)
    <3>1. eraser[t].kf \in Known
      BY <2>1 DEF FinishErase, EraseGoto, KnownInv, ErasuresKnown
    <3>. QED  BY <2>1, <3>1 DEF FinishErase, mapVars, lmVars, Known
  <2>2. CASE EraseFromMap(t)
    BY <2>2 DEF EraseFromMap, lmVars, Known
  <2>3. CASE ~FinishErase(t) /\ ~EraseFromMap(t)
    <3>1. UNCHANGED <<mspKeyFrames, mbBad, lmPc, mpCurrentKeyFrame, created>>
      BY <1>4, <2>3 DEF EraseStep, TestErase, DetachErased, LockErased, AdoptChild, EraseFromDatabase, mapVars, lmVars
    <3>. QED  BY <3>1 DEF Known
  <2>. QED  BY <2>1, <2>2, <2>3
<1>5. CASE DetectionStep \/ OperationStep \/ UNCHANGED vars
  <2>1. UNCHANGED <<mspKeyFrames, mbBad, lmPc, mpCurrentKeyFrame, created>>
    BY <1>5 DEF DetectionStep, PopKeyFrame, SkipSmallMap, SearchFromLast, SkipBoW, SearchBoW, CallSetErase,
                OperationStep, RefuseMerge, BeginMerge, WeldMaps, BeginLoop, CloseLoop, vars, graphVars, mapVars, lmVars
  <2>. QED  BY <2>1 DEF Known
<1>. QED  BY <1>1, <1>2, <1>3, <1>4, <1>5 DEF Next, LocalMappingStep, SetBadFlagStep

\* A merge is sought with the keyframe it was sought with before, or with one the
\* bag of words just matched.
LEMMA SoughtWith ==
  ASSUME TypeInv, [Next]_vars, Sought'
  PROVE  \/ Sought /\ candidate'["merge"].matched = candidate["merge"].matched
         \/ SearchBoW /\ candidate'["merge"].matched \in Matches("merge")
<1>0. /\ "merge" \in Kinds
      /\ candidate \in [Kinds -> CandidateType] /\ candidate["merge"] \in CandidateType
  BY DEF Sought, TypeInv, LcInv, LcTypeOK
<1>a. /\ candidate'["merge"].coincidences > 0 \/ candidate'["merge"].detected
  BY DEF Sought
<1>1. CASE UNCHANGED candidate
  BY <1>1 DEF Sought
<1>2. ASSUME NEW K, Forget(K)
      PROVE  Sought /\ candidate'["merge"].matched = candidate["merge"].matched
  <2>1. CASE "merge" \in K
    <3>1. candidate'["merge"] = [candidate["merge"] EXCEPT !.coincidences = 0, !.notFound = 0, !.detected = FALSE]
      BY <1>0, <1>2, <2>1 DEF Forget
    <3>2. candidate'["merge"].coincidences = 0 /\ ~candidate'["merge"].detected
      BY <1>0, <3>1 DEF CandidateType
    <3>. QED  BY <1>a, <3>2
  <2>2. CASE "merge" \notin K
    <3>1. candidate'["merge"] = candidate["merge"]
      BY <1>0, <1>2, <2>2 DEF Forget
    <3>. QED  BY <1>0, <1>a, <3>1 DEF Sought
  <2>. QED  BY <2>1, <2>2
<1>3. ASSUME NEW kind \in {"loop", "merge"}, SearchFromLast(kind)
      PROVE  Sought /\ candidate'["merge"].matched = candidate["merge"].matched
  <2>0. CASE UNCHANGED candidate
    BY <2>0 DEF Sought
  <2>1. CASE kind # "merge" /\ kind \in Kinds /\ (FoundAgain(kind) \/ NotFound(kind))
    <3>1. candidate'["merge"] = candidate["merge"]
      BY <1>0, <2>1 DEF FoundAgain, NotFound
    <3>. QED  BY <1>0, <1>a, <3>1 DEF Sought
  <2>2. CASE kind = "merge" /\ candidate[kind].coincidences > 0 /\ FoundAgain(kind)
    <3>1. candidate'["merge"].matched = candidate["merge"].matched
      BY <1>0, <2>2 DEF FoundAgain, CandidateType
    <3>. QED  BY <1>0, <2>2, <3>1 DEF Sought
  <2>3. CASE kind = "merge" /\ candidate[kind].coincidences > 0 /\ NotFound(kind)
    <3>. DEFINE c == candidate["merge"]
                given == [c EXCEPT !.coincidences = 0, !.notFound = 0, !.detected = FALSE]
                missed == [c EXCEPT !.notFound = 1, !.detected = FALSE]
    <3>2. candidate' \in {[candidate EXCEPT !["merge"] = given], [candidate EXCEPT !["merge"] = missed]}
      BY <2>3 DEF NotFound
    <3>3. given.matched = c.matched /\ missed.matched = c.matched
      <4>1. c \in CandidateType
        BY <1>0
      <4>. HIDE DEF c
      <4>. QED  BY <4>1 DEF CandidateType
    <3>1. candidate'["merge"].matched = candidate["merge"].matched
      <4>. HIDE DEF given, missed
      <4>. QED  BY <1>0, <3>2, <3>3
    <3>. QED  BY <1>0, <2>3, <3>1 DEF Sought
  <2>. QED  BY <1>3, <2>0, <2>1, <2>2, <2>3 DEF SearchFromLast
<1>4. CASE SearchBoW
  <2>1. candidate'["merge"] \in BoWOutcomes("merge")
    BY <1>0, <1>4 DEF SearchBoW
  <2>2. CASE candidate'["merge"] = candidate["merge"]
    BY <1>0, <1>a, <2>2 DEF Sought
  <2>3. ASSUME NEW m \in Matches("merge"), NEW n \in BoWMatches, candidate'["merge"] = NewCandidate("merge", m, n)
        PROVE  candidate'["merge"].matched = m
    BY <1>0, <2>3 DEF NewCandidate, CandidateType
  <2>. QED  BY <1>4, <2>1, <2>2, <2>3 DEF BoWOutcomes
<1>5. ~UNCHANGED candidate => (\E K : Forget(K)) \/ SearchBoW \/ \E kind \in {"loop", "merge"} : SearchFromLast(kind)
  BY DEF Next, LocalMappingStep, HandOver, SetBadFlagStep, EraseFromDatabase, DetectionStep, PopKeyFrame,
         SkipSmallMap, SkipBoW, CallSetErase, OperationStep, RefuseMerge, BeginMerge, WeldMaps, BeginLoop, CloseLoop,
         lcVars, vars
<1>. QED  BY <1>1, <1>2, <1>3, <1>4, <1>5
-----------------------------------------------------------------------------
\* The first keyframes of the maps.
LEMMA SoughtKnown ==
  ASSUME TypeInv, KnownInv, Sought
  PROVE  candidate["merge"].matched \in Known /\ candidate["merge"].matched \in KeyFrames
<1>1. candidate["merge"].matched \in KeyFrames /\ "merge" \in Kinds
  BY DEF Sought, TypeInv, LcInv, Candidates
<1>. QED  BY <1>1, NullIsNoKeyFrame DEF KnownInv, SearchesKnown

LEMMA KnownKeyFrames ==
  ASSUME TypeInv, KnownInv
  PROVE  created \in Nat /\ created <= MaxKeyFrames /\ Known \subseteq 1 .. created /\ Known \subseteq KeyFrames
BY BoundsAssumption DEF TypeInv, GraphInv, GraphTypeOK, KnownInv, KeyFrames

\* Nothing known changes when a keyframe is created.
LEMMA CreatedApart ==
  ASSUME TypeInv, KnownInv, NewMapKeyFrame \/ TakeKeyFrame
  PROVE  /\ created' = created + 1 /\ created' \in KeyFrames /\ created' \notin Known /\ created' # Null
         /\ mpMap' = [mpMap EXCEPT ![created'] = currentMap'] /\ mpMap'[created'] = currentMap'
         /\ \A k \in Known : mpMap'[k] = mpMap[k]
         /\ \A x \in Maps : /\ currentMap' \in Maps
                            /\ NewMapKeyFrame => /\ mnInitKFid[currentMap'] = Null /\ mnInitKFid'[currentMap'] = created'
                                                 /\ x # currentMap' => mnInitKFid'[x] = mnInitKFid[x]
                            /\ TakeKeyFrame => currentMap' = currentMap /\ mnInitKFid' = mnInitKFid /\ created > 0
<1>0. created \in Nat /\ Known \subseteq 1 .. created /\ created < MaxKeyFrames /\ mpMap \in [KeyFrames -> Maps]
      /\ mnInitKFid \in [Maps -> KeyFrames \cup {Null}] /\ currentMap \in Maps
  BY KnownKeyFrames DEF NewMapKeyFrame, TakeKeyFrame, TypeInv, GraphInv, GraphTypeOK
<1>1. created' = created + 1 /\ mpMap' = [mpMap EXCEPT ![created'] = currentMap']
  BY DEF NewMapKeyFrame, TakeKeyFrame
<1>2. created' \in KeyFrames /\ created' \notin Known /\ created' # Null
  BY <1>0, <1>1, BoundsAssumption DEF KeyFrames, Null
<1>3. CASE NewMapKeyFrame
  <2>1. /\ currentMap' \in Maps /\ mnInitKFid[currentMap'] = Null
        /\ mnInitKFid' = [mnInitKFid EXCEPT ![currentMap'] = created']
    <3>1. PICK m \in Maps : (\A other \in Maps : mnInitKFid[other] = Null <=> other >= m) /\ currentMap' = m
      BY <1>3 DEF NewMapKeyFrame
    <3>2. m >= m
      BY <3>1, BoundsAssumption DEF Maps
    <3>. QED  BY <1>3, <3>1, <3>2 DEF NewMapKeyFrame
  <2>2. mpMap'[created'] = currentMap' /\ \A k \in Known : mpMap'[k] = mpMap[k]
    BY <1>0, <1>1, <1>2, <2>1
  <2>3. ~TakeKeyFrame
    BY <1>3 DEF NewMapKeyFrame, TakeKeyFrame, LmGoto
  <2>. QED  BY <1>0, <1>1, <1>2, <2>1, <2>2, <2>3
<1>4. CASE TakeKeyFrame
  <2>1. currentMap' = currentMap /\ mnInitKFid' = mnInitKFid /\ created > 0
    BY <1>0, <1>4 DEF TakeKeyFrame
  <2>2. mpMap'[created'] = currentMap' /\ \A k \in Known : mpMap'[k] = mpMap[k]
    BY <1>0, <1>1, <1>2, <2>1
  <2>3. ~NewMapKeyFrame
    BY <1>4 DEF NewMapKeyFrame, TakeKeyFrame, LmGoto
  <2>. QED  BY <1>0, <1>1, <1>2, <2>1, <2>2, <2>3
<1>. QED  BY <1>3, <1>4

\* A map keeps its first keyframe when keyframes are created.
LEMMA FirstStays ==
  ASSUME TypeInv, KnownInv, FirstsKept, NewMapKeyFrame \/ TakeKeyFrame, NEW x \in Maps, HasFirst(x)
  PROVE  HasFirst(x)'
<1>1. mnInitKFid[x] <= created /\ mnInitKFid[x] \in KeyFrames /\ created \in Nat /\ mpMap \in [KeyFrames -> Maps]
  BY KnownKeyFrames DEF FirstsKept, HasFirst, TypeInv, GraphInv, GraphTypeOK
<1>2. mnInitKFid[x] # created' /\ mpMap'[mnInitKFid[x]] = x
  <2>1. created' = created + 1 /\ mpMap' = [mpMap EXCEPT ![created'] = currentMap']
    BY CreatedApart
  <2>2. mnInitKFid[x] \in Nat /\ mpMap[mnInitKFid[x]] = x
    BY <1>1, NullIsNoKeyFrame DEF HasFirst
  <2>3. mnInitKFid[x] # created'
    BY <1>1, <2>1, <2>2
  <2>. QED  BY <1>1, <2>1, <2>2, <2>3
<1>3. mnInitKFid'[x] = mnInitKFid[x]
  BY CreatedApart DEF HasFirst
<1>. QED  BY <1>2, <1>3 DEF HasFirst

LEMMA FirstsCreated ==
  ASSUME TypeInv, EdgeInv, KnownInv, FirstsKept, (NewMapKeyFrame \/ TakeKeyFrame) /\ UNCHANGED lcVars
  PROVE  FirstsKept'
<1>0. /\ mpMap \in [KeyFrames -> Maps] /\ mnInitKFid \in [Maps -> KeyFrames \cup {Null}] /\ currentMap \in Maps
      /\ Known \subseteq KeyFrames /\ created \in Nat
  BY KnownKeyFrames DEF TypeInv, GraphInv, GraphTypeOK
<1>1. created' = created + 1 /\ currentMap' \in Maps
  BY CreatedApart, <1>0
<1>2. \A x \in Maps : mnInitKFid'[x] <= created'
  <2>1. ASSUME NEW x \in Maps  PROVE mnInitKFid'[x] <= created'
    <3>1. mnInitKFid[x] <= created /\ mnInitKFid[x] \in Nat
      <4>1. mnInitKFid[x] <= created
        BY DEF FirstsKept
      <4>2. mnInitKFid[x] \in KeyFrames \cup {Null}
        BY <1>0
      <4>3. \A k \in KeyFrames : k \in Nat
        BY NullIsNoKeyFrame
      <4>4. mnInitKFid[x] \in Nat
        BY <4>2, <4>3 DEF Null
      <4>. QED  BY <4>1, <4>4
    <3>2. mnInitKFid'[x] = mnInitKFid[x] \/ mnInitKFid'[x] = created'
      BY CreatedApart
    <3>. QED  BY <1>0, <1>1, <3>1, <3>2
  <2>. QED  BY <2>1
<1>3. HasFirst(currentMap)'
  <2>1. CASE NewMapKeyFrame
    BY <1>0, <2>1, CreatedApart DEF HasFirst
  <2>2. CASE TakeKeyFrame
    <3>1. currentMap' = currentMap /\ HasFirst(currentMap)
      BY <1>0, <2>2, CreatedApart DEF FirstsKept
    <3>2. HasFirst(currentMap)' <=> (mnInitKFid'[currentMap] # Null /\ mpMap'[mnInitKFid'[currentMap]] = currentMap)
      BY <3>1 DEF HasFirst
    <3>3. mnInitKFid'[currentMap] # Null /\ mpMap'[mnInitKFid'[currentMap]] = currentMap
      <4>1. PICK x \in Maps : x = currentMap
        BY <1>0
      <4>2. HasFirst(x)'
        BY <3>1, <4>1, FirstStays
      <4>. QED  BY <4>1, <4>2 DEF HasFirst
    <3>. QED  BY <3>2, <3>3
  <2>. QED  BY <2>1, <2>2
<1>4. ASSUME NEW k \in Known', k \notin mbBad'  PROVE HasFirst(mpMap[k])'
  <2>0. Known' = Known \cup {created'} /\ mbBad' = mbBad
    BY DEF NewMapKeyFrame, TakeKeyFrame, LmGoto, Known
  <2>1. CASE k = created'
    <3>1. mpMap'[k] = currentMap'
      BY <2>1, <1>0, CreatedApart
    <3>. QED  BY <1>3, <3>1 DEF HasFirst
  <2>2. CASE k \in Known
    <3>1. PICK x \in Maps : x = mpMap[k]
      BY <1>0, <2>2
    <3>2. HasFirst(x)' /\ mpMap'[k] = x
      BY <1>4, <2>0, <2>2, <3>1, FirstStays, CreatedApart DEF FirstsKept
    <3>. QED  BY <3>2 DEF HasFirst
  <2>. QED  BY <2>0, <2>1, <2>2
<1>5. Sought' => HasFirst(mpMap[candidate["merge"].matched])'
  <2>. SUFFICES ASSUME Sought'  PROVE HasFirst(mpMap[candidate["merge"].matched])'
    OBVIOUS
  <2>1. candidate' = candidate /\ Sought
    BY DEF Sought, lcVars
  <2>2. PICK k \in Known : k = candidate["merge"].matched
    BY <2>1, SoughtKnown
  <2>3. PICK x \in Maps : x = mpMap[k]
    BY <1>0
  <2>4. HasFirst(x)' /\ mpMap'[k] = x
    BY <2>1, <2>2, <2>3, FirstStays, CreatedApart DEF FirstsKept
  <2>. QED  BY <2>1, <2>2, <2>4 DEF HasFirst
<1>6. ASSUME NEW k \in Known'  PROVE mnInitKFid'[mpMap'[k]] # Null
  <2>0. Known' = Known \cup {created'}
    BY DEF NewMapKeyFrame, TakeKeyFrame, LmGoto, Known
  <2>1. CASE k = created'
    <3>1. mpMap'[k] = currentMap'
      BY <2>1, <1>0, CreatedApart
    <3>. QED  BY <1>3, <3>1 DEF HasFirst
  <2>2. CASE k \in Known
    <3>1. mpMap[k] \in Maps /\ mpMap'[k] = mpMap[k] /\ mnInitKFid[mpMap[k]] # Null
      BY <1>0, <2>2, CreatedApart DEF FirstsKept, First
    <3>2. mnInitKFid'[mpMap[k]] \in {mnInitKFid[mpMap[k]], created'} /\ created' # Null
      BY <3>1, CreatedApart
    <3>. QED  BY <3>1, <3>2
  <2>. QED  BY <2>0, <2>1, <2>2
<1>. QED  BY <1>2, <1>3, <1>4, <1>5, <1>6 DEF FirstsKept, First
-----------------------------------------------------------------------------
\* What a weld moves: the live keyframes of the map of Welded, to a map that has its
\* first keyframe and keeps it.
LEMMA WeldMoves ==
  ASSUME TypeInv, VerifiedInv, KnownInv, FirstsKept, ~Inertial \/ HasFirst(mpMap[mpCurrentKF]), WeldMaps,
         NEW x, NEW y, x = mpMap[WeldedTo], y = mpMap[Welded]
  PROVE  /\ x \in Maps /\ y \in Maps /\ HasFirst(x)
         /\ lmPc = "idle" /\ UNCHANGED <<created, mnInitKFid, mspKeyFrames, mbBad, mbToBeErased, eraser, lmPc>>
         /\ currentMap' = IF Inertial THEN currentMap ELSE x
         /\ Known' = Known /\ Known \ mbBad = Live /\ Known \subseteq KeyFrames
         /\ \A a \in Live : mpMap'[a] = IF mpMap[a] = y THEN x ELSE mpMap[a]
         /\ \A a \in KeyFrames : mpMap'[a] = IF mpMap[a] = y /\ a \in Live THEN x ELSE mpMap[a]
<1>0. GraphTypeOK /\ Known \subseteq KeyFrames
  BY KnownKeyFrames DEF TypeInv, GraphInv
<1>1. /\ lmPc = "idle" /\ lcPc = "weld"
      /\ UNCHANGED <<created, mnInitKFid, mspKeyFrames, mbBad, mbToBeErased, eraser, lmPc, mpCurrentKeyFrame>>
      /\ currentMap' = IF Inertial THEN currentMap ELSE x
      /\ mpMap' = [a \in KeyFrames |-> IF mpMap[a] = y /\ a \in Live THEN x ELSE mpMap[a]]
  BY DEF WeldMaps, lmVars, Live
<1>2. Welded \in KeyFrames /\ WeldedTo \in KeyFrames
  BY <1>1, WeldedKnown
<1>3. x \in Maps /\ y \in Maps
  BY <1>0, <1>2 DEF GraphTypeOK
<1>4. HasFirst(x)
  <2>1. CASE Inertial
    BY <2>1 DEF WeldedTo
  <2>2. CASE ~Inertial
    <3>1. "merge" \in Kinds /\ candidate["merge"].detected
      BY <1>1 DEF VerifiedInv, CarriedOut, DetectedKind
    <3>2. HasFirst(mpMap[candidate["merge"].matched])
      BY <3>1 DEF FirstsKept, Sought
    <3>. QED  BY <2>2, <3>2 DEF WeldedTo
  <2>. QED  BY <2>1, <2>2
<1>5. Known' = Known /\ Known \ mbBad = Live
  BY <1>1 DEF Known, Live
<1>6. /\ \A a \in KeyFrames : mpMap'[a] = IF mpMap[a] = y /\ a \in Live THEN x ELSE mpMap[a]
      /\ Live \subseteq KeyFrames
  BY <1>0, <1>1, <1>5
<1>. QED  BY <1>0, <1>1, <1>3, <1>4, <1>5, <1>6

LEMMA FirstsWelded ==
  ASSUME TypeInv, VerifiedInv, KnownInv, FirstsKept, WeldMaps,
         Inertial => /\ HasFirst(mpMap[mpCurrentKF])
                     /\ mpMap[Welded] = currentMap => mpMap[WeldedTo] = currentMap
  PROVE  FirstsKept'
<1>1. PICK x, y : x = mpMap[WeldedTo] /\ y = mpMap[Welded]
  OBVIOUS
<1>2. /\ x \in Maps /\ y \in Maps /\ HasFirst(x)
      /\ UNCHANGED <<created, mnInitKFid, mbBad>>
      /\ currentMap' = IF Inertial THEN currentMap ELSE x
      /\ Known' = Known /\ Known \ mbBad = Live
      /\ \A a \in Live : mpMap'[a] = IF mpMap[a] = y THEN x ELSE mpMap[a]
      /\ \A a \in KeyFrames : mpMap'[a] = IF mpMap[a] = y /\ a \in Live THEN x ELSE mpMap[a]
  BY <1>1, WeldMoves
<1>3. mnInitKFid \in [Maps -> KeyFrames \cup {Null}] /\ currentMap \in Maps
  BY DEF TypeInv, GraphInv, GraphTypeOK
<1>4. ASSUME NEW z \in Maps, HasFirst(z), z = x \/ z # y  PROVE HasFirst(z)'
  <2>1. mnInitKFid[z] \in KeyFrames
    BY <1>3, <1>4 DEF HasFirst
  <2>2. mpMap'[mnInitKFid[z]] = z
    BY <1>2, <1>4, <2>1 DEF HasFirst
  <2>. QED  BY <1>2, <1>4, <2>2 DEF HasFirst
<1>5. \A z \in Maps : mnInitKFid'[z] <= created'
  BY <1>2 DEF FirstsKept
<1>6. created' > 0 => HasFirst(currentMap)'
  <2>. SUFFICES ASSUME created > 0  PROVE HasFirst(currentMap)'
    BY <1>2
  <2>1. PICK z \in Maps : z = currentMap'
    BY <1>2, <1>3
  <2>2. HasFirst(z) /\ (z = x \/ z # y)
    BY <1>1, <1>2, <2>1 DEF FirstsKept
  <2>. QED  BY <1>4, <2>1, <2>2 DEF HasFirst
<1>7. ASSUME NEW k \in Known', k \notin mbBad'  PROVE HasFirst(mpMap[k])'
  <2>1. k \in Live /\ HasFirst(mpMap[k])
    BY <1>2, <1>7 DEF FirstsKept
  <2>2. PICK z : z = mpMap'[k]
    OBVIOUS
  <2>3. z \in Maps /\ HasFirst(z) /\ (z = x \/ z # y)
    <3>1. mpMap[k] \in Maps
      BY <2>1, LiveIsClosed DEF TypeInv, GraphInv, GraphTypeOK, Live
    <3>. QED  BY <1>2, <2>1, <2>2, <3>1
  <2>. QED  BY <1>4, <2>2, <2>3 DEF HasFirst
<1>8. ~Sought'
  <2>1. \E K : "merge" \in K /\ Forget(K)
    BY DEF WeldMaps
  <2>2. ASSUME Sought'  PROVE FALSE
    <3>1. /\ "merge" \in Kinds /\ candidate["merge"] \in CandidateType
          /\ candidate'["merge"].coincidences > 0 \/ candidate'["merge"].detected
      BY <2>2 DEF Sought, TypeInv, LcInv, LcTypeOK
    <3>2. candidate'["merge"] = [candidate["merge"] EXCEPT !.coincidences = 0, !.notFound = 0, !.detected = FALSE]
      BY <2>1, <3>1 DEF Forget
    <3>3. candidate'["merge"].coincidences = 0 /\ ~candidate'["merge"].detected
      BY <3>1, <3>2 DEF CandidateType
    <3>. QED  BY <3>1, <3>3
  <2>. QED  BY <2>2
<1>9. ASSUME NEW k \in Known'  PROVE First(k)' # Null
  <2>1. k \in KeyFrames /\ First(k) # Null
    BY <1>2, <1>9, KnownKeyFrames DEF FirstsKept
  <2>2. mpMap'[k] \in {x, mpMap[k]}
    BY <1>2, <2>1
  <2>. QED  BY <1>2, <2>1, <2>2 DEF First, HasFirst
<1>. QED  BY <1>5, <1>6, <1>7, <1>8, <1>9 DEF FirstsKept

LEMMA FirstsSame ==
  ASSUME TypeInv, KnownInv, FirstsKept, [Next]_vars, UNCHANGED <<created, currentMap, mpMap, mnInitKFid>>,
         Known' \subseteq Known, mbBad \subseteq mbBad'
  PROVE  FirstsKept'
<1>1. ASSUME Sought'  PROVE HasFirst(mpMap[candidate'["merge"].matched])
  <2>1. CASE Sought /\ candidate'["merge"].matched = candidate["merge"].matched
    BY <2>1 DEF FirstsKept
  <2>2. CASE candidate'["merge"].matched \in Matches("merge")
    <3>1. candidate'["merge"].matched \in Known \ mbBad
      BY <2>2, MatchesKnown DEF KnownInv, TypeInv, GraphInv, Matches
    <3>. QED  BY <3>1 DEF FirstsKept
  <2>. QED  BY <1>1, <2>1, <2>2, SoughtWith
<1>. QED  BY <1>1 DEF FirstsKept, HasFirst, First
-----------------------------------------------------------------------------
\* The calls of SetBadFlag and what they leave behind.
LEMMA ErasersMove ==
  ASSUME [Next]_vars
  PROVE  \/ \E t \in Erasers : EraseStep(t) \/ EraseFromDatabase(t)
         \/ CallSetErase
         \/ CullKeyFrame
         \/ UNCHANGED <<eraser, mbToBeErased, mbBad>> /\ mbNotErase \subseteq mbNotErase'
<1>1. CASE LocalMappingStep
  BY <1>1 DEF LocalMappingStep, LmGraphStep, NewMapKeyFrame, TakeKeyFrame, CountConnections, LinkParent, StartCulling,
              HandOver, EndIteration, flagVars
<1>2. CASE SetBadFlagStep
  BY <1>2 DEF SetBadFlagStep
<1>3. CASE DetectionStep
  BY <1>3 DEF DetectionStep, PopKeyFrame, SetNotErase, SkipSmallMap, SearchFromLast, SkipBoW, SearchBoW, graphVars,
              flagVars
<1>4. CASE OperationStep
  BY <1>4 DEF OperationStep, RefuseMerge, BeginMerge, WeldMaps, BeginLoop, CloseLoop, AddLoopEdges, graphVars, flagVars
<1>5. CASE UNCHANGED vars
  BY <1>5 DEF vars, graphVars, flagVars
<1>. QED  BY <1>1, <1>2, <1>3, <1>4, <1>5 DEF Next

\* The other thread's call stays as it is; this one's goes on with its keyframe, ends
\* with it in the database, or ends at its test.
LEMMA EraserOutcome ==
  ASSUME TypeInv, EraserShape, KnownInv, NEW t \in Erasers, EraseStep(t) \/ EraseFromDatabase(t)
  PROVE  /\ \A o \in Erasers \ {t} : eraser'[o] = eraser[o]
         /\ eraser[t].pc # "none" /\ mbNotErase' = mbNotErase
         /\ UNCHANGED <<mpMap, mnInitKFid, lmPc, mpCurrentKeyFrame, created>>
         /\ \/ eraser'[t].kf = eraser[t].kf /\ mbToBeErased' = mbToBeErased
               /\ (eraser[t].pc = "eraseMap" => EraseFromMap(t))
            \/ eraser[t].pc # "eraseMap" /\ eraser'[t].pc = "none"
               /\ \/ mbToBeErased' = mbToBeErased
                     /\ (eraser[t].kf \in mbBad \/ eraser[t].kf = First(eraser[t].kf))
                  \/ mbToBeErased' = mbToBeErased \cup {eraser[t].kf} /\ eraser[t].kf \in mbNotErase
                     /\ eraser[t].kf # First(eraser[t].kf)
         /\ (FinishErase(t) /\ mbBad' = mbBad \cup {eraser[t].kf} /\ eraser'[t].pc = "eraseMap"
              /\ eraser'[t].kf = eraser[t].kf)
             \/ mbBad' = mbBad
         /\ mspKeyFrames' \subseteq mspKeyFrames
<1>1. CASE EraseFromDatabase(t)
  <2>1. eraser[t].pc = "eraseDB" /\ eraser[t].kf \in mbBad
    BY <1>1 DEF EraseFromDatabase, KnownInv, ErasuresKnown
  <2>2. eraser'[t] = Idle /\ \A o \in Erasers \ {t} : eraser'[o] = eraser[o]
    BY <1>1 DEF EraseFromDatabase, EraserShape
  <2>3. UNCHANGED <<mbNotErase, mpMap, mnInitKFid, lmPc, mpCurrentKeyFrame, created, mbToBeErased, mbBad, mspKeyFrames>>
    BY <1>1 DEF EraseFromDatabase, mapVars, flagVars, lmVars
  <2>. QED  BY <2>1, <2>2, <2>3 DEF Idle
<1>2. CASE TestErase(t)
  <2>1. /\ UNCHANGED <<mbNotErase, mpMap, mnInitKFid, lmPc, mpCurrentKeyFrame, created, mbBad, mspKeyFrames>>
        /\ eraser[t].pc = "test"
    BY <1>2 DEF TestErase, mapVars, lmVars
  <2>2. CASE EraseGoto(t, "test", "detach") /\ UNCHANGED mbToBeErased
    BY <2>1, <2>2, GotoMoves
  <2>3. CASE eraser' = [eraser EXCEPT ![t] = Idle]
    <3>1. eraser'[t] = Idle /\ \A o \in Erasers \ {t} : eraser'[o] = eraser[o]
      BY <2>3 DEF EraserShape
    <3>2. CASE eraser[t].kf = First(eraser[t].kf) /\ UNCHANGED mbToBeErased
      BY <2>1, <3>1, <3>2 DEF Idle
    <3>3. CASE eraser[t].kf # First(eraser[t].kf) /\ eraser[t].kf \in mbNotErase
               /\ mbToBeErased' = mbToBeErased \cup {eraser[t].kf}
      BY <2>1, <3>1, <3>3 DEF Idle
    <3>4. CASE EraseGoto(t, "test", "detach") /\ UNCHANGED mbToBeErased
      BY <2>2, <3>4
    <3>. QED  BY <1>2, <3>2, <3>3, <3>4 DEF TestErase, First
  <2>. QED  BY <1>2, <2>2, <2>3 DEF TestErase
<1>3. CASE DetachErased(t)
  <2>1. /\ UNCHANGED <<mbNotErase, mpMap, mnInitKFid, lmPc, mpCurrentKeyFrame, created, mbToBeErased, mbBad, mspKeyFrames>>
        /\ EraseGoto(t, "detach", "lock")
    BY <1>3 DEF DetachErased, mapVars, flagVars, lmVars
  <2>. QED  BY <2>1, GotoMoves
<1>4. CASE LockErased(t)
  <2>1. UNCHANGED <<mbNotErase, mpMap, mnInitKFid, lmPc, mpCurrentKeyFrame, created, mbToBeErased, mbBad, mspKeyFrames>>
    BY <1>4 DEF LockErased, mapVars, flagVars, lmVars
  <2>2. /\ eraser[t].pc = "lock" /\ eraser'[t].kf = eraser[t].kf
        /\ \A o \in Erasers \ {t} : eraser'[o] = eraser[o]
    BY <1>4 DEF LockErased, EraserShape
  <2>. QED  BY <2>1, <2>2
<1>5. CASE AdoptChild(t)
  <2>1. UNCHANGED <<mbNotErase, mpMap, mnInitKFid, lmPc, mpCurrentKeyFrame, created, mbToBeErased, mbBad, mspKeyFrames>>
    BY <1>5 DEF AdoptChild, mapVars, flagVars, lmVars
  <2>2. /\ eraser[t].pc = "assign" /\ eraser'[t].kf = eraser[t].kf
        /\ \A o \in Erasers \ {t} : eraser'[o] = eraser[o]
    BY <1>5 DEF AdoptChild, EraserShape
  <2>. QED  BY <2>1, <2>2
<1>6. CASE FinishErase(t)
  <2>1. /\ UNCHANGED <<mbNotErase, mpMap, mnInitKFid, lmPc, mpCurrentKeyFrame, created, mbToBeErased, mspKeyFrames>>
        /\ EraseGoto(t, "assign", "eraseMap") /\ mbBad' = mbBad \cup {eraser[t].kf}
    BY <1>6 DEF FinishErase, mapVars, flagVars, lmVars
  <2>. QED  BY <1>6, <2>1, GotoMoves
<1>7. CASE EraseFromMap(t)
  <2>1. /\ UNCHANGED <<mbNotErase, mpMap, mnInitKFid, lmPc, mpCurrentKeyFrame, created, mbToBeErased, mbBad>>
        /\ EraseGoto(t, "eraseMap", "eraseDB") /\ mspKeyFrames' \subseteq mspKeyFrames
    BY <1>7 DEF EraseFromMap, mapVars, flagVars, lmVars
  <2>. QED  BY <1>7, <2>1, GotoMoves
<1>. QED  BY <1>1, <1>2, <1>3, <1>4, <1>5, <1>6, <1>7 DEF EraseStep

\* What a call of SetErase or the culling begins.
LEMMA EraserBegins ==
  ASSUME EraserShape, CallSetErase \/ CullKeyFrame
  PROVE  /\ UNCHANGED <<mpMap, mnInitKFid, lmPc, mpCurrentKeyFrame, created, mbToBeErased, mbBad, mspKeyFrames>>
         /\ \E t \in Erasers :
              /\ eraser[t] = Idle /\ \A o \in Erasers \ {t} : eraser'[o] = eraser[o]
              /\ \/ CullKeyFrame /\ mbNotErase' = mbNotErase
                 \/ CallSetErase /\ \E k : mbNotErase \subseteq mbNotErase' \cup {k}
                                           /\ (k \in mbToBeErased => eraser'[t].kf = k)
              /\ eraser'[t] = Idle \/ lmPc = "handOff" \/ eraser'[t].kf \in mbToBeErased
<1>1. CASE CallSetErase
  <2>. DEFINE k == Head(toSetErase)
  <2>1. /\ UNCHANGED <<mpMap, mnInitKFid, lmPc, mpCurrentKeyFrame, created, mbToBeErased, mbBad, mspKeyFrames>>
        /\ eraser["LC"] = Idle /\ mbNotErase \subseteq mbNotErase' \cup {k}
    BY <1>1 DEF CallSetErase, SetErase, mapVars, lmVars
  <2>2. /\ \A o \in Erasers \ {"LC"} : eraser'[o] = eraser[o]
        /\ k \in mbToBeErased => eraser'["LC"].kf = k
        /\ eraser'["LC"] = Idle \/ eraser'["LC"].kf \in mbToBeErased
    BY <1>1 DEF CallSetErase, SetErase, EraserShape, Idle, Erasers
  <2>. HIDE DEF k
  <2>3. "LC" \in Erasers
    BY DEF Erasers
  <2>. QED  BY <1>1, <2>1, <2>2, <2>3
<1>2. CASE CullKeyFrame
  <2>1. /\ UNCHANGED <<mpMap, mnInitKFid, lmPc, mpCurrentKeyFrame, created, mbToBeErased, mbBad, mspKeyFrames>>
        /\ eraser["LM"] = Idle /\ mbNotErase' = mbNotErase /\ lmPc = "handOff"
    BY <1>2 DEF CullKeyFrame, mapVars, flagVars
  <2>2. \A o \in Erasers \ {"LM"} : eraser'[o] = eraser[o]
    BY <1>2 DEF CullKeyFrame, EraserShape
  <2>3. "LM" \in Erasers
    BY DEF Erasers
  <2>. QED  BY <1>2, <2>1, <2>2, <2>3
<1>. QED  BY <1>1, <1>2
-----------------------------------------------------------------------------
LEMMA NoneIsFirstNext ==
  ASSUME TypeInv, EdgeInv, VerifiedInv, KnownInv, FirstsKept, NoneIsFirst, [Next]_vars,
         Inertial => (lcPc = "weld" => HasFirst(mpMap[mpCurrentKF]))
  PROVE  NoneIsFirst'
<1>0. /\ mbToBeErased \subseteq Known /\ mbToBeErased \subseteq KeyFrames /\ mbBad \subseteq mbBad' /\ EraserShape
      /\ mpMap \in [KeyFrames -> Maps]
  BY LiveKnown DEF KnownInv, ErasuresKnown, TypeInv, GraphInv, GraphTypeOK, EdgeInv
<1>1. CASE NewMapKeyFrame \/ TakeKeyFrame
  <2>1. mbToBeErased' = mbToBeErased
    BY <1>1 DEF NewMapKeyFrame, TakeKeyFrame, flagVars
  <2>2. ASSUME NEW k \in mbToBeErased, k \notin mbBad  PROVE k # mnInitKFid'[mpMap'[k]]
    <3>1. k # First(k) /\ mpMap'[k] = mpMap[k] /\ mpMap[k] \in Maps /\ k \in Known
      BY <1>0, <1>1, <2>2, CreatedApart DEF NoneIsFirst
    <3>2. mnInitKFid'[mpMap[k]] \in {mnInitKFid[mpMap[k]], created'} /\ created' \notin Known
      BY <1>1, <3>1, CreatedApart
    <3>. QED  BY <3>1, <3>2 DEF First
  <2>. QED  BY <1>0, <2>1, <2>2 DEF NoneIsFirst, First
<1>2. CASE WeldMaps
  <2>1. PICK x, y : x = mpMap[WeldedTo] /\ y = mpMap[Welded]
    OBVIOUS
  <2>2. ~Inertial \/ HasFirst(mpMap[mpCurrentKF])
    BY <1>2 DEF WeldMaps
  <2>3. /\ HasFirst(x) /\ UNCHANGED <<mnInitKFid, mbBad, mbToBeErased>>
        /\ \A a \in KeyFrames : mpMap'[a] = IF mpMap[a] = y /\ a \in Live THEN x ELSE mpMap[a]
    BY <1>2, <2>1, <2>2, WeldMoves
  <2>4. ASSUME NEW k \in mbToBeErased, k \notin mbBad  PROVE k # mnInitKFid[mpMap'[k]]
    <3>1. k # mnInitKFid[mpMap[k]] /\ k \in KeyFrames
      BY <1>0, <2>4 DEF NoneIsFirst, First
    <3>2. mpMap'[k] \in {x, mpMap[k]}
      BY <2>3, <3>1
    <3>3. x # mpMap[k] => k # mnInitKFid[x]
      BY <2>3 DEF HasFirst
    <3>. QED  BY <3>1, <3>2, <3>3
  <2>. QED  BY <2>3, <2>4 DEF NoneIsFirst, First
<1>3. ASSUME UNCHANGED <<mpMap, mnInitKFid>>  PROVE NoneIsFirst'
  <2>1. mbToBeErased' = mbToBeErased
          \/ \E k : mbToBeErased' = mbToBeErased \cup {k} /\ k # First(k)
    <3>1. ASSUME NEW t \in Erasers, EraseStep(t) \/ EraseFromDatabase(t)
          PROVE  mbToBeErased' = mbToBeErased
                   \/ \E k : mbToBeErased' = mbToBeErased \cup {k} /\ k # First(k)
      BY <1>0, <3>1, EraserOutcome
    <3>2. CASE CallSetErase \/ CullKeyFrame
      BY <1>0, <3>2, EraserBegins
    <3>. QED  BY <3>1, <3>2, ErasersMove
  <2>. QED  BY <1>0, <1>3, <2>1 DEF NoneIsFirst, First
<1>. QED  BY <1>1, <1>2, <1>3, MapsMove

LEMMA DeferredNext ==
  ASSUME TypeInv, EdgeInv, VerifiedInv, KnownInv, NoneIsFirst, DeferredErasureIsMade, [Next]_vars
  PROVE  DeferredErasureIsMade'
<1>0. /\ mbToBeErased \subseteq KeyFrames /\ mbBad \subseteq mbBad' /\ EraserShape /\ Null \notin KeyFrames
      /\ mbToBeErased' \subseteq KeyFrames
  BY LiveKnown, TypeNext, NullIsNoKeyFrame DEF TypeInv, GraphInv, GraphTypeOK, EdgeInv
<1>. SUFFICES ASSUME NEW k \in mbToBeErased', k \notin mbNotErase', k \notin mbBad'
              PROVE  \E t \in Erasers : eraser'[t].kf = k
  BY DEF DeferredErasureIsMade
<1>1. CASE UNCHANGED <<eraser, mbToBeErased, mbBad>> /\ mbNotErase \subseteq mbNotErase'
  BY <1>1 DEF DeferredErasureIsMade
<1>2. ASSUME NEW t \in Erasers, EraseStep(t) \/ EraseFromDatabase(t)  PROVE \E u \in Erasers : eraser'[u].kf = k
  <2>1. mbNotErase' = mbNotErase /\ \A o \in Erasers \ {t} : eraser'[o] = eraser[o]
    BY <1>0, <1>2, EraserOutcome
  <2>2. k \in mbToBeErased
    BY <1>0, <1>2, <2>1, EraserOutcome
  <2>3. PICK u \in Erasers : eraser[u].kf = k
    BY <1>0, <2>1, <2>2 DEF DeferredErasureIsMade
  <2>4. CASE u # t
    BY <2>1, <2>3, <2>4
  <2>5. CASE u = t
    <3>1. k # First(k) /\ k \notin mbNotErase /\ k \notin mbBad
      BY <1>0, <2>1, <2>2 DEF NoneIsFirst
    <3>2. eraser'[t].kf = k
      BY <1>0, <1>2, <2>3, <2>5, <3>1, EraserOutcome
    <3>. QED  BY <3>2
  <2>. QED  BY <2>4, <2>5
<1>3. CASE CallSetErase \/ CullKeyFrame
  <2>1. UNCHANGED <<mbToBeErased, mbBad>>
    BY <1>0, <1>3, EraserBegins
  <2>2. PICK t \in Erasers :
          /\ eraser[t] = Idle /\ \A o \in Erasers \ {t} : eraser'[o] = eraser[o]
          /\ \/ CullKeyFrame /\ mbNotErase' = mbNotErase
             \/ CallSetErase /\ \E x : mbNotErase \subseteq mbNotErase' \cup {x}
                                       /\ (x \in mbToBeErased => eraser'[t].kf = x)
    BY <1>0, <1>3, EraserBegins
  <2>3. CASE k \in mbNotErase
    BY <2>1, <2>2, <2>3
  <2>4. CASE k \notin mbNotErase
    <3>1. PICK u \in Erasers : eraser[u].kf = k
      BY <1>0, <2>1, <2>4 DEF DeferredErasureIsMade
    <3>2. u # t
      BY <1>0, <2>1, <2>2, <3>1 DEF Idle
    <3>. QED  BY <2>2, <3>1, <3>2
  <2>. QED  BY <2>3, <2>4
<1>. QED  BY <1>1, <1>2, <1>3, ErasersMove

-----------------------------------------------------------------------------
LEMMA NewcomerNext ==
  ASSUME TypeInv, EdgeInv, KnownInv, NewcomerAlone, [Next]_vars
  PROVE  NewcomerAlone'
<1>. SUFFICES ASSUME lmPc' \in {"count", "link"}
              PROVE  /\ mpCurrentKeyFrame' \notin mbBad' \cup mbToBeErased'
                     /\ \A t \in Erasers : eraser'[t].pc # "none" => eraser'[t].kf # mpCurrentKeyFrame'
  BY DEF NewcomerAlone
<1>0. EraserShape /\ mbToBeErased \subseteq Known /\ mbBad \subseteq Known
      /\ \A t \in Erasers : eraser[t].pc # "none" => eraser[t].kf \in Known
  BY DEF EdgeInv, KnownInv, ErasuresKnown, Known
<1>1. CASE TakeKeyFrame
  <2>1. /\ mpCurrentKeyFrame' = created' /\ UNCHANGED <<mbBad, mbToBeErased, eraser>>
    BY <1>1 DEF TakeKeyFrame, flagVars
  <2>2. created' \notin Known
    BY <1>1, CreatedApart
  <2>. QED  BY <1>0, <2>1, <2>2
<1>2. ASSUME ~TakeKeyFrame  PROVE lmPc \in {"count", "link"} /\ mpCurrentKeyFrame' = mpCurrentKeyFrame
  <2>1. CASE LocalMappingStep
    BY <1>2, <2>1 DEF LocalMappingStep, LmGraphStep, NewMapKeyFrame, CountConnections, LinkParent, StartCulling,
                      CullKeyFrame, HandOver, EndIteration, LmGoto
  <2>2. CASE SetBadFlagStep
    <3>1. PICK t \in Erasers : EraseStep(t) \/ EraseFromDatabase(t)
      BY <2>2 DEF SetBadFlagStep
    <3>. QED  BY <1>0, <3>1, EraserOutcome
  <2>3. CASE DetectionStep \/ OperationStep \/ UNCHANGED vars
    BY <2>3 DEF DetectionStep, PopKeyFrame, SkipSmallMap, SearchFromLast, SkipBoW, SearchBoW, CallSetErase,
                OperationStep, RefuseMerge, BeginMerge, WeldMaps, BeginLoop, CloseLoop, vars, graphVars, lmVars
  <2>. QED  BY <2>1, <2>2, <2>3 DEF Next
<1>3. ASSUME ~TakeKeyFrame, UNCHANGED <<eraser, mbToBeErased, mbBad>>
      PROVE  /\ mpCurrentKeyFrame' \notin mbBad' \cup mbToBeErased'
             /\ \A t \in Erasers : eraser'[t].pc # "none" => eraser'[t].kf # mpCurrentKeyFrame'
  BY <1>2, <1>3 DEF NewcomerAlone
<1>4. ASSUME ~TakeKeyFrame, NEW t \in Erasers, EraseStep(t) \/ EraseFromDatabase(t)
      PROVE  /\ mpCurrentKeyFrame' \notin mbBad' \cup mbToBeErased'
             /\ \A o \in Erasers : eraser'[o].pc # "none" => eraser'[o].kf # mpCurrentKeyFrame'
  <2>1. /\ mpCurrentKeyFrame' = mpCurrentKeyFrame /\ mpCurrentKeyFrame \notin mbBad \cup mbToBeErased
        /\ \A o \in Erasers : eraser[o].pc # "none" => eraser[o].kf # mpCurrentKeyFrame
    BY <1>2, <1>4 DEF NewcomerAlone
  <2>2. /\ \A o \in Erasers \ {t} : eraser'[o] = eraser[o]
        /\ eraser[t].pc # "none"
        /\ eraser'[t].kf = eraser[t].kf \/ eraser'[t].pc = "none"
        /\ mbToBeErased' \subseteq mbToBeErased \cup {eraser[t].kf}
        /\ mbBad' \subseteq mbBad \cup {eraser[t].kf}
    BY <1>0, <1>4, EraserOutcome
  <2>. QED  BY <2>1, <2>2
<1>5. ASSUME ~TakeKeyFrame, CallSetErase \/ CullKeyFrame
      PROVE  /\ mpCurrentKeyFrame' \notin mbBad' \cup mbToBeErased'
             /\ \A o \in Erasers : eraser'[o].pc # "none" => eraser'[o].kf # mpCurrentKeyFrame'
  <2>1. /\ mpCurrentKeyFrame' = mpCurrentKeyFrame /\ mpCurrentKeyFrame \notin mbBad \cup mbToBeErased
        /\ \A o \in Erasers : eraser[o].pc # "none" => eraser[o].kf # mpCurrentKeyFrame
        /\ lmPc # "handOff"
    BY <1>2, <1>5 DEF NewcomerAlone
  <2>2. UNCHANGED <<mbToBeErased, mbBad>>
    BY <1>0, <1>5, EraserBegins
  <2>3. PICK t \in Erasers :
          /\ \A o \in Erasers \ {t} : eraser'[o] = eraser[o]
          /\ eraser'[t] = Idle \/ lmPc = "handOff" \/ eraser'[t].kf \in mbToBeErased
    BY <1>0, <1>5, EraserBegins
  <2>. QED  BY <2>1, <2>2, <2>3 DEF Idle
<1>. QED  BY <1>1, <1>3, <1>4, <1>5, ErasersMove

LEMMA BadLeaveNext ==
  ASSUME TypeInv, EdgeInv, KnownInv, NewcomerAlone, BadLeave, [Next]_vars
  PROVE  BadLeave'
<1>0. EraserShape
  BY DEF EdgeInv
<1>1. ASSUME NEW t \in Erasers, EraseStep(t) \/ EraseFromDatabase(t), NEW k \in mspKeyFrames', k \in mbBad'
      PROVE  \E o \in Erasers : eraser'[o].kf = k /\ eraser'[o].pc = "eraseMap"
  <2>1. \A o \in Erasers \ {t} : eraser'[o] = eraser[o]
    BY <1>0, <1>1, EraserOutcome
  <2>2. k \in mspKeyFrames
    BY <1>0, <1>1, EraserOutcome
  <2>3. CASE k \notin mbBad
    BY <1>0, <1>1, <2>3, EraserOutcome
  <2>4. CASE k \in mbBad
    <3>1. PICK o \in Erasers : eraser[o].kf = k /\ eraser[o].pc = "eraseMap"
      BY <2>2, <2>4 DEF BadLeave
    <3>2. CASE o # t
      BY <2>1, <3>1, <3>2
    <3>3. CASE o = t
      <4>1. EraseFromMap(t)
        BY <1>0, <1>1, <3>1, <3>3, EraserOutcome
      <4>2. k \notin mspKeyFrames'
        BY <3>1, <3>3, <4>1 DEF EraseFromMap
      <4>. QED  BY <1>1, <4>2
    <3>. QED  BY <3>2, <3>3
  <2>. QED  BY <2>3, <2>4
<1>2. ASSUME CallSetErase \/ CullKeyFrame, NEW k \in mspKeyFrames', k \in mbBad'
      PROVE  \E o \in Erasers : eraser'[o].kf = k /\ eraser'[o].pc = "eraseMap"
  <2>1. UNCHANGED <<mbBad, mspKeyFrames>>
    BY <1>0, <1>2, EraserBegins
  <2>2. PICK t \in Erasers : eraser[t] = Idle /\ \A o \in Erasers \ {t} : eraser'[o] = eraser[o]
    BY <1>0, <1>2, EraserBegins
  <2>3. PICK o \in Erasers : eraser[o].kf = k /\ eraser[o].pc = "eraseMap"
    BY <1>2, <2>1 DEF BadLeave
  <2>4. o # t
    BY <2>2, <2>3 DEF Idle
  <2>. QED  BY <2>2, <2>3, <2>4
<1>3. ASSUME UNCHANGED <<eraser, mbBad>>  PROVE BadLeave'
  <2>1. ASSUME NEW k \in mspKeyFrames', k \in mbBad  PROVE k \in mspKeyFrames
    <3>1. CASE NewMapKeyFrame
      <4>1. created' \notin Known /\ mspKeyFrames' = mspKeyFrames \cup {created'}
        BY <3>1, CreatedApart DEF NewMapKeyFrame
      <4>. QED  BY <2>1, <4>1 DEF Known
    <3>2. CASE LinkParent
      BY <2>1, <3>2 DEF LinkParent, NewcomerAlone
    <3>3. CASE mspKeyFrames' \subseteq mspKeyFrames
      BY <2>1, <3>3
    <3>4. NewMapKeyFrame \/ LinkParent \/ mspKeyFrames' \subseteq mspKeyFrames
      BY DEF Next, LocalMappingStep, TakeKeyFrame, LmGraphStep, CountConnections,
         StartCulling, CullKeyFrame, HandOver, EndIteration, SetBadFlagStep, EraseStep, TestErase,
         DetachErased, LockErased, AdoptChild, FinishErase, EraseFromMap, EraseFromDatabase,
         DetectionStep, PopKeyFrame, SkipSmallMap, SearchFromLast, SkipBoW, SearchBoW, CallSetErase,
         OperationStep, RefuseMerge, BeginMerge, WeldMaps, BeginLoop, CloseLoop,
         mapVars, graphVars, vars
    <3>. QED  BY <3>1, <3>2, <3>3, <3>4
  <2>. QED  BY <1>3, <2>1 DEF BadLeave
<1>. QED  BY <1>1, <1>2, <1>3, ErasersMove DEF BadLeave
-----------------------------------------------------------------------------
\* With inertial sensor.  Which map is the active one, and which keyframes are in it,
\* changes when keyframes are created and when another map is welded to the active one.
LEMMA SearchedNext ==
  ASSUME TypeInv, EdgeInv, VerifiedInv, KnownInv, FirstsKept, BadLeave, SearchedHasFirst, [Next]_vars,
         MinKeyFrames >= 2
  PROVE  SearchedHasFirst'
<1>0. /\ EraserShape /\ mpMap \in [KeyFrames -> Maps] /\ GraphTypeOK
      /\ Known \subseteq KeyFrames
  BY KnownKeyFrames DEF EdgeInv, TypeInv, GraphInv, GraphTypeOK
<1>. SUFFICES ASSUME lcPc' \notin {"check", "small"}  PROVE HasFirst(mpMap[mpCurrentKF])'
  BY DEF SearchedHasFirst
<1>1. CASE SkipSmallMap
  <2>1. /\ LcReady /\ Cardinality(MapOf(mpCurrentKF)) >= MinKeyFrames
        /\ UNCHANGED <<mpMap, mnInitKFid, mpCurrentKF>>
    BY <1>1 DEF SkipSmallMap, LcGoto, graphVars, mapVars
  <2>2. IsFiniteSet(KeyFrames) /\ MapOf(mpCurrentKF) \subseteq KeyFrames
    <3>1. MaxKeyFrames \in Int /\ 1 \in Int
      BY BoundsAssumption
    <3>2. IsFiniteSet(1 .. MaxKeyFrames)
      BY <3>1, FS_Interval
    <3>. QED  BY <1>0, <3>2 DEF KeyFrames, MapOf, GraphTypeOK
  <2>3. IsFiniteSet(MapOf(mpCurrentKF)) /\ Cardinality(MapOf(mpCurrentKF)) \in Nat
    BY <2>2, FS_Subset, FS_CardinalityType
  <2>4. PICK k \in MapOf(mpCurrentKF) : k \notin mbBad
    <3>1. CASE MapOf(mpCurrentKF) \subseteq mbBad
      <4>1. MapOf(mpCurrentKF) \subseteq {eraser["LM"].kf}
        <5>1. ASSUME NEW k \in MapOf(mpCurrentKF)  PROVE k = eraser["LM"].kf
          <6>1. PICK t \in Erasers : eraser[t].kf = k /\ eraser[t].pc = "eraseMap"
            BY <3>1, <5>1 DEF BadLeave, MapOf
          <6>2. eraser["LC"].pc = "none"
            BY <2>1 DEF LcReady, Idle
          <6>. QED  BY <6>1, <6>2 DEF Erasers
        <5>. QED  BY <5>1
      <4>2. IsFiniteSet({eraser["LM"].kf}) /\ Cardinality({eraser["LM"].kf}) = 1
        BY FS_Singleton
      <4>3. Cardinality(MapOf(mpCurrentKF)) <= 1
        BY <4>1, <4>2, FS_Subset
      <4>. QED  BY <2>1, <2>3, <4>3, MinKeyFramesAssumption
    <3>. QED  BY <3>1
  <2>5. HasFirst(mpMap[k]) /\ mpMap[k] = mpMap[mpCurrentKF]
    BY <2>4 DEF MapOf, FirstsKept, Known
  <2>. QED  BY <2>1, <2>5 DEF HasFirst
<1>2. ASSUME ~SkipSmallMap  PROVE lcPc \notin {"check", "small"} /\ mpCurrentKF' = mpCurrentKF /\ ~WeldMaps
  <2>1. CASE DetectionStep
    BY <1>2, <2>1 DEF DetectionStep, PopKeyFrame, SearchFromLast, SkipBoW, SearchBoW, CallSetErase, LcGoto, WeldMaps,
                      AfterSearch
  <2>2. CASE OperationStep
    BY <1>2, <2>2 DEF OperationStep, RefuseMerge, BeginMerge, WeldMaps, BeginLoop, CloseLoop, LcGoto
  <2>3. CASE LocalMappingStep \/ SetBadFlagStep \/ UNCHANGED vars
    <3>1. UNCHANGED <<lcPc, mpCurrentKF>>
      BY <2>3 DEF LocalMappingStep, HandOver, SetBadFlagStep, EraseFromDatabase, lcVars, vars
    <3>. QED  BY <3>1 DEF WeldMaps
  <2>. QED  BY <2>1, <2>2, <2>3 DEF Next
<1>3. ASSUME ~SkipSmallMap, NewMapKeyFrame \/ TakeKeyFrame  PROVE HasFirst(mpMap[mpCurrentKF])'
  <2>1. mpCurrentKF \in Known
    BY <1>2, <1>3, NullIsNoKeyFrame DEF TypeInv, LcInv, LcPlaced, KnownInv, SearchesKnown
  <2>2. PICK x \in Maps : x = mpMap[mpCurrentKF]
    BY <1>0, <2>1
  <2>3. HasFirst(x)' /\ mpMap'[mpCurrentKF] = x
    BY <1>2, <1>3, <2>1, <2>2, FirstStays, CreatedApart DEF SearchedHasFirst
  <2>. QED  BY <1>2, <1>3, <2>3 DEF HasFirst
<1>4. ASSUME ~SkipSmallMap, UNCHANGED <<mpMap, mnInitKFid>>  PROVE HasFirst(mpMap[mpCurrentKF])'
  BY <1>2, <1>4 DEF SearchedHasFirst, HasFirst
<1>. QED  BY <1>1, <1>2, <1>3, <1>4, MapsMove

\* With NewestLast and OlderApart a weld to another map than the active one leaves the
\* active one alone.
LEMMA WeldFits ==
  ASSUME TypeInv, VerifiedInv, OlderApart, lcPc = "weld", Inertial, mpMap[Welded] = currentMap
  PROVE  mpMap[WeldedTo] = currentMap
<1>1. Sought /\ Welded = candidate["merge"].matched /\ WeldedTo = mpCurrentKF
  BY DEF VerifiedInv, CarriedOut, DetectedKind, Sought, Welded, WeldedTo
<1>2. ~InCurrent(mpCurrentKF) => Older
  BY DEF Older, Pending
<1>. QED  BY <1>1, <1>2 DEF OlderApart, InCurrent

LEMMA PendingKnown ==
  ASSUME TypeInv, KnownInv
  PROVE  Pending \subseteq Known /\ indexed \subseteq Known
<1>1. /\ \A i \in 1 .. Len(mlpLoopKeyFrameQueue) : mlpLoopKeyFrameQueue[i] \in Known
      /\ indexed \subseteq Known /\ mpCurrentKF \in Known \cup {Null}
  BY DEF KnownInv, SearchesKnown
<1>2. lcPc # "check" => mpCurrentKF \in Known
  BY <1>1, NullIsNoKeyFrame DEF TypeInv, LcInv, LcPlaced
<1>. QED  BY <1>1, <1>2 DEF Pending

\* Which keyframes are in the active map, from the map of a weld.
LEMMA CurrentWelded ==
  ASSUME TypeInv, VerifiedInv, KnownInv, FirstsKept, OlderApart, SearchedHasFirst, WeldMaps, Inertial
  PROVE  /\ \A k \in KeyFrames : InCurrent(k) => InCurrent(k)'
         /\ mpMap[mpCurrentKF] # currentMap => \A k \in KeyFrames : InCurrent(k)' <=> InCurrent(k)
<1>1. PICK x, y : x = mpMap[WeldedTo] /\ y = mpMap[Welded]
  OBVIOUS
<1>2. HasFirst(mpMap[mpCurrentKF]) /\ lcPc = "weld"
  BY DEF SearchedHasFirst, WeldMaps
<1>3. /\ currentMap' = currentMap
      /\ \A a \in KeyFrames : mpMap'[a] = IF mpMap[a] = y /\ a \in Live THEN x ELSE mpMap[a]
  BY <1>1, <1>2, WeldMoves
<1>4. y = currentMap => x = currentMap
  BY <1>1, <1>2, WeldFits
<1>5. x = mpMap[mpCurrentKF]
  BY <1>1 DEF WeldedTo
<1>. QED  BY <1>3, <1>4, <1>5 DEF InCurrent

\* Nor does any other step take a known keyframe out of the active map or into it,
\* but the creation of a map takes all out.
LEMMA CurrentKept ==
  ASSUME TypeInv, KnownInv, FirstsKept, [Next]_vars, ~WeldMaps
  PROVE  /\ \A k \in Known : InCurrent(k)' => InCurrent(k)
         /\ ~NewMapKeyFrame => \A k \in Known : InCurrent(k)' <=> InCurrent(k)
         /\ NewMapKeyFrame => \A k \in Known : ~InCurrent(k)'
<1>1. CASE TakeKeyFrame
  <2>1. Maps # {}
    BY DEF TypeInv, GraphInv, GraphTypeOK
  <2>2. currentMap' = currentMap /\ \A k \in Known : mpMap'[k] = mpMap[k]
    BY <1>1, <2>1, CreatedApart
  <2>3. ~NewMapKeyFrame
    BY <1>1 DEF TakeKeyFrame, NewMapKeyFrame, LmGoto
  <2>. QED  BY <2>2, <2>3 DEF InCurrent
<1>2. CASE NewMapKeyFrame
  <2>1. Maps # {} /\ currentMap \in Maps
    BY DEF TypeInv, GraphInv, GraphTypeOK
  <2>2. mnInitKFid[currentMap'] = Null /\ \A k \in Known : mpMap'[k] = mpMap[k]
    BY <1>2, <2>1, CreatedApart
  <2>. QED  BY <1>2, <2>2 DEF InCurrent, FirstsKept, First
<1>3. CASE UNCHANGED <<created, currentMap, mpMap, mnInitKFid>>
  <2>1. ~NewMapKeyFrame
    BY <1>3 DEF NewMapKeyFrame, TypeInv, GraphInv, GraphTypeOK
  <2>. QED  BY <1>3, <2>1 DEF InCurrent
<1>. QED  BY <1>1, <1>2, <1>3, MapsMove
-----------------------------------------------------------------------------
\* Local mapping takes up a keyframe only when it is created.
LEMMA LmKeyFrameKept ==
  ASSUME TypeInv, EdgeInv, KnownInv, [Next]_vars, ~NewMapKeyFrame, ~TakeKeyFrame, lmPc' # "idle"
  PROVE  lmPc # "idle" /\ mpCurrentKeyFrame' = mpCurrentKeyFrame
<1>1. CASE LocalMappingStep
  BY <1>1 DEF LocalMappingStep, LmGraphStep, CountConnections, LinkParent, StartCulling, CullKeyFrame, HandOver,
              EndIteration, LmGoto
<1>2. CASE SetBadFlagStep
  <2>1. PICK t \in Erasers : EraseStep(t) \/ EraseFromDatabase(t)
    BY <1>2 DEF SetBadFlagStep
  <2>. QED  BY <2>1, EraserOutcome DEF EdgeInv
<1>3. CASE DetectionStep \/ OperationStep \/ UNCHANGED vars
  BY <1>3 DEF DetectionStep, PopKeyFrame, SkipSmallMap, SearchFromLast, SkipBoW, SearchBoW, CallSetErase,
              OperationStep, RefuseMerge, BeginMerge, WeldMaps, BeginLoop, CloseLoop, vars, graphVars, lmVars
<1>. QED  BY <1>1, <1>2, <1>3 DEF Next

\* Loop closing takes its next keyframe from the queue, which only HandOver makes longer.
LEMMA QueueMoves ==
  ASSUME [Next]_vars
  PROVE  \/ HandOver
         \/ PopKeyFrame
         \/ /\ UNCHANGED <<mlpLoopKeyFrameQueue, mpCurrentKF>>
            /\ lcPc' # "check" => lcPc # "check"
<1>1. CASE LocalMappingStep
  BY <1>1 DEF LocalMappingStep, lcVars
<1>2. CASE SetBadFlagStep
  BY <1>2 DEF SetBadFlagStep, EraseFromDatabase, lcVars
<1>3. CASE DetectionStep
  BY <1>3 DEF DetectionStep, SkipSmallMap, SearchFromLast, SkipBoW, SearchBoW, CallSetErase, LcGoto
<1>4. CASE OperationStep
  BY <1>4 DEF OperationStep, RefuseMerge, BeginMerge, WeldMaps, BeginLoop, CloseLoop, LcGoto
<1>5. CASE UNCHANGED vars
  BY <1>5 DEF vars, lcVars
<1>. QED  BY <1>1, <1>2, <1>3, <1>4, <1>5 DEF Next

LEMMA NewMapAlone ==
  ASSUME TypeInv, [Next]_vars, NewMapKeyFrame
  PROVE  UNCHANGED lcVars
<1>1. created' # created /\ lmPc' = "cull"
  BY DEF NewMapKeyFrame, LmGoto, TypeInv, GraphInv, GraphTypeOK
<1>2. ~TakeKeyFrame /\ ~WeldMaps
  BY <1>1 DEF NewMapKeyFrame, TakeKeyFrame, WeldMaps, LmGoto
<1>. QED  BY <1>1, <1>2, MapsMove

LEMMA NewestLastNext ==
  ASSUME TypeInv, EdgeInv, VerifiedInv, KnownInv, FirstsKept, NewestLast, OlderApart, SearchedHasFirst, Inertial, [Next]_vars
  PROVE  NewestLast'
<1>. DEFINE q == mlpLoopKeyFrameQueue
<1>0. /\ \A i \in 1 .. Len(q) : q[i] \in Known
      /\ q \in Seq(KeyFrames) /\ Known \subseteq KeyFrames
      /\ lmPc # "idle" => mpCurrentKeyFrame \in Known
      /\ lcPc # "check" => mpCurrentKF \in Known
  BY KnownKeyFrames, NullIsNoKeyFrame
     DEF KnownInv, SearchesKnown, ConnectionsKnown, TypeInv, LcInv, LcTypeOK, LcPlaced
<1>1. CASE WeldMaps
  <2>1. lmPc' = "idle" /\ lcPc' = "check" /\ q' = q /\ lcPc = "weld"
    BY <1>1 DEF WeldMaps, lmVars
  <2>2. ASSUME NEW i \in 1 .. Len(q), NEW j \in 1 .. Len(q), i < j, InCurrent(q[i])'  PROVE InCurrent(q[j])'
    <3>1. q[i] \in KeyFrames /\ q[j] \in KeyFrames
      BY <1>0
    <3>2. CASE InCurrent(mpCurrentKF)
      <4>1. InCurrent(q[j])
        BY <2>1, <3>2 DEF NewestLast
      <4>2. PICK k \in KeyFrames : k = q[j]
        BY <3>1
      <4>3. InCurrent(k)'
        BY <1>1, <4>1, <4>2, CurrentWelded
      <4>. QED  BY <2>1, <4>2, <4>3 DEF InCurrent
    <3>3. CASE ~InCurrent(mpCurrentKF)
      <4>1. PICK a \in KeyFrames, b \in KeyFrames : a = q[i] /\ b = q[j]
        BY <3>1
      <4>2. (InCurrent(a)' <=> InCurrent(a)) /\ (InCurrent(b)' <=> InCurrent(b))
        BY <1>1, <3>3, CurrentWelded DEF InCurrent
      <4>3. InCurrent(a)'
        BY <2>1, <2>2, <4>1 DEF InCurrent
      <4>4. InCurrent(b)
        BY <2>2, <4>1, <4>2, <4>3 DEF NewestLast
      <4>. QED  BY <2>1, <4>1, <4>2, <4>4 DEF InCurrent
    <3>. QED  BY <3>2, <3>3
  <2>. HIDE DEF q
  <2>. QED  BY <2>1, <2>2 DEF NewestLast, q
<1>2. CASE NewMapKeyFrame /\ UNCHANGED lcVars
  <2>1. /\ lmPc' = "cull" /\ mpCurrentKeyFrame' = created' /\ q' = q /\ lcPc' = lcPc /\ mpCurrentKF' = mpCurrentKF
    BY <1>2 DEF NewMapKeyFrame, LmGoto, lcVars
  <2>2. Maps # {} /\ ~WeldMaps
    BY <1>2, <2>1 DEF TypeInv, GraphInv, GraphTypeOK, NewMapKeyFrame, WeldMaps, LmGoto, lmVars
  <2>3. InCurrent(mpCurrentKeyFrame)'
    BY <1>2, <2>1, <2>2, CreatedApart DEF InCurrent
  <2>4. \A k \in Known : ~InCurrent(k)'
    BY <1>2, <2>2, CurrentKept
  <2>5. \A i \in 1 .. Len(q) : ~InCurrent(q[i])'
    <3>1. ASSUME NEW i \in 1 .. Len(q)  PROVE ~InCurrent(q[i])'
      <4>1. PICK k \in Known : k = q[i]
        BY <1>0
      <4>. QED  BY <2>1, <2>4, <4>1 DEF InCurrent
    <3>. QED  BY <3>1
  <2>6. lcPc' # "check" => ~InCurrent(mpCurrentKF)'
    <3>. SUFFICES ASSUME lcPc # "check"  PROVE ~InCurrent(mpCurrentKF)'
      BY <2>1
    <3>1. PICK k \in Known : k = mpCurrentKF
      BY <1>0
    <3>. QED  BY <2>1, <2>4, <3>1 DEF InCurrent
  <2>. QED  BY <2>1, <2>3, <2>5, <2>6 DEF NewestLast
<1>3. ASSUME ~WeldMaps, ~NewMapKeyFrame  PROVE NewestLast'
  <2>0. \A k \in Known : InCurrent(k)' <=> InCurrent(k)
    BY <1>3, CurrentKept
  <2>1. PICK C : C = {k \in KeyFrames : mpMap'[k] = currentMap'}
    OBVIOUS
  <2>2. \A k \in Known : k \in C <=> InCurrent(k)
    BY <1>0, <2>0, <2>1 DEF InCurrent
  <2>3. /\ \A i, j \in 1 .. Len(q) : i < j /\ q[i] \in C => q[j] \in C
        /\ lcPc # "check" /\ mpCurrentKF \in C => \A i \in 1 .. Len(q) : q[i] \in C
        /\ lmPc # "idle" => mpCurrentKeyFrame \in C
    BY <1>0, <2>2 DEF NewestLast
  <2>4. lmPc' # "idle" => mpCurrentKeyFrame' \in C
    <3>1. CASE TakeKeyFrame
      <4>1. Maps # {} /\ mpCurrentKeyFrame' = created'
        BY <3>1 DEF TypeInv, GraphInv, GraphTypeOK, TakeKeyFrame
      <4>. QED  BY <2>1, <3>1, <4>1, CreatedApart
    <3>2. CASE ~TakeKeyFrame
      BY <1>3, <2>3, <3>2, LmKeyFrameKept
    <3>. QED  BY <3>1, <3>2
  <2>5. /\ \A i, j \in 1 .. Len(q') : i < j /\ q'[i] \in C => q'[j] \in C
        /\ lcPc' # "check" /\ mpCurrentKF' \in C => \A i \in 1 .. Len(q') : q'[i] \in C
    <3>1. CASE HandOver
      <4>1. /\ UNCHANGED <<lcPc, mpCurrentKF>> /\ mpCurrentKeyFrame \in C
            /\ q' = q \/ q' = Append(q, mpCurrentKeyFrame)
        BY <2>3, <3>1 DEF HandOver, EndIteration, LmGoto
      <4>2. CASE q' = q
        BY <2>3, <4>1, <4>2
      <4>3. CASE q' = Append(q, mpCurrentKeyFrame)
        <5>1. /\ Len(q') = Len(q) + 1 /\ Len(q) \in Nat
              /\ \A i \in 1 .. Len(q) : q'[i] = q[i]
              /\ q'[Len(q) + 1] = mpCurrentKeyFrame
          BY <1>0, <4>3
        <5>2. \A i \in 1 .. Len(q') : i \in 1 .. Len(q) \/ i = Len(q) + 1
          BY <5>1
        <5>. QED  BY <2>3, <4>1, <5>1, <5>2
      <4>. QED  BY <4>1, <4>2, <4>3
    <3>2. CASE PopKeyFrame
      <4>1. q # <<>> /\ q' = Tail(q) /\ mpCurrentKF' = Head(q)
        BY <3>2 DEF PopKeyFrame
      <4>2. /\ mpCurrentKF' = q[1] /\ 1 \in 1 .. Len(q) /\ Len(q) \in Nat
            /\ Len(q') = Len(q) - 1 /\ \A i \in 1 .. Len(q') : q'[i] = q[i + 1] /\ i + 1 \in 1 .. Len(q) /\ 1 < i + 1
        BY <1>0, <4>1
      <4>. HIDE DEF q
      <4>3. \A i, j \in 1 .. Len(q') : i < j => i + 1 < j + 1
        BY <4>2
      <4>. QED  BY <2>3, <4>2, <4>3
    <3>3. CASE UNCHANGED <<mlpLoopKeyFrameQueue, mpCurrentKF>> /\ (lcPc' # "check" => lcPc # "check")
      BY <2>3, <3>3
    <3>. QED  BY <3>1, <3>2, <3>3, QueueMoves
  <2>6. /\ \A i \in 1 .. Len(q') : q'[i] \in KeyFrames
        /\ lcPc' # "check" => mpCurrentKF' \in KeyFrames
    <3>1. q' \in Seq(KeyFrames) /\ (lcPc' # "check" => mpCurrentKF' \in KeyFrames)
      BY TypeNext DEF TypeInv, LcInv, LcTypeOK, LcPlaced
    <3>. QED  BY <3>1
  <2>. QED  BY <2>1, <2>4, <2>5, <2>6 DEF NewestLast, InCurrent
<1>. QED  BY <1>1, <1>2, <1>3, NewMapAlone
-----------------------------------------------------------------------------
\* What is near a keyframe after connections were counted.
LEMMA NearAdded ==
  ASSUME NEW k, NEW c, NEW selected, AddConnections(k, c, selected), NEW j \in KeyFrames, j \notin selected
  PROVE  Near(j)' = Near(j)
<1>. DEFINE weights == [i \in KeyFrames |->
                          IF i \in selected THEN [mConnectedKeyFrameWeights[i] EXCEPT ![k] = c[i]]
                                            ELSE mConnectedKeyFrameWeights[i]]
<1>1. /\ mConnectedKeyFrameWeights' = weights
      /\ mvpOrderedConnectedKeyFrames' =
           [i \in KeyFrames |-> IF weights[i] # mConnectedKeyFrameWeights[i] THEN Covisibles(weights[i])
                                                                            ELSE mvpOrderedConnectedKeyFrames[i]]
  BY DEF AddConnections
<1>2. weights[j] = mConnectedKeyFrameWeights[j]
  OBVIOUS
<1>. HIDE DEF weights
<1>. QED  BY <1>1, <1>2 DEF Near

LEMMA NearRecounted ==
  ASSUME GraphTypeOK, NEW k \in KeyFrames, NEW others \in SUBSET KeyFrames, NEW c \in CountersAmong(k, others),
         NEW selected \in Selections(c), Recount(k, c, selected), NEW j \in KeyFrames
  PROVE  /\ j # k => Near(j)' \subseteq Near(j) \cup {k}
         /\ Near(k)' \subseteq others \cup {k}
<1>. DEFINE weights == [i \in KeyFrames |->
                          IF i = k THEN c
                          ELSE IF i \in selected THEN [mConnectedKeyFrameWeights[i] EXCEPT ![k] = c[i]]
                          ELSE mConnectedKeyFrameWeights[i]]
<1>2. /\ mConnectedKeyFrameWeights' = weights
      /\ mvpOrderedConnectedKeyFrames' =
           [i \in KeyFrames |->
              IF i = k THEN selected
              ELSE IF weights[i] # mConnectedKeyFrameWeights[i] THEN Covisibles(weights[i])
              ELSE mvpOrderedConnectedKeyFrames[i]]
  BY DEF Recount
<1>3. /\ \A m \in KeyFrames : c[m] > 0 => m \in others
      /\ selected \subseteq {m \in KeyFrames : c[m] > 0}
  BY CountersKnown
<1>4. \A m \in KeyFrames : m # k /\ j # k => weights[j][m] = mConnectedKeyFrameWeights[j][m]
  BY DEF GraphTypeOK, Weights
<1>5. weights[k] = c
  OBVIOUS
<1>. HIDE DEF weights
<1>6. ASSUME j # k  PROVE Near(j)' \subseteq Near(j) \cup {k}
  <2>1. ASSUME NEW m \in Near(j)'  PROVE m \in Near(j) \cup {k}
    <3>1. m = j \/ m \in mvpOrderedConnectedKeyFrames'[j] \/ (m \in KeyFrames /\ mConnectedKeyFrameWeights'[j][m] > 0)
      BY <2>1 DEF Near
    <3>2. m \in mvpOrderedConnectedKeyFrames[j] \/ m = j \/ (m \in KeyFrames /\ weights[j][m] > 0)
      BY <1>2, <1>6, <3>1 DEF Covisibles
    <3>. QED  BY <1>4, <1>6, <3>2 DEF Near
  <2>. QED  BY <2>1
<1>7. Near(k)' \subseteq others \cup {k}
  <2>1. mvpOrderedConnectedKeyFrames'[k] = selected /\ mConnectedKeyFrameWeights'[k] = c
    BY <1>2, <1>5
  <2>. QED  BY <1>3, <2>1 DEF Near
<1>. QED  BY <1>6, <1>7

\* The other steps connect a keyframe with no other.
LEMMA NearShrinks ==
  ASSUME GraphTypeOK, EraserShape, [Next]_vars, ~CountConnections, ~LinkParent, ~WeldMaps, ~CloseLoop,
         NEW j \in KeyFrames
  PROVE  Near(j)' \subseteq Near(j)
<1>1. CASE UNCHANGED covVars
  BY <1>1 DEF covVars, Near
<1>2. CASE StartCulling
  <2>. DEFINE k == mpCurrentKeyFrame
              best == Covisibles(mConnectedKeyFrameWeights[k])
  <2>1. /\ mConnectedKeyFrameWeights' = mConnectedKeyFrameWeights
        /\ \/ mvpOrderedConnectedKeyFrames' = [mvpOrderedConnectedKeyFrames EXCEPT ![k] = best]
           \/ mvpOrderedConnectedKeyFrames' = mvpOrderedConnectedKeyFrames
    BY <1>2 DEF StartCulling
  <2>2. best \subseteq {i \in KeyFrames : mConnectedKeyFrameWeights[k][i] > 0}
    BY DEF Covisibles
  <2>3. j # k => mvpOrderedConnectedKeyFrames'[j] = mvpOrderedConnectedKeyFrames[j]
    BY <2>1 DEF GraphTypeOK
  <2>4. j = k => mvpOrderedConnectedKeyFrames'[j] \in {best, mvpOrderedConnectedKeyFrames[j]}
    BY <2>1 DEF GraphTypeOK
  <2>. HIDE DEF best
  <2>. QED  BY <2>1, <2>2, <2>3, <2>4 DEF Near
<1>3. ASSUME NEW t \in Erasers, DetachErased(t)  PROVE Near(j)' \subseteq Near(j)
  <2>. DEFINE k == eraser[t].kf
              neighbours == {i \in KeyFrames : mConnectedKeyFrameWeights[k][i] > 0}
              weights == [i \in KeyFrames |->
                            IF i \in neighbours THEN [mConnectedKeyFrameWeights[i] EXCEPT ![k] = 0]
                                                ELSE mConnectedKeyFrameWeights[i]]
  <2>1. /\ mConnectedKeyFrameWeights' = weights
        /\ mvpOrderedConnectedKeyFrames' =
             [i \in KeyFrames |-> IF weights[i] # mConnectedKeyFrameWeights[i] THEN Covisibles(weights[i])
                                                                              ELSE mvpOrderedConnectedKeyFrames[i]]
    BY <1>3 DEF DetachErased
  <2>2. \A m \in KeyFrames : weights[j][m] = mConnectedKeyFrameWeights[j][m] \/ weights[j][m] = 0
    <3>. HIDE DEF neighbours, k
    <3>1. mConnectedKeyFrameWeights[j] \in [KeyFrames -> 0 .. MaxWeight]
      BY DEF GraphTypeOK, Weights
    <3>. QED  BY <3>1
  <2>. HIDE DEF weights
  <2>3. \A m \in KeyFrames : weights[j][m] > 0 => mConnectedKeyFrameWeights[j][m] > 0
    BY <2>2
  <2>4. ASSUME NEW m \in Near(j)'  PROVE m \in Near(j)
    <3>1. m = j \/ m \in mvpOrderedConnectedKeyFrames'[j] \/ (m \in KeyFrames /\ mConnectedKeyFrameWeights'[j][m] > 0)
      BY <2>4 DEF Near
    <3>2. m \in mvpOrderedConnectedKeyFrames[j] \/ m = j \/ (m \in KeyFrames /\ weights[j][m] > 0)
      BY <2>1, <3>1 DEF Covisibles
    <3>. QED  BY <2>3, <3>2 DEF Near
  <2>. QED  BY <2>4
<1>4. ASSUME NEW t \in Erasers, LockErased(t)  PROVE Near(j)' \subseteq Near(j)
  <2>. DEFINE k == eraser[t].kf
  <2>1. /\ mConnectedKeyFrameWeights' = [mConnectedKeyFrameWeights EXCEPT ![k] = NoWeights]
        /\ mvpOrderedConnectedKeyFrames' = [mvpOrderedConnectedKeyFrames EXCEPT ![k] = {}]
    BY <1>4 DEF LockErased
  <2>2. CASE j # k
    <3>1. /\ mConnectedKeyFrameWeights'[j] = mConnectedKeyFrameWeights[j]
          /\ mvpOrderedConnectedKeyFrames'[j] = mvpOrderedConnectedKeyFrames[j]
      BY <2>1, <2>2 DEF GraphTypeOK
    <3>. QED  BY <3>1 DEF Near
  <2>3. CASE j = k
    <3>1. /\ mConnectedKeyFrameWeights'[j] = NoWeights /\ mvpOrderedConnectedKeyFrames'[j] = {}
      BY <2>1, <2>3 DEF GraphTypeOK
    <3>2. \A m \in KeyFrames : ~(NoWeights[m] > 0)
      BY DEF NoWeights
    <3>. QED  BY <3>1, <3>2 DEF Near
  <2>. QED  BY <2>2, <2>3
<1>5. ~UNCHANGED covVars => StartCulling \/ \E t \in Erasers : DetachErased(t) \/ LockErased(t)
  <2>1. CASE LocalMappingStep
    BY <2>1 DEF LocalMappingStep, LmGraphStep, NewMapKeyFrame, TakeKeyFrame, CullKeyFrame, HandOver, EndIteration
  <2>2. CASE SetBadFlagStep
    BY <2>2 DEF SetBadFlagStep, EraseStep, TestErase, AdoptChild, FinishErase, EraseFromMap, EraseFromDatabase
  <2>3. CASE DetectionStep
    BY <2>3 DEF DetectionStep, PopKeyFrame, SkipSmallMap, SearchFromLast, SkipBoW, SearchBoW, CallSetErase, graphVars
  <2>4. CASE OperationStep
    BY <2>4 DEF OperationStep, RefuseMerge, BeginMerge, BeginLoop, graphVars
  <2>5. CASE UNCHANGED vars
    BY <2>5 DEF vars, graphVars
  <2>. QED  BY <2>1, <2>2, <2>3, <2>4, <2>5 DEF Next
<1>. QED  BY <1>1, <1>2, <1>3, <1>4, <1>5
-----------------------------------------------------------------------------
\* While older keyframes are pending, nothing connects what the search looks at with
\* the active map.
LEMMA NearOlder ==
  ASSUME TypeInv, EdgeInv, VerifiedInv, KnownInv, NewcomerAlone, NewestLast, OlderApart, Older, Older', [Next]_vars,
         ~WeldMaps, NEW k \in indexed \cup {p \in Pending : ~InCurrent(p)}, NEW j \in Near(k)', j \notin mbBad'
  PROVE  j \in Known /\ ~InCurrent(j)
<1>0. /\ GraphTypeOK /\ EraserShape /\ ConnectionsKnown /\ k \in Known /\ Known \subseteq KeyFrames
      /\ mbBad \subseteq mbBad' /\ k \in KeyFrames
  BY PendingKnown, KnownKeyFrames, LiveKnown DEF TypeInv, GraphInv, EdgeInv, KnownInv
<1>1. \A i \in Near(k) : i \in Known /\ (i \notin mbBad' => ~InCurrent(i))
  BY <1>0 DEF OlderApart, Near, ConnectionsKnown
<1>2. k \in Near(k)
  BY DEF Near
<1>3. CASE j \in Near(k)
  BY <1>1, <1>3
<1>4. CASE CountConnections
  <2>1. PICK c \in Counters(mpCurrentKeyFrame) : \E selected \in Selections(c) :
          AddConnections(mpCurrentKeyFrame, c, selected)
    BY <1>4 DEF CountConnections
  <2>2. PICK selected \in Selections(c) : AddConnections(mpCurrentKeyFrame, c, selected)
    BY <2>1
  <2>3. InCurrent(mpCurrentKeyFrame)
    BY <1>4 DEF CountConnections, LmGoto, NewestLast
  <2>4. selected \subseteq LiveOf(currentMap)
    BY <2>1, <2>3, CountersKnown DEF Counters, InCurrent
  <2>5. k \notin selected
    <3>1. CASE k \in selected
      <4>1. k \notin mbBad /\ InCurrent(k)
        BY <2>4, <3>1 DEF LiveOf, InCurrent
      <4>2. ~InCurrent(k)
        BY <1>2, <4>1 DEF OlderApart
      <4>. QED  BY <4>1, <4>2
    <3>. QED  BY <3>1
  <2>6. Near(k)' = Near(k)
    BY <1>0, <2>2, <2>5, NearAdded
  <2>. QED  BY <1>3, <2>6
<1>5. CASE LinkParent
  <2>1. /\ lmPc = "link"
        /\ \/ UNCHANGED covVars
           \/ /\ mConnectedKeyFrameWeights' = [mConnectedKeyFrameWeights EXCEPT ![mpCurrentKeyFrame] = KFcounter]
              /\ mvpOrderedConnectedKeyFrames' = [mvpOrderedConnectedKeyFrames EXCEPT ![mpCurrentKeyFrame] = vPairs]
    BY <1>5 DEF LinkParent
  <2>2. InCurrent(mpCurrentKeyFrame) /\ mpCurrentKeyFrame \notin mbBad
    BY <2>1 DEF NewestLast, NewcomerAlone
  <2>3. k # mpCurrentKeyFrame
    BY <1>2, <2>2 DEF OlderApart
  <2>4. Near(k)' = Near(k)
    BY <1>0, <2>1, <2>3 DEF Near, GraphTypeOK, covVars
  <2>. QED  BY <1>3, <2>4
<1>6. CASE CloseLoop
  <2>1. /\ lcPc = "correct" /\ lcPc' = "check" /\ mlpLoopKeyFrameQueue' = mlpLoopKeyFrameQueue
        /\ UNCHANGED <<mpMap, currentMap, mbBad>>
    BY <1>6 DEF CloseLoop, LcGoto, mapVars
  <2>2. ~InCurrent(mpCurrentKF)
    <3>1. PICK i \in 1 .. Len(mlpLoopKeyFrameQueue) : ~InCurrent(mlpLoopKeyFrameQueue[i])
      BY <2>1 DEF Older, Pending, InCurrent
    <3>. QED  BY <2>1, <3>1 DEF NewestLast
  <2>3. mpCurrentKF \in {p \in Pending : ~InCurrent(p)}
    BY <2>1, <2>2 DEF Pending
  <2>7. mpCurrentKF \in KeyFrames /\ mpCurrentKF \in Known
    BY <2>3, PendingKnown, KnownKeyFrames
  <2>9. CASE UNCHANGED covVars
    <3>1. Near(k)' = Near(k)
      BY <2>9 DEF covVars, Near
    <3>. QED  BY <1>3, <3>1
  <2>10. ASSUME NEW m \in ({mpCurrentKF} \cup mvpOrderedConnectedKeyFrames[mpCurrentKF]) \ mbBad,
                NEW others, others = LiveOf(mpMap[m]) \ {m},
                NEW c \in CountersAmong(m, others), NEW selected \in Selections(c), Recount(m, c, selected)
         PROVE  j \in Known /\ ~InCurrent(j)
    <3>0. m \in Near(mpCurrentKF) /\ m \notin mbBad
      BY <2>10 DEF Near
    <3>1. ~InCurrent(m) /\ m \in KeyFrames /\ m \in Known
      BY <1>0, <2>3, <2>7, <2>10, <3>0 DEF OlderApart, ConnectionsKnown
    <3>2. others \subseteq Known /\ \A i \in others : ~InCurrent(i)
      BY <2>10, <3>1 DEF LiveOf, Known, InCurrent
    <3>3. others \in SUBSET KeyFrames
      BY <1>0, <3>2
    <3>4. (k # m => Near(k)' \subseteq Near(k) \cup {m}) /\ Near(m)' \subseteq others \cup {m}
      BY <1>0, <2>10, <3>1, <3>3, NearRecounted
    <3>5. CASE j \in others \cup {m}
      BY <3>1, <3>2, <3>5
    <3>6. CASE k = m
      <4>1. Near(k)' = Near(m)'
        BY <3>6 DEF Near
      <4>. QED  BY <3>4, <3>5, <4>1
    <3>. QED  BY <1>3, <3>4, <3>5, <3>6
  <2>. QED  BY <1>6, <2>9, <2>10, LoopRecounts
<1>7. CASE ~CountConnections /\ ~LinkParent /\ ~CloseLoop
  <2>1. Near(k)' \subseteq Near(k)
    BY <1>0, <1>7, NearShrinks
  <2>. QED  BY <1>3, <2>1
<1>. QED  BY <1>4, <1>5, <1>6, <1>7

\* What is pending or indexed afterwards was so before, or is in the active map.
LEMMA PendingBefore ==
  ASSUME TypeInv, EdgeInv, VerifiedInv, KnownInv, FirstsKept, NewestLast, [Next]_vars, ~WeldMaps, ~NewMapKeyFrame
  PROVE  /\ \A p \in Pending' : ~InCurrent(p)' => p \in Pending /\ ~InCurrent(p)
         /\ Older' => indexed' \subseteq indexed \cup {p \in Pending : ~InCurrent(p)}
<1>. DEFINE q == mlpLoopKeyFrameQueue
<1>0. /\ q \in Seq(KeyFrames) /\ keyFrameDB \in [KeyFrames -> Nat]
      /\ lmPc # "idle" => mpCurrentKeyFrame \in Known
      /\ \A k \in Known : InCurrent(k)' <=> InCurrent(k)
      /\ Pending \subseteq Known
  BY CurrentKept, PendingKnown DEF TypeInv, LcInv, LcTypeOK, KnownInv, ConnectionsKnown
<1>1. ASSUME NEW p \in Pending', ~InCurrent(p)'  PROVE p \in Pending /\ ~InCurrent(p)
  <2>. SUFFICES p \in Pending
    BY <1>0, <1>1
  <2>1. CASE HandOver
    <3>1. /\ UNCHANGED <<lcPc, mpCurrentKF>> /\ lmPc = "handOff"
          /\ q' = q \/ q' = Append(q, mpCurrentKeyFrame)
      BY <2>1 DEF HandOver, EndIteration, LmGoto
    <3>2. InCurrent(mpCurrentKeyFrame)
      BY <3>1 DEF NewestLast
    <3>3. p # mpCurrentKeyFrame
      <4>1. PICK k \in Known : k = mpCurrentKeyFrame
        BY <1>0, <3>1
      <4>2. InCurrent(k)'
        BY <1>0, <3>2, <4>1
      <4>. QED  BY <1>1, <4>1, <4>2
    <3>4. \A i \in 1 .. Len(q') : (i \in 1 .. Len(q) /\ q'[i] = q[i]) \/ q'[i] = mpCurrentKeyFrame
      <4>1. CASE q' = q
        BY <4>1
      <4>2. CASE q' = Append(q, mpCurrentKeyFrame)
        BY <1>0, <4>2
      <4>. QED  BY <3>1, <4>1, <4>2
    <3>. HIDE DEF q
    <3>5. p \in {q'[i] : i \in 1 .. Len(q')} \/ (lcPc' # "check" /\ p = mpCurrentKF')
      BY <1>1 DEF Pending, q
    <3>6. CASE lcPc' # "check" /\ p = mpCurrentKF'
      BY <3>1, <3>6 DEF Pending
    <3>7. ASSUME NEW i \in 1 .. Len(q'), p = q'[i]  PROVE p \in Pending
      BY <3>3, <3>4, <3>7 DEF Pending, q
    <3>. QED  BY <3>5, <3>6, <3>7
  <2>2. CASE PopKeyFrame
    <3>1. q # <<>> /\ q' = Tail(q) /\ mpCurrentKF' = Head(q)
      BY <2>2 DEF PopKeyFrame
    <3>2. /\ mpCurrentKF' = q[1] /\ 1 \in 1 .. Len(q)
          /\ \A i \in 1 .. Len(q') : q'[i] = q[i + 1] /\ i + 1 \in 1 .. Len(q)
      BY <1>0, <3>1
    <3>. HIDE DEF q
    <3>3. p \in {q'[i] : i \in 1 .. Len(q')} \/ p = mpCurrentKF'
      BY <1>1 DEF Pending, q
    <3>4. CASE p = mpCurrentKF'
      BY <3>2, <3>4 DEF Pending, q
    <3>5. ASSUME NEW i \in 1 .. Len(q'), p = q'[i]  PROVE p \in Pending
      BY <3>2, <3>5 DEF Pending, q
    <3>. QED  BY <3>3, <3>4, <3>5
  <2>3. CASE UNCHANGED <<mlpLoopKeyFrameQueue, mpCurrentKF>> /\ (lcPc' # "check" => lcPc # "check")
    BY <1>1, <2>3 DEF Pending
  <2>. QED  BY <2>1, <2>2, <2>3, QueueMoves
<1>2. ASSUME Older'  PROVE indexed' \subseteq indexed \cup {p \in Pending : ~InCurrent(p)}
  <2>1. CASE lcPc # "check" /\ AddToDatabase
    <3>1. mpCurrentKF \in Pending
      BY <2>1 DEF Pending
    <3>2. UNCHANGED <<mlpLoopKeyFrameQueue, mpCurrentKF>>
      <4>1. ~HandOver /\ ~PopKeyFrame
        <5>1. CASE HandOver \/ PopKeyFrame
          <6>1. UNCHANGED keyFrameDB
            BY <5>1 DEF HandOver, PopKeyFrame
          <6>2. mpCurrentKF \in KeyFrames /\ keyFrameDB[mpCurrentKF] \in Nat
            BY <1>0, <3>1, PendingKnown, KnownKeyFrames
          <6>3. keyFrameDB'[mpCurrentKF] = keyFrameDB[mpCurrentKF] + 1
            BY <1>0, <2>1, <6>2 DEF AddToDatabase
          <6>. QED  BY <6>1, <6>2, <6>3
        <5>. QED  BY <5>1
      <4>. QED  BY <4>1, QueueMoves
    <3>3. ~InCurrent(mpCurrentKF)
      <4>1. PICK p \in Pending' : ~InCurrent(p)'
        BY <1>2 DEF Older
      <4>2. p \in Pending /\ ~InCurrent(p)
        BY <1>1, <4>1
      <4>3. CASE InCurrent(mpCurrentKF)
        <5>1. PICK i \in 1 .. Len(q) : p = q[i]
          BY <4>2, <4>3 DEF Pending
        <5>. QED  BY <2>1, <4>2, <4>3, <5>1 DEF NewestLast
      <4>. QED  BY <4>3
    <3>4. indexed' \subseteq indexed \cup {mpCurrentKF}
      <4>1. \A k \in KeyFrames \ {mpCurrentKF} : keyFrameDB'[k] = keyFrameDB[k]
        BY <1>0, <2>1 DEF AddToDatabase
      <4>. QED  BY <4>1 DEF indexed
    <3>. QED  BY <3>1, <3>3, <3>4
  <2>2. ASSUME NEW t \in Erasers, EraseFromDatabase(t)  PROVE indexed' \subseteq indexed
    <3>1. \A k \in KeyFrames : keyFrameDB'[k] > 0 => keyFrameDB[k] > 0
      <4>1. keyFrameDB' = [keyFrameDB EXCEPT ![eraser[t].kf] = IF @ = 0 THEN 0 ELSE @ - 1]
        BY <2>2 DEF EraseFromDatabase
      <4>. QED  BY <1>0, <4>1
    <3>. QED  BY <3>1 DEF indexed
  <2>3. CASE UNCHANGED keyFrameDB
    BY <2>3 DEF indexed
  <2>4. (lcPc # "check" /\ AddToDatabase) \/ (\E t \in Erasers : EraseFromDatabase(t)) \/ UNCHANGED keyFrameDB
    <3>1. CASE LocalMappingStep \/ SetBadFlagStep \/ UNCHANGED vars
      BY <3>1 DEF LocalMappingStep, HandOver, SetBadFlagStep, lcVars, vars
    <3>2. CASE DetectionStep
      BY <3>2 DEF DetectionStep, PopKeyFrame, SkipSmallMap, SearchFromLast, SkipBoW, SearchBoW, CallSetErase, LcGoto
    <3>3. CASE OperationStep
      BY <3>3 DEF OperationStep, RefuseMerge, BeginMerge, WeldMaps, BeginLoop, CloseLoop
    <3>. QED  BY <3>1, <3>2, <3>3 DEF Next
  <2>. QED  BY <2>1, <2>2, <2>3, <2>4
<1>. QED  BY <1>1, <1>2
-----------------------------------------------------------------------------
LEMMA OlderApartSame ==
  ASSUME TypeInv, EdgeInv, VerifiedInv, KnownInv, FirstsKept, NewcomerAlone, NewestLast, OlderApart, [Next]_vars,
         ~WeldMaps, ~NewMapKeyFrame
  PROVE  OlderApart'
<1>. SUFFICES ASSUME Older'
              PROVE  /\ \A k \in indexed' \cup {p \in Pending' : ~InCurrent(p)'} :
                          \A j \in Near(k)' \ mbBad' : ~InCurrent(j)'
                     /\ Sought' => ~InCurrent(candidate["merge"].matched)'
  BY DEF OlderApart
<1>0. \A k \in Known : InCurrent(k)' <=> InCurrent(k)
  BY CurrentKept
<1>1. /\ \A p \in Pending' : ~InCurrent(p)' => p \in Pending /\ ~InCurrent(p)
      /\ indexed' \subseteq indexed \cup {p \in Pending : ~InCurrent(p)}
  BY PendingBefore
<1>2. Older
  BY <1>1 DEF Older
<1>3. ASSUME NEW k \in indexed' \cup {p \in Pending' : ~InCurrent(p)'}, NEW j \in Near(k)', j \notin mbBad'
      PROVE  ~InCurrent(j)'
  <2>1. k \in indexed \cup {p \in Pending : ~InCurrent(p)}
    BY <1>1
  <2>2. j \in Known /\ ~InCurrent(j)
    BY <1>2, <1>3, <2>1, NearOlder
  <2>. QED  BY <1>0, <2>2
<1>4. ASSUME Sought'  PROVE ~InCurrent(candidate["merge"].matched)'
  <2>1. PICK m : m = candidate'["merge"].matched
    OBVIOUS
  <2>2. m \in Known /\ ~InCurrent(m)
    <3>1. CASE Sought /\ m = candidate["merge"].matched
      BY <1>2, <3>1, SoughtKnown DEF OlderApart
    <3>2. CASE m \in Matches("merge")
      <4>1. m \in Known
        BY <3>2, MatchesKnown DEF TypeInv, GraphInv, KnownInv
      <4>2. PICK k \in indexed : m \in Near(k)
        BY <3>2 DEF Matches, Near
      <4>3. m \notin mbBad
        BY <3>2 DEF Matches
      <4>. QED  BY <1>2, <4>1, <4>2, <4>3 DEF OlderApart
    <3>. QED  BY <1>4, <2>1, <3>1, <3>2, SoughtWith
  <2>3. ~InCurrent(m)'
    BY <1>0, <2>2
  <2>. QED  BY <2>1, <2>3 DEF InCurrent
<1>. QED  BY <1>3, <1>4

LEMMA OlderApartNewMap ==
  ASSUME TypeInv, EdgeInv, VerifiedInv, KnownInv, FirstsKept, [Next]_vars, NewMapKeyFrame
  PROVE  OlderApart'
<1>0. UNCHANGED covVars /\ UNCHANGED lcVars /\ ~WeldMaps
  BY NewMapAlone DEF NewMapKeyFrame, WeldMaps, LmGoto, lmVars
<1>1. \A k \in Known : ~InCurrent(k)'
  BY <1>0, CurrentKept
<1>2. Pending' \subseteq Known /\ indexed' \subseteq Known
  BY <1>0, PendingKnown DEF Pending, indexed, lcVars
<1>3. ASSUME NEW k \in Known, NEW j \in Near(k)'  PROVE ~InCurrent(j)'
  <2>1. j \in Near(k)
    BY <1>0, <1>3 DEF Near, covVars
  <2>2. j \in Known
    BY <2>1, KnownKeyFrames DEF Near, KnownInv, ConnectionsKnown
  <2>. QED  BY <1>1, <2>2
<1>4. ASSUME Sought'  PROVE ~InCurrent(candidate["merge"].matched)'
  <2>1. Sought /\ candidate' = candidate
    BY <1>0, <1>4 DEF Sought, lcVars
  <2>2. PICK m \in Known : m = candidate["merge"].matched
    BY <2>1, SoughtKnown
  <2>. QED  BY <1>1, <2>1, <2>2 DEF InCurrent
<1>. QED  BY <1>2, <1>3, <1>4 DEF OlderApart

LEMMA OlderApartWelded ==
  ASSUME TypeInv, EdgeInv, VerifiedInv, KnownInv, FirstsKept, NewestLast, OlderApart, SearchedHasFirst, Inertial,
         [Next]_vars, WeldMaps
  PROVE  OlderApart'
<1>0. /\ lcPc = "weld" /\ lcPc' = "check" /\ WeldedTo = mpCurrentKF
      /\ UNCHANGED <<mlpLoopKeyFrameQueue, keyFrameDB, mbBad, mpCurrentKF>>
  BY DEF WeldMaps, WeldedTo
<1>a. /\ mpCurrentKF \in KeyFrames /\ mpCurrentKF \in Known
      /\ GraphTypeOK /\ Known \subseteq KeyFrames /\ ConnectionsKnown
  BY <1>0, WeldedKnown, KnownKeyFrames DEF TypeInv, GraphInv, KnownInv
<1>1. Pending' \subseteq Pending /\ indexed' = indexed /\ Pending \subseteq Known /\ indexed \subseteq Known
  BY <1>0, PendingKnown DEF Pending, indexed
<1>2. \A k \in KeyFrames : InCurrent(k) => InCurrent(k)'
  BY CurrentWelded
<1>3. CASE InCurrent(mpCurrentKF)
  <2>1. ASSUME NEW p \in Pending'  PROVE InCurrent(p)'
    <3>1. PICK i \in 1 .. Len(mlpLoopKeyFrameQueue) : p = mlpLoopKeyFrameQueue[i]
      BY <1>0, <2>1 DEF Pending
    <3>2. InCurrent(p) /\ p \in KeyFrames
      BY <1>0, <1>1, <1>3, <1>a, <2>1, <3>1 DEF NewestLast
    <3>. QED  BY <1>2, <3>2
  <2>2. ~Older'
    BY <2>1 DEF Older
  <2>. QED  BY <2>2 DEF OlderApart
<1>4. CASE ~InCurrent(mpCurrentKF)
  <2>1. \A k \in KeyFrames : InCurrent(k)' <=> InCurrent(k)
    BY <1>4, CurrentWelded DEF InCurrent
  <2>2. mpCurrentKF \in Pending /\ Older
    BY <1>0, <1>4 DEF Pending, Older
  <2>3. PICK others : others = (LiveOf(mpMap[Welded]) \cup LiveOf(mpMap[WeldedTo])) \ {WeldedTo}
    OBVIOUS
  <2>4. mpMap[Welded] # currentMap /\ mpMap[WeldedTo] # currentMap
    BY <1>0, <1>4, WeldFits DEF InCurrent
  <2>5. others \in SUBSET KeyFrames /\ \A i \in others : ~InCurrent(i)
    BY <1>a, <2>3, <2>4 DEF LiveOf, InCurrent, Known
  <2>6. PICK n \in KeyFrames : n = mpCurrentKF
    BY <1>a
  <2>7. \/ UNCHANGED covVars
        \/ \E c \in CountersAmong(n, others) : \E selected \in Selections(c) : Recount(n, c, selected)
    BY <1>0, <2>3, <2>6, ReconnectMeans DEF WeldMaps
  <2>8. ASSUME NEW k \in indexed' \cup {p \in Pending' : ~InCurrent(p)'}, NEW j \in Near(k)', j \notin mbBad'
        PROVE  ~InCurrent(j)'
    <3>1. k \in KeyFrames /\ k \in indexed \cup {p \in Pending : ~InCurrent(p)}
      BY <1>1, <1>a, <2>1
    <3>2. \/ Near(k)' = Near(k)
          \/ (k # n => Near(k)' \subseteq Near(k) \cup {n}) /\ Near(n)' \subseteq others \cup {n}
      <4>1. CASE UNCHANGED covVars
        BY <4>1 DEF covVars, Near
      <4>2. ASSUME NEW c \in CountersAmong(n, others), NEW selected \in Selections(c), Recount(n, c, selected)
            PROVE  (k # n => Near(k)' \subseteq Near(k) \cup {n}) /\ Near(n)' \subseteq others \cup {n}
        BY <1>a, <2>5, <3>1, <4>2, NearRecounted
      <4>. QED  BY <2>7, <4>1, <4>2
    <3>3. CASE j \in others \cup {n}
      BY <1>4, <1>a, <2>1, <2>5, <2>6, <3>3
    <3>4. CASE j \in Near(k)
      <4>1. ~InCurrent(j) /\ j \in KeyFrames
        BY <1>0, <1>a, <2>2, <2>8, <3>1, <3>4 DEF OlderApart, Near, GraphTypeOK
      <4>. QED  BY <2>1, <4>1
    <3>5. CASE k = n
      <4>1. Near(k)' = Near(n)'
        BY <3>5 DEF Near
      <4>. QED  BY <2>8, <3>2, <3>3, <3>4, <4>1
    <3>. QED  BY <2>8, <3>2, <3>3, <3>4, <3>5
  <2>9. ~Sought'
    <3>1. ASSUME Sought'  PROVE FALSE
      <4>1. \E K : "merge" \in K /\ Forget(K)
        BY DEF WeldMaps
      <4>2. /\ "merge" \in Kinds /\ candidate["merge"] \in CandidateType
            /\ candidate'["merge"].coincidences > 0 \/ candidate'["merge"].detected
        BY <3>1 DEF Sought, TypeInv, LcInv, LcTypeOK
      <4>3. candidate'["merge"] = [candidate["merge"] EXCEPT !.coincidences = 0, !.notFound = 0, !.detected = FALSE]
        BY <4>1, <4>2 DEF Forget
      <4>4. candidate'["merge"].coincidences = 0 /\ ~candidate'["merge"].detected
        BY <4>2, <4>3 DEF CandidateType
      <4>. QED  BY <4>2, <4>4
    <3>. QED  BY <3>1
  <2>. QED  BY <2>8, <2>9 DEF OlderApart
<1>. QED  BY <1>3, <1>4

-----------------------------------------------------------------------------
LEMMA DeferInit == Init => DeferInv
<1>. SUFFICES ASSUME Init  PROVE DeferInv
  OBVIOUS
<1>1. Known = {} /\ Pending = {} /\ indexed = {} /\ ~Sought
  BY DEF Init, GraphInit, Known, Pending, indexed, Sought, NoCandidate
<1>2. FirstsKept
  BY <1>1 DEF Init, GraphInit, FirstsKept, Null
<1>3. NoneIsFirst /\ DeferredErasureIsMade /\ BadLeave /\ NewcomerAlone
  BY DEF Init, GraphInit, NoneIsFirst, DeferredErasureIsMade, BadLeave, NewcomerAlone
<1>4. NewestLast /\ OlderApart /\ SearchedHasFirst
  BY <1>1 DEF Init, GraphInit, NewestLast, OlderApart, Older, SearchedHasFirst
<1>. QED  BY <1>2, <1>3, <1>4 DEF DeferInv

LEMMA DeferNext ==
  ASSUME Inertial => MinKeyFrames >= 2
  PROVE  TypeInv /\ EdgeInv /\ VerifiedInv /\ KnownInv /\ DeferInv /\ [Next]_vars => DeferInv'
<1>. SUFFICES ASSUME TypeInv, EdgeInv, VerifiedInv, KnownInv, DeferInv, [Next]_vars
              PROVE  DeferInv'
  OBVIOUS
<1>0. /\ FirstsKept /\ NoneIsFirst /\ NewcomerAlone /\ BadLeave /\ DeferredErasureIsMade
      /\ Inertial => NewestLast /\ OlderApart /\ SearchedHasFirst
  BY DEF DeferInv
<1>1. FirstsKept'
  <2>1. CASE WeldMaps
    <3>1. Inertial => /\ HasFirst(mpMap[mpCurrentKF])
                      /\ mpMap[Welded] = currentMap => mpMap[WeldedTo] = currentMap
      BY <1>0, <2>1, WeldFits DEF SearchedHasFirst, WeldMaps
    <3>. QED  BY <1>0, <2>1, <3>1, FirstsWelded
  <2>2. CASE (NewMapKeyFrame \/ TakeKeyFrame) /\ UNCHANGED lcVars
    BY <1>0, <2>2, FirstsCreated
  <2>3. CASE UNCHANGED <<created, currentMap, mpMap, mnInitKFid>>
    <3>1. created \in Nat
      BY KnownKeyFrames
    <3>2. Known' \subseteq Known /\ mbBad \subseteq mbBad'
      BY <2>3, <3>1, LiveKnown
    <3>. QED  BY <1>0, <2>3, <3>2, FirstsSame
  <2>. QED  BY <2>1, <2>2, <2>3, MapsMove
<1>2. NoneIsFirst'
  <2>1. Inertial => (lcPc = "weld" => HasFirst(mpMap[mpCurrentKF]))
    BY <1>0 DEF SearchedHasFirst
  <2>. QED  BY <1>0, <2>1, NoneIsFirstNext
<1>3. NewcomerAlone' /\ BadLeave' /\ DeferredErasureIsMade'
  BY <1>0, NewcomerNext, BadLeaveNext, DeferredNext
<1>4. ASSUME Inertial  PROVE NewestLast' /\ OlderApart' /\ SearchedHasFirst'
  <2>1. NewestLast' /\ SearchedHasFirst'
    BY <1>0, <1>4, NewestLastNext, SearchedNext
  <2>2. CASE WeldMaps
    BY <1>0, <1>4, <2>1, <2>2, OlderApartWelded
  <2>3. CASE NewMapKeyFrame
    BY <1>0, <2>1, <2>3, OlderApartNewMap
  <2>4. CASE ~WeldMaps /\ ~NewMapKeyFrame
    BY <1>0, <1>4, <2>1, <2>4, OlderApartSame
  <2>. QED  BY <2>1, <2>2, <2>3, <2>4
<1>. QED  BY <1>1, <1>2, <1>3, <1>4 DEF DeferInv

\* An erasure that was put off is made once the keyframe is no longer protected, whatever
\* maps were created and welded; inertial maps need MinKeyFrames, which the code sets to
\* twelve, to hold at least one keyframe that is not just being erased.
THEOREM DeferredErasuresAreMade == (Inertial => MinKeyFrames >= 2) => (Spec => []DeferredErasureIsMade)
<1>. SUFFICES ASSUME Inertial => MinKeyFrames >= 2  PROVE Spec => []DeferredErasureIsMade
  OBVIOUS
<1>1. TypeInv /\ EdgeInv /\ VerifiedInv /\ KnownInv /\ DeferInv /\ [Next]_vars =>
        (TypeInv /\ EdgeInv /\ VerifiedInv /\ KnownInv /\ DeferInv)'
  BY TypeNext, EdgeNext, VerifiedNext, KnownNext, DeferNext
<1>2. DeferInv => DeferredErasureIsMade
  BY DEF DeferInv
<1>. QED  BY <1>1, <1>2, TypeInit, EdgeInit, VerifiedInit, KnownInit, DeferInit, PTL DEF Spec
=============================================================================

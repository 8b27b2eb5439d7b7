----------------------------- MODULE KeyFrameGraph -----------------------------
(***************************************************************************)
(* The covisibility graph and the spanning tree of the keyframes           *)
(* (KeyFrame.cc), as local mapping builds them, and the erasure of         *)
(* redundant keyframes.                                                    *)
(*                                                                         *)
(* How many map points two keyframes share is chosen anew whenever it is   *)
(* counted.  SetBadFlag is a program two threads may run, for different    *)
(* keyframes or for the same one; the mutex of a keyframe's connections is *)
(* held across steps only there, while the children find new parents.      *)
(***************************************************************************)
EXTENDS Naturals, FiniteSets

CONSTANTS
  MaxKeyFrames,  \* bound: keyframes created
  MaxMaps,       \* bound: maps created
  MaxWeight,     \* bound: shared map points counted between two keyframes
  Reach,         \* bound: how many keyframes apart two keyframes may share points
  Threshold,     \* shared points that make a connection (th in UpdateConnections)
  Culling        \* bound: whether local mapping ever finds the time to cull keyframes

Null == 0
KeyFrames == 1 .. MaxKeyFrames     \* in the order of their mnId
Maps == 1 .. MaxMaps
Erasers == {"LM", "LC"}            \* the threads that call SetBadFlag

ASSUME BoundsAssumption == MaxKeyFrames \in Nat /\ MaxMaps \in Nat \ {0} /\ MaxWeight \in Nat /\ Reach \in Nat
ASSUME ThresholdAssumption == Threshold \in Nat \ {0}
ASSUME CullingAssumption == Culling \in BOOLEAN

VARIABLES
  created,          \* keyframes created so far
  currentMap,       \* the active map of the atlas
  mpMap,            \* the map each keyframe belongs to
  mnInitKFid,       \* the first keyframe of each map
  mspKeyFrames,     \* keyframes stored in a map
  mConnectedKeyFrameWeights,
  mvpOrderedConnectedKeyFrames,    \* as a set: its order is that of the weights
  mpParent, mspChildrens,
  mbFirstConnection, mbNotErase, mbToBeErased, mbBad,   \* the keyframes with the flag set
  mspLoopEdges,
  eraser,           \* per thread: how far its call of SetBadFlag has come
  lmPc,             \* where local mapping is in its iteration
  mpCurrentKeyFrame,
  KFcounter,        \* local of UpdateConnections: shared points per keyframe
  vPairs,           \* local of UpdateConnections: the keyframes it connects to
  vpLocalKeyFrames  \* local of KeyFrameCulling: the keyframes it has still to look at

mapVars   == <<created, currentMap, mpMap, mnInitKFid, mspKeyFrames>>
covVars   == <<mConnectedKeyFrameWeights, mvpOrderedConnectedKeyFrames>>
treeVars  == <<mpParent, mspChildrens, mbFirstConnection>>
flagVars  == <<mbNotErase, mbToBeErased, mspLoopEdges>>
lmVars    == <<lmPc, mpCurrentKeyFrame, KFcounter, vPairs, vpLocalKeyFrames>>
graphVars == <<mapVars, covVars, treeVars, flagVars, mbBad, eraser, lmVars>>

Weights == [KeyFrames -> 0 .. MaxWeight]
NoWeights == [k \in KeyFrames |-> 0]

ErasePcs == {"none", "test", "detach", "lock", "assign", "eraseMap", "eraseDB"}
Idle == [pc |-> "none", kf |-> Null, candidates |-> {}]

GraphTypeOK ==
  /\ created \in 0 .. MaxKeyFrames /\ currentMap \in Maps
  /\ mpMap \in [KeyFrames -> Maps]
  /\ mnInitKFid \in [Maps -> KeyFrames \cup {Null}]
  /\ mspKeyFrames \subseteq KeyFrames
  /\ mConnectedKeyFrameWeights \in [KeyFrames -> Weights]
  /\ mvpOrderedConnectedKeyFrames \in [KeyFrames -> SUBSET KeyFrames]
  /\ mpParent \in [KeyFrames -> KeyFrames \cup {Null}]
  /\ mspChildrens \in [KeyFrames -> SUBSET KeyFrames]
  /\ mbFirstConnection \subseteq KeyFrames
  /\ mbNotErase \subseteq KeyFrames /\ mbToBeErased \subseteq KeyFrames
  /\ mbBad \subseteq KeyFrames
  /\ mspLoopEdges \in [KeyFrames -> SUBSET KeyFrames]
  /\ eraser \in [Erasers -> [pc : ErasePcs, kf : KeyFrames \cup {Null}, candidates : SUBSET KeyFrames]]
  /\ lmPc \in {"idle", "count", "link", "cull", "handOff"}
  /\ mpCurrentKeyFrame \in KeyFrames \cup {Null}
  /\ KFcounter \in Weights /\ vPairs \subseteq KeyFrames
  /\ vpLocalKeyFrames \subseteq KeyFrames

GraphInit ==
  /\ created = 0 /\ currentMap = 1
  /\ mpMap = [k \in KeyFrames |-> 1]
  /\ mnInitKFid = [m \in Maps |-> Null]
  /\ mspKeyFrames = {}
  /\ mConnectedKeyFrameWeights = [k \in KeyFrames |-> NoWeights]
  /\ mvpOrderedConnectedKeyFrames = [k \in KeyFrames |-> {}]
  /\ mpParent = [k \in KeyFrames |-> Null]
  /\ mspChildrens = [k \in KeyFrames |-> {}]
  /\ mbFirstConnection = KeyFrames
  /\ mbNotErase = {} /\ mbToBeErased = {} /\ mbBad = {}
  /\ mspLoopEdges = [k \in KeyFrames |-> {}]
  /\ eraser = [t \in Erasers |-> Idle]
  /\ lmPc = "idle" /\ mpCurrentKeyFrame = Null
  /\ KFcounter = NoWeights /\ vPairs = {} /\ vpLocalKeyFrames = {}

-----------------------------------------------------------------------------
(* KeyFrame methods.                                                        *)

\* mMutexConnections of every keyframe of K can be taken.
CanLock(K) == \A t \in Erasers : eraser[t].pc = "assign" => eraser[t].kf \notin K

\* The keyframes a connection leads to, the bad ones left out (UpdateBestCovisibles).
Covisibles(weights) == {k \in KeyFrames : weights[k] > 0} \ mbBad

LiveOf(m) == {j \in mspKeyFrames \ mbBad : mpMap[j] = m}

\* What UpdateConnections may count for k: points shared with live keyframes of
\* the same map, perhaps none at all ("This should not happen"): tracking inserts
\* keyframes with few matches, with an inertial sensor even while it is lost.
CountersAmong(k, others) ==
  {c \in Weights : \A j \in KeyFrames : c[j] > 0 => j \in others /\ j \in k - Reach .. k + Reach}
Counters(k) == CountersAmong(k, LiveOf(mpMap[k]) \ {k})

Heaviest(weights) ==
  {k \in KeyFrames : weights[k] > 0 /\ \A j \in KeyFrames : weights[j] <= weights[k]}

\* The connections UpdateConnections keeps in order: all above the threshold,
\* or one of the heaviest; it returns at once when no point is shared.
Selections(c) ==
  LET strong == {k \in KeyFrames : c[k] >= Threshold}
  IN IF strong # {} \/ c = NoWeights THEN {strong} ELSE {{k} : k \in Heaviest(c)}

\* AddConnection(k, c[j]) of every selected neighbour j.
AddConnections(k, c, selected) ==
  LET weights == [j \in KeyFrames |->
                    IF j \in selected
                      THEN [mConnectedKeyFrameWeights[j] EXCEPT ![k] = c[j]]
                      ELSE mConnectedKeyFrameWeights[j]]
  IN /\ mConnectedKeyFrameWeights' = weights
     /\ mvpOrderedConnectedKeyFrames' =
          [j \in KeyFrames |->
             IF weights[j] # mConnectedKeyFrameWeights[j] THEN Covisibles(weights[j])
                                                          ELSE mvpOrderedConnectedKeyFrames[j]]

SetNotErase(K) ==
  /\ CanLock(K)
  /\ mbNotErase' = mbNotErase \cup K

\* AddLoopEdge of a and b, each to the other.
AddLoopEdges(a, b) ==
  /\ mbNotErase' = mbNotErase \cup {a, b}
  /\ mspLoopEdges' = [mspLoopEdges EXCEPT ![a] = @ \cup {b}, ![b] = @ \cup {a}]
  /\ UNCHANGED mbToBeErased

\* Mutant of SetErase: the loop edges are not looked at.
SetEraseDespiteLoop(t, k) ==
  /\ eraser[t] = Idle
  /\ CanLock({k})
  /\ mbNotErase' = mbNotErase \ {k}
  /\ eraser' = IF k \in mbToBeErased THEN [eraser EXCEPT ![t] = [Idle EXCEPT !.pc = "test", !.kf = k]]
                                     ELSE eraser

\* Mutant of SetErase: a deferred erasure is not made up for.
SetEraseOnly(t, k) ==
  /\ eraser[t] = Idle
  /\ CanLock({k})
  /\ mbNotErase' = IF mspLoopEdges[k] = {} THEN mbNotErase \ {k} ELSE mbNotErase
  /\ UNCHANGED eraser

\* SetErase up to its call of SetBadFlag, which a deferred erasure leads to.
SetErase(t, k) ==
  /\ eraser[t] = Idle
  /\ CanLock({k})
  /\ mbNotErase' = IF mspLoopEdges[k] = {} THEN mbNotErase \ {k} ELSE mbNotErase
  /\ eraser' = IF k \in mbToBeErased THEN [eraser EXCEPT ![t] = [Idle EXCEPT !.pc = "test", !.kf = k]]
                                     ELSE eraser

-----------------------------------------------------------------------------
(* SetBadFlag, run by thread t.                                             *)

EraseGoto(t, from, to) ==
  /\ eraser[t].pc = from
  /\ eraser' = [eraser EXCEPT ![t].pc = to]

\* The first keyframe of a map stays; the erasure of a protected one is deferred.
TestErase(t) ==
  /\ eraser[t].pc = "test"
  /\ LET k == eraser[t].kf IN
       /\ CanLock({k})
       /\ \/ /\ k = mnInitKFid[mpMap[k]]
             /\ eraser' = [eraser EXCEPT ![t] = Idle]
             /\ UNCHANGED mbToBeErased
          \/ /\ k # mnInitKFid[mpMap[k]] /\ k \in mbNotErase
             /\ eraser' = [eraser EXCEPT ![t] = Idle]
             /\ mbToBeErased' = mbToBeErased \cup {k}
          \/ /\ k # mnInitKFid[mpMap[k]] /\ k \notin mbNotErase
             /\ EraseGoto(t, "test", "detach")
             /\ UNCHANGED mbToBeErased
  /\ UNCHANGED <<mapVars, covVars, treeVars, mbNotErase, mspLoopEdges, mbBad, lmVars>>

\* EraseConnection of every neighbour this keyframe has a weight for.
DetachErased(t) ==
  LET k == eraser[t].kf
      neighbours == {j \in KeyFrames : mConnectedKeyFrameWeights[k][j] > 0}
      weights == [j \in KeyFrames |->
                    IF j \in neighbours THEN [mConnectedKeyFrameWeights[j] EXCEPT ![k] = 0]
                                        ELSE mConnectedKeyFrameWeights[j]]
  IN /\ EraseGoto(t, "detach", "lock")
     /\ CanLock(neighbours)
     /\ mConnectedKeyFrameWeights' = weights
     /\ mvpOrderedConnectedKeyFrames' =
          [j \in KeyFrames |->
             IF weights[j] # mConnectedKeyFrameWeights[j] THEN Covisibles(weights[j])
                                                          ELSE mvpOrderedConnectedKeyFrames[j]]
     /\ UNCHANGED <<mapVars, treeVars, flagVars, mbBad, lmVars>>

\* The connections of the keyframe are cleared under its mutex, which is kept.
LockErased(t) ==
  LET k == eraser[t].kf IN
  /\ eraser[t].pc = "lock"
  /\ CanLock({k})
  /\ mConnectedKeyFrameWeights' = [mConnectedKeyFrameWeights EXCEPT ![k] = NoWeights]
  /\ mvpOrderedConnectedKeyFrames' = [mvpOrderedConnectedKeyFrames EXCEPT ![k] = {}]
  /\ eraser' = [eraser EXCEPT ![t] = [@ EXCEPT !.pc = "assign", !.candidates = {mpParent[k]} \ {Null}]]
  /\ UNCHANGED <<mapVars, treeVars, flagVars, mbBad, lmVars>>

\* The other thread does not hold a mutex this call needs for the children.
ChildrenFree(t) ==
  LET k == eraser[t].kf IN
  \A o \in Erasers \ {t} : eraser[o].pc = "assign" =>
    eraser[o].kf \notin mspChildrens[k] \cup eraser[t].candidates \cup {mpParent[k]}

\* A child and a candidate it is connected to.
Adoptions(t) ==
  {a \in (mspChildrens[eraser[t].kf] \ mbBad) \X eraser[t].candidates :
     a[2] \in mvpOrderedConnectedKeyFrames[a[1]]}

AdoptionWeight(a) == mConnectedKeyFrameWeights[a[1]][a[2]]

\* The pair of the highest weight: the child changes its parent, and may itself
\* become the parent of another child.
AdoptChild(t) ==
  /\ eraser[t].pc = "assign"
  /\ ChildrenFree(t)
  /\ \E a \in Adoptions(t) :
       /\ \A other \in Adoptions(t) : AdoptionWeight(other) <= AdoptionWeight(a)
       /\ LET k == eraser[t].kf IN
            /\ mpParent' = [mpParent EXCEPT ![a[1]] = a[2]]
            /\ mspChildrens' = [mspChildrens EXCEPT ![a[2]] = @ \cup {a[1]}, ![k] = @ \ {a[1]}]
       /\ eraser' = [eraser EXCEPT ![t].candidates = @ \cup {a[1]}]
  /\ UNCHANGED <<mapVars, covVars, mbFirstConnection, flagVars, mbBad, lmVars>>

\* Mutant of FinishErase: the children left are not assigned.
FinishEraseAlone(t) ==
  LET k == eraser[t].kf IN
  /\ EraseGoto(t, "assign", "eraseMap")
  /\ ChildrenFree(t)
  /\ Adoptions(t) = {}
  /\ mspChildrens' = [j \in KeyFrames |-> mspChildrens[j] \ {k}]
  /\ mbBad' = mbBad \cup {k}
  /\ UNCHANGED <<mapVars, covVars, mpParent, mbFirstConnection, flagVars, lmVars>>

\* The children left go to the parent; they stay in this keyframe's own set.  Where
\* there is none, or a child is itself the parent, ChangeParent ends the process:
\* the call goes no further.
FinishErase(t) ==
  LET k == eraser[t].kf
      p == mpParent[k]
      left == mspChildrens[k]
  IN /\ EraseGoto(t, "assign", "eraseMap")
     /\ ChildrenFree(t)
     /\ Adoptions(t) = {}
     /\ left # {} => p \notin left \cup {Null}
     /\ mpParent' = [c \in KeyFrames |-> IF c \in left THEN p ELSE mpParent[c]]
     /\ mspChildrens' = [j \in KeyFrames |-> IF j = p THEN (mspChildrens[j] \cup left) \ {k}
                                                      ELSE mspChildrens[j]]
     /\ mbBad' = mbBad \cup {k}
     /\ UNCHANGED <<mapVars, covVars, mbFirstConnection, flagVars, lmVars>>

EraseFromMap(t) ==
  /\ EraseGoto(t, "eraseMap", "eraseDB")
  /\ mspKeyFrames' = mspKeyFrames \ {eraser[t].kf}
  /\ UNCHANGED <<created, currentMap, mpMap, mnInitKFid, covVars, treeVars, flagVars, mbBad, lmVars>>

\* The steps of SetBadFlag but its last one, KeyFrameDatabase::erase.
EraseStep(t) ==
  \/ TestErase(t) \/ DetachErased(t) \/ LockErased(t) \/ AdoptChild(t) \/ FinishErase(t)
  \/ EraseFromMap(t)

-----------------------------------------------------------------------------
(* Local mapping.                                                           *)

LmGoto(from, to) == lmPc = from /\ lmPc' = to

\* Tracking creates a map with its first keyframe, or one more keyframe of the
\* active map, and local mapping takes it from its queue.
NewMapKeyFrame ==
  /\ LmGoto("idle", "cull")
  /\ created < MaxKeyFrames
  /\ created' = created + 1
  /\ mpCurrentKeyFrame' = created'
  /\ \E m \in Maps : /\ \A other \in Maps : mnInitKFid[other] = Null <=> other >= m
                     /\ currentMap' = m
  /\ mpMap' = [mpMap EXCEPT ![created'] = currentMap']
  /\ mnInitKFid' = [mnInitKFid EXCEPT ![currentMap'] = created']
  /\ mspKeyFrames' = mspKeyFrames \cup {created'}
  /\ UNCHANGED <<covVars, treeVars, flagVars, mbBad, eraser,
                 KFcounter, vPairs, vpLocalKeyFrames>>

TakeKeyFrame ==
  /\ LmGoto("idle", "count")
  /\ 0 < created /\ created < MaxKeyFrames
  /\ created' = created + 1
  /\ mpCurrentKeyFrame' = created'
  /\ mpMap' = [mpMap EXCEPT ![created'] = currentMap]
  /\ UNCHANGED <<currentMap, mnInitKFid, mspKeyFrames, covVars, treeVars, flagVars, mbBad, eraser,
                 KFcounter, vPairs, vpLocalKeyFrames>>

\* UpdateConnections of the current keyframe: the neighbours learn of it ...
CountConnections ==
  /\ LmGoto("count", "link")
  /\ \E c \in Counters(mpCurrentKeyFrame) : \E selected \in Selections(c) :
       /\ CanLock(selected)
       /\ AddConnections(mpCurrentKeyFrame, c, selected)
       /\ KFcounter' = c /\ vPairs' = selected
  /\ UNCHANGED <<mapVars, treeVars, flagVars, mbBad, eraser, mpCurrentKeyFrame, vpLocalKeyFrames>>

\* ... then its own connections are set, and the heaviest becomes its parent the
\* first time; without a shared point it stays as it was.  Map::AddKeyFrame follows
\* all the same.  SearchInNeighbors ends in UpdateConnections once more, unless more
\* keyframes wait.
LinkParent ==
  LET k == mpCurrentKeyFrame IN
  /\ lmPc = "link" /\ lmPc' \in (IF k \in mspKeyFrames THEN {"cull"} ELSE {"count", "cull"})
  /\ CanLock({k})
  /\ \/ KFcounter = NoWeights /\ UNCHANGED <<covVars, treeVars>>
     \/ /\ KFcounter # NoWeights
        /\ mConnectedKeyFrameWeights' = [mConnectedKeyFrameWeights EXCEPT ![k] = KFcounter]
        /\ mvpOrderedConnectedKeyFrames' = [mvpOrderedConnectedKeyFrames EXCEPT ![k] = vPairs]
        /\ \/ /\ k \in mbFirstConnection
              /\ \E p \in Heaviest(KFcounter) \cap vPairs :
                   /\ CanLock({p})
                   /\ mpParent' = [mpParent EXCEPT ![k] = p]
                   /\ mspChildrens' = [mspChildrens EXCEPT ![p] = @ \cup {k}]
              /\ mbFirstConnection' = mbFirstConnection \ {k}
           \/ k \notin mbFirstConnection /\ UNCHANGED treeVars
  /\ mspKeyFrames' = mspKeyFrames \cup {k}
  /\ KFcounter' = NoWeights /\ vPairs' = {}
  /\ UNCHANGED <<created, currentMap, mpMap, mnInitKFid, flagVars, mbBad, eraser,
                 mpCurrentKeyFrame, vpLocalKeyFrames>>

\* A keyframe comes into its map without connections, and without a parent.
EntersAlone == lmPc = "link" /\ KFcounter = NoWeights /\ mpCurrentKeyFrame \in mbFirstConnection

\* KeyFrameCulling looks at the covisible keyframes, or is left out when local
\* mapping is asked to stop or has more to do.
StartCulling ==
  LET k == mpCurrentKeyFrame
      best == Covisibles(mConnectedKeyFrameWeights[k])
  IN /\ lmPc = "cull" /\ vpLocalKeyFrames = {} /\ eraser["LM"] = Idle
     /\ CanLock({k})
     /\ \/ /\ Culling /\ best # {}
           /\ mvpOrderedConnectedKeyFrames' = [mvpOrderedConnectedKeyFrames EXCEPT ![k] = best]
           /\ vpLocalKeyFrames' = best
           /\ lmPc' = "handOff"
        \/ /\ lmPc' = "handOff"
           /\ UNCHANGED <<mvpOrderedConnectedKeyFrames, vpLocalKeyFrames>>
     /\ UNCHANGED <<mapVars, mConnectedKeyFrameWeights, treeVars, flagVars, mbBad, eraser,
                    mpCurrentKeyFrame, KFcounter, vPairs>>

\* One keyframe is looked at; a redundant one is erased.
CullKeyFrame ==
  /\ lmPc = "handOff" /\ eraser["LM"] = Idle
  /\ \E k \in vpLocalKeyFrames :
       /\ vpLocalKeyFrames' = vpLocalKeyFrames \ {k}
       /\ \/ /\ k # mnInitKFid[mpMap[k]] /\ k \notin mbBad
             /\ eraser' = [eraser EXCEPT !["LM"] = [Idle EXCEPT !.pc = "test", !.kf = k]]
          \/ UNCHANGED eraser
  /\ UNCHANGED <<mapVars, covVars, treeVars, flagVars, mbBad, lmPc, mpCurrentKeyFrame,
                 KFcounter, vPairs>>

\* The end of the iteration; the hand-over to loop closing is conjoined there.
EndIteration ==
  /\ LmGoto("handOff", "idle")
  /\ vpLocalKeyFrames = {} /\ eraser["LM"] = Idle
  /\ UNCHANGED <<mapVars, covVars, treeVars, flagVars, mbBad, eraser,
                 mpCurrentKeyFrame, KFcounter, vPairs, vpLocalKeyFrames>>

LmGraphStep ==
  \/ CountConnections \/ LinkParent \/ StartCulling \/ CullKeyFrame
-----------------------------------------------------------------------------
(* What a sound graph is.                                                   *)

\* The keyframes from k up along the parents.
Ancestors(k) ==
  LET up[n \in 0 .. MaxKeyFrames] ==
        IF n = 0 THEN {k} ELSE up[n - 1] \cup ({mpParent[j] : j \in up[n - 1]} \ {Null})
  IN up[MaxKeyFrames]

\* The keyframes of map m that going from children to children leads to.
ReachedFromFirst(m) ==
  LET down[n \in 0 .. MaxKeyFrames] ==
        IF n = 0 THEN {mnInitKFid[m]} \ {Null}
                 ELSE down[n - 1] \cup UNION {mspChildrens[j] \ mbBad : j \in down[n - 1]}
  IN down[MaxKeyFrames]

\* Every keyframe of a map hangs, by live parents of the same map, on its first
\* keyframe, and parents and children agree.
SpanningTree ==
  \A k \in mspKeyFrames \ mbBad :
    /\ mnInitKFid[mpMap[k]] \in Ancestors(k)
    /\ \A a \in Ancestors(k) : a \in mspKeyFrames \ mbBad /\ mpMap[a] = mpMap[k]
    /\ \A c \in mspKeyFrames \ mbBad : c \in mspChildrens[k] <=> mpParent[c] = k
=============================================================================

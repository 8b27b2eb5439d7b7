-------------------------- MODULE MapPoints_proofs --------------------------
(***************************************************************************)
(* Proofs about MapPoints.  The invariant says what the calls still to be  *)
(* made hold (Calling), who may have calls to make (Turns), that nObs      *)
(* suffices (Counted), and that a good point missing from the map is being *)
(* made while a bad one in it is about to be erased (MapKept).  On top of  *)
(* it, SlotInv says which observations the slots of the keyframes do not   *)
(* show yet, and that the calls of the one thread at work put them right.  *)
(* RefInv says why nObs is exact until a loop has been corrected, and who  *)
(* observes a point that local mapping is making; Sequenced says why it is *)
(* never before that time again.                                           *)
(***************************************************************************)
EXTENDS MapPoints, FiniteSetTheorems, SequenceTheorems, TLAPS

In(c, s) == \E n \in 1..Len(s) : s[n] = c

(* The calls that make a new point observed, before it is added to the map. *)
ObserveCalls == [do : {"AddObservation", "SetMatch"}, mp : Nat, kf : Nat, idx : Features]

(* Every call but AddToMap; what EraseFromMap takes out is bad. *)
OtherCalls(np, nk, bad) ==
  UNION {[do : {"AddObservation", "MoveObservation", "Associate"}, mp : 1..np, kf : 1..nk, idx : Features],
         [do : {"SetMatch"}, mp : 0..np, kf : 1..nk, idx : Features],
         [do : {"EraseObservation", "EraseMatch"}, mp : 1..np, kf : 1..nk],
         [do : {"SetBadFlag"}, mp : 1..np],
         [do : {"EraseFromMap"}, mp : bad],
         [do : {"Replace"}, mp : 1..np, by : 1..np],
         [do : {"Forget"}, kf : 1..nk, idx : Features],
         [do : {"MarkBad", "InsertInMap"}, kf : 1..nk],
         [do : {"Unlock"}]}

AllCalls(np, nk, bad) == OtherCalls(np, nk, bad) \cup [do : {"AddToMap"}, mp : 1..np]

ObservationsTo(nk) == UNION {[S -> Features] : S \in SUBSET (1..nk)}

LEMMA ConcatTail ==
  ASSUME NEW S, NEW s \in Seq(S), s # <<>>, NEW f \in Seq(S)
  PROVE  /\ f \o Tail(s) \in Seq(S)
         /\ \A c : In(c, s) /\ c # Head(s) => In(c, f \o Tail(s))
         /\ \A c : In(c, f) => In(c, f \o Tail(s))
<1>1. /\ Len(s) \in Nat \ {0} /\ Tail(s) \in Seq(S) /\ Len(Tail(s)) = Len(s) - 1
      /\ \A i \in 1..Len(Tail(s)) : Tail(s)[i] = s[i + 1]
  BY EmptySeq, HeadTailProperties
<1>2. /\ f \o Tail(s) \in Seq(S) /\ Len(f) \in Nat
      /\ Len(f \o Tail(s)) = Len(f) + Len(Tail(s))
      /\ \A i \in 1..(Len(f) + Len(Tail(s))) :
            (f \o Tail(s))[i] = IF i <= Len(f) THEN f[i] ELSE Tail(s)[i - Len(f)]
  BY <1>1, ConcatProperties, LenProperties
<1>3. Head(s) = s[1]
  OBVIOUS
<1>4. ASSUME NEW c, In(c, s), c # Head(s)  PROVE In(c, f \o Tail(s))
  <2>1. PICK n \in 1..Len(s) : s[n] = c
    BY <1>4 DEF In
  <2>2. n # 1
    BY <2>1, <1>3, <1>4
  <2>3. n - 1 \in 1..Len(Tail(s)) /\ Tail(s)[n - 1] = c
    BY <1>1, <2>1, <2>2
  <2>4. Len(f) + (n - 1) \in 1..(Len(f) + Len(Tail(s))) /\ ~(Len(f) + (n - 1) <= Len(f))
        /\ (Len(f) + (n - 1)) - Len(f) = n - 1
    BY <1>1, <1>2, <2>3
  <2>5. (f \o Tail(s))[Len(f) + (n - 1)] = c
    BY <1>2, <2>3, <2>4
  <2>. QED  BY <1>2, <2>4, <2>5 DEF In
<1>5. ASSUME NEW c, In(c, f)  PROVE In(c, f \o Tail(s))
  <2>1. PICK n \in 1..Len(f) : f[n] = c
    BY <1>5 DEF In
  <2>2. n \in 1..(Len(f) + Len(Tail(s))) /\ n <= Len(f)
    BY <1>1, <1>2, <2>1
  <2>. QED  BY <1>2, <2>1, <2>2 DEF In
<1>. QED  BY <1>2, <1>4, <1>5

LEMMA OneMore ==
  ASSUME NEW S, IsFiniteSet(S), NEW x
  PROVE  /\ IsFiniteSet(S \cup {x}) /\ Cardinality(S) \in Nat /\ Cardinality(S \cup {x}) \in Nat
         /\ Cardinality(S \cup {x}) <= Cardinality(S) + 1
<1>1. Cardinality(S) \in Nat
  BY FS_CardinalityType
<1>2. IsFiniteSet(S \cup {x}) /\ Cardinality(S \cup {x}) = IF x \in S THEN Cardinality(S) ELSE Cardinality(S) + 1
  BY FS_AddElement, Zenon
<1>. QED  BY <1>1, <1>2, SMT

LEMMA ObservedTyped ==
  ASSUME NEW nk \in Nat, NEW f \in ObservationsTo(nk), NEW k \in 1..nk, NEW i \in Features
  PROVE  ObservedAt(f, k, i) \in ObservationsTo(nk)
<1>1. PICK S \in SUBSET (1..nk) : f \in [S -> Features]
  BY DEF ObservationsTo
<1>2. S \cup {k} \in SUBSET (1..nk)
  OBVIOUS
<1>3. ObservedAt(f, k, i) \in [S \cup {k} -> Features]
  BY <1>1 DEF ObservedAt
<1>. QED  BY <1>2, <1>3 DEF ObservationsTo

(* The weight of the observations f, as ObservedWeight counts it. *)
WeightOf(f) == Cardinality(DOMAIN f) + Cardinality({k \in DOMAIN f : f[k] \in DepthFeatures})

LEMMA ObservationsAreFinite ==
  ASSUME NEW nk \in Nat, NEW f \in ObservationsTo(nk)
  PROVE  /\ DOMAIN f \subseteq 1..nk /\ IsFiniteSet(DOMAIN f) /\ \A k \in DOMAIN f : f[k] \in Features
         /\ IsFiniteSet({k \in DOMAIN f : f[k] \in DepthFeatures})
         /\ WeightOf(f) \in Nat
<1>1. PICK S \in SUBSET (1..nk) : f \in [S -> Features]
  BY DEF ObservationsTo
<1>2. IsFiniteSet(1..nk)
  BY FS_Interval, 1 \in Int, nk \in Int
<1>3. DOMAIN f \in SUBSET (1..nk)
  BY <1>1
<1>4. IsFiniteSet(DOMAIN f)
  BY <1>2, <1>3, FS_Subset
<1>5. {k \in DOMAIN f : f[k] \in DepthFeatures} \in SUBSET DOMAIN f
  OBVIOUS
<1>6. IsFiniteSet({k \in DOMAIN f : f[k] \in DepthFeatures})
  BY <1>4, <1>5, FS_Subset
<1>. QED  BY <1>1, <1>3, <1>4, <1>6, FS_CardinalityType DEF WeightOf

LEMMA ObserveWeight ==
  ASSUME NEW nk \in Nat, NEW f \in ObservationsTo(nk), NEW k \in 1..nk, NEW i \in Features
  PROVE  WeightOf(ObservedAt(f, k, i)) <= WeightOf(f) + Weight(i)
<1>. DEFINE g == ObservedAt(f, k, i)
            Deep(h) == {x \in DOMAIN h : h[x] \in DepthFeatures}
<1>1. /\ g \in ObservationsTo(nk) /\ DOMAIN g = DOMAIN f \cup {k}
      /\ g[k] = i /\ \A x \in DOMAIN f \ {k} : g[x] = f[x]
  <2>1. g \in ObservationsTo(nk)
    BY ObservedTyped, Zenon
  <2>2. DOMAIN g = DOMAIN f \cup {k} /\ g[k] = i
    BY DEF ObservedAt
  <2>3. \A x \in DOMAIN f \ {k} : g[x] = f[x]
    BY DEF ObservedAt
  <2>. QED  BY <2>1, <2>2, <2>3
<1>2. IsFiniteSet(DOMAIN f) /\ IsFiniteSet(Deep(f)) /\ IsFiniteSet(Deep(g))
  BY <1>1, ObservationsAreFinite, Zenon
<1>3. /\ Cardinality(DOMAIN f) \in Nat /\ Cardinality(DOMAIN g) \in Nat
      /\ Cardinality(DOMAIN g) <= Cardinality(DOMAIN f) + 1
  BY <1>1, <1>2, OneMore, Zenon
<1>4. CASE i \in DepthFeatures
  <2>1. Deep(g) \in SUBSET (Deep(f) \cup {k})
    BY <1>1
  <2>2. /\ IsFiniteSet(Deep(f) \cup {k}) /\ Cardinality(Deep(f)) \in Nat /\ Cardinality(Deep(f) \cup {k}) \in Nat
        /\ Cardinality(Deep(f) \cup {k}) <= Cardinality(Deep(f)) + 1
    BY <1>2, OneMore, Zenon
  <2>3. Cardinality(Deep(g)) <= Cardinality(Deep(f) \cup {k}) /\ Cardinality(Deep(g)) \in Nat
    BY <1>2, <2>1, <2>2, FS_Subset, FS_CardinalityType, Zenon
  <2>4. WeightOf(f) = Cardinality(DOMAIN f) + Cardinality(Deep(f)) /\ WeightOf(g) = Cardinality(DOMAIN g) + Cardinality(Deep(g))
    BY Zenon DEF WeightOf
  <2>5. Weight(i) = 2
    BY <1>4 DEF Weight
  <2>6. WeightOf(g) <= WeightOf(f) + Weight(i)
    BY <1>3, <2>2, <2>3, <2>4, <2>5, SMT
  <2>. QED  BY <2>6
<1>5. CASE i \notin DepthFeatures
  <2>1. Deep(g) \in SUBSET Deep(f)
    BY <1>1, <1>5
  <2>2. /\ Cardinality(Deep(g)) <= Cardinality(Deep(f))
        /\ Cardinality(Deep(g)) \in Nat /\ Cardinality(Deep(f)) \in Nat
    BY <1>2, <2>1, FS_Subset, FS_CardinalityType, Zenon
  <2>3. WeightOf(f) = Cardinality(DOMAIN f) + Cardinality(Deep(f)) /\ WeightOf(g) = Cardinality(DOMAIN g) + Cardinality(Deep(g))
    BY Zenon DEF WeightOf
  <2>4. Weight(i) = 1
    BY <1>5 DEF Weight
  <2>5. WeightOf(g) <= WeightOf(f) + Weight(i)
    BY <1>3, <2>2, <2>3, <2>4, SMT
  <2>. QED  BY <2>5
<1>. QED  BY <1>4, <1>5

(* What both sides lose keeps their order. *)
LEMMA LessOfBoth == \A n, v, w \in Int : n >= v => n - w >= v - w
OBVIOUS

LEMMA UnobserveFacts ==
  ASSUME NEW nk \in Nat, NEW f \in ObservationsTo(nk), NEW k \in DOMAIN f
  PROVE  LET g == [o \in DOMAIN f \ {k} |-> f[o]] IN
         g \in ObservationsTo(nk) /\ WeightOf(g) = WeightOf(f) - Weight(f[k])
<1>. DEFINE g == [o \in DOMAIN f \ {k} |-> f[o]]
            Deep(h) == {x \in DOMAIN h : h[x] \in DepthFeatures}
<1>1. /\ DOMAIN f \subseteq 1..nk /\ IsFiniteSet(DOMAIN f) /\ \A x \in DOMAIN f : f[x] \in Features
      /\ IsFiniteSet(Deep(f))
  BY ObservationsAreFinite
<1>2. g \in [DOMAIN f \ {k} -> Features] /\ DOMAIN f \ {k} \in SUBSET (1..nk)
  BY <1>1
<1>3. g \in ObservationsTo(nk)
  BY <1>2 DEF ObservationsTo
<1>4. Cardinality(DOMAIN g) = Cardinality(DOMAIN f) - 1
  BY <1>1, FS_RemoveElement
<1>5. Deep(g) = Deep(f) \ {k}
  OBVIOUS
<1>6. Cardinality(Deep(g)) = IF f[k] \in DepthFeatures THEN Cardinality(Deep(f)) - 1 ELSE Cardinality(Deep(f))
  BY <1>1, <1>5, FS_RemoveElement
<1>7. Cardinality(DOMAIN f) \in Nat /\ Cardinality(Deep(f)) \in Nat
  BY <1>1, FS_CardinalityType
<1>8. WeightOf(g) = WeightOf(f) - Weight(f[k])
  BY <1>4, <1>6, <1>7 DEF WeightOf, Weight
<1>. QED  BY <1>3, <1>8

LEMMA SingleFacts ==
  ASSUME NEW nk \in Nat, NEW k \in 1..nk, NEW i \in Features
  PROVE  [o \in {k} |-> i] \in ObservationsTo(nk) /\ WeightOf([o \in {k} |-> i]) = Weight(i)
<1>. DEFINE g == [o \in {k} |-> i]
<1>1. g \in [{k} -> Features] /\ {k} \in SUBSET (1..nk)
  OBVIOUS
<1>2. g \in ObservationsTo(nk)
  BY <1>1 DEF ObservationsTo
<1>3. Cardinality({k}) = 1 /\ Cardinality({}) = 0
  BY FS_Singleton, FS_EmptySet
<1>4. {x \in DOMAIN g : g[x] \in DepthFeatures} = IF i \in DepthFeatures THEN {k} ELSE {}
  OBVIOUS
<1>5. DOMAIN g = {k}
  OBVIOUS
<1>. QED  BY <1>2, <1>3, <1>4, <1>5 DEF WeightOf, Weight

LEMMA NothingObserved ==
  ASSUME NEW nk \in Nat
  PROVE  <<>> \in ObservationsTo(nk) /\ WeightOf(<<>>) = 0
<1>1. <<>> \in [{} -> Features] /\ {} \in SUBSET (1..nk) /\ DOMAIN <<>> = {}
  OBVIOUS
<1>2. {k \in DOMAIN <<>> : <<>>[k] \in DepthFeatures} = {}
  BY <1>1
<1>. QED  BY <1>1, <1>2, FS_EmptySet DEF ObservationsTo, WeightOf

LEMMA MoreKeyFrames ==
  ASSUME NEW nk \in Nat, NEW f \in ObservationsTo(nk)
  PROVE  f \in ObservationsTo(nk + 1)
<1>1. SUBSET (1..nk) \subseteq SUBSET (1..(nk + 1))
  OBVIOUS
<1>. QED  BY <1>1 DEF ObservationsTo

(* An enumeration of a set is a sequence over it. *)
LEMMA OrdersFacts ==
  ASSUME NEW S, IsFiniteSet(S), NEW s \in Orders(S)
  PROVE  /\ s \in Seq(S) /\ Len(s) = Cardinality(S) /\ Len(s) \in Nat
         /\ \A n \in 1..Len(s) : s[n] \in S
         /\ \A x \in S : \E n \in 1..Len(s) : s[n] = x
<1>1. Cardinality(S) \in Nat
  BY FS_CardinalityType
<1>2. s \in [1..Cardinality(S) -> S] /\ \A x \in S : \E n \in 1..Cardinality(S) : s[n] = x
  BY DEF Orders, Bijection, Surjection, Injection
<1>3. s \in Seq(S) /\ Len(s) = Cardinality(S)
  BY <1>1, <1>2
<1>. QED  BY <1>1, <1>2, <1>3

(* What a call holds, by its name. *)
LEMMA CallFields ==
  ASSUME NEW np \in Nat, NEW nk \in Nat, NEW bad, NEW c \in AllCalls(np, nk, bad)
  PROVE  /\ c.do \in {"AddObservation", "MoveObservation", "Associate"} =>
              c.mp \in 1..np /\ c.kf \in 1..nk /\ c.idx \in Features
         /\ c.do = "SetMatch" => c.mp \in 0..np /\ c.kf \in 1..nk /\ c.idx \in Features
         /\ c.do \in {"EraseObservation", "EraseMatch"} => c.mp \in 1..np /\ c.kf \in 1..nk
         /\ c.do = "SetBadFlag" => c.mp \in 1..np
         /\ c.do = "EraseFromMap" => c.mp \in bad /\ c = EraseFromMap(c.mp)
         /\ c.do = "AddToMap" => c.mp \in 1..np /\ c = AddToMap(c.mp)
         /\ c.do = "Replace" => c.mp \in 1..np /\ c.by \in 1..np
         /\ c.do = "Forget" => c.kf \in 1..nk /\ c.idx \in Features
         /\ c.do \in {"MarkBad", "InsertInMap"} => c.kf \in 1..nk
         /\ c.do = "AddToMap" \/ c \in OtherCalls(np, nk, bad)
BY DEF AllCalls, OtherCalls, EraseFromMap, AddToMap

LEMMA CallMakers ==
  ASSUME NEW np \in Nat, NEW nk \in Nat, NEW bad
  PROVE  /\ \A p \in 1..np, k \in 1..nk, i \in Features :
              /\ AddObservationOf(p, k, i) \in OtherCalls(np, nk, bad)
              /\ MoveObservation(p, k, i) \in OtherCalls(np, nk, bad)
              /\ Associate(p, k, i) \in OtherCalls(np, nk, bad)
         /\ \A p \in 0..np, k \in 1..nk, i \in Features : SetMatch(k, i, p) \in OtherCalls(np, nk, bad)
         /\ \A p \in 1..np, k \in 1..nk :
              EraseObservationOf(p, k) \in OtherCalls(np, nk, bad) /\ EraseMatch(k, p) \in OtherCalls(np, nk, bad)
         /\ \A p \in 1..np : SetBadFlagOf(p) \in OtherCalls(np, nk, bad)
         /\ \A p \in bad : EraseFromMap(p) \in OtherCalls(np, nk, bad)
         /\ \A p, q \in 1..np : ReplaceBy(p, q) \in OtherCalls(np, nk, bad)
         /\ \A k \in 1..nk, i \in Features : Forget(k, i) \in OtherCalls(np, nk, bad)
         /\ \A k \in 1..nk : MarkBad(k) \in OtherCalls(np, nk, bad) /\ InsertInMap(k) \in OtherCalls(np, nk, bad)
         /\ Unlock \in OtherCalls(np, nk, bad)
BY DEF OtherCalls, AddObservationOf, MoveObservation, Associate, SetMatch, EraseObservationOf, EraseMatch,
       SetBadFlagOf, EraseFromMap, ReplaceBy, Forget, MarkBad, InsertInMap, Unlock

LEMMA CallsGrow ==
  ASSUME NEW np \in Nat, NEW nk \in Nat, NEW bad, NEW mp \in Nat, NEW mk \in Nat, NEW worse,
         np <= mp, nk <= mk, bad \subseteq worse
  PROVE  /\ OtherCalls(np, nk, bad) \subseteq OtherCalls(mp, mk, worse)
         /\ AllCalls(np, nk, bad) \subseteq AllCalls(mp, mk, worse)
<1>1. 1..np \subseteq 1..mp /\ 0..np \subseteq 0..mp /\ 1..nk \subseteq 1..mk
  OBVIOUS
<1>2. OtherCalls(np, nk, bad) \subseteq OtherCalls(mp, mk, worse)
  BY <1>1 DEF OtherCalls
<1>3. [do : {"AddToMap"}, mp : 1..np] \subseteq [do : {"AddToMap"}, mp : 1..mp]
  BY <1>1
<1>. QED  BY <1>2, <1>3 DEF AllCalls

LEMMA MakingCalls ==
  /\ \A p \in Nat, k \in Nat, i \in Features :
        AddObservationOf(p, k, i) \in ObserveCalls /\ SetMatch(k, i, p) \in ObserveCalls
  /\ \A c \in ObserveCalls : c.do \in {"AddObservation", "SetMatch"}
  /\ \A p : AddToMap(p).do = "AddToMap" /\ AddToMap(p).mp = p
  /\ \A np, p : p \in 1..np => \A nk, bad : AddToMap(p) \in AllCalls(np, nk, bad)
  /\ \A np, nk, bad : OtherCalls(np, nk, bad) \subseteq AllCalls(np, nk, bad)
  /\ \A np, nk, bad : \A c \in OtherCalls(np, nk, bad) : c.do # "AddToMap"
BY DEF ObserveCalls, OtherCalls, AllCalls, AddToMap, AddObservationOf, SetMatch

-----------------------------------------------------------------------------
(* The invariant. *)
Types ==
  /\ points \in 0..MaxPoints /\ keyFrames \in 0..MaxKeyFrames
  /\ mObservations \in [Points -> ObservationsTo(keyFrames)]
  /\ nObs \in [Points -> Int] /\ mpRefKF \in [Points -> 0..keyFrames]
  /\ mbBad \subseteq 1..points /\ mpReplaced \in [Points -> 0..points]
  /\ mvpMapPoints \in [KeyFrames -> [Features -> 0..points]] /\ frame \in [Features -> 0..points]
  /\ mspMapPoints \subseteq 1..points /\ mspKeyFrames \subseteq 1..keyFrames
  /\ badKFs \subseteq 1..keyFrames /\ mbNotErase \subseteq 1..keyFrames
  /\ mbToBeErased \subseteq mbNotErase /\ erasedLate \subseteq 1..keyFrames

Places ==
  /\ mMutexMapUpdate \in Threads \union {"free", "tracking"}
  /\ tracker \in {"idle", "match", "matched"}
  /\ mapper \in {"idle", "cull", "create", "fuse", "ba", "cullkf", "stopped"}
  /\ looper \in {"idle", "detect", "waitStop", "fuse"}
  /\ (mapper = "stopped") = (looper = "fuse")
  /\ mlNewKeyFrames \in Seq(1..keyFrames) /\ mlpLoopKeyFrameQueue \in Seq(1..keyFrames)
  /\ mlpRecentAddedMapPoints \subseteq 1..points
  /\ mpCurrentKF \in 0..keyFrames /\ mpLoopKF \in 0..keyFrames
  /\ mapper \notin {"idle", "stopped"} => mpCurrentKF # 0
  /\ looper # "idle" => mpLoopKF # 0
  /\ looper \in {"waitStop", "fuse"} => matched.idx \in Features /\ matched.mp \in 1..points
  /\ vpReplacePoints \in Seq([kf : 1..keyFrames, mp : 1..points, by : 1..points])

Counted == \A p \in Points : nObs[p] >= WeightOf(mObservations[p])

(* Local mapping is in the middle of CreateNewMapPoints for p. *)
Making(p) == \E s \in Seq(ObserveCalls) : calls["mapping"] = Append(s, AddToMap(p))

Calling ==
  /\ calls = [t \in Threads |-> calls[t]]
  /\ calls["looping"] \in Seq(OtherCalls(points, keyFrames, mbBad))
  /\ calls["mapping"] \in Seq(AllCalls(points, keyFrames, mbBad))
  /\ calls["mapping"] \in Seq(OtherCalls(points, keyFrames, mbBad)) \/ \E p \in 1..points : Making(p)

(* Who may have calls to make.  Without late erasures the two threads take turns. *)
Turns ==
  /\ mapper \in {"idle", "stopped"} => Idle("mapping")
  /\ looper \in {"detect", "waitStop"} => Idle("looping")
  /\ erasedLate = {} /\ looper # "fuse" => Idle("looping")

Pending(p) == \E t \in Threads : In(EraseFromMap(p), calls[t])

MapKept ==
  /\ \A p \in (1..points) \ mbBad : p \in mspMapPoints \/ Making(p)
  /\ erasedLate = {} => \A p \in 1..points : /\ Making(p) => p \notin mbBad
                                             /\ p \in mbBad /\ p \in mspMapPoints => Pending(p)

IInv == Types /\ Places /\ Counted /\ Calling /\ Turns /\ MapKept

LEMMA TheThreads == Threads = {"mapping", "looping"} /\ "mapping" # "looping"
BY DEF Threads

LEMMA InitIInv == Init => IInv
<1>. SUFFICES ASSUME Init  PROVE IInv
  OBVIOUS
<1>1. <<>> \in ObservationsTo(0) /\ WeightOf(<<>>) = 0
  BY NothingObserved, Zenon
<1>2. \A S : <<>> \in Seq(S)
  BY EmptySeq
<1>3. points = 0 /\ keyFrames = 0 /\ 0 \in 0..MaxPoints /\ 0 \in 0..MaxKeyFrames
  BY MapPointsAssumption DEF Init
<1>4. Types
  BY <1>1, <1>3 DEF Init, Types, None, NoMatches
<1>5. Places
  BY <1>2, <1>3 DEF Init, Places, Threads, None
<1>6. Counted
  BY <1>1 DEF Init, Counted
<1>7. Calling
  BY <1>2, TheThreads DEF Init, Calling
<1>8. Turns
  BY DEF Init, Turns, Idle, Threads
<1>9. MapKept
  BY <1>3 DEF Init, MapKept
<1>. QED  BY <1>4, <1>5, <1>6, <1>7, <1>8, <1>9 DEF IInv

-----------------------------------------------------------------------------
(* What a return and a new list of calls do. *)
LEMMA AppendParts ==
  ASSUME NEW S, NEW s \in Seq(S), NEW x
  PROVE  /\ Append(s, x) \in Seq(S \cup {x}) /\ Append(s, x) # <<>>
         /\ Len(Append(s, x)) = Len(s) + 1 /\ Len(s) \in Nat /\ Append(s, x)[Len(s) + 1] = x
         /\ s = <<>> => Head(Append(s, x)) = x /\ Tail(Append(s, x)) = <<>>
         /\ s # <<>> => Head(Append(s, x)) \in S
         /\ s # <<>> => Tail(s) \in Seq(S) /\ Tail(Append(s, x)) = Append(Tail(s), x)
<1>. DEFINE T == S \cup {x}
            q == Append(s, x)
<1>1. s \in Seq(T) /\ x \in T
  BY SeqMonotonic
<1>2. /\ q \in Seq(T) /\ Len(q) = Len(s) + 1 /\ Len(s) \in Nat
      /\ \A i \in 1..Len(s) : q[i] = s[i]
      /\ q[Len(s) + 1] = x
  BY <1>1, AppendProperties, LenProperties
<1>3. q # <<>> /\ Head(q) = q[1]
  BY <1>2, EmptySeq
<1>4. /\ Tail(q) \in Seq(T) /\ Len(Tail(q)) = Len(s)
      /\ \A i \in 1..Len(Tail(q)) : Tail(q)[i] = q[i + 1]
  BY <1>2, <1>3, HeadTailProperties
<1>5. ASSUME s = <<>>  PROVE Head(q) = x /\ Tail(q) = <<>>
  <2>1. Len(s) = 0
    BY <1>5, EmptySeq
  <2>2. Len(Tail(q)) = 0
    BY <1>4, <2>1
  <2>. QED  BY <1>2, <1>3, <1>4, <2>1, <2>2, EmptySeq
<1>6. ASSUME s # <<>>  PROVE Head(q) \in S /\ Tail(s) \in Seq(S) /\ Tail(q) = Append(Tail(s), x)
  <2>1. /\ Len(s) \in Nat \ {0} /\ Tail(s) \in Seq(S) /\ Len(Tail(s)) = Len(s) - 1
        /\ \A i \in 1..Len(Tail(s)) : Tail(s)[i] = s[i + 1]
    BY <1>6, EmptySeq, HeadTailProperties
  <2>2. q[1] = s[1] /\ s[1] \in S
    BY <1>2, <2>1, ElementOfSeq
  <2>3. Tail(s) \in Seq(T)
    BY <2>1, SeqMonotonic
  <2>. DEFINE r == Append(Tail(s), x)
  <2>4. /\ r \in Seq(T) /\ Len(r) = Len(s)
        /\ \A i \in 1..(Len(s) - 1) : r[i] = s[i + 1]
        /\ r[Len(s)] = x
    <3>1. /\ r \in Seq(T) /\ Len(r) = Len(Tail(s)) + 1
          /\ \A i \in 1..Len(Tail(s)) : r[i] = Tail(s)[i]
          /\ r[Len(Tail(s)) + 1] = x
      BY <1>1, <2>3, AppendProperties
    <3>. QED  BY <2>1, <3>1
  <2>5. \A i \in 1..Len(s) : Tail(q)[i] = r[i]
    <3>. SUFFICES ASSUME NEW i \in 1..Len(s)  PROVE Tail(q)[i] = r[i]
      OBVIOUS
    <3>1. Tail(q)[i] = q[i + 1]
      BY <1>4
    <3>2. CASE i = Len(s)
      BY <1>2, <2>4, <3>1, <3>2
    <3>3. CASE i # Len(s)
      <4>1. i \in 1..(Len(s) - 1)
        BY <1>2, <3>3
      <4>. QED  BY <1>2, <2>4, <3>1, <4>1
    <3>. QED  BY <3>2, <3>3
  <2>6. Tail(q) = r
    BY <1>4, <2>4, <2>5, SeqEqual
  <2>. QED  BY <1>3, <2>1, <2>2, <2>6
<1>. QED  BY <1>2, <1>3, <1>5, <1>6

LEMMA MakingFacts ==
  ASSUME NEW p, Making(p)
  PROVE  /\ calls["mapping"] # <<>>
         /\ \A np, nk, bad : calls["mapping"] \notin Seq(OtherCalls(np, nk, bad))
         /\ \A o : Making(o) => o = p
         /\ \/ /\ Head(calls["mapping"]).do \in {"AddObservation", "SetMatch"}
               /\ \E s \in Seq(ObserveCalls) : Tail(calls["mapping"]) = Append(s, AddToMap(p))
            \/ Head(calls["mapping"]) = AddToMap(p) /\ Tail(calls["mapping"]) = <<>>
<1>. DEFINE q == calls["mapping"]
<1>1. PICK s \in Seq(ObserveCalls) : q = Append(s, AddToMap(p))
  BY DEF Making
<1>2. /\ q # <<>> /\ Len(q) = Len(s) + 1 /\ Len(s) \in Nat /\ q[Len(s) + 1] = AddToMap(p)
      /\ s = <<>> => Head(q) = AddToMap(p) /\ Tail(q) = <<>>
      /\ s # <<>> => Head(q) \in ObserveCalls /\ \E r \in Seq(ObserveCalls) : Tail(q) = Append(r, AddToMap(p))
  <2>1. q # <<>> /\ Len(q) = Len(s) + 1 /\ Len(s) \in Nat /\ q[Len(s) + 1] = AddToMap(p)
    BY <1>1, AppendParts
  <2>2. s = <<>> => Head(q) = AddToMap(p) /\ Tail(q) = <<>>
    BY <1>1, AppendParts
  <2>3. s # <<>> => Head(q) \in ObserveCalls
    BY <1>1, AppendParts
  <2>4. s # <<>> => Tail(s) \in Seq(ObserveCalls) /\ Tail(q) = Append(Tail(s), AddToMap(p))
    BY <1>1, AppendParts
  <2>. QED  BY <2>1, <2>2, <2>3, <2>4
<1>3. ASSUME NEW np, NEW nk, NEW bad, q \in Seq(OtherCalls(np, nk, bad))  PROVE FALSE
  <2>1. Len(s) + 1 \in 1..Len(q)
    BY <1>2
  <2>2. AddToMap(p) \in OtherCalls(np, nk, bad)
    BY <1>2, <1>3, <2>1, ElementOfSeq
  <2>. QED  BY <2>2, MakingCalls
<1>4. ASSUME NEW o, Making(o)  PROVE o = p
  <2>1. PICK r \in Seq(ObserveCalls) : q = Append(r, AddToMap(o))
    BY <1>4 DEF Making
  <2>2. Len(q) = Len(r) + 1 /\ Len(r) \in Nat /\ q[Len(r) + 1] = AddToMap(o)
    BY <2>1, AppendParts
  <2>3. AddToMap(o) = AddToMap(p)
    BY <1>2, <2>2
  <2>. QED  BY <2>3, MakingCalls
<1>5. \/ /\ Head(q).do \in {"AddObservation", "SetMatch"}
         /\ \E r \in Seq(ObserveCalls) : Tail(q) = Append(r, AddToMap(p))
      \/ Head(q) = AddToMap(p) /\ Tail(q) = <<>>
  BY <1>2, MakingCalls
<1>. QED  BY <1>2, <1>3, <1>4, <1>5

LEMMA ReturnKept ==
  ASSUME Types, Calling, NEW t \in Threads, calls[t] # <<>>, Head(calls[t]).do # "AddToMap",
         NEW further \in Seq(OtherCalls(points, keyFrames, mbBad')),
         Head(calls[t]).do \in {"AddObservation", "SetMatch"} => further = <<>>,
         Return(t, further), UNCHANGED madeVars, mbBad \subseteq mbBad'
  PROVE  /\ Calling'
         /\ \A p : Making(p)' <=> Making(p)
         /\ \A c : \A u \in Threads : In(c, calls[u]) /\ (u = t => c # Head(calls[t])) => In(c, calls'[u])
         /\ \A c : In(c, further) => In(c, calls'[t])
<1>. DEFINE Others == OtherCalls(points, keyFrames, mbBad)
            NewOthers == OtherCalls(points, keyFrames, mbBad')
            NewAll == AllCalls(points, keyFrames, mbBad')
<1>1. points \in Nat /\ keyFrames \in Nat /\ points' = points /\ keyFrames' = keyFrames
  BY MapPointsAssumption DEF Types, madeVars
<1>2. Others \subseteq NewOthers /\ AllCalls(points, keyFrames, mbBad) \subseteq NewAll
  BY <1>1, CallsGrow
<1>3. NewOthers \subseteq NewAll
  BY MakingCalls
<1>4. /\ calls' = [u \in Threads |-> calls'[u]]
      /\ calls'[t] = further \o Tail(calls[t])
      /\ \A u \in Threads : u # t => calls'[u] = calls[u]
  BY DEF Calling, Return
<1>5. \A u \in Threads : calls[u] \in Seq(NewAll)
  <2>1. calls["looping"] \in Seq(NewAll)
    BY <1>2, <1>3, SeqMonotonic DEF Calling
  <2>2. calls["mapping"] \in Seq(NewAll)
    BY <1>2, SeqMonotonic DEF Calling
  <2>. QED  BY <2>1, <2>2, TheThreads
<1>6. further \in Seq(NewAll)
  BY <1>3, SeqMonotonic
<1>7. /\ calls'[t] \in Seq(NewAll)
      /\ \A c : In(c, calls[t]) /\ c # Head(calls[t]) => In(c, calls'[t])
      /\ \A c : In(c, further) => In(c, calls'[t])
  BY <1>4, <1>5, <1>6, ConcatTail
<1>8. \A u \in Threads : calls'[u] \in Seq(NewAll)
  BY <1>4, <1>5, <1>7
<1>9. \A c : \A u \in Threads : In(c, calls[u]) /\ (u = t => c # Head(calls[t])) => In(c, calls'[u])
  <2>. SUFFICES ASSUME NEW c, NEW u \in Threads, In(c, calls[u]), u = t => c # Head(calls[t])
                PROVE  In(c, calls'[u])
    OBVIOUS
  <2>1. CASE u = t
    BY <1>7, <2>1
  <2>2. CASE u # t
    BY <1>4, <2>2
  <2>. QED  BY <2>1, <2>2
<1>10. CASE calls[t] \in Seq(Others)
  <2>1. calls[t] \in Seq(NewOthers)
    BY <1>2, <1>10, SeqMonotonic
  <2>2. calls'[t] \in Seq(NewOthers)
    BY <1>4, <2>1, ConcatTail
  <2>3. \A u \in Threads : u # t => calls'[u] = calls[u]
    BY <1>4
  <2>4. \A p : t = "mapping" => ~Making(p) /\ ~Making(p)'
    <3>. SUFFICES ASSUME NEW p, t = "mapping", Making(p) \/ Making(p)'  PROVE FALSE
      OBVIOUS
    <3>1. CASE Making(p)
      BY <1>10, <3>1, MakingFacts
    <3>2. CASE Making(p)'
      <4>1. PICK s \in Seq(ObserveCalls) : calls'["mapping"] = Append(s, AddToMap(p))
        BY <3>2 DEF Making
      <4>2. Len(s) + 1 \in 1..Len(calls'["mapping"]) /\ calls'["mapping"][Len(s) + 1] = AddToMap(p)
        BY <4>1, AppendParts
      <4>3. AddToMap(p) \in NewOthers
        BY <2>2, <4>2, ElementOfSeq
      <4>. QED  BY <4>3, MakingCalls
    <3>. QED  BY <3>1, <3>2
  <2>5. \A p : t = "looping" => (Making(p)' <=> Making(p))
    BY <1>4, TheThreads DEF Making
  <2>6. \A p : Making(p)' <=> Making(p)
    BY <2>4, <2>5, TheThreads
  <2>7. Calling'
    <3>1. CASE t = "mapping"
      <4>1. calls'["looping"] \in Seq(NewOthers)
        BY <1>2, <2>3, <3>1, TheThreads, SeqMonotonic DEF Calling
      <4>. QED  BY <1>1, <1>4, <1>8, <2>2, <3>1, <4>1, TheThreads DEF Calling
    <3>2. CASE t = "looping"
      <4>1. calls'["mapping"] = calls["mapping"]
        BY <2>3, <3>2, TheThreads
      <4>2. calls["mapping"] \in Seq(Others) => calls'["mapping"] \in Seq(NewOthers)
        BY <1>2, <4>1, SeqMonotonic
      <4>. QED  BY <1>1, <1>4, <1>8, <2>2, <2>6, <3>2, <4>2, TheThreads DEF Calling
    <3>. QED  BY <3>1, <3>2, TheThreads
  <2>. QED  BY <1>7, <1>9, <2>6, <2>7
<1>11. CASE calls[t] \notin Seq(Others)
  <2>1. t = "mapping"
    BY <1>11, TheThreads DEF Calling
  <2>2. PICK p \in 1..points : Making(p)
    BY <1>11, <2>1 DEF Calling
  <2>3. PICK s \in Seq(ObserveCalls) : Tail(calls[t]) = Append(s, AddToMap(p))
    BY <2>1, <2>2, MakingFacts, MakingCalls
  <2>4. Head(calls[t]).do \in {"AddObservation", "SetMatch"}
    BY <2>1, <2>2, MakingFacts, MakingCalls
  <2>5. further = <<>>
    BY <2>4
  <2>6. Tail(calls[t]) \in Seq(NewAll)
    BY <1>5, HeadTailProperties
  <2>7. calls'[t] = Tail(calls[t])
    BY <1>4, <2>5, <2>6, ConcatEmptySeq
  <2>8. Making(p)'
    BY <2>1, <2>3, <2>7 DEF Making
  <2>9. \A o : Making(o) => o = p
    BY <2>2, MakingFacts
  <2>10. \A o : Making(o)' => o = p
    <3>. SUFFICES ASSUME NEW o, Making(o)'  PROVE o = p
      OBVIOUS
    <3>1. PICK r \in Seq(ObserveCalls) : calls'["mapping"] = Append(r, AddToMap(o))
      BY DEF Making
    <3>2. /\ Len(calls'["mapping"]) = Len(r) + 1 /\ Len(r) \in Nat
          /\ calls'["mapping"][Len(r) + 1] = AddToMap(o)
      BY <3>1, AppendParts
    <3>3. /\ Len(calls'["mapping"]) = Len(s) + 1 /\ Len(s) \in Nat
          /\ calls'["mapping"][Len(s) + 1] = AddToMap(p)
      BY <2>1, <2>3, <2>7, AppendParts
    <3>4. AddToMap(o) = AddToMap(p)
      BY <3>2, <3>3
    <3>. QED  BY <3>4, MakingCalls
  <2>11. \A o : Making(o)' <=> Making(o)
    BY <2>2, <2>8, <2>9, <2>10
  <2>12. calls'["looping"] \in Seq(NewOthers)
    BY <1>2, <1>4, <2>1, TheThreads, SeqMonotonic DEF Calling
  <2>13. Calling'
    BY <1>1, <1>4, <1>8, <2>8, <2>12, TheThreads DEF Calling
  <2>. QED  BY <1>7, <1>9, <2>11, <2>13
<1>. QED  BY <1>10, <1>11

(* What the call a thread is about to make holds. *)
LEMMA HeadTyped ==
  ASSUME IInv, NEW t \in Threads, calls[t] # <<>>
  PROVE  LET c == Head(calls[t]) IN
         /\ points \in Nat /\ keyFrames \in Nat
         /\ c \in AllCalls(points, keyFrames, mbBad)
         /\ c.do \in {"AddObservation", "MoveObservation", "Associate"} =>
              c.mp \in 1..points /\ c.kf \in 1..keyFrames /\ c.idx \in Features
         /\ c.do = "SetMatch" => c.mp \in 0..points /\ c.kf \in 1..keyFrames /\ c.idx \in Features
         /\ c.do \in {"EraseObservation", "EraseMatch"} => c.mp \in 1..points /\ c.kf \in 1..keyFrames
         /\ c.do = "SetBadFlag" => c.mp \in 1..points
         /\ c.do = "EraseFromMap" => c.mp \in mbBad
         /\ c.do = "AddToMap" => c.mp \in 1..points
         /\ c.do = "Replace" => c.mp \in 1..points /\ c.by \in 1..points
         /\ c.do = "Forget" => c.kf \in 1..keyFrames /\ c.idx \in Features
         /\ c.do \in {"MarkBad", "InsertInMap"} => c.kf \in 1..keyFrames
<1>1. points \in Nat /\ keyFrames \in Nat
  BY MapPointsAssumption DEF IInv, Types
<1>2. calls[t] \in Seq(AllCalls(points, keyFrames, mbBad))
  <2>1. calls["looping"] \in Seq(AllCalls(points, keyFrames, mbBad))
    BY MakingCalls, SeqMonotonic DEF IInv, Calling
  <2>. QED  BY <2>1, TheThreads DEF IInv, Calling
<1>3. Head(calls[t]) \in AllCalls(points, keyFrames, mbBad)
  BY <1>2, HeadTailProperties
<1>. QED  BY <1>1, <1>3, CallFields

(* A call that may discard the point q, or take a discarded one out of the map. *)
LEMMA Returning ==
  ASSUME IInv, NEW t \in Threads, calls[t] # <<>>, Head(calls[t]).do # "AddToMap",
         NEW further \in Seq(OtherCalls(points, keyFrames, mbBad')),
         Head(calls[t]).do \in {"AddObservation", "SetMatch"} => further = <<>>,
         Return(t, further), UNCHANGED <<madeVars, mapper, looper, erasedLate>>,
         NEW q, mbBad' = mbBad \/ (mbBad' = mbBad \cup {q} /\ In(EraseFromMap(q), further)),
         mspMapPoints' = IF Head(calls[t]).do = "EraseFromMap" THEN mspMapPoints \ {Head(calls[t]).mp} ELSE mspMapPoints
  PROVE  Calling' /\ Turns' /\ MapKept'
<1>. USE DEF IInv
<1>1. mbBad \subseteq mbBad' /\ points' = points
  BY DEF madeVars
<1>2. /\ Calling'
      /\ \A p : Making(p)' <=> Making(p)
      /\ \A c : \A u \in Threads : In(c, calls[u]) /\ (u = t => c # Head(calls[t])) => In(c, calls'[u])
      /\ \A c : In(c, further) => In(c, calls'[t])
  <2>1. UNCHANGED madeVars
    OBVIOUS
  <2>. QED  BY <1>1, <2>1, ReturnKept, Zenon
<1>3. \A u \in Threads : u # t => calls'[u] = calls[u]
  BY DEF Calling, Return
<1>4. Turns'
  BY <1>3, TheThreads DEF Turns, Idle
<1>5. ASSUME NEW p \in (1..points) \ mbBad'  PROVE p \in mspMapPoints' \/ Making(p)'
  <2>1. p \in mspMapPoints \/ Making(p)
    BY <1>1, <1>5 DEF MapKept
  <2>2. Head(calls[t]).do = "EraseFromMap" => Head(calls[t]).mp \in mbBad
    BY <1>1, HeadTyped
  <2>3. p \in mspMapPoints => p \in mspMapPoints'
    BY <1>1, <1>5, <2>2
  <2>. QED  BY <1>2, <2>1, <2>3
<1>6. ASSUME erasedLate' = {}, NEW p \in 1..points, Making(p)'  PROVE p \notin mbBad'
  <2>1. Making(p) /\ erasedLate = {}
    BY <1>2, <1>6
  <2>2. p \notin mbBad
    BY <2>1 DEF MapKept
  <2>3. calls["mapping"] # <<>>
    BY <2>1, MakingFacts
  <2>4. mapper # "stopped"
    BY <2>3 DEF Turns, Idle
  <2>5. t # "looping"
    <3>1. looper # "fuse"
      BY <2>4 DEF Places
    <3>. QED  BY <2>1, <3>1 DEF Turns, Idle
  <2>6. t = "mapping"
    BY <2>5, TheThreads
  <2>7. Head(calls[t]).do \in {"AddObservation", "SetMatch"} \/ Head(calls[t]) = AddToMap(p)
    BY <2>1, <2>6, MakingFacts
  <2>8. further = <<>>
    BY <2>7, MakingCalls
  <2>9. ~In(EraseFromMap(q), further)
    BY <2>8, EmptySeq DEF In
  <2>. QED  BY <2>2, <2>9
<1>7. ASSUME erasedLate' = {}, NEW p \in 1..points, p \in mbBad', p \in mspMapPoints'  PROVE Pending(p)'
  <2>1. p \in mspMapPoints /\ (Head(calls[t]).do = "EraseFromMap" => p # Head(calls[t]).mp)
    BY <1>7
  <2>1a. Head(calls[t]) # EraseFromMap(p)
    BY <2>1 DEF EraseFromMap
  <2>2. CASE p \in mbBad
    <3>1. PICK u \in Threads : In(EraseFromMap(p), calls[u])
      BY <1>7, <2>1, <2>2 DEF MapKept, Pending
    <3>2. In(EraseFromMap(p), calls'[u])
      BY <1>2, <2>1a, <3>1
    <3>. QED  BY <3>2 DEF Pending, In
  <2>3. CASE p \notin mbBad
    <3>1. p = q /\ In(EraseFromMap(p), further)
      BY <1>7, <2>3
    <3>2. In(EraseFromMap(p), calls'[t])
      BY <1>2, <3>1
    <3>. QED  BY <3>2 DEF Pending, In
  <2>. QED  BY <2>2, <2>3
<1>8. MapKept'
  BY <1>1, <1>5, <1>6, <1>7 DEF MapKept
<1>. QED  BY <1>2, <1>4, <1>8

(* AddToMap ends CreateNewMapPoints. *)
LEMMA AddingToMap ==
  ASSUME IInv, NEW t \in Threads, calls[t] # <<>>, Head(calls[t]).do = "AddToMap",
         Return(t, <<>>), UNCHANGED <<madeVars, mapper, looper, erasedLate, mbBad>>,
         mspMapPoints' = mspMapPoints \cup {Head(calls[t]).mp}
  PROVE  Calling' /\ Turns' /\ MapKept'
<1>. USE DEF IInv
<1>. DEFINE Others == OtherCalls(points, keyFrames, mbBad)
            c == Head(calls[t])
<1>1. points \in Nat /\ keyFrames \in Nat /\ points' = points /\ keyFrames' = keyFrames
  BY MapPointsAssumption DEF Types, madeVars
<1>2. calls[t] \notin Seq(Others)
  <2>1. calls[t] \in Seq(Others) => c \in Others
    BY HeadTailProperties
  <2>. QED  BY <2>1, MakingCalls
<1>3. t = "mapping"
  BY <1>2, TheThreads DEF Calling
<1>4. PICK p \in 1..points : Making(p)
  BY <1>2, <1>3 DEF Calling
<1>5. c = AddToMap(p) /\ Tail(calls[t]) = <<>>
  BY <1>3, <1>4, MakingFacts
<1>6. c.mp = p
  BY <1>5 DEF AddToMap
<1>7. /\ calls' = [u \in Threads |-> calls'[u]]
      /\ calls'["mapping"] = <<>> \o <<>>
      /\ calls'["looping"] = calls["looping"]
  BY <1>3, <1>5, TheThreads DEF Calling, Return
<1>8. calls'["mapping"] = <<>>
  BY <1>7
<1>9. \A S : <<>> \in Seq(S)
  BY EmptySeq
<1>10. Calling'
  BY <1>1, <1>7, <1>8, <1>9 DEF Calling
<1>11. Turns'
  BY <1>3, <1>7, <1>8, TheThreads DEF Turns, Idle
<1>12. \A o : ~Making(o)'
  <2>. SUFFICES ASSUME NEW o, Making(o)'  PROVE FALSE
    OBVIOUS
  <2>1. PICK r \in Seq(ObserveCalls) : calls'["mapping"] = Append(r, AddToMap(o))
    BY DEF Making
  <2>2. calls'["mapping"] # <<>>
    BY <2>1, AppendParts
  <2>. QED  BY <1>8, <2>2
<1>13. \A o : Making(o) => o = p
  BY <1>4, MakingFacts
<1>14. \A o \in (1..points) \ mbBad : o \in mspMapPoints'
  BY <1>6, <1>13 DEF MapKept
<1>15. ASSUME erasedLate = {}, NEW o \in 1..points, o \in mbBad, o \in mspMapPoints'  PROVE Pending(o)'
  <2>1. o # p
    BY <1>4, <1>15 DEF MapKept
  <2>2. Pending(o)
    BY <1>6, <1>15, <2>1 DEF MapKept
  <2>3. PICK u \in Threads : In(EraseFromMap(o), calls[u])
    BY <2>2 DEF Pending
  <2>4. PICK n \in 1..Len(calls[u]) : calls[u][n] = EraseFromMap(o)
    BY <2>3 DEF In
  <2>5. u # "mapping"
    <3>. SUFFICES ASSUME u = "mapping"  PROVE FALSE
      OBVIOUS
    <3>1. calls[t] \in Seq(AllCalls(points, keyFrames, mbBad))
      BY <1>3 DEF Calling
    <3>2. Len(Tail(calls[t])) = Len(calls[t]) - 1 /\ Len(calls[t]) \in Nat /\ c = calls[t][1]
      BY <3>1, HeadTailProperties, LenProperties
    <3>3. n = 1
      <4>1. Len(Tail(calls[t])) = 0
        BY <1>5, EmptySeq, Zenon
      <4>2. Len(calls[t]) = 1
        BY <3>2, <4>1
      <4>3. n \in 1..Len(calls[t])
        BY <1>3, <2>4, Zenon
      <4>. QED  BY <4>2, <4>3
    <3>4. EraseFromMap(o) = AddToMap(p)
      BY <1>3, <1>5, <2>4, <3>2, <3>3
    <3>5. "EraseFromMap" = "AddToMap"
      BY <3>4 DEF EraseFromMap, AddToMap
    <3>. QED  BY <3>5
  <2>6. In(EraseFromMap(o), calls'["looping"])
    BY <1>7, <2>3, <2>5, TheThreads DEF In
  <2>. QED  BY <2>6, TheThreads DEF Pending, In
<1>16. MapKept'
  BY <1>1, <1>12, <1>14, <1>15 DEF MapKept
<1>. QED  BY <1>10, <1>11, <1>16

(* An idle thread starts on a list of calls, none of which is AddToMap. *)
LEMMA Starting ==
  ASSUME IInv, NEW t \in Threads, Idle(t), NEW list \in Seq(OtherCalls(points, keyFrames, mbBad)),
         Call(t, list), UNCHANGED <<madeVars, mbBad, mspMapPoints>>, erasedLate \subseteq erasedLate'
  PROVE  Calling' /\ MapKept' /\ calls'[t] = list /\ \A u \in Threads : u # t => calls'[u] = calls[u]
<1>. USE DEF IInv
<1>. DEFINE Others == OtherCalls(points, keyFrames, mbBad)
<1>1. points' = points /\ keyFrames' = keyFrames
  BY DEF madeVars
<1>2. /\ calls' = [u \in Threads |-> calls'[u]] /\ calls'[t] = list
      /\ \A u \in Threads : u # t => calls'[u] = calls[u]
  BY DEF Calling, Call
<1>3. calls'[t] \in Seq(AllCalls(points, keyFrames, mbBad))
  BY <1>2, MakingCalls, SeqMonotonic
<1>4. \A p : Making(p)' <=> Making(p)
  <2>. SUFFICES ASSUME NEW p  PROVE Making(p)' <=> Making(p)
    OBVIOUS
  <2>1. CASE t = "looping"
    BY <1>2, <2>1, TheThreads DEF Making
  <2>2. CASE t = "mapping"
    <3>1. ~Making(p)
      BY <2>2, MakingFacts DEF Idle
    <3>2. ASSUME Making(p)'  PROVE FALSE
      <4>1. PICK s \in Seq(ObserveCalls) : calls'["mapping"] = Append(s, AddToMap(p))
        BY <3>2 DEF Making
      <4>2. Len(s) + 1 \in 1..Len(list) /\ list[Len(s) + 1] = AddToMap(p)
        BY <1>2, <2>2, <4>1, AppendParts
      <4>3. AddToMap(p) \in Others
        BY <4>2, ElementOfSeq
      <4>. QED  BY <4>3, MakingCalls
    <3>. QED  BY <3>1, <3>2
  <2>. QED  BY <2>1, <2>2, TheThreads
<1>5. Calling'
  <2>1. CASE t = "looping"
    <3>1. calls'["mapping"] = calls["mapping"]
      BY <1>2, <2>1, TheThreads
    <3>. QED  BY <1>1, <1>2, <1>4, <2>1, <3>1, TheThreads DEF Calling
  <2>2. CASE t = "mapping"
    <3>1. calls'["looping"] = calls["looping"]
      BY <1>2, <2>2, TheThreads
    <3>. QED  BY <1>1, <1>2, <1>3, <2>2, <3>1, TheThreads DEF Calling
  <2>. QED  BY <2>1, <2>2, TheThreads
<1>6. \A p : Pending(p) => Pending(p)'
  <2>. SUFFICES ASSUME NEW p, Pending(p)  PROVE Pending(p)'
    OBVIOUS
  <2>1. PICK u \in Threads : In(EraseFromMap(p), calls[u])
    BY DEF Pending
  <2>2. u # t
    BY <2>1, EmptySeq DEF In, Idle
  <2>. QED  BY <1>2, <2>1, <2>2 DEF Pending, In
<1>7. MapKept'
  BY <1>1, <1>4, <1>6 DEF MapKept
<1>. QED  BY <1>2, <1>5, <1>7

(* The calls stay while there may be more points and keyframes. *)
LEMMA Waiting ==
  ASSUME IInv, UNCHANGED <<calls, mbBad, erasedLate>>, points' \in Nat, keyFrames' \in Nat,
         points <= points', keyFrames <= keyFrames', mspMapPoints' = mspMapPoints \cup ((points + 1)..points')
  PROVE  Calling' /\ MapKept'
<1>. USE DEF IInv
<1>1. points \in Nat /\ keyFrames \in Nat
  BY MapPointsAssumption DEF Types
<1>2. /\ OtherCalls(points, keyFrames, mbBad) \subseteq OtherCalls(points', keyFrames', mbBad)
      /\ AllCalls(points, keyFrames, mbBad) \subseteq AllCalls(points', keyFrames', mbBad)
  BY <1>1, CallsGrow
<1>3. \A p : Making(p)' <=> Making(p)
  BY DEF Making
<1>4. 1..points \subseteq 1..points'
  BY <1>1
<1>5. /\ calls["looping"] \in Seq(OtherCalls(points', keyFrames', mbBad))
      /\ calls["mapping"] \in Seq(AllCalls(points', keyFrames', mbBad))
  BY <1>2, SeqMonotonic DEF Calling
<1>6. calls["mapping"] \in Seq(OtherCalls(points, keyFrames, mbBad)) => calls["mapping"] \in Seq(OtherCalls(points', keyFrames', mbBad))
  BY <1>2, SeqMonotonic
<1>7. Calling'
  BY <1>3, <1>4, <1>5, <1>6 DEF Calling
<1>8. \A p : Pending(p)' <=> Pending(p)
  BY DEF Pending
<1>9. \A p \in 1..points' : p \in 1..points \/ p \in (points + 1)..points'
  BY <1>1
<1>10. ASSUME NEW p \in (1..points') \ mbBad  PROVE p \in mspMapPoints' \/ Making(p)'
  BY <1>3, <1>9, <1>10 DEF MapKept
<1>11. ASSUME NEW p \in 1..points', Making(p)  PROVE p \in 1..points
  <2>1. calls["mapping"] \notin Seq(OtherCalls(points, keyFrames, mbBad))
    BY <1>11, MakingFacts
  <2>2. PICK o \in 1..points : Making(o)
    BY <2>1 DEF Calling
  <2>. QED  BY <1>11, <2>2, MakingFacts
<1>12. mbBad \subseteq 1..points /\ \A p \in mbBad : p \notin (points + 1)..points'
  BY <1>1 DEF Types
<1>13. MapKept'
  <2>1. ASSUME erasedLate = {}, NEW p \in 1..points', Making(p)'  PROVE p \notin mbBad
    BY <1>3, <1>11, <2>1 DEF MapKept
  <2>2. ASSUME erasedLate = {}, NEW p \in 1..points', p \in mbBad, p \in mspMapPoints'  PROVE Pending(p)'
    BY <1>8, <1>12, <2>2 DEF MapKept
  <2>. QED  BY <1>10, <2>1, <2>2 DEF MapKept
<1>. QED  BY <1>7, <1>13

-----------------------------------------------------------------------------
(* The calls preserve the invariant. *)
LEMMA OnlyPointsPlaces ==
  ASSUME IInv, OnlyPoints
  PROVE  /\ Places'
         /\ UNCHANGED <<madeVars, mapper, looper, erasedLate>> /\ UNCHANGED madeVars
         /\ UNCHANGED <<mspMapPoints, mvpMapPoints, frame, mspKeyFrames, badKFs, mbNotErase, mbToBeErased, points, keyFrames>>
BY DEF OnlyPoints, IInv, Places, mapVars, keyFrameVars, madeVars, trackVars, lmVars, lcVars

LEMMA NoFurther == \A S : <<>> \in Seq(S)
BY EmptySeq

LEMMA OneFurther == \A S : \A c \in S : <<c>> \in Seq(S)
OBVIOUS

LEMMA AddObservationStep ==
  ASSUME IInv, NEW t \in Threads, AddObservation(t)
  PROVE  IInv'
<1>. DEFINE c == Head(calls[t])
<1>1. calls[t] # <<>> /\ c.do = "AddObservation"
  BY DEF AddObservation, Calls
<1>2. points \in Nat /\ keyFrames \in Nat /\ c.mp \in 1..points /\ c.kf \in 1..keyFrames /\ c.idx \in Features
  BY <1>1, HeadTyped
<1>3. /\ mObservations' = [mObservations EXCEPT ![c.mp] = ObservedAt(mObservations[c.mp], c.kf, c.idx)]
      /\ nObs' = [nObs EXCEPT ![c.mp] = nObs[c.mp] + Weight(c.idx)]
      /\ Return(t, <<>>) /\ UNCHANGED <<mpRefKF, mbBad, mpReplaced>> /\ OnlyPoints
  BY DEF AddObservation
<1>4. /\ Places' /\ UNCHANGED <<madeVars, mapper, looper, erasedLate>>
      /\ UNCHANGED <<mspMapPoints, mvpMapPoints, frame, mspKeyFrames, badKFs, mbNotErase, mbToBeErased, points, keyFrames>>
  BY <1>3, OnlyPointsPlaces
<1>5. Calling' /\ Turns' /\ MapKept'
  <2>1. <<>> \in Seq(OtherCalls(points, keyFrames, mbBad'))
    BY NoFurther
  <2>. QED  BY <1>1, <1>3, <1>4, <2>1, Returning
<1>6. c.mp \in Points /\ mObservations \in [Points -> ObservationsTo(keyFrames)] /\ nObs \in [Points -> Int]
  BY <1>2, MapPointsAssumption DEF IInv, Types, Points
<1>7. mObservations[c.mp] \in ObservationsTo(keyFrames) /\ nObs[c.mp] \in Int /\ Weight(c.idx) \in Int
  BY <1>6 DEF Weight
<1>8. ObservedAt(mObservations[c.mp], c.kf, c.idx) \in ObservationsTo(keyFrames)
  BY <1>2, <1>7, ObservedTyped, Zenon
<1>9. Types'
  BY <1>3, <1>4, <1>6, <1>7, <1>8 DEF IInv, Types
<1>10. /\ WeightOf(ObservedAt(mObservations[c.mp], c.kf, c.idx)) <= WeightOf(mObservations[c.mp]) + Weight(c.idx)
       /\ WeightOf(mObservations[c.mp]) \in Nat /\ WeightOf(ObservedAt(mObservations[c.mp], c.kf, c.idx)) \in Nat
  BY <1>2, <1>7, <1>8, ObserveWeight, ObservationsAreFinite, Zenon
<1>11. Counted'
  <2>. SUFFICES ASSUME NEW p \in Points  PROVE nObs'[p] >= WeightOf(mObservations'[p])
    BY DEF Counted, WeightOf
  <2>1. nObs[p] >= WeightOf(mObservations[p])
    BY DEF IInv, Counted
  <2>2. CASE p = c.mp
    <3>1. /\ mObservations'[p] = ObservedAt(mObservations[c.mp], c.kf, c.idx)
          /\ nObs'[p] = nObs[c.mp] + Weight(c.idx)
      BY <1>3, <1>6, <2>2
    <3>. QED  BY <1>7, <1>10, <2>1, <2>2, <3>1
  <2>3. CASE p # c.mp
    <3>1. mObservations'[p] = mObservations[p] /\ nObs'[p] = nObs[p]
      BY <1>3, <1>6, <2>3
    <3>. QED  BY <2>1, <3>1
  <2>. QED  BY <2>2, <2>3
<1>. QED  BY <1>4, <1>5, <1>9, <1>11 DEF IInv

LEMMA EraseObservationStep ==
  ASSUME IInv, NEW t \in Threads, EraseObservation(t)
  PROVE  IInv'
<1>. DEFINE p == Head(calls[t]).mp
            k == Head(calls[t]).kf
            left == Observers(p) \ {k}
            fewer == [o \in left |-> mObservations[p][o]]
<1>1. calls[t] # <<>> /\ Head(calls[t]).do = "EraseObservation"
  BY DEF EraseObservation, Calls
<1>2. points \in Nat /\ keyFrames \in Nat /\ p \in 1..points /\ k \in 1..keyFrames
  BY <1>1, HeadTyped
<1>3. UNCHANGED <<mbBad, mpReplaced>> /\ OnlyPoints
  BY DEF EraseObservation
<1>4. /\ Places' /\ UNCHANGED <<madeVars, mapper, looper, erasedLate>>
      /\ UNCHANGED <<mspMapPoints, mvpMapPoints, frame, mspKeyFrames, badKFs, mbNotErase, mbToBeErased, points, keyFrames>>
  BY <1>3, OnlyPointsPlaces
<1>5. PICK further \in {<<>>, <<SetBadFlagOf(p)>>} : Return(t, further)
  BY DEF EraseObservation
<1>6. Calling' /\ Turns' /\ MapKept'
  <2>1. further \in Seq(OtherCalls(points, keyFrames, mbBad'))
    <3>1. SetBadFlagOf(p) \in OtherCalls(points, keyFrames, mbBad')
      BY <1>2, CallMakers
    <3>. QED  BY <1>5, <3>1, NoFurther, OneFurther
  <2>. QED  BY <1>1, <1>3, <1>4, <1>5, <2>1, Returning
<1>7. p \in Points /\ mObservations \in [Points -> ObservationsTo(keyFrames)] /\ nObs \in [Points -> Int]
  BY <1>2, MapPointsAssumption DEF IInv, Types, Points
<1>8. mObservations[p] \in ObservationsTo(keyFrames)
  BY <1>7
<1>9. CASE k \notin Observers(p)
  <2>1. UNCHANGED <<mObservations, nObs, mpRefKF>>
    BY <1>9 DEF EraseObservation
  <2>2. Types' /\ Counted'
    BY <1>3, <1>4, <2>1 DEF IInv, Types, Counted, WeightOf
  <2>. QED  BY <1>4, <1>6, <2>2 DEF IInv
<1>10. CASE k \in Observers(p)
  <2>1. /\ mObservations' = [mObservations EXCEPT ![p] = fewer]
        /\ nObs' = [nObs EXCEPT ![p] = nObs[p] - Weight(mObservations[p][k])]
        /\ \E first \in IF left = {} THEN {None} ELSE left :
              mpRefKF' = [mpRefKF EXCEPT ![p] = IF mpRefKF[p] = k THEN first ELSE mpRefKF[p]]
    BY <1>10 DEF EraseObservation
  <2>2. /\ fewer \in ObservationsTo(keyFrames)
        /\ WeightOf(fewer) = WeightOf(mObservations[p]) - Weight(mObservations[p][k])
    BY <1>2, <1>8, <1>10, UnobserveFacts, Zenon DEF Observers
  <2>3. left \subseteq 1..keyFrames
    BY <1>2, <1>8, ObservationsAreFinite DEF Observers
  <2>4. mpRefKF' \in [Points -> 0..keyFrames]
    <3>1. PICK first \in IF left = {} THEN {None} ELSE left :
              mpRefKF' = [mpRefKF EXCEPT ![p] = IF mpRefKF[p] = k THEN first ELSE mpRefKF[p]]
      BY <2>1
    <3>2. first \in 0..keyFrames
      BY <1>2, <2>3 DEF None
    <3>. QED  BY <1>7, <3>1, <3>2 DEF IInv, Types
  <2>5. Weight(mObservations[p][k]) \in Int /\ WeightOf(mObservations[p]) \in Nat
    <3>1. WeightOf(mObservations[p]) \in Nat
      BY <1>2, <1>8, ObservationsAreFinite, Zenon
    <3>. QED  BY <3>1 DEF Weight
  <2>. HIDE DEF fewer, left
  <2>6. Types'
    <3>1. mObservations' \in [Points -> ObservationsTo(keyFrames)]
      BY <1>7, <2>1, <2>2
    <3>2. nObs' \in [Points -> Int]
      BY <1>7, <2>1, <2>5
    <3>. QED  BY <1>3, <1>4, <2>4, <3>1, <3>2 DEF IInv, Types
  <2>7. Counted'
    <3>. SUFFICES ASSUME NEW o \in Points  PROVE nObs'[o] >= WeightOf(mObservations'[o])
      BY DEF Counted, WeightOf
    <3>1. nObs[o] >= WeightOf(mObservations[o]) /\ nObs[o] \in Int
      BY <1>7 DEF IInv, Counted
    <3>2. CASE o = p
      <4>1. mObservations'[o] = fewer /\ nObs'[o] = nObs[p] - Weight(mObservations[p][k])
        BY <1>7, <2>1, <3>2
      <4>2. WeightOf(mObservations'[o]) = WeightOf(mObservations[o]) - Weight(mObservations[p][k])
        BY <2>2, <3>2, <4>1
      <4>3. WeightOf(mObservations[o]) \in Nat
        BY <2>5, <3>2
      <4>4. nObs'[o] = nObs[o] - Weight(mObservations[p][k])
        BY <3>2, <4>1
      <4>. QED  BY <2>5, <3>1, <4>2, <4>3, <4>4, LessOfBoth
    <3>3. CASE o # p
      <4>1. mObservations'[o] = mObservations[o] /\ nObs'[o] = nObs[o]
        BY <1>7, <2>1, <3>3
      <4>. QED  BY <3>1, <4>1
    <3>. QED  BY <3>2, <3>3
  <2>. QED  BY <1>4, <1>6, <2>6, <2>7 DEF IInv
<1>. QED  BY <1>9, <1>10

(* A bad or replaced point gives up its observations and undoes them one by one. *)
LEMMA TakenObservations ==
  ASSUME IInv, NEW p \in 1..points, TakeObservations(p), UNCHANGED <<nObs, mpRefKF>>, OnlyPoints,
         mpReplaced' \in [Points -> 0..points]
  PROVE  Types' /\ Counted'
<1>1. points \in Nat /\ keyFrames \in Nat /\ p \in Points
  BY MapPointsAssumption DEF IInv, Types, Points
<1>2. UNCHANGED <<mspMapPoints, mvpMapPoints, frame, mspKeyFrames, badKFs, mbNotErase, mbToBeErased, points, keyFrames, erasedLate>>
  BY OnlyPointsPlaces
<1>3. <<>> \in ObservationsTo(keyFrames) /\ WeightOf(<<>>) = 0
  BY <1>1, NothingObserved, Zenon
<1>4. mObservations \in [Points -> ObservationsTo(keyFrames)] /\ mObservations' = [mObservations EXCEPT ![p] = <<>>]
  BY DEF IInv, Types, TakeObservations
<1>5. mbBad' \subseteq 1..points
  BY DEF IInv, Types, TakeObservations
<1>6. Types'
  BY <1>2, <1>3, <1>4, <1>5 DEF IInv, Types
<1>7. Counted'
  <2>. SUFFICES ASSUME NEW o \in Points  PROVE nObs'[o] >= WeightOf(mObservations'[o])
    BY DEF Counted, WeightOf
  <2>1. nObs[o] >= WeightOf(mObservations[o]) /\ nObs[o] \in Int
    BY DEF IInv, Counted, Types
  <2>2. mObservations[o] \in ObservationsTo(keyFrames)
    BY <1>4
  <2>3. WeightOf(mObservations[o]) \in Nat
    BY <1>1, <2>2, ObservationsAreFinite, Zenon
  <2>4. mObservations'[o] = mObservations[o] \/ mObservations'[o] = <<>>
    BY <1>1, <1>4
  <2>. QED  BY <1>3, <2>1, <2>3, <2>4
<1>. QED  BY <1>6, <1>7

(* The calls that follow: one for each observation in some order, and EraseFromMap. *)
LEMMA TheObservers ==
  ASSUME IInv, NEW p \in 1..points, NEW ks \in Orders(Observers(p))
  PROVE  /\ Len(ks) \in Nat
         /\ \A n \in 1..Len(ks) : ks[n] \in 1..keyFrames /\ mObservations[p][ks[n]] \in Features
<1>1. points \in Nat /\ keyFrames \in Nat /\ mObservations[p] \in ObservationsTo(keyFrames)
  BY MapPointsAssumption DEF IInv, Types, Points
<1>2. /\ IsFiniteSet(Observers(p)) /\ Observers(p) \subseteq 1..keyFrames
      /\ \A k \in Observers(p) : mObservations[p][k] \in Features
  BY <1>1, ObservationsAreFinite, Zenon DEF Observers
<1>3. Len(ks) \in Nat /\ \A n \in 1..Len(ks) : ks[n] \in Observers(p)
  BY <1>2, OrdersFacts, Zenon
<1>. QED  BY <1>2, <1>3

LEMMA ThenErase ==
  ASSUME IInv, NEW p \in 1..points, NEW bad, p \in bad, NEW list \in Seq(OtherCalls(points, keyFrames, bad))
  PROVE  LET further == Append(list, EraseFromMap(p)) IN
         further \in Seq(OtherCalls(points, keyFrames, bad)) /\ In(EraseFromMap(p), further)
<1>. DEFINE Others == OtherCalls(points, keyFrames, bad)
<1>1. points \in Nat /\ keyFrames \in Nat
  BY MapPointsAssumption DEF IInv, Types
<1>2. EraseFromMap(p) \in Others
  BY <1>1, CallMakers
<1>3. Append(list, EraseFromMap(p)) \in Seq(Others)
  BY <1>2, AppendProperties
<1>4. /\ Len(Append(list, EraseFromMap(p))) = Len(list) + 1 /\ Len(list) \in Nat
      /\ Append(list, EraseFromMap(p))[Len(list) + 1] = EraseFromMap(p)
  BY AppendParts
<1>5. In(EraseFromMap(p), Append(list, EraseFromMap(p)))
  BY <1>4 DEF In
<1>. QED  BY <1>3, <1>5

LEMMA SetBadFlagStep ==
  ASSUME IInv, NEW t \in Threads, SetBadFlag(t)
  PROVE  IInv'
<1>. DEFINE p == Head(calls[t]).mp
            list(ks) == [n \in 1..Len(ks) |-> SetMatch(ks[n], mObservations[p][ks[n]], None)]
<1>1. calls[t] # <<>> /\ Head(calls[t]).do = "SetBadFlag"
  BY DEF SetBadFlag, Calls
<1>2. points \in Nat /\ keyFrames \in Nat /\ p \in 1..points
  BY <1>1, HeadTyped
<1>3. /\ TakeObservations(p) /\ UNCHANGED <<nObs, mpRefKF, mpReplaced>> /\ OnlyPoints
      /\ \E ks \in Orders(Observers(p)) : Return(t, Append(list(ks), EraseFromMap(p)))
  BY DEF SetBadFlag
<1>4. PICK ks \in Orders(Observers(p)) : Return(t, Append(list(ks), EraseFromMap(p)))
  BY <1>3
<1>. DEFINE further == Append(list(ks), EraseFromMap(p))
<1>5. Places' /\ UNCHANGED <<madeVars, mapper, looper, erasedLate>> /\ UNCHANGED mspMapPoints
  BY <1>3, OnlyPointsPlaces
<1>6. mbBad' = mbBad \cup {p}
  BY <1>3 DEF TakeObservations
<1>7. further \in Seq(OtherCalls(points, keyFrames, mbBad')) /\ In(EraseFromMap(p), further)
  <2>1. Len(ks) \in Nat /\ \A n \in 1..Len(ks) : ks[n] \in 1..keyFrames /\ mObservations[p][ks[n]] \in Features
    BY <1>2, <1>4, TheObservers
  <2>2. \A n \in 1..Len(ks) : SetMatch(ks[n], mObservations[p][ks[n]], None) \in OtherCalls(points, keyFrames, mbBad')
    BY <1>2, <2>1, CallMakers DEF None
  <2>3. list(ks) \in Seq(OtherCalls(points, keyFrames, mbBad'))
    BY <2>1, <2>2
  <2>. QED  BY <1>2, <1>6, <2>3, ThenErase
<1>8. Calling' /\ Turns' /\ MapKept'
  <2>. HIDE DEF further
  <2>1. Return(t, further)
    BY <1>4 DEF further
  <2>. QED  BY <1>1, <1>5, <1>6, <1>7, <2>1, Returning
<1>9. Types' /\ Counted'
  <2>1. mpReplaced' \in [Points -> 0..points]
    BY <1>3 DEF IInv, Types
  <2>. QED  BY <1>2, <1>3, <2>1, TakenObservations
<1>. QED  BY <1>5, <1>8, <1>9 DEF IInv

LEMMA ReplaceStep ==
  ASSUME IInv, NEW t \in Threads, Replace(t)
  PROVE  IInv'
<1>. DEFINE p == Head(calls[t]).mp
            q == Head(calls[t]).by
            list(ks) == [n \in 1..Len(ks) |-> MoveObservation(q, ks[n], mObservations[p][ks[n]])]
<1>1. calls[t] # <<>> /\ Head(calls[t]).do = "Replace"
  BY DEF Replace, Calls
<1>2. points \in Nat /\ keyFrames \in Nat /\ p \in 1..points /\ q \in 1..points
  BY <1>1, HeadTyped
<1>3. UNCHANGED <<nObs, mpRefKF>> /\ OnlyPoints
  BY DEF Replace
<1>4. Places' /\ UNCHANGED <<madeVars, mapper, looper, erasedLate>> /\ UNCHANGED mspMapPoints
  BY <1>3, OnlyPointsPlaces
<1>5. CASE p = q
  <2>1. Return(t, <<>>) /\ UNCHANGED <<mObservations, mbBad, mpReplaced>>
    BY <1>5 DEF Replace
  <2>2. Calling' /\ Turns' /\ MapKept'
    BY <1>1, <1>4, <2>1, NoFurther, Returning
  <2>3. Types' /\ Counted'
    BY <1>3, <2>1, OnlyPointsPlaces DEF IInv, Types, Counted, WeightOf
  <2>. QED  BY <1>4, <2>2, <2>3 DEF IInv
<1>6. CASE p # q
  <2>1. /\ TakeObservations(p) /\ mpReplaced' = [mpReplaced EXCEPT ![p] = q]
        /\ \E ks \in Orders(Observers(p)) : Return(t, Append(list(ks), EraseFromMap(p)))
    BY <1>6 DEF Replace
  <2>2. PICK ks \in Orders(Observers(p)) : Return(t, Append(list(ks), EraseFromMap(p)))
    BY <2>1
  <2>. DEFINE further == Append(list(ks), EraseFromMap(p))
  <2>3. mbBad' = mbBad \cup {p}
    BY <2>1 DEF TakeObservations
  <2>4. further \in Seq(OtherCalls(points, keyFrames, mbBad')) /\ In(EraseFromMap(p), further)
    <3>1. Len(ks) \in Nat /\ \A n \in 1..Len(ks) : ks[n] \in 1..keyFrames /\ mObservations[p][ks[n]] \in Features
      BY <1>2, <2>2, TheObservers
    <3>2. \A n \in 1..Len(ks) : MoveObservation(q, ks[n], mObservations[p][ks[n]]) \in OtherCalls(points, keyFrames, mbBad')
      BY <1>2, <3>1, CallMakers
    <3>3. list(ks) \in Seq(OtherCalls(points, keyFrames, mbBad'))
      BY <3>1, <3>2
    <3>. QED  BY <1>2, <2>3, <3>3, ThenErase
  <2>5. Calling' /\ Turns' /\ MapKept'
    <3>. HIDE DEF further
    <3>1. Return(t, further)
      BY <2>2 DEF further
    <3>. QED  BY <1>1, <1>4, <2>3, <2>4, <3>1, Returning
  <2>6. Types' /\ Counted'
    <3>1. mpReplaced' \in [Points -> 0..points]
      <4>1. mpReplaced \in [Points -> 0..points] /\ q \in 0..points
        BY <1>2 DEF IInv, Types
      <4>. QED  BY <2>1, <4>1
    <3>. QED  BY <1>2, <1>3, <2>1, <3>1, TakenObservations
  <2>. QED  BY <1>4, <2>5, <2>6 DEF IInv
<1>. QED  BY <1>5, <1>6

(* Functions that look at the points and leave other calls. *)
LEMMA LookingStep ==
  ASSUME IInv, NEW t \in Threads, MoveOne(t) \/ EraseMapPointMatch(t) \/ ForgetMatch(t)
  PROVE  IInv'
<1>. DEFINE c == Head(calls[t])
            Others == OtherCalls(points, keyFrames, mbBad)
<1>1. calls[t] # <<>> /\ c.do \in {"MoveObservation", "EraseMatch", "Forget"}
  BY DEF MoveOne, EraseMapPointMatch, ForgetMatch, Calls
<1>2. UNCHANGED pointVars /\ OnlyPoints
  BY DEF MoveOne, EraseMapPointMatch, ForgetMatch
<1>3. /\ points \in Nat /\ keyFrames \in Nat
      /\ c.do = "MoveObservation" => c.mp \in 1..points /\ c.kf \in 1..keyFrames /\ c.idx \in Features
      /\ c.do = "EraseMatch" => c.mp \in 1..points /\ c.kf \in 1..keyFrames
      /\ c.do = "Forget" => c.kf \in 1..keyFrames /\ c.idx \in Features
  BY <1>1, HeadTyped
<1>4. ASSUME MoveOne(t)  PROVE \E further \in Seq(Others) : Return(t, further)
  <2>1. c.do = "MoveObservation"
    BY <1>4 DEF MoveOne, Calls
  <2>2. /\ SetMatch(c.kf, c.idx, None) \in Others /\ SetMatch(c.kf, c.idx, c.mp) \in Others
        /\ AddObservationOf(c.mp, c.kf, c.idx) \in Others
    BY <1>3, <2>1, CallMakers DEF None
  <2>3. /\ <<SetMatch(c.kf, c.idx, None)>> \in Seq(Others)
        /\ <<SetMatch(c.kf, c.idx, c.mp), AddObservationOf(c.mp, c.kf, c.idx)>> \in Seq(Others)
    BY <2>2
  <2>. QED  BY <1>4, <2>3 DEF MoveOne
<1>5. ASSUME EraseMapPointMatch(t)  PROVE \E further \in Seq(Others) : Return(t, further)
  <2>1. c.do = "EraseMatch"
    BY <1>5 DEF EraseMapPointMatch, Calls
  <2>2. c.mp \in Points /\ mObservations[c.mp] \in ObservationsTo(keyFrames)
    BY <1>3, <2>1, MapPointsAssumption DEF IInv, Types, Points
  <2>3. c.kf \in Observers(c.mp) => mObservations[c.mp][c.kf] \in Features
    BY <1>3, <2>2, ObservationsAreFinite, Zenon DEF Observers
  <2>4. c.kf \in Observers(c.mp) => SetMatch(c.kf, mObservations[c.mp][c.kf], None) \in Others
    BY <1>3, <2>1, <2>3, CallMakers DEF None
  <2>. QED  BY <1>5, <2>4, NoFurther, OneFurther DEF EraseMapPointMatch
<1>6. ASSUME ForgetMatch(t)  PROVE \E further \in Seq(Others) : Return(t, further)
  <2>1. c.do = "Forget"
    BY <1>6 DEF ForgetMatch, Calls
  <2>2. mvpMapPoints[c.kf][c.idx] \in 0..points
    <3>1. c.kf \in KeyFrames /\ c.idx \in Features
      BY <1>3, <2>1, MapPointsAssumption DEF IInv, Types, KeyFrames
    <3>2. mvpMapPoints \in [KeyFrames -> [Features -> 0..points]]
      BY DEF IInv, Types
    <3>. QED  BY <3>1, <3>2
  <2>3. mvpMapPoints[c.kf][c.idx] # None => EraseObservationOf(mvpMapPoints[c.kf][c.idx], c.kf) \in Others
    BY <1>3, <2>1, <2>2, CallMakers DEF None
  <2>. QED  BY <1>6, <2>3, NoFurther, OneFurther DEF ForgetMatch
<1>7. PICK further \in Seq(Others) : Return(t, further)
  BY <1>4, <1>5, <1>6
<1>8. Places' /\ UNCHANGED <<madeVars, mapper, looper, erasedLate>> /\ UNCHANGED mspMapPoints
  BY <1>2, OnlyPointsPlaces
<1>9. mbBad' = mbBad
  BY <1>2 DEF pointVars
<1>10. Calling' /\ Turns' /\ MapKept'
  BY <1>1, <1>7, <1>8, <1>9, Returning
<1>11. Types' /\ Counted'
  BY <1>2, OnlyPointsPlaces DEF IInv, Types, Counted, WeightOf, pointVars
<1>. QED  BY <1>8, <1>10, <1>11 DEF IInv

LEMMA SetMatchStep ==
  ASSUME IInv, NEW t \in Threads, SetMapPointMatch(t)
  PROVE  IInv'
<1>. DEFINE c == Head(calls[t])
<1>1. calls[t] # <<>> /\ c.do = "SetMatch"
  BY DEF SetMapPointMatch, Calls
<1>2. c.mp \in 0..points /\ c.kf \in 1..keyFrames /\ c.idx \in Features /\ keyFrames \in Nat
  BY <1>1, HeadTyped
<1>3. /\ mvpMapPoints' = [mvpMapPoints EXCEPT ![c.kf][c.idx] = c.mp] /\ Return(t, <<>>)
      /\ UNCHANGED <<pointVars, madeVars, trackVars, lmVars, lcVars, mapVars, keyFrameVars, mMutexMapUpdate,
                     mlNewKeyFrames, mlpRecentAddedMapPoints>>
  BY DEF SetMapPointMatch, ButPoints
<1>4. UNCHANGED <<madeVars, mapper, looper, erasedLate>> /\ mbBad' = mbBad /\ mspMapPoints' = mspMapPoints
  BY <1>3 DEF lmVars, lcVars, keyFrameVars, pointVars, mapVars
<1>5. Calling' /\ Turns' /\ MapKept'
  BY <1>1, <1>3, <1>4, NoFurther, Returning
<1>6. mvpMapPoints' \in [KeyFrames -> [Features -> 0..points]]
  <2>1. c.kf \in KeyFrames
    BY <1>2, MapPointsAssumption DEF IInv, Types, KeyFrames
  <2>. QED  BY <1>2, <1>3, <2>1 DEF IInv, Types
<1>7. Types' /\ Counted' /\ Places'
  BY <1>3, <1>6 DEF IInv, Types, Counted, WeightOf, Places, pointVars, madeVars, trackVars, lmVars, lcVars, mapVars, keyFrameVars
<1>. QED  BY <1>5, <1>7 DEF IInv

LEMMA MarkBadStep ==
  ASSUME IInv, NEW t \in Threads, MarkKeyFrameBad(t)
  PROVE  IInv'
<1>. DEFINE c == Head(calls[t])
<1>1. calls[t] # <<>> /\ c.do = "MarkBad"
  BY DEF MarkKeyFrameBad, Calls
<1>2. c.kf \in 1..keyFrames
  BY <1>1, HeadTyped
<1>3. /\ badKFs' = badKFs \cup {c.kf} /\ mspKeyFrames' = mspKeyFrames \ {c.kf} /\ Return(t, <<>>)
      /\ UNCHANGED <<pointVars, madeVars, trackVars, lmVars, lcVars, mspMapPoints, mvpMapPoints, mbNotErase, mbToBeErased,
                     erasedLate, mMutexMapUpdate, mlNewKeyFrames, mlpRecentAddedMapPoints>>
  BY DEF MarkKeyFrameBad, ButPoints
<1>4. UNCHANGED <<madeVars, mapper, looper, erasedLate>> /\ mbBad' = mbBad /\ mspMapPoints' = mspMapPoints
  BY <1>3 DEF lmVars, lcVars, pointVars
<1>5. Calling' /\ Turns' /\ MapKept'
  BY <1>1, <1>3, <1>4, NoFurther, Returning
<1>6. badKFs' \subseteq 1..keyFrames /\ mspKeyFrames' \subseteq 1..keyFrames
  BY <1>2, <1>3 DEF IInv, Types
<1>7. Types' /\ Counted' /\ Places'
  BY <1>3, <1>6 DEF IInv, Types, Counted, WeightOf, Places, pointVars, madeVars, trackVars, lmVars, lcVars
<1>. QED  BY <1>5, <1>7 DEF IInv

LEMMA AssociateStep ==
  ASSUME IInv, NEW t \in Threads, AssociateMapPoint(t)
  PROVE  IInv'
<1>. DEFINE c == Head(calls[t])
            Others == OtherCalls(points, keyFrames, mbBad)
<1>1. calls[t] # <<>> /\ c.do = "Associate"
  BY DEF AssociateMapPoint, Calls
<1>2. /\ points \in Nat /\ keyFrames \in Nat
      /\ c.mp \in 1..points /\ c.kf \in 1..keyFrames /\ c.idx \in Features
  BY <1>1, HeadTyped
<1>3. /\ UNCHANGED <<pointVars, madeVars, trackVars, lmVars, lcVars, mapVars, mvpMapPoints, keyFrameVars, mMutexMapUpdate, mlNewKeyFrames>>
      /\ mlpRecentAddedMapPoints' \subseteq mlpRecentAddedMapPoints \cup Good
      /\ \E further \in {<<>>, <<AddObservationOf(c.mp, c.kf, c.idx)>>} : Return(t, further)
  BY DEF AssociateMapPoint, ButPoints
<1>4. UNCHANGED <<madeVars, mapper, looper, erasedLate>> /\ mbBad' = mbBad /\ mspMapPoints' = mspMapPoints
  BY <1>3 DEF lmVars, lcVars, keyFrameVars, pointVars, mapVars
<1>5. Calling' /\ Turns' /\ MapKept'
  <2>1. PICK further \in {<<>>, <<AddObservationOf(c.mp, c.kf, c.idx)>>} : Return(t, further)
    BY <1>3
  <2>2. AddObservationOf(c.mp, c.kf, c.idx) \in Others
    BY <1>2, CallMakers
  <2>3. further \in Seq(Others)
    BY <2>1, <2>2, NoFurther, OneFurther
  <2>. QED  BY <1>1, <1>4, <2>1, <2>3, Returning
<1>6. mlpRecentAddedMapPoints' \subseteq 1..points
  BY <1>3 DEF IInv, Places, Good
<1>7. Types' /\ Counted' /\ Places'
  BY <1>3, <1>6 DEF IInv, Types, Counted, WeightOf, Places, pointVars, madeVars, trackVars, lmVars, lcVars, mapVars, keyFrameVars
<1>. QED  BY <1>5, <1>7 DEF IInv

LEMMA UpdateMapStep ==
  ASSUME IInv, NEW t \in Threads, UpdateMap(t)
  PROVE  IInv'
<1>. DEFINE c == Head(calls[t])
<1>1. /\ calls[t] # <<>> /\ Return(t, <<>>)
      /\ \/ c.do = "AddToMap" /\ mspMapPoints' = mspMapPoints \cup {c.mp} /\ UNCHANGED mspKeyFrames
         \/ c.do = "EraseFromMap" /\ mspMapPoints' = mspMapPoints \ {c.mp} /\ UNCHANGED mspKeyFrames
         \/ c.do = "InsertInMap" /\ mspKeyFrames' = mspKeyFrames \cup {c.kf} /\ UNCHANGED mspMapPoints
  BY DEF UpdateMap, Calls
<1>2. c.do = "AddToMap" => c.mp \in 1..points
  BY <1>1, HeadTyped
<1>3. c.do = "InsertInMap" => c.kf \in 1..keyFrames
  BY <1>1, HeadTyped
<1>4. UNCHANGED <<pointVars, madeVars, trackVars, lmVars, lcVars, mvpMapPoints, keyFrameVars, mMutexMapUpdate,
                 mlNewKeyFrames, mlpRecentAddedMapPoints>>
  BY DEF UpdateMap, ButPoints
<1>5. UNCHANGED <<madeVars, mapper, looper, erasedLate, mbBad>> /\ UNCHANGED <<madeVars, mapper, looper, erasedLate>>
      /\ mbBad' = mbBad
  BY <1>4 DEF lmVars, lcVars, keyFrameVars, pointVars
<1>6. Calling' /\ Turns' /\ MapKept'
  <2>1. CASE c.do = "AddToMap"
    BY <1>1, <1>5, <2>1, AddingToMap
  <2>2. CASE c.do # "AddToMap"
    <3>1. mspMapPoints' = IF c.do = "EraseFromMap" THEN mspMapPoints \ {c.mp} ELSE mspMapPoints
      BY <1>1, <2>2
    <3>. QED  BY <1>1, <1>5, <2>2, <3>1, NoFurther, Returning
  <2>. QED  BY <2>1, <2>2
<1>7. mspMapPoints' \subseteq 1..points /\ mspKeyFrames' \subseteq 1..keyFrames
  BY <1>1, <1>2, <1>3 DEF IInv, Types
<1>8. Types' /\ Counted' /\ Places'
  BY <1>4, <1>7 DEF IInv, Types, Counted, WeightOf, Places, pointVars, madeVars, trackVars, lmVars, lcVars, keyFrameVars
<1>. QED  BY <1>6, <1>8 DEF IInv

LEMMA UnlockStep ==
  ASSUME IInv, NEW t \in Threads, UnlockMapUpdate(t)
  PROVE  IInv'
<1>1. calls[t] # <<>> /\ Head(calls[t]).do = "Unlock" /\ Return(t, <<>>) /\ mMutexMapUpdate' = "free"
  BY DEF UnlockMapUpdate, Calls
<1>2. UNCHANGED <<pointVars, madeVars, trackVars, lmVars, lcVars, mapVars, mvpMapPoints, keyFrameVars, mlNewKeyFrames,
                 mlpRecentAddedMapPoints>>
  BY DEF UnlockMapUpdate, ButPoints
<1>3. UNCHANGED <<madeVars, mapper, looper, erasedLate>> /\ mbBad' = mbBad /\ mspMapPoints' = mspMapPoints
  BY <1>2 DEF lmVars, lcVars, keyFrameVars, pointVars, mapVars
<1>4. Calling' /\ Turns' /\ MapKept'
  BY <1>1, <1>3, NoFurther, Returning
<1>5. Types' /\ Counted' /\ Places'
  BY <1>1, <1>2 DEF IInv, Types, Counted, WeightOf, Places, pointVars, madeVars, trackVars, lmVars, lcVars, mapVars, keyFrameVars
<1>. QED  BY <1>4, <1>5 DEF IInv

LEMMA RunCallStep ==
  ASSUME IInv, NEW t \in Threads, RunCall(t)
  PROVE  IInv'
BY AddObservationStep, EraseObservationStep, SetBadFlagStep, ReplaceStep, LookingStep, SetMatchStep, MarkBadStep,
   AssociateStep, UpdateMapStep, UnlockStep DEF RunCall

-----------------------------------------------------------------------------
(* Tracking. *)
LEMMA FrameStep ==
  ASSUME IInv, CheckReplacedInLastFrame \/ TrackLocalMap \/ EndFrame
  PROVE  IInv'
<1>1. UNCHANGED <<pointVars, mvpMapPoints, madeVars, calls, mapVars, keyFrameVars, mlNewKeyFrames, lmVars, mlpRecentAddedMapPoints, lcVars>>
  BY DEF CheckReplacedInLastFrame, TrackLocalMap, EndFrame, TrackRest
<1>2. points \in Nat /\ frame \in [Features -> 0..points] /\ mpReplaced \in [Points -> 0..points] /\ 1..points \subseteq Points
  BY MapPointsAssumption DEF IInv, Types, Points
<1>3. frame' \in [Features -> 0..points]
  <2>1. CASE CheckReplacedInLastFrame
    <3>1. frame' = [i \in Features |-> IF frame[i] # None /\ mpReplaced[frame[i]] # None THEN mpReplaced[frame[i]] ELSE frame[i]]
      BY <2>1 DEF CheckReplacedInLastFrame
    <3>2. ASSUME NEW i \in Features, frame[i] # None  PROVE mpReplaced[frame[i]] \in 0..points
      <4>1. frame[i] \in 1..points
        BY <1>2, <3>2 DEF None
      <4>. QED  BY <1>2, <4>1
    <3>. QED  BY <1>2, <3>1, <3>2
  <2>2. CASE TrackLocalMap
    BY <1>2, <2>2 DEF TrackLocalMap, Good, None
  <2>3. CASE EndFrame
    BY <1>2, <2>3 DEF EndFrame
  <2>. QED  BY <2>1, <2>2, <2>3
<1>4. tracker' \in {"idle", "match", "matched"} /\ mMutexMapUpdate' \in Threads \cup {"free", "tracking"}
  BY DEF CheckReplacedInLastFrame, TrackLocalMap, EndFrame, IInv, Places
<1>5. Types' /\ Counted' /\ Places'
  BY <1>1, <1>3, <1>4 DEF IInv, Types, Counted, WeightOf, Places, pointVars, madeVars, lmVars, lcVars, mapVars, keyFrameVars
<1>6. Calling' /\ Turns' /\ MapKept'
  BY <1>1 DEF IInv, Calling, Turns, Idle, MapKept, Making, Pending, In, pointVars, madeVars, lmVars, lcVars, mapVars, keyFrameVars
<1>. QED  BY <1>5, <1>6 DEF IInv

LEMMA CreateKeyFrameStep ==
  ASSUME IInv, CreateNewKeyFrame
  PROVE  IInv'
<1>1. PICK S \in SUBSET {i \in DepthFeatures : frame[i] = None \/ nObs[frame[i]] < 1} : \E is \in Ascending(S) :
        LET k == keyFrames + 1
            new == (points + 1)..(points + Len(is))
            idx(p) == is[p - points]
        IN /\ points + Len(is) <= MaxPoints
           /\ keyFrames' = k /\ points' = points + Len(is)
           /\ mpRefKF' = [p \in Points |-> IF p \in new THEN k ELSE mpRefKF[p]]
           /\ mObservations' = [p \in Points |-> IF p \in new THEN [o \in {k} |-> idx(p)] ELSE mObservations[p]]
           /\ nObs' = [p \in Points |-> IF p \in new THEN Weight(idx(p)) ELSE nObs[p]]
           /\ mvpMapPoints' = [mvpMapPoints EXCEPT ![k] =
                                  [i \in Features |-> IF i \in S THEN CHOOSE p \in new : idx(p) = i ELSE frame[i]]]
           /\ frame' = IF k < MaxKeyFrames THEN mvpMapPoints'[k] ELSE NoMatches
           /\ mspMapPoints' = mspMapPoints \cup new
           /\ mlNewKeyFrames' = Append(mlNewKeyFrames, k)
  BY DEF CreateNewKeyFrame
<1>2. PICK is \in Ascending(S) :
        LET k == keyFrames + 1
            new == (points + 1)..(points + Len(is))
            idx(p) == is[p - points]
        IN /\ points + Len(is) <= MaxPoints
           /\ keyFrames' = k /\ points' = points + Len(is)
           /\ mpRefKF' = [p \in Points |-> IF p \in new THEN k ELSE mpRefKF[p]]
           /\ mObservations' = [p \in Points |-> IF p \in new THEN [o \in {k} |-> idx(p)] ELSE mObservations[p]]
           /\ nObs' = [p \in Points |-> IF p \in new THEN Weight(idx(p)) ELSE nObs[p]]
           /\ mvpMapPoints' = [mvpMapPoints EXCEPT ![k] =
                                  [i \in Features |-> IF i \in S THEN CHOOSE p \in new : idx(p) = i ELSE frame[i]]]
           /\ frame' = IF k < MaxKeyFrames THEN mvpMapPoints'[k] ELSE NoMatches
           /\ mspMapPoints' = mspMapPoints \cup new
           /\ mlNewKeyFrames' = Append(mlNewKeyFrames, k)
  BY <1>1
<1>. DEFINE k == keyFrames + 1
            new == (points + 1)..(points + Len(is))
            idx(p) == is[p - points]
            slots == [i \in Features |-> IF i \in S THEN CHOOSE p \in new : idx(p) = i ELSE frame[i]]
<1>3. /\ tracker' = "idle" /\ mMutexMapUpdate' = "free" /\ keyFrames < MaxKeyFrames
      /\ UNCHANGED <<mbBad, mpReplaced, mspKeyFrames, keyFrameVars, calls, lmVars, mlpRecentAddedMapPoints, lcVars>>
  BY DEF CreateNewKeyFrame
<1>4. /\ points \in Nat /\ keyFrames \in Nat /\ MaxPoints \in Nat /\ MaxKeyFrames \in Nat
      /\ DepthFeatures \subseteq Features /\ IsFiniteSet(Features)
  BY MapPointsAssumption DEF IInv, Types
<1>5. S \in SUBSET Features /\ IsFiniteSet(S)
  <2>1. S \in SUBSET Features
    BY <1>1, <1>4
  <2>. QED  BY <1>4, <2>1, FS_Subset
<1>6. /\ Len(is) \in Nat /\ \A n \in 1..Len(is) : is[n] \in S
      /\ \A x \in S : \E n \in 1..Len(is) : is[n] = x
  <2>1. is \in Orders(S)
    BY DEF Ascending
  <2>. QED  BY <1>5, <2>1, OrdersFacts, Zenon
<1>7. \A p \in new : idx(p) \in Features
  <2>1. \A p \in new : p - points \in 1..Len(is)
    BY <1>4, <1>6
  <2>. QED  BY <1>5, <1>6, <2>1
<1>8. \A i \in S : (CHOOSE p \in new : idx(p) = i) \in new
  <2>. SUFFICES ASSUME NEW i \in S  PROVE \E p \in new : idx(p) = i
    OBVIOUS
  <2>1. PICK n \in 1..Len(is) : is[n] = i
    BY <1>6
  <2>2. points + n \in new /\ (points + n) - points = n
    BY <1>4, <1>6
  <2>. QED  BY <2>1, <2>2
<1>9. /\ points' \in 0..MaxPoints /\ points' = points + Len(is) /\ points \in 0..points' /\ new \subseteq 1..points'
      /\ keyFrames' \in 0..MaxKeyFrames /\ keyFrames' = k /\ k \in KeyFrames /\ k \in 1..keyFrames'
  BY <1>2, <1>3, <1>4, <1>6 DEF KeyFrames
<1>10. 0..points \subseteq 0..points' /\ 1..points \subseteq 1..points' /\ 0..keyFrames \subseteq 0..keyFrames'
       /\ 1..keyFrames \subseteq 1..keyFrames'
  BY <1>4, <1>6, <1>9
<1>11. slots \in [Features -> 0..points']
  <2>1. new \subseteq 0..points'
    BY <1>9
  <2>2. \A i \in Features : frame[i] \in 0..points'
    BY <1>10 DEF IInv, Types
  <2>. QED  BY <1>8, <2>1, <2>2
<1>12. mvpMapPoints' \in [KeyFrames -> [Features -> 0..points']] /\ frame' \in [Features -> 0..points']
  <2>1. mvpMapPoints \in [KeyFrames -> [Features -> 0..points']]
    <3>1. [Features -> 0..points] \subseteq [Features -> 0..points']
      BY <1>10
    <3>. QED  BY <3>1 DEF IInv, Types
  <2>2. mvpMapPoints' = [mvpMapPoints EXCEPT ![k] = slots]
    BY <1>2
  <2>. HIDE DEF slots
  <2>3. mvpMapPoints' \in [KeyFrames -> [Features -> 0..points']] /\ mvpMapPoints'[k] = slots
    BY <1>9, <1>11, <2>1, <2>2
  <2>4. frame' = slots \/ frame' = NoMatches
    BY <1>2, <2>3
  <2>5. NoMatches \in [Features -> 0..points']
    BY <1>9 DEF NoMatches, None
  <2>. QED  BY <1>11, <2>3, <2>4, <2>5
<1>13. \A p \in new : /\ [o \in {k} |-> idx(p)] \in ObservationsTo(keyFrames')
                      /\ WeightOf([o \in {k} |-> idx(p)]) = Weight(idx(p))
  <2>. SUFFICES ASSUME NEW p \in new  PROVE /\ [o \in {k} |-> idx(p)] \in ObservationsTo(keyFrames')
                                            /\ WeightOf([o \in {k} |-> idx(p)]) = Weight(idx(p))
    OBVIOUS
  <2>. DEFINE i == idx(p)
  <2>1. keyFrames' \in Nat /\ k \in 1..keyFrames' /\ i \in Features
    BY <1>7, <1>9, <1>4
  <2>. HIDE DEF i, k
  <2>2. [o \in {k} |-> i] \in ObservationsTo(keyFrames') /\ WeightOf([o \in {k} |-> i]) = Weight(i)
    BY <2>1, SingleFacts, Zenon
  <2>. QED  BY <2>2 DEF i
<1>14. mObservations' \in [Points -> ObservationsTo(keyFrames')]
  <2>1. \A p \in Points : mObservations[p] \in ObservationsTo(keyFrames')
    BY <1>4, <1>9, MoreKeyFrames DEF IInv, Types
  <2>2. mObservations' = [p \in Points |-> IF p \in new THEN [o \in {k} |-> idx(p)] ELSE mObservations[p]]
    BY <1>2
  <2>. QED  BY <1>13, <2>1, <2>2
<1>15. nObs' \in [Points -> Int] /\ mpRefKF' \in [Points -> 0..keyFrames'] /\ mspMapPoints' \subseteq 1..points'
  <2>1. nObs' = [p \in Points |-> IF p \in new THEN Weight(idx(p)) ELSE nObs[p]]
    BY <1>2
  <2>2. nObs' \in [Points -> Int]
    BY <2>1 DEF IInv, Types, Weight
  <2>3. mpRefKF' = [p \in Points |-> IF p \in new THEN k ELSE mpRefKF[p]]
    BY <1>2
  <2>4. mpRefKF' \in [Points -> 0..keyFrames']
    BY <1>9, <1>10, <2>3 DEF IInv, Types
  <2>5. mspMapPoints' = mspMapPoints \cup new
    BY <1>2
  <2>6. mspMapPoints' \subseteq 1..points'
    BY <1>9, <1>10, <2>5 DEF IInv, Types
  <2>. QED  BY <2>2, <2>4, <2>6
<1>16. Types'
  <2>1. mbBad' \subseteq 1..points' /\ mpReplaced' \in [Points -> 0..points'] /\ mspKeyFrames' \subseteq 1..keyFrames'
    BY <1>3, <1>10 DEF IInv, Types
  <2>2. /\ badKFs' \subseteq 1..keyFrames' /\ mbNotErase' \subseteq 1..keyFrames'
        /\ mbToBeErased' \subseteq mbNotErase' /\ erasedLate' \subseteq 1..keyFrames'
    BY <1>3, <1>10 DEF IInv, Types, keyFrameVars
  <2>. QED  BY <1>9, <1>12, <1>14, <1>15, <2>1, <2>2 DEF Types
<1>17. Counted'
  <2>. SUFFICES ASSUME NEW p \in Points  PROVE nObs'[p] >= WeightOf(mObservations'[p])
    BY DEF Counted, WeightOf
  <2>1. mObservations'[p] = IF p \in new THEN [o \in {k} |-> idx(p)] ELSE mObservations[p]
    BY <1>2
  <2>2. nObs'[p] = IF p \in new THEN Weight(idx(p)) ELSE nObs[p]
    BY <1>2
  <2>3. nObs[p] >= WeightOf(mObservations[p])
    BY DEF IInv, Counted
  <2>4. CASE p \in new
    <3>. HIDE DEF new, idx, k
    <3>1. mObservations'[p] = [o \in {k} |-> idx(p)] /\ nObs'[p] = Weight(idx(p))
      BY <2>1, <2>2, <2>4, Zenon
    <3>2. WeightOf(mObservations'[p]) = Weight(idx(p))
      BY <1>13, <2>4, <3>1, Zenon
    <3>3. Weight(idx(p)) \in Int
      BY DEF Weight
    <3>. QED  BY <3>1, <3>2, <3>3
  <2>5. CASE p \notin new
    <3>1. mObservations'[p] = mObservations[p] /\ nObs'[p] = nObs[p]
      BY <2>1, <2>2, <2>5
    <3>. QED  BY <2>3, <3>1
  <2>. QED  BY <2>4, <2>5
<1>18. Places'
  <2>1. /\ mlNewKeyFrames' \in Seq(1..keyFrames') /\ mlpLoopKeyFrameQueue' \in Seq(1..keyFrames')
    <3>1. mlNewKeyFrames \in Seq(1..keyFrames') /\ mlpLoopKeyFrameQueue \in Seq(1..keyFrames')
      BY <1>10, SeqMonotonic DEF IInv, Places
    <3>2. mlNewKeyFrames' = Append(mlNewKeyFrames, k) /\ mlpLoopKeyFrameQueue' = mlpLoopKeyFrameQueue
      BY <1>2, <1>3 DEF lcVars
    <3>. QED  BY <1>9, <3>1, <3>2, AppendProperties
  <2>2. vpReplacePoints' \in Seq([kf : 1..keyFrames', mp : 1..points', by : 1..points'])
    <3>1. [kf : 1..keyFrames, mp : 1..points, by : 1..points] \subseteq [kf : 1..keyFrames', mp : 1..points', by : 1..points']
      BY <1>10
    <3>2. vpReplacePoints' = vpReplacePoints /\ vpReplacePoints \in Seq([kf : 1..keyFrames, mp : 1..points, by : 1..points])
      BY <1>3 DEF IInv, Places, lcVars
    <3>. QED  BY <3>1, <3>2, SeqMonotonic, Zenon
  <2>3. /\ mlpRecentAddedMapPoints' \subseteq 1..points' /\ mpCurrentKF' \in 0..keyFrames' /\ mpLoopKF' \in 0..keyFrames'
        /\ looper' \in {"waitStop", "fuse"} => matched'.idx \in Features /\ matched'.mp \in 1..points'
    BY <1>3, <1>10 DEF IInv, Places, lmVars, lcVars
  <2>4. /\ mapper' = mapper /\ looper' = looper /\ mpCurrentKF' = mpCurrentKF /\ mpLoopKF' = mpLoopKF
    BY <1>3 DEF lmVars, lcVars
  <2>. QED  BY <1>3, <2>1, <2>2, <2>3, <2>4 DEF IInv, Places
<1>19. Turns'
  BY <1>3 DEF IInv, Turns, Idle, lmVars, lcVars, keyFrameVars
<1>20. Calling' /\ MapKept'
  <2>1. UNCHANGED <<calls, mbBad, erasedLate>>
    BY <1>3 DEF keyFrameVars
  <2>2. points' \in Nat /\ keyFrames' \in Nat /\ points <= points' /\ keyFrames <= keyFrames'
    BY <1>4, <1>6, <1>9
  <2>3. mspMapPoints' = mspMapPoints \cup ((points + 1)..points')
    BY <1>2
  <2>. QED  BY <2>1, <2>2, <2>3, Waiting
<1>. QED  BY <1>16, <1>17, <1>18, <1>19, <1>20 DEF IInv

-----------------------------------------------------------------------------
(* Local mapping. *)
LEMMA SameObjects ==
  ASSUME IInv, UNCHANGED <<pointVars, madeVars, mspMapPoints, mspKeyFrames, mvpMapPoints, badKFs, frame>>,
         mbNotErase' \subseteq 1..keyFrames, mbToBeErased' \subseteq mbNotErase', erasedLate' \subseteq 1..keyFrames
  PROVE  Types' /\ Counted'
BY DEF IInv, Types, Counted, WeightOf, pointVars, madeVars

(* Local mapping, idle, starts on calls and lets loop closing be. *)
LEMMA MappingStarts ==
  ASSUME IInv, Idle("mapping"), NEW list \in Seq(OtherCalls(points, keyFrames, mbBad)), Call("mapping", list),
         UNCHANGED <<madeVars, mbBad, mspMapPoints, looper, erasedLate>>, mapper' \notin {"idle", "stopped"}
  PROVE  Calling' /\ Turns' /\ MapKept'
<1>1. /\ Calling' /\ MapKept' /\ calls'["looping"] = calls["looping"]
  BY Starting, TheThreads
<1>2. Turns'
  BY <1>1 DEF IInv, Turns, Idle
<1>. QED  BY <1>1, <1>2

LEMMA ProcessNewKeyFrameStep ==
  ASSUME IInv, ProcessNewKeyFrame
  PROVE  IInv'
<1>. DEFINE k == Head(mlNewKeyFrames)
            list(is) == [n \in 1..Len(is) |-> Associate(mvpMapPoints[k][is[n]], k, is[n])]
            Others == OtherCalls(points, keyFrames, mbBad)
<1>1. /\ mapper = "idle" /\ mlNewKeyFrames # <<>> /\ mpCurrentKF' = k
      /\ mlNewKeyFrames' = Tail(mlNewKeyFrames) /\ mapper' = "cull"
      /\ UNCHANGED <<pointVars, madeVars, mMutexMapUpdate, mlpRecentAddedMapPoints>>
      /\ UNCHANGED <<mvpMapPoints, keyFrameVars, mapVars, trackVars, lcVars>>
  BY DEF ProcessNewKeyFrame, MappingRest
<1>2. PICK is \in Ascending({i \in Features : mvpMapPoints[k][i] # None}) : Call("mapping", Append(list(is), InsertInMap(k)))
  BY DEF ProcessNewKeyFrame
<1>3. /\ points \in Nat /\ keyFrames \in Nat /\ k \in 1..keyFrames /\ k \in KeyFrames
      /\ mlNewKeyFrames' \in Seq(1..keyFrames)
  <2>1. points \in Nat /\ keyFrames \in Nat /\ 1..keyFrames \subseteq KeyFrames
    BY MapPointsAssumption DEF IInv, Types, KeyFrames
  <2>2. k \in 1..keyFrames /\ Tail(mlNewKeyFrames) \in Seq(1..keyFrames)
    BY <1>1, HeadTailProperties DEF IInv, Places
  <2>. QED  BY <1>1, <2>1, <2>2
<1>4. /\ Len(is) \in Nat /\ \A n \in 1..Len(is) : is[n] \in Features /\ mvpMapPoints[k][is[n]] # None
  <2>. DEFINE S == {i \in Features : mvpMapPoints[k][i] # None}
  <2>1. S \in SUBSET Features /\ IsFiniteSet(Features)
    BY MapPointsAssumption
  <2>2. IsFiniteSet(S)
    BY <2>1, FS_Subset
  <2>3. is \in Orders(S)
    BY DEF Ascending
  <2>4. Len(is) \in Nat /\ \A n \in 1..Len(is) : is[n] \in S
    BY <2>2, <2>3, OrdersFacts, Zenon
  <2>. QED  BY <2>4
<1>5. Append(list(is), InsertInMap(k)) \in Seq(Others)
  <2>1. \A n \in 1..Len(is) : mvpMapPoints[k][is[n]] \in 1..points
    BY <1>3, <1>4 DEF IInv, Types, None
  <2>2. \A n \in 1..Len(is) : Associate(mvpMapPoints[k][is[n]], k, is[n]) \in Others
    BY <1>3, <1>4, <2>1, CallMakers
  <2>3. list(is) \in Seq(Others) /\ InsertInMap(k) \in Others
    BY <1>3, <1>4, <2>2, CallMakers
  <2>. QED  BY <2>3, AppendProperties
<1>6. Calling' /\ Turns' /\ MapKept'
  <2>1. Idle("mapping")
    BY <1>1 DEF IInv, Turns
  <2>2. UNCHANGED <<madeVars, mbBad, mspMapPoints, looper, erasedLate>> /\ mapper' \notin {"idle", "stopped"}
    BY <1>1 DEF pointVars, mapVars, lcVars, keyFrameVars
  <2>. QED  BY <1>2, <1>5, <2>1, <2>2, MappingStarts
<1>7. Types' /\ Counted'
  <2>1. UNCHANGED <<pointVars, madeVars, mspMapPoints, mspKeyFrames, mvpMapPoints, badKFs, frame>>
    BY <1>1 DEF keyFrameVars, mapVars, trackVars
  <2>2. mbNotErase' \subseteq 1..keyFrames /\ mbToBeErased' \subseteq mbNotErase' /\ erasedLate' \subseteq 1..keyFrames
    BY <1>1 DEF IInv, Types, keyFrameVars
  <2>. QED  BY <2>1, <2>2, SameObjects
<1>8. Places'
  <2>1. UNCHANGED <<mMutexMapUpdate, mlpRecentAddedMapPoints, tracker, mlpLoopKeyFrameQueue, looper, mpLoopKF, matched,
                   vpReplacePoints, points, keyFrames>>
    BY <1>1 DEF trackVars, lcVars, madeVars
  <2>2. mapper' = "cull" /\ looper # "fuse" /\ mpCurrentKF' \in 0..keyFrames /\ mpCurrentKF' # 0
    BY <1>1, <1>3 DEF IInv, Places
  <2>. QED  BY <1>3, <2>1, <2>2 DEF IInv, Places
<1>. QED  BY <1>6, <1>7, <1>8 DEF IInv

(* The actions of local mapping that leave the keyframe it is at and the queues alone. *)
LEMMA MappingPlaces ==
  ASSUME IInv, mapper \notin {"idle", "stopped"}, mapper' \in {"cull", "create", "fuse", "ba", "cullkf"},
         mMutexMapUpdate' \in Threads \cup {"free", "tracking"}, mlpRecentAddedMapPoints' \subseteq 1..points',
         keyFrames' = keyFrames, points \in Nat, points' \in Nat, points <= points',
         UNCHANGED <<tracker, mlNewKeyFrames, mpCurrentKF, lcVars>>
  PROVE  Places'
<1>1. UNCHANGED <<mlpLoopKeyFrameQueue, looper, mpLoopKF, matched, vpReplacePoints>>
  BY DEF lcVars
<1>2. 1..points \subseteq 1..points'
  OBVIOUS
<1>3. vpReplacePoints' \in Seq([kf : 1..keyFrames', mp : 1..points', by : 1..points'])
  <2>1. [kf : 1..keyFrames, mp : 1..points, by : 1..points] \subseteq [kf : 1..keyFrames', mp : 1..points', by : 1..points']
    BY <1>2
  <2>2. vpReplacePoints \in Seq([kf : 1..keyFrames, mp : 1..points, by : 1..points])
    BY DEF IInv, Places
  <2>3. vpReplacePoints \in Seq([kf : 1..keyFrames', mp : 1..points', by : 1..points'])
    BY <2>1, <2>2, SeqMonotonic
  <2>. QED  BY <1>1, <2>3
<1>4. looper' \in {"waitStop", "fuse"} => matched'.idx \in Features /\ matched'.mp \in 1..points'
  BY <1>1, <1>2 DEF IInv, Places
<1>5. (mapper' = "stopped") = (looper' = "fuse")
  BY <1>1 DEF IInv, Places
<1>. QED  BY <1>1, <1>3, <1>4, <1>5 DEF IInv, Places

LEMMA MapPointCullingStep ==
  ASSUME IInv, MapPointCulling
  PROVE  IInv'
<1>. DEFINE Others == OtherCalls(points, keyFrames, mbBad)
<1>1. /\ mapper = "cull" /\ Idle("mapping") /\ mlpRecentAddedMapPoints' \subseteq mlpRecentAddedMapPoints
      /\ UNCHANGED <<pointVars, madeVars, mMutexMapUpdate, mlNewKeyFrames, lmVars, mvpMapPoints, keyFrameVars, mapVars,
                     trackVars, lcVars>>
  BY DEF MapPointCulling, MappingRest
<1>2. points \in Nat /\ keyFrames \in Nat
  BY MapPointsAssumption DEF IInv, Types
<1>3. /\ UNCHANGED <<madeVars, mbBad, mspMapPoints, looper, erasedLate>> /\ mapper' = "cull"
      /\ UNCHANGED <<tracker, mlNewKeyFrames, mpCurrentKF, lcVars>> /\ points' = points /\ keyFrames' = keyFrames
      /\ UNCHANGED <<pointVars, madeVars, mspMapPoints, mspKeyFrames, mvpMapPoints, badKFs, frame>>
      /\ UNCHANGED <<mbNotErase, mbToBeErased, erasedLate>>
  BY <1>1 DEF pointVars, madeVars, mapVars, lcVars, lmVars, keyFrameVars, trackVars
<1>4. Calling' /\ Turns' /\ MapKept'
  <2>1. ASSUME NEW p \in Good, Call("mapping", <<SetBadFlagOf(p)>>)  PROVE Calling' /\ Turns' /\ MapKept'
    <3>1. SetBadFlagOf(p) \in Others
      BY <1>2, CallMakers DEF Good
    <3>2. <<SetBadFlagOf(p)>> \in Seq(Others)
      BY <3>1, OneFurther
    <3>. QED  BY <1>1, <1>3, <2>1, <3>2, MappingStarts
  <2>2. ASSUME UNCHANGED calls  PROVE Calling' /\ Turns' /\ MapKept'
    BY <1>1, <1>3, <2>2 DEF IInv, Calling, Turns, Idle, MapKept, Making, Pending, In, madeVars
  <2>3. (\E p \in Good : Call("mapping", <<SetBadFlagOf(p)>>)) \/ UNCHANGED calls
    BY DEF MapPointCulling
  <2>. QED  BY <2>1, <2>2, <2>3
<1>5. Types' /\ Counted'
  BY <1>3, SameObjects DEF IInv, Types
<1>6. Places'
  <2>1. mlpRecentAddedMapPoints' \subseteq 1..points' /\ mMutexMapUpdate' \in Threads \cup {"free", "tracking"}
    BY <1>1, <1>3 DEF IInv, Places
  <2>. QED  BY <1>1, <1>2, <1>3, <2>1, MappingPlaces
<1>. QED  BY <1>4, <1>5, <1>6 DEF IInv

LEMMA SearchInNeighborsStep ==
  ASSUME IInv, SearchInNeighbors
  PROVE  IInv'
<1>. DEFINE Others == OtherCalls(points, keyFrames, mbBad)
<1>1. /\ mapper = "fuse" /\ Idle("mapping")
      /\ UNCHANGED <<pointVars, madeVars, mMutexMapUpdate, mlNewKeyFrames, mlpRecentAddedMapPoints, lmVars, mvpMapPoints,
                     keyFrameVars, mapVars, trackVars, lcVars>>
  BY DEF SearchInNeighbors, MappingRest
<1>2. points \in Nat /\ keyFrames \in Nat /\ 1..keyFrames \subseteq KeyFrames
  BY MapPointsAssumption DEF IInv, Types, KeyFrames
<1>3. /\ UNCHANGED <<madeVars, mbBad, mspMapPoints, looper, erasedLate>> /\ mapper' = "fuse"
      /\ UNCHANGED <<tracker, mlNewKeyFrames, mpCurrentKF, lcVars>> /\ points' = points /\ keyFrames' = keyFrames
      /\ UNCHANGED <<pointVars, madeVars, mspMapPoints, mspKeyFrames, mvpMapPoints, badKFs, frame>>
      /\ UNCHANGED <<mbNotErase, mbToBeErased, erasedLate, mMutexMapUpdate, mlpRecentAddedMapPoints>>
  BY <1>1 DEF pointVars, madeVars, mapVars, lcVars, lmVars, keyFrameVars, trackVars
<1>4. PICK k \in Live \cup {mpCurrentKF}, from \in Live \cup {mpCurrentKF}, i \in Features, p \in Good :
        Call("mapping", FuseCalls(p, k, i))
  BY DEF SearchInNeighbors
<1>5. FuseCalls(p, k, i) \in Seq(Others)
  <2>1. k \in 1..keyFrames /\ p \in 1..points
    BY <1>1, <1>2 DEF IInv, Types, Places, Live, Good
  <2>2. mvpMapPoints[k][i] \in 0..points
    BY <1>2, <2>1 DEF IInv, Types
  <2>3. <<AddObservationOf(p, k, i), SetMatch(k, i, p)>> \in Seq(Others)
    <3>1. AddObservationOf(p, k, i) \in Others /\ SetMatch(k, i, p) \in Others
      BY <1>2, <2>1, CallMakers
    <3>. QED  BY <3>1
  <2>4. ASSUME NEW r \in 1..points  PROVE <<ReplaceBy(p, r)>> \in Seq(Others) /\ <<ReplaceBy(r, p)>> \in Seq(Others)
    <3>1. ReplaceBy(p, r) \in Others /\ ReplaceBy(r, p) \in Others
      BY <1>2, <2>1, CallMakers
    <3>. QED  BY <3>1, OneFurther
  <2>5. mvpMapPoints[k][i] # None => mvpMapPoints[k][i] \in 1..points
    BY <1>2, <2>2 DEF None
  <2>. QED  BY <2>3, <2>4, <2>5, NoFurther DEF FuseCalls, MakeObserved
<1>6. Calling' /\ Turns' /\ MapKept'
  BY <1>1, <1>3, <1>4, <1>5, MappingStarts
<1>7. Types' /\ Counted'
  BY <1>3, SameObjects DEF IInv, Types
<1>8. Places'
  <2>1. mlpRecentAddedMapPoints' \subseteq 1..points' /\ mMutexMapUpdate' \in Threads \cup {"free", "tracking"}
    BY <1>1, <1>3 DEF IInv, Places
  <2>. QED  BY <1>1, <1>2, <1>3, <2>1, MappingPlaces
<1>. QED  BY <1>6, <1>7, <1>8 DEF IInv

LEMMA LocalBundleAdjustmentStep ==
  ASSUME IInv, LocalBundleAdjustment
  PROVE  IInv'
<1>. DEFINE Others == OtherCalls(points, keyFrames, mbBad)
<1>1. /\ mapper = "ba" /\ Idle("mapping") /\ mMutexMapUpdate' = "mapping"
      /\ UNCHANGED <<pointVars, madeVars, mlNewKeyFrames, mlpRecentAddedMapPoints, lmVars, mvpMapPoints,
                     keyFrameVars, mapVars, trackVars, lcVars>>
  BY DEF LocalBundleAdjustment, MappingRest
<1>2. points \in Nat /\ keyFrames \in Nat
  BY MapPointsAssumption DEF IInv, Types
<1>3. /\ UNCHANGED <<madeVars, mbBad, mspMapPoints, looper, erasedLate>> /\ mapper' = "ba"
      /\ UNCHANGED <<tracker, mlNewKeyFrames, mpCurrentKF, lcVars>> /\ points' = points /\ keyFrames' = keyFrames
      /\ UNCHANGED <<pointVars, madeVars, mspMapPoints, mspKeyFrames, mvpMapPoints, badKFs, frame>>
      /\ UNCHANGED <<mbNotErase, mbToBeErased, erasedLate, mlpRecentAddedMapPoints>>
  BY <1>1 DEF pointVars, madeVars, mapVars, lcVars, lmVars, keyFrameVars, trackVars
<1>4. PICK p \in Good : \E k \in Observers(p) : Call("mapping", <<EraseMatch(k, p), EraseObservationOf(p, k), Unlock>>)
  BY DEF LocalBundleAdjustment
<1>4a. PICK k \in Observers(p) : Call("mapping", <<EraseMatch(k, p), EraseObservationOf(p, k), Unlock>>)
  BY <1>4
<1>5. <<EraseMatch(k, p), EraseObservationOf(p, k), Unlock>> \in Seq(Others)
  <2>1. p \in 1..points /\ p \in Points
    BY <1>2, MapPointsAssumption DEF IInv, Types, Good, Points
  <2>2. mObservations[p] \in ObservationsTo(keyFrames)
    BY <2>1 DEF IInv, Types
  <2>3. Observers(p) \subseteq 1..keyFrames
    BY <1>2, <2>2, ObservationsAreFinite, Zenon DEF Observers
  <2>4. k \in 1..keyFrames
    BY <2>3
  <2>5. EraseMatch(k, p) \in Others /\ EraseObservationOf(p, k) \in Others /\ Unlock \in Others
    BY <1>2, <2>1, <2>4, CallMakers
  <2>. QED  BY <2>5
<1>6. Calling' /\ Turns' /\ MapKept'
  BY <1>1, <1>3, <1>4a, <1>5, MappingStarts
<1>7. Types' /\ Counted'
  BY <1>3, SameObjects DEF IInv, Types
<1>8. Places'
  <2>1. mlpRecentAddedMapPoints' \subseteq 1..points' /\ mMutexMapUpdate' \in Threads \cup {"free", "tracking"}
    BY <1>1, <1>3, TheThreads DEF IInv, Places
  <2>. QED  BY <1>1, <1>2, <1>3, <2>1, MappingPlaces
<1>. QED  BY <1>6, <1>7, <1>8 DEF IInv

LEMMA CreateNewMapPointsStep ==
  ASSUME IInv, CreateNewMapPoints
  PROVE  IInv'
<1>0. PICK p : p = points + 1
  OBVIOUS
<1>1. /\ mapper \in {"cull", "create"} /\ Idle("mapping") /\ points < MaxPoints /\ mapper' = "create"
      /\ points' = p /\ mpRefKF' = [mpRefKF EXCEPT ![p] = mpCurrentKF]
      /\ mlpRecentAddedMapPoints' = mlpRecentAddedMapPoints \cup {p}
      /\ UNCHANGED <<mObservations, nObs, mbBad, mpReplaced, keyFrames, mMutexMapUpdate, mlNewKeyFrames, mpCurrentKF,
                     mvpMapPoints, keyFrameVars, mapVars, trackVars, lcVars>>
  BY <1>0 DEF CreateNewMapPoints, MappingRest
<1>2. PICK k \in Live, i \in Features, j \in Features :
        Call("mapping", <<AddObservationOf(p, mpCurrentKF, i), AddObservationOf(p, k, j),
                          SetMatch(mpCurrentKF, i, p), SetMatch(k, j, p), AddToMap(p)>>)
  BY <1>0 DEF CreateNewMapPoints
<1>3. /\ points \in Nat /\ keyFrames \in Nat /\ MaxPoints \in Nat /\ points' \in 0..MaxPoints /\ points' \in Nat
      /\ p \in 1..points' /\ p \in Points /\ keyFrames' = keyFrames
      /\ mpCurrentKF \in 1..keyFrames /\ k \in 1..keyFrames
  <2>1. points \in Nat /\ keyFrames \in Nat /\ MaxPoints \in Nat
    BY MapPointsAssumption DEF IInv, Types
  <2>2. mpCurrentKF \in 1..keyFrames
    BY <1>1, <2>1 DEF IInv, Places
  <2>3. k \in 1..keyFrames
    BY DEF IInv, Types, Live
  <2>. QED  BY <1>0, <1>1, <2>1, <2>2, <2>3 DEF Points
<1>4. 0..points \subseteq 0..points' /\ 1..points \subseteq 1..points'
  BY <1>0, <1>1, <1>3
<1>. DEFINE first == <<AddObservationOf(p, mpCurrentKF, i), AddObservationOf(p, k, j), SetMatch(mpCurrentKF, i, p), SetMatch(k, j, p)>>
            Others == OtherCalls(points', keyFrames', mbBad')
            All == AllCalls(points', keyFrames', mbBad')
<1>5. first \in Seq(ObserveCalls) /\ first \in Seq(All) /\ AddToMap(p) \in All
  <2>1. /\ AddObservationOf(p, mpCurrentKF, i) \in ObserveCalls /\ AddObservationOf(p, k, j) \in ObserveCalls
        /\ SetMatch(mpCurrentKF, i, p) \in ObserveCalls /\ SetMatch(k, j, p) \in ObserveCalls
    BY <1>3, MakingCalls
  <2>2. /\ AddObservationOf(p, mpCurrentKF, i) \in Others /\ AddObservationOf(p, k, j) \in Others
        /\ SetMatch(mpCurrentKF, i, p) \in Others /\ SetMatch(k, j, p) \in Others
    <3>1. p \in 0..points' /\ mpCurrentKF \in 1..keyFrames' /\ k \in 1..keyFrames' /\ keyFrames' \in Nat
      BY <1>3
    <3>. QED  BY <1>3, <3>1, CallMakers
  <2>3. Others \subseteq All /\ AddToMap(p) \in All
    BY <1>3, MakingCalls
  <2>. QED  BY <2>1, <2>2, <2>3
<1>6. calls'["mapping"] = Append(first, AddToMap(p)) /\ calls'["looping"] = calls["looping"]
      /\ calls' = [t \in Threads |-> calls'[t]]
  <2>1. <<AddObservationOf(p, mpCurrentKF, i), AddObservationOf(p, k, j), SetMatch(mpCurrentKF, i, p), SetMatch(k, j, p), AddToMap(p)>>
          = Append(first, AddToMap(p))
    OBVIOUS
  <2>. QED  BY <1>2, <2>1, TheThreads DEF Call, IInv, Calling
<1>. HIDE DEF first
<1>7. Making(p)' /\ \A o : ~Making(o)
  <2>1. Making(p)'
    <3>1. \E s \in Seq(ObserveCalls) : calls'["mapping"] = Append(s, AddToMap(p))
      BY <1>5, <1>6
    <3>. QED  BY <3>1 DEF Making
  <2>2. \A o : ~Making(o)
    BY <1>1, MakingFacts DEF Idle
  <2>. QED  BY <2>1, <2>2
<1>8. \A o : Making(o)' => o = p
  <2>. SUFFICES ASSUME NEW o, Making(o)'  PROVE o = p
    OBVIOUS
  <2>1. PICK r \in Seq(ObserveCalls) : calls'["mapping"] = Append(r, AddToMap(o))
    BY DEF Making
  <2>2. Append(r, AddToMap(o)) = Append(first, AddToMap(p))
    BY <1>6, <2>1
  <2>3. /\ Len(Append(r, AddToMap(o))) = Len(r) + 1 /\ Len(r) \in Nat
        /\ Append(r, AddToMap(o))[Len(r) + 1] = AddToMap(o)
    BY AppendParts
  <2>4. /\ Len(Append(first, AddToMap(p))) = Len(first) + 1 /\ Len(first) \in Nat
        /\ Append(first, AddToMap(p))[Len(first) + 1] = AddToMap(p)
    BY <1>5, AppendParts
  <2>5. Len(r) = Len(first)
    <3>1. Len(Append(r, AddToMap(o))) = Len(Append(first, AddToMap(p)))
      BY <2>2, Zenon
    <3>2. Len(r) + 1 = Len(first) + 1
      BY <2>3, <2>4, <3>1, Zenon
    <3>3. \A a, b \in Nat : a + 1 = b + 1 => a = b
      OBVIOUS
    <3>. QED  BY <2>3, <2>4, <3>2, <3>3, Zenon
  <2>6. AddToMap(o) = AddToMap(p)
    BY <2>2, <2>3, <2>4, <2>5
  <2>. QED  BY <2>6, MakingCalls
<1>9. Calling'
  <2>1. calls'["mapping"] \in Seq(All)
    BY <1>5, <1>6, AppendProperties
  <2>2. calls'["looping"] \in Seq(Others)
    <3>1. OtherCalls(points, keyFrames, mbBad) \subseteq Others
      BY <1>0, <1>1, <1>3, CallsGrow
    <3>. QED  BY <1>6, <3>1, SeqMonotonic DEF IInv, Calling
  <2>3. \E o \in 1..points' : Making(o)'
    BY <1>3, <1>7
  <2>. QED  BY <1>6, <2>1, <2>2, <2>3 DEF Calling
<1>10. Turns'
  <2>1. UNCHANGED <<looper, erasedLate>>
    BY <1>1 DEF lcVars, keyFrameVars
  <2>. QED  BY <1>1, <1>6, <2>1 DEF IInv, Turns, Idle
<1>11. MapKept'
  <2>1. mspMapPoints' = mspMapPoints /\ mbBad' = mbBad /\ erasedLate' = erasedLate
    BY <1>1 DEF mapVars, keyFrameVars
  <2>2. p \notin mbBad /\ \A o \in 1..points' : o = p \/ o \in 1..points
    BY <1>0, <1>1, <1>3 DEF IInv, Types
  <2>3. ASSUME NEW o \in (1..points') \ mbBad  PROVE o \in mspMapPoints' \/ Making(o)'
    <3>1. CASE o = p
      BY <1>7, <3>1
    <3>2. CASE o \in 1..points
      BY <1>7, <2>1, <2>3, <3>2 DEF IInv, MapKept
    <3>. QED  BY <2>2, <2>3, <3>1, <3>2
  <2>4. ASSUME erasedLate = {}, NEW o \in 1..points', o \in mbBad, o \in mspMapPoints  PROVE Pending(o)'
    <3>1. o \in 1..points
      BY <2>2, <2>4
    <3>2. PICK t \in Threads : In(EraseFromMap(o), calls[t])
      BY <2>4, <3>1 DEF IInv, MapKept, Pending
    <3>3. t # "mapping"
      BY <1>1, <3>2, EmptySeq DEF In, Idle
    <3>4. In(EraseFromMap(o), calls'["looping"])
      BY <1>6, <3>2, <3>3, TheThreads DEF In
    <3>. QED  BY <3>4, TheThreads DEF Pending, In
  <2>. QED  BY <1>8, <2>1, <2>2, <2>3, <2>4 DEF MapKept
<1>12. Types' /\ Counted'
  <2>1. /\ UNCHANGED <<mObservations, nObs, mbBad, mpReplaced, mvpMapPoints, keyFrames, mspMapPoints, mspKeyFrames, frame,
                       badKFs, mbNotErase, mbToBeErased, erasedLate>>
    BY <1>1 DEF keyFrameVars, mapVars, trackVars
  <2>2. mpRefKF' \in [Points -> 0..keyFrames']
    BY <1>1, <1>3 DEF IInv, Types
  <2>3. [Features -> 0..points] \subseteq [Features -> 0..points'] /\ [Points -> 0..points] \subseteq [Points -> 0..points']
    BY <1>4
  <2>4. [KeyFrames -> [Features -> 0..points]] \subseteq [KeyFrames -> [Features -> 0..points']]
    BY <2>3
  <2>5. Types'
    BY <1>3, <1>4, <2>1, <2>2, <2>3, <2>4 DEF IInv, Types
  <2>6. Counted'
    BY <2>1 DEF IInv, Counted, WeightOf
  <2>. QED  BY <2>5, <2>6
<1>13. Places'
  <2>1. UNCHANGED <<tracker, mlNewKeyFrames, mpCurrentKF, lcVars>> /\ mMutexMapUpdate' \in Threads \cup {"free", "tracking"}
    BY <1>1 DEF trackVars, IInv, Places
  <2>2. mlpRecentAddedMapPoints' \subseteq 1..points'
    BY <1>1, <1>3, <1>4 DEF IInv, Places
  <2>3. points <= points' /\ mapper \notin {"idle", "stopped"} /\ mapper' \in {"cull", "create", "fuse", "ba", "cullkf"}
    BY <1>0, <1>1, <1>3
  <2>. QED  BY <1>3, <2>1, <2>2, <2>3, MappingPlaces
<1>. QED  BY <1>9, <1>10, <1>11, <1>12, <1>13 DEF IInv

(* What KeyFrame::SetBadFlag calls. *)
LEMMA EraseKeyFrameCalls ==
  ASSUME IInv, NEW k \in 1..keyFrames, NEW is \in Ascending(Features)
  PROVE  EraseKeyFrame(k, is) \in Seq(OtherCalls(points, keyFrames, mbBad))
<1>. DEFINE Others == OtherCalls(points, keyFrames, mbBad)
<1>1. points \in Nat /\ keyFrames \in Nat /\ IsFiniteSet(Features)
  BY MapPointsAssumption DEF IInv, Types
<1>2. is \in Orders(Features)
  BY DEF Ascending
<1>3. Len(is) \in Nat /\ \A n \in 1..Len(is) : is[n] \in Features
  BY <1>1, <1>2, OrdersFacts, Zenon
<1>4. \A n \in 1..Len(is) : Forget(k, is[n]) \in Others
  BY <1>1, <1>3, CallMakers
<1>5. [n \in 1..Len(is) |-> Forget(k, is[n])] \in Seq(Others)
  BY <1>3, <1>4
<1>6. <<MarkBad(k)>> \in Seq(Others)
  BY <1>1, CallMakers
<1>. QED  BY <1>5, <1>6, ConcatProperties DEF EraseKeyFrame

LEMMA KeyFrameCullingStep ==
  ASSUME IInv, KeyFrameCulling
  PROVE  IInv'
<1>1. /\ mapper \in {"ba", "cullkf"} /\ Idle("mapping") /\ mapper' = "cullkf"
      /\ UNCHANGED <<pointVars, mapVars, mvpMapPoints, badKFs, mbNotErase, erasedLate, madeVars, mMutexMapUpdate,
                     mlNewKeyFrames, mlpRecentAddedMapPoints, mpCurrentKF, trackVars, lcVars>>
  BY DEF KeyFrameCulling
<1>2. PICK k \in Live : IF k \in mbNotErase
        THEN mbToBeErased' = mbToBeErased \cup {k} /\ UNCHANGED calls
        ELSE (\E is \in Ascending(Features) : Call("mapping", EraseKeyFrame(k, is))) /\ UNCHANGED mbToBeErased
  BY DEF KeyFrameCulling
<1>3. k \in 1..keyFrames /\ points \in Nat /\ keyFrames \in Nat
  BY MapPointsAssumption DEF IInv, Types, Live
<1>4. /\ UNCHANGED <<madeVars, mbBad, mspMapPoints, looper, erasedLate>> /\ mapper' \notin {"idle", "stopped"}
      /\ UNCHANGED <<pointVars, madeVars, mspMapPoints, mspKeyFrames, mvpMapPoints, badKFs, frame>>
      /\ UNCHANGED <<tracker, mlNewKeyFrames, mpCurrentKF, lcVars>> /\ points' = points /\ keyFrames' = keyFrames
  BY <1>1 DEF pointVars, mapVars, madeVars, trackVars, lcVars
<1>5. Calling' /\ Turns' /\ MapKept' /\ mbToBeErased' \subseteq mbNotErase'
  <2>1. CASE k \in mbNotErase
    <3>1. UNCHANGED calls /\ mbToBeErased' = mbToBeErased \cup {k}
      BY <1>2, <2>1
    <3>. QED  BY <1>1, <1>4, <2>1, <3>1 DEF IInv, Types, Calling, Turns, Idle, MapKept, Making, Pending, In
  <2>2. CASE k \notin mbNotErase
    <3>1. PICK is \in Ascending(Features) : Call("mapping", EraseKeyFrame(k, is))
      BY <1>2, <2>2
    <3>2. EraseKeyFrame(k, is) \in Seq(OtherCalls(points, keyFrames, mbBad))
      BY <1>3, EraseKeyFrameCalls
    <3>3. mbToBeErased' \subseteq mbNotErase'
      BY <1>1, <1>2, <2>2 DEF IInv, Types
    <3>. QED  BY <1>1, <1>4, <3>1, <3>2, <3>3, MappingStarts
  <2>. QED  BY <2>1, <2>2
<1>6. Types' /\ Counted'
  <2>1. mbNotErase' \subseteq 1..keyFrames /\ erasedLate' \subseteq 1..keyFrames
    BY <1>1 DEF IInv, Types
  <2>. QED  BY <1>4, <1>5, <2>1, SameObjects
<1>7. Places'
  <2>1. mlpRecentAddedMapPoints' \subseteq 1..points' /\ mMutexMapUpdate' \in Threads \cup {"free", "tracking"}
    BY <1>1, <1>4 DEF IInv, Places
  <2>. QED  BY <1>1, <1>3, <1>4, <2>1, MappingPlaces
<1>. QED  BY <1>5, <1>6, <1>7 DEF IInv

LEMMA NextTaskStep ==
  ASSUME IInv, NextTask
  PROVE  IInv'
<1>1. /\ Idle("mapping") /\ mapper \notin {"idle", "stopped"} /\ mapper' \in {"idle", "fuse", "ba"}
      /\ mlpLoopKeyFrameQueue' \in {mlpLoopKeyFrameQueue, Append(mlpLoopKeyFrameQueue, mpCurrentKF)}
      /\ UNCHANGED <<pointVars, mapVars, mvpMapPoints, keyFrameVars, madeVars, calls, mMutexMapUpdate, trackVars,
                     mlNewKeyFrames, mpCurrentKF, mlpRecentAddedMapPoints, looper, mpLoopKF, matched, vpReplacePoints>>
  BY DEF NextTask
<1>2. mlpLoopKeyFrameQueue' \in Seq(1..keyFrames)
  <2>1. mpCurrentKF \in 1..keyFrames /\ mlpLoopKeyFrameQueue \in Seq(1..keyFrames)
    BY <1>1, MapPointsAssumption DEF IInv, Types, Places
  <2>2. Append(mlpLoopKeyFrameQueue, mpCurrentKF) \in Seq(1..keyFrames)
    BY <2>1, AppendProperties
  <2>. QED  BY <1>1, <2>1, <2>2
<1>3. Types' /\ Counted'
  BY <1>1 DEF IInv, Types, Counted, WeightOf, pointVars, mapVars, keyFrameVars, madeVars, trackVars
<1>4. Calling' /\ Turns' /\ MapKept'
  BY <1>1 DEF IInv, Calling, Turns, Idle, MapKept, Making, Pending, In, madeVars, pointVars, mapVars, keyFrameVars
<1>5. Places'
  <2>1. (mapper' = "stopped") = (looper' = "fuse")
    BY <1>1 DEF IInv, Places
  <2>. QED  BY <1>1, <1>2, <2>1 DEF IInv, Places, madeVars, trackVars
<1>. QED  BY <1>3, <1>4, <1>5 DEF IInv

LEMMA MappingStep ==
  ASSUME IInv, Mapping
  PROVE  IInv'
BY ProcessNewKeyFrameStep, MapPointCullingStep, CreateNewMapPointsStep, SearchInNeighborsStep, LocalBundleAdjustmentStep,
   KeyFrameCullingStep, NextTaskStep DEF Mapping

-----------------------------------------------------------------------------
(* Loop closing. *)
LEMMA SameCalls ==
  ASSUME IInv, UNCHANGED <<calls, madeVars, mbBad, mspMapPoints>>, erasedLate \subseteq erasedLate'
  PROVE  Calling' /\ MapKept'
BY DEF IInv, Calling, MapKept, Making, Pending, In, madeVars

LEMMA TakeKeyFrameStep ==
  ASSUME IInv, TakeKeyFrame
  PROVE  IInv'
<1>1. /\ looper = "idle" /\ mlpLoopKeyFrameQueue # <<>> /\ Idle("looping") /\ looper' = "detect"
      /\ mpLoopKF' = Head(mlpLoopKeyFrameQueue) /\ mlpLoopKeyFrameQueue' = Tail(mlpLoopKeyFrameQueue)
      /\ mbNotErase' = mbNotErase \cup {mpLoopKF'}
      /\ UNCHANGED <<pointVars, mapVars, badKFs, mbToBeErased, erasedLate, calls, mMutexMapUpdate, mapper, matched,
                     vpReplacePoints, mvpMapPoints, madeVars, trackVars, mlNewKeyFrames, mlpRecentAddedMapPoints, mpCurrentKF>>
  BY DEF TakeKeyFrame, LoopingRest
<1>2. mpLoopKF' \in 1..keyFrames /\ mlpLoopKeyFrameQueue' \in Seq(1..keyFrames) /\ keyFrames \in Nat
  BY <1>1, HeadTailProperties, MapPointsAssumption DEF IInv, Places, Types
<1>3. Types' /\ Counted'
  <2>1. UNCHANGED <<pointVars, madeVars, mspMapPoints, mspKeyFrames, mvpMapPoints, badKFs, frame>>
    BY <1>1 DEF mapVars, trackVars
  <2>2. mbNotErase' \subseteq 1..keyFrames /\ mbToBeErased' \subseteq mbNotErase' /\ erasedLate' \subseteq 1..keyFrames
    BY <1>1, <1>2 DEF IInv, Types
  <2>. QED  BY <2>1, <2>2, SameObjects
<1>4. Places'
  <2>1. mapper' # "stopped" /\ looper' = "detect" /\ mpLoopKF' \in 0..keyFrames /\ mpLoopKF' # 0
    BY <1>1, <1>2 DEF IInv, Places
  <2>. QED  BY <1>1, <1>2, <2>1 DEF IInv, Places, madeVars, trackVars
<1>5. Turns'
  BY <1>1 DEF IInv, Turns, Idle
<1>6. Calling' /\ MapKept'
  BY <1>1, SameCalls DEF pointVars, mapVars
<1>. QED  BY <1>3, <1>4, <1>5, <1>6 DEF IInv

LEMMA NotDetectedStep ==
  ASSUME IInv, NotDetected
  PROVE  IInv'
<1>1. /\ looper = "detect" /\ looper' = "idle" /\ mpLoopKF' = None
      /\ mbNotErase' = mbNotErase \ {mpLoopKF} /\ mbToBeErased' = mbToBeErased \ {mpLoopKF}
      /\ erasedLate' = erasedLate \cup ({mpLoopKF} \cap mbToBeErased)
      /\ UNCHANGED <<pointVars, mapVars, badKFs, mMutexMapUpdate, mapper, mlpLoopKeyFrameQueue, matched, vpReplacePoints,
                     mvpMapPoints, madeVars, trackVars, mlNewKeyFrames, mlpRecentAddedMapPoints, mpCurrentKF>>
  BY DEF NotDetected, LoopingRest
<1>2. PICK is \in Ascending(Features) :
        Call("looping", IF mpLoopKF \in mbToBeErased THEN EraseKeyFrame(mpLoopKF, is) ELSE <<>>)
  BY DEF NotDetected
<1>. DEFINE list == IF mpLoopKF \in mbToBeErased THEN EraseKeyFrame(mpLoopKF, is) ELSE <<>>
<1>3. keyFrames \in Nat /\ mpLoopKF \in 1..keyFrames
  BY <1>1, MapPointsAssumption DEF IInv, Types, Places
<1>4. list \in Seq(OtherCalls(points, keyFrames, mbBad))
  BY <1>3, EraseKeyFrameCalls, NoFurther
<1>5. Calling' /\ MapKept' /\ calls'["looping"] = list /\ calls'["mapping"] = calls["mapping"]
  <2>1. Idle("looping")
    BY <1>1 DEF IInv, Turns
  <2>2. UNCHANGED <<madeVars, mbBad, mspMapPoints>> /\ erasedLate \subseteq erasedLate'
    BY <1>1 DEF pointVars, mapVars
  <2>3. Call("looping", list)
    BY <1>2
  <2>. HIDE DEF list
  <2>. QED  BY <1>4, <2>1, <2>2, <2>3, Starting, TheThreads
<1>6. Turns'
  <2>1. erasedLate' = {} => list = <<>>
    BY <1>1
  <2>. QED  BY <1>1, <1>5, <2>1 DEF IInv, Turns, Idle
<1>7. Types' /\ Counted'
  <2>1. UNCHANGED <<pointVars, madeVars, mspMapPoints, mspKeyFrames, mvpMapPoints, badKFs, frame>>
    BY <1>1 DEF mapVars, trackVars
  <2>2. mbNotErase' \subseteq 1..keyFrames /\ mbToBeErased' \subseteq mbNotErase' /\ erasedLate' \subseteq 1..keyFrames
    BY <1>1, <1>3 DEF IInv, Types
  <2>. QED  BY <2>1, <2>2, SameObjects
<1>8. Places'
  <2>1. mapper' # "stopped" /\ mpLoopKF' \in 0..keyFrames
    BY <1>1, <1>3 DEF IInv, Places, None
  <2>. QED  BY <1>1, <2>1 DEF IInv, Places, madeVars, trackVars
<1>. QED  BY <1>5, <1>6, <1>7, <1>8 DEF IInv

LEMMA DetectedStep ==
  ASSUME IInv, Detected
  PROVE  IInv'
<1>1. /\ looper = "detect" /\ looper' = "waitStop"
      /\ UNCHANGED <<pointVars, mapVars, keyFrameVars, calls, mMutexMapUpdate, mapper, mlpLoopKeyFrameQueue, mpLoopKF,
                     vpReplacePoints, mvpMapPoints, madeVars, trackVars, mlNewKeyFrames, mlpRecentAddedMapPoints, mpCurrentKF>>
  BY DEF Detected, LoopingRest
<1>2. matched'.idx \in Features /\ matched'.mp \in 1..points
  <2>1. PICK i \in Features, k \in Live \ {mpLoopKF} : \E p \in Matches(k) \cap Good : matched' = [idx |-> i, mp |-> p]
    BY DEF Detected
  <2>2. PICK p \in Good : matched' = [idx |-> i, mp |-> p]
    BY <2>1
  <2>. QED  BY <2>2 DEF Good
<1>3. Types' /\ Counted'
  BY <1>1 DEF IInv, Types, Counted, WeightOf, pointVars, mapVars, keyFrameVars, madeVars, trackVars
<1>4. Places'
  <2>1. mapper' # "stopped" /\ mpLoopKF' # 0
    BY <1>1 DEF IInv, Places
  <2>. QED  BY <1>1, <1>2, <2>1 DEF IInv, Places, madeVars, trackVars
<1>5. Turns'
  BY <1>1 DEF IInv, Turns, Idle, keyFrameVars
<1>6. Calling' /\ MapKept'
  <2>1. UNCHANGED <<calls, madeVars, mbBad, mspMapPoints>> /\ erasedLate \subseteq erasedLate'
    BY <1>1 DEF pointVars, mapVars, keyFrameVars
  <2>. QED  BY <2>1, SameCalls
<1>. QED  BY <1>3, <1>4, <1>5, <1>6 DEF IInv

LEMMA CorrectLoopStep ==
  ASSUME IInv, CorrectLoop
  PROVE  IInv'
<1>. DEFINE r == mvpMapPoints[mpLoopKF][matched.idx]
            fix == IF r # None THEN <<ReplaceBy(r, matched.mp)>>
                   ELSE <<SetMatch(mpLoopKF, matched.idx, matched.mp), AddObservationOf(matched.mp, mpLoopKF, matched.idx)>>
            list == fix \o <<Unlock>>
            Others == OtherCalls(points, keyFrames, mbBad)
<1>1. /\ looper = "waitStop" /\ mapper = "idle" /\ mapper' = "stopped" /\ mMutexMapUpdate' = "looping" /\ looper' = "fuse"
      /\ Call("looping", list)
      /\ UNCHANGED <<pointVars, mapVars, keyFrameVars, mlpLoopKeyFrameQueue, mpLoopKF, matched, vpReplacePoints,
                     mvpMapPoints, madeVars, trackVars, mlNewKeyFrames, mlpRecentAddedMapPoints, mpCurrentKF>>
  BY DEF CorrectLoop, LoopingRest
<1>2. /\ points \in Nat /\ keyFrames \in Nat /\ mpLoopKF \in 1..keyFrames /\ mpLoopKF \in KeyFrames
      /\ matched.idx \in Features /\ matched.mp \in 1..points
  BY <1>1, MapPointsAssumption DEF IInv, Types, Places, KeyFrames
<1>3. list \in Seq(Others)
  <2>1. r \in 0..points
    BY <1>2 DEF IInv, Types
  <2>2. r # None => r \in 1..points
    BY <1>2, <2>1 DEF None
  <2>. HIDE DEF r
  <2>3. r # None => ReplaceBy(r, matched.mp) \in Others
    BY <1>2, <2>2, CallMakers
  <2>4. /\ SetMatch(mpLoopKF, matched.idx, matched.mp) \in Others
        /\ AddObservationOf(matched.mp, mpLoopKF, matched.idx) \in Others
        /\ Unlock \in Others
    BY <1>2, CallMakers
  <2>5. fix \in Seq(Others) /\ <<Unlock>> \in Seq(Others)
    BY <2>3, <2>4
  <2>. HIDE DEF fix
  <2>. QED  BY <2>5, ConcatProperties
<1>4. Calling' /\ MapKept' /\ calls'["mapping"] = calls["mapping"]
  <2>1. Idle("looping")
    BY <1>1 DEF IInv, Turns
  <2>2. UNCHANGED <<madeVars, mbBad, mspMapPoints>> /\ erasedLate \subseteq erasedLate'
    BY <1>1 DEF pointVars, mapVars, keyFrameVars
  <2>3. Call("looping", list)
    BY <1>1
  <2>. HIDE DEF list
  <2>. QED  BY <1>3, <2>1, <2>2, <2>3, Starting, TheThreads
<1>5. Turns'
  BY <1>1, <1>4 DEF IInv, Turns, Idle
<1>6. Types' /\ Counted'
  BY <1>1 DEF IInv, Types, Counted, WeightOf, pointVars, mapVars, keyFrameVars, madeVars, trackVars
<1>7. Places'
  BY <1>1, <1>2, TheThreads DEF IInv, Places, madeVars, trackVars
<1>. QED  BY <1>4, <1>5, <1>6, <1>7 DEF IInv

LEMMA SearchAndFuseStep ==
  ASSUME IInv, SearchAndFuse
  PROVE  IInv'
<1>1. /\ looper = "fuse" /\ Idle("looping")
      /\ UNCHANGED <<pointVars, mapVars, keyFrameVars, mMutexMapUpdate, mapper, mlpLoopKeyFrameQueue, looper, mpLoopKF, matched,
                     mvpMapPoints, madeVars, trackVars, mlNewKeyFrames, mlpRecentAddedMapPoints, mpCurrentKF>>
  BY DEF SearchAndFuse, LoopingRest
<1>2. PICK k \in Live, i \in Features, p \in Good :
        \/ Call("looping", MakeObserved(p, k, i)) /\ UNCHANGED vpReplacePoints
        \/ /\ mvpMapPoints[k][i] \in Good /\ UNCHANGED calls
           /\ vpReplacePoints' = Append(vpReplacePoints, [kf |-> k, mp |-> mvpMapPoints[k][i], by |-> p])
  BY DEF SearchAndFuse
<1>3. points \in Nat /\ keyFrames \in Nat /\ k \in 1..keyFrames /\ p \in 1..points
  BY MapPointsAssumption DEF IInv, Types, Live, Good
<1>4. UNCHANGED <<madeVars, mbBad, mspMapPoints>> /\ erasedLate \subseteq erasedLate'
  BY <1>1 DEF pointVars, mapVars, keyFrameVars
<1>5. Calling' /\ MapKept' /\ calls'["mapping"] = calls["mapping"]
  <2>1. CASE Call("looping", MakeObserved(p, k, i))
    <3>1. AddObservationOf(p, k, i) \in OtherCalls(points, keyFrames, mbBad) /\ SetMatch(k, i, p) \in OtherCalls(points, keyFrames, mbBad)
      BY <1>3, CallMakers
    <3>2. MakeObserved(p, k, i) \in Seq(OtherCalls(points, keyFrames, mbBad))
      BY <3>1 DEF MakeObserved
    <3>. QED  BY <1>1, <1>4, <2>1, <3>2, Starting, TheThreads
  <2>2. CASE UNCHANGED calls
    BY <1>4, <2>2, SameCalls
  <2>. QED  BY <1>2, <2>1, <2>2
<1>6. Turns'
  BY <1>1, <1>5 DEF IInv, Turns, Idle
<1>7. Types' /\ Counted'
  BY <1>1 DEF IInv, Types, Counted, WeightOf, pointVars, mapVars, keyFrameVars, madeVars, trackVars
<1>8. vpReplacePoints' \in Seq([kf : 1..keyFrames, mp : 1..points, by : 1..points])
  <2>. DEFINE T == [kf : 1..keyFrames, mp : 1..points, by : 1..points]
  <2>1. vpReplacePoints \in Seq(T)
    BY DEF IInv, Places
  <2>2. mvpMapPoints[k][i] \in Good => [kf |-> k, mp |-> mvpMapPoints[k][i], by |-> p] \in T
    BY <1>3 DEF Good
  <2>. HIDE DEF T
  <2>3. mvpMapPoints[k][i] \in Good => Append(vpReplacePoints, [kf |-> k, mp |-> mvpMapPoints[k][i], by |-> p]) \in Seq(T)
    BY <2>1, <2>2, AppendProperties
  <2>4. vpReplacePoints' \in Seq(T)
    BY <1>2, <2>1, <2>3
  <2>. QED  BY <2>4 DEF T
<1>9. Places'
  BY <1>1, <1>8 DEF IInv, Places, madeVars, trackVars
<1>. QED  BY <1>5, <1>6, <1>7, <1>9 DEF IInv

LEMMA ReplaceFusedStep ==
  ASSUME IInv, ReplaceFused
  PROVE  IInv'
<1>. DEFINE T == [kf : 1..keyFrames, mp : 1..points, by : 1..points]
            first == [n \in 1..Len(vpReplacePoints) |-> ReplaceBy(vpReplacePoints[n].mp, vpReplacePoints[n].by)]
            Others == OtherCalls(points, keyFrames, mbBad)
<1>1. /\ looper = "fuse" /\ Idle("looping") /\ mMutexMapUpdate' = "looping" /\ vpReplacePoints' = <<>>
      /\ Call("looping", Append(first, Unlock))
      /\ UNCHANGED <<pointVars, mapVars, keyFrameVars, mapper, mlpLoopKeyFrameQueue, looper, mpLoopKF, matched,
                     mvpMapPoints, madeVars, trackVars, mlNewKeyFrames, mlpRecentAddedMapPoints, mpCurrentKF>>
  BY DEF ReplaceFused, LoopingRest
<1>2. points \in Nat /\ keyFrames \in Nat /\ vpReplacePoints \in Seq(T)
  BY MapPointsAssumption DEF IInv, Types, Places
<1>3. Append(first, Unlock) \in Seq(Others)
  <2>1. Len(vpReplacePoints) \in Nat /\ \A n \in 1..Len(vpReplacePoints) : vpReplacePoints[n] \in T
    BY <1>2, LenProperties, ElementOfSeq
  <2>2. \A n \in 1..Len(vpReplacePoints) : ReplaceBy(vpReplacePoints[n].mp, vpReplacePoints[n].by) \in Others
    <3>1. \A c \in T : c.mp \in 1..points /\ c.by \in 1..points
      OBVIOUS
    <3>. HIDE DEF T
    <3>. QED  BY <1>2, <2>1, <3>1, CallMakers
  <2>3. first \in Seq(Others) /\ Unlock \in Others
    BY <1>2, <2>1, <2>2, CallMakers
  <2>. HIDE DEF first
  <2>. QED  BY <2>3, AppendProperties
<1>4. Calling' /\ MapKept' /\ calls'["mapping"] = calls["mapping"]
  <2>1. UNCHANGED <<madeVars, mbBad, mspMapPoints>> /\ erasedLate \subseteq erasedLate'
    BY <1>1 DEF pointVars, mapVars, keyFrameVars
  <2>. HIDE DEF first
  <2>. QED  BY <1>1, <1>3, <2>1, Starting, TheThreads
<1>5. Turns'
  BY <1>1, <1>4 DEF IInv, Turns, Idle
<1>6. Types' /\ Counted'
  BY <1>1 DEF IInv, Types, Counted, WeightOf, pointVars, mapVars, keyFrameVars, madeVars, trackVars
<1>7. Places'
  <2>1. vpReplacePoints' \in Seq(T) /\ mMutexMapUpdate' \in Threads
    BY <1>1, NoFurther, TheThreads
  <2>. QED  BY <1>1, <2>1 DEF IInv, Places, madeVars, trackVars
<1>. QED  BY <1>4, <1>5, <1>6, <1>7 DEF IInv

LEMMA EndCorrectionStep ==
  ASSUME IInv, EndCorrection
  PROVE  IInv'
<1>1. /\ looper = "fuse" /\ Idle("looping") /\ looper' = "idle" /\ mapper' = "idle" /\ mpLoopKF' = None
      /\ UNCHANGED <<pointVars, mapVars, keyFrameVars, calls, mMutexMapUpdate, mlpLoopKeyFrameQueue, vpReplacePoints,
                     mvpMapPoints, madeVars, trackVars, mlNewKeyFrames, mlpRecentAddedMapPoints, mpCurrentKF>>
  BY DEF EndCorrection, LoopingRest
<1>2. Types' /\ Counted'
  BY <1>1 DEF IInv, Types, Counted, WeightOf, pointVars, mapVars, keyFrameVars, madeVars, trackVars
<1>3. Places'
  <2>1. mpLoopKF' \in 0..keyFrames
    BY <1>1, MapPointsAssumption DEF None, IInv, Types
  <2>. QED  BY <1>1, <2>1 DEF IInv, Places, madeVars, trackVars
<1>4. Turns'
  <2>1. mapper = "stopped"
    BY <1>1 DEF IInv, Places
  <2>. QED  BY <1>1, <2>1 DEF IInv, Turns, Idle
<1>5. Calling' /\ MapKept'
  <2>1. UNCHANGED <<calls, madeVars, mbBad, mspMapPoints>> /\ erasedLate \subseteq erasedLate'
    BY <1>1 DEF pointVars, mapVars, keyFrameVars
  <2>. QED  BY <2>1, SameCalls
<1>. QED  BY <1>2, <1>3, <1>4, <1>5 DEF IInv

LEMMA LoopingStep ==
  ASSUME IInv, Looping
  PROVE  IInv'
BY TakeKeyFrameStep, NotDetectedStep, DetectedStep, CorrectLoopStep, SearchAndFuseStep, ReplaceFusedStep, EndCorrectionStep
   DEF Looping

-----------------------------------------------------------------------------
LEMMA StutterStep ==
  ASSUME IInv, UNCHANGED vars
  PROVE  IInv'
<1>1. Types' /\ Counted'
  BY DEF IInv, Types, Counted, WeightOf, vars, pointVars, mapVars, keyFrameVars, madeVars, trackVars
<1>a. Places'
  BY DEF IInv, Places, vars, keyFrameVars, madeVars, trackVars, lmVars, lcVars
<1>2. Calling' /\ Turns' /\ MapKept'
  BY DEF IInv, Calling, Turns, Idle, MapKept, Making, Pending, In, vars, pointVars, mapVars, keyFrameVars, madeVars, lmVars, lcVars
<1>. QED  BY <1>1, <1>a, <1>2 DEF IInv

(* The invariant that the others follow from is inductive. *)
THEOREM Invariance == Spec => []IInv
<1>1. IInv /\ [Next]_vars => IInv'
  <2>. SUFFICES ASSUME IInv, [Next]_vars  PROVE IInv'
    OBVIOUS
  <2>1. ASSUME NEW t \in Threads, RunCall(t)  PROVE IInv'
    BY <2>1, RunCallStep
  <2>2. CASE Tracking
    BY <2>2, FrameStep, CreateKeyFrameStep DEF Tracking
  <2>3. CASE Mapping
    BY <2>3, MappingStep
  <2>4. CASE Looping
    BY <2>4, LoopingStep
  <2>5. CASE UNCHANGED vars
    BY <2>5, StutterStep
  <2>. QED  BY <2>1, <2>2, <2>3, <2>4, <2>5 DEF Next
<1>. QED  BY InitIInv, <1>1, PTL DEF Spec

(* Every variable keeps to its type, and no count of observations ever is  *)
(* negative.                                                               *)
THEOREM TypesHold == Spec => []TypeOK
<1>1. IInv => TypeOK
  <2>. SUFFICES ASSUME IInv  PROVE TypeOK
    OBVIOUS
  <2>1. points \in Nat /\ keyFrames \in Nat
    BY MapPointsAssumption DEF IInv, Types
  <2>2. ASSUME NEW p \in Points
        PROVE  /\ Observers(p) \subseteq 1..keyFrames /\ \A k \in Observers(p) : mObservations[p][k] \in Features
               /\ nObs[p] \in Nat
    <3>1. mObservations[p] \in ObservationsTo(keyFrames) /\ nObs[p] \in Int
      BY DEF IInv, Types
    <3>2. Observers(p) \subseteq 1..keyFrames /\ \A k \in Observers(p) : mObservations[p][k] \in Features
      BY <2>1, <3>1, ObservationsAreFinite, Zenon DEF Observers
    <3>3. WeightOf(mObservations[p]) \in Nat
      BY <2>1, <3>1, ObservationsAreFinite, Zenon
    <3>4. nObs[p] >= WeightOf(mObservations[p])
      BY DEF IInv, Counted
    <3>. QED  BY <3>1, <3>2, <3>3, <3>4
  <2>3. nObs \in [Points -> Nat]
    BY <2>2 DEF IInv, Types
  <2>. QED  BY <2>2, <2>3 DEF IInv, Types, Places, TypeOK
<1>. QED  BY Invariance, <1>1, PTL

(* However loop corrections and removals interleave, nObs never falls      *)
(* below the weight of what observes the point.                            *)
THEOREM CountsSuffice == Spec => []NeverUndercounted
<1>1. IInv => NeverUndercounted
  <2>. SUFFICES ASSUME IInv, NEW p \in Good  PROVE nObs[p] >= ObservedWeight(p)
    BY DEF NeverUndercounted
  <2>1. p \in Points
    BY MapPointsAssumption DEF IInv, Types, Good, Points
  <2>2. WeightOf(mObservations[p]) = ObservedWeight(p)
    BY DEF WeightOf, ObservedWeight, Observers
  <2>. QED  BY <2>1, <2>2 DEF IInv, Counted
<1>. QED  BY Invariance, <1>1, PTL

(* At rest the map holds the good points, and only them unless loop        *)
(* closing has made up for an erasure.                                     *)
THEOREM MapIsKept == Spec => []MapHoldsGoodPoints
<1>1. IInv => MapHoldsGoodPoints
  <2>. SUFFICES ASSUME IInv, AtRest
                PROVE  Good \subseteq mspMapPoints /\ (erasedLate = {} => mspMapPoints \subseteq Good)
    BY DEF MapHoldsGoodPoints
  <2>1. \A t \in Threads : calls[t] = <<>>
    BY DEF AtRest, Idle
  <2>2. \A p : ~Making(p)
    BY <2>1, MakingFacts, TheThreads
  <2>3. \A p : ~Pending(p)
    BY <2>1, EmptySeq DEF Pending, In
  <2>4. Good \subseteq mspMapPoints
    BY <2>2 DEF IInv, MapKept, Good
  <2>5. erasedLate = {} => mspMapPoints \subseteq Good
    BY <2>3 DEF IInv, MapKept, Types, Good
  <2>. QED  BY <2>4, <2>5
<1>. QED  BY Invariance, <1>1, PTL

-----------------------------------------------------------------------------
(* Observations and slots.  Until an erasure is made up for only one thread has calls to make, *)
(* and what its calls are about is known from where they stand in its list. *)

CallsIn(L) == {L[n] : n \in 1..Len(L)}

\* A call named in A comes after calls named in B only.
Before(L, A, B) == \A n \in 1..Len(L) : L[n].do \in A => \A m \in 1..(n - 1) : L[m].do \in B

\* No two calls named a are about the same keyframe.
Apart(L, a) == \A m, n \in 1..Len(L) : m # n /\ L[m].do = a /\ L[n].do = a => L[m].kf # L[n].kf

LEMMA TailParts ==
  ASSUME NEW S, NEW L \in Seq(S), L # <<>>
  PROVE  /\ Tail(L) \in Seq(S) /\ Len(L) \in Nat \ {0} /\ Len(Tail(L)) = Len(L) - 1 /\ Len(Tail(L)) \in Nat
         /\ \A n \in 1..Len(Tail(L)) : Tail(L)[n] = L[n + 1] /\ n + 1 \in 1..Len(L)
         /\ Head(L) = L[1] /\ 1 \in 1..Len(L)
         /\ \A n \in 1..Len(L) : n = 1 \/ (n - 1 \in 1..Len(Tail(L)) /\ Tail(L)[n - 1] = L[n])
<1>1. /\ Len(L) \in Nat \ {0} /\ Tail(L) \in Seq(S) /\ Len(Tail(L)) = Len(L) - 1
      /\ \A i \in 1..Len(Tail(L)) : Tail(L)[i] = L[i + 1]
  BY EmptySeq, HeadTailProperties
<1>2. Head(L) = L[1]
  OBVIOUS
<1>3. \A n \in 1..Len(L) : n = 1 \/ (n - 1 \in 1..Len(Tail(L)) /\ (n - 1) + 1 = n)
  BY <1>1
<1>4. \A n \in 1..Len(L) : n = 1 \/ (n - 1 \in 1..Len(Tail(L)) /\ Tail(L)[n - 1] = L[n])
  BY <1>1, <1>3
<1>. QED  BY <1>1, <1>2, <1>4

LEMMA JoinParts ==
  ASSUME NEW S, NEW f \in Seq(S), NEW T \in Seq(S)
  PROVE  /\ f \o T \in Seq(S) /\ Len(f) \in Nat /\ Len(T) \in Nat /\ Len(f \o T) = Len(f) + Len(T)
         /\ \A n \in 1..Len(f) : (f \o T)[n] = f[n] /\ n \in 1..Len(f \o T)
         /\ \A n \in 1..Len(T) : (f \o T)[Len(f) + n] = T[n] /\ Len(f) + n \in 1..Len(f \o T)
         /\ \A n \in 1..Len(f \o T) :
               \/ n \in 1..Len(f)
               \/ n > Len(f) /\ n - Len(f) \in 1..Len(T) /\ (f \o T)[n] = T[n - Len(f)]
<1>1. /\ f \o T \in Seq(S) /\ Len(f) \in Nat /\ Len(T) \in Nat
      /\ Len(f \o T) = Len(f) + Len(T)
      /\ \A i \in 1..(Len(f) + Len(T)) :
            (f \o T)[i] = IF i <= Len(f) THEN f[i] ELSE T[i - Len(f)]
  BY ConcatProperties, LenProperties
<1>2. \A n \in 1..Len(f) : n \in 1..(Len(f) + Len(T)) /\ n <= Len(f)
  BY <1>1
<1>3. \A n \in 1..Len(T) : Len(f) + n \in 1..(Len(f) + Len(T)) /\ ~(Len(f) + n <= Len(f)) /\ (Len(f) + n) - Len(f) = n
  BY <1>1
<1>4. \A n \in 1..(Len(f) + Len(T)) :
         n \in 1..Len(f) \/ (n > Len(f) /\ n - Len(f) \in 1..Len(T) /\ ~(n <= Len(f)))
  BY <1>1
<1>5. \A n \in 1..Len(f) : (f \o T)[n] = f[n]
  BY <1>1, <1>2
<1>6. \A n \in 1..Len(T) : (f \o T)[Len(f) + n] = T[n]
  BY <1>1, <1>3
<1>7. \A n \in 1..(Len(f) + Len(T)) : n \in 1..Len(f) \/ (n > Len(f) /\ n - Len(f) \in 1..Len(T) /\ (f \o T)[n] = T[n - Len(f)])
  BY <1>1, <1>4
<1>. QED  BY <1>1, <1>2, <1>3, <1>5, <1>6, <1>7

LEMMA CallsOfList ==
  /\ CallsIn(<<>>) = {}
  /\ \A a : CallsIn(<<a>>) = {a}
  /\ \A a, b : CallsIn(<<a, b>>) = {a, b}
  /\ \A a, b, c : CallsIn(<<a, b, c>>) = {a, b, c}
<1>1. CallsIn(<<>>) = {}
  BY DEF CallsIn
<1>2. ASSUME NEW a  PROVE CallsIn(<<a>>) = {a}
  BY DEF CallsIn
<1>3. ASSUME NEW a, NEW b  PROVE CallsIn(<<a, b>>) = {a, b}
  BY DEF CallsIn
<1>4. ASSUME NEW a, NEW b, NEW c  PROVE CallsIn(<<a, b, c>>) = {a, b, c}
  BY DEF CallsIn
<1>. QED  BY <1>1, <1>2, <1>3, <1>4

LEMMA CallsOfTail ==
  ASSUME NEW S, NEW L \in Seq(S), L # <<>>
  PROVE  CallsIn(L) = {Head(L)} \cup CallsIn(Tail(L))
<1>1. ASSUME NEW c \in CallsIn(L)  PROVE c = Head(L) \/ c \in CallsIn(Tail(L))
  <2>1. PICK n \in 1..Len(L) : L[n] = c
    BY DEF CallsIn
  <2>2. n = 1 \/ (n - 1 \in 1..Len(Tail(L)) /\ Tail(L)[n - 1] = c)
    BY <2>1, TailParts
  <2>3. n = 1 => c = Head(L)
    BY <2>1, TailParts
  <2>. QED  BY <2>2, <2>3 DEF CallsIn
<1>2. Head(L) \in CallsIn(L)
  BY TailParts DEF CallsIn
<1>3. ASSUME NEW c \in CallsIn(Tail(L))  PROVE c \in CallsIn(L)
  <2>1. PICK n \in 1..Len(Tail(L)) : Tail(L)[n] = c
    BY <1>3 DEF CallsIn
  <2>2. n + 1 \in 1..Len(L) /\ L[n + 1] = c
    BY <2>1, TailParts
  <2>. QED  BY <2>2 DEF CallsIn
<1>. QED  BY <1>1, <1>2, <1>3

LEMMA CallsOfJoin ==
  ASSUME NEW S, NEW f \in Seq(S), NEW T \in Seq(S)
  PROVE  CallsIn(f \o T) = CallsIn(f) \cup CallsIn(T)
<1>1. ASSUME NEW c \in CallsIn(f \o T)  PROVE c \in CallsIn(f) \/ c \in CallsIn(T)
  <2>1. PICK n \in 1..Len(f \o T) : (f \o T)[n] = c
    BY <1>1 DEF CallsIn
  <2>2. CASE n \in 1..Len(f)
    <3>1. f[n] = c
      BY <2>1, <2>2, JoinParts
    <3>. QED  BY <2>2, <3>1 DEF CallsIn
  <2>3. CASE n \notin 1..Len(f)
    <3>1. n - Len(f) \in 1..Len(T) /\ T[n - Len(f)] = c
      BY <2>1, <2>3, JoinParts
    <3>. QED  BY <3>1 DEF CallsIn
  <2>. QED  BY <2>2, <2>3
<1>2. ASSUME NEW c \in CallsIn(f)  PROVE c \in CallsIn(f \o T)
  <2>1. PICK n \in 1..Len(f) : f[n] = c
    BY <1>2 DEF CallsIn
  <2>2. n \in 1..Len(f \o T) /\ (f \o T)[n] = c
    BY <2>1, JoinParts
  <2>. QED  BY <2>2 DEF CallsIn
<1>3. ASSUME NEW c \in CallsIn(T)  PROVE c \in CallsIn(f \o T)
  <2>1. PICK n \in 1..Len(T) : T[n] = c
    BY <1>3 DEF CallsIn
  <2>2. Len(f) + n \in 1..Len(f \o T) /\ (f \o T)[Len(f) + n] = c
    BY <2>1, JoinParts
  <2>. QED  BY <2>2 DEF CallsIn
<1>. QED  BY <1>1, <1>2, <1>3

LEMMA BeforeTail ==
  ASSUME NEW S, NEW L \in Seq(S), L # <<>>, NEW A, NEW B, Before(L, A, B)
  PROVE  /\ Before(Tail(L), A, B)
         /\ Head(L).do \notin B => \A c \in CallsIn(Tail(L)) : c.do \notin A
<1>1. ASSUME NEW n \in 1..Len(Tail(L)), Tail(L)[n].do \in A, NEW m \in 1..(n - 1)  PROVE Tail(L)[m].do \in B
  <2>1. n + 1 \in 1..Len(L) /\ L[n + 1].do \in A
    BY <1>1, TailParts
  <2>2. m + 1 \in 1..((n + 1) - 1) /\ m \in 1..Len(Tail(L))
    BY TailParts
  <2>3. L[m + 1].do \in B
    BY <2>1, <2>2 DEF Before
  <2>. QED  BY <2>2, <2>3, TailParts
<1>2. ASSUME Head(L).do \notin B, NEW c \in CallsIn(Tail(L)), c.do \in A  PROVE FALSE
  <2>1. PICK n \in 1..Len(Tail(L)) : Tail(L)[n] = c
    BY <1>2 DEF CallsIn
  <2>2. n + 1 \in 1..Len(L) /\ L[n + 1].do \in A
    BY <1>2, <2>1, TailParts
  <2>3. 1 \in 1..((n + 1) - 1)
    BY TailParts
  <2>4. L[1].do \in B
    BY <2>2, <2>3 DEF Before
  <2>. QED  BY <1>2, <2>4, TailParts
<1>3. Before(Tail(L), A, B)
  BY <1>1 DEF Before
<1>. QED  BY <1>2, <1>3

LEMMA BeforeJoin ==
  ASSUME NEW S, NEW f \in Seq(S), NEW T \in Seq(S), NEW A, NEW B, Before(f, A, B), Before(T, A, B),
         (\A c \in CallsIn(f) : c.do \in B) \/ (\A c \in CallsIn(T) : c.do \notin A)
  PROVE  Before(f \o T, A, B)
<1>. DEFINE M == f \o T
<1>. SUFFICES ASSUME NEW n \in 1..Len(M), M[n].do \in A, NEW m \in 1..(n - 1)  PROVE M[m].do \in B
  BY DEF Before
<1>1. /\ Len(f) \in Nat /\ Len(T) \in Nat /\ Len(M) = Len(f) + Len(T)
  BY JoinParts
<1>2. CASE n \in 1..Len(f)
  <2>1. m \in 1..Len(f)
    BY <1>1, <1>2
  <2>2. M[n] = f[n] /\ M[m] = f[m]
    BY <1>2, <2>1, JoinParts
  <2>. QED  BY <1>2, <2>2 DEF Before
<1>3. CASE n \notin 1..Len(f)
  <2>1. n > Len(f) /\ n - Len(f) \in 1..Len(T) /\ M[n] = T[n - Len(f)]
    BY <1>3, JoinParts
  <2>2. T[n - Len(f)] \in CallsIn(T)
    BY <2>1 DEF CallsIn
  <2>3. \A c \in CallsIn(f) : c.do \in B
    BY <2>1, <2>2
  <2>4. CASE m \in 1..Len(f)
    <3>1. M[m] = f[m] /\ f[m] \in CallsIn(f)
      BY <2>4, JoinParts DEF CallsIn
    <3>. QED  BY <2>3, <3>1
  <2>5. CASE m \notin 1..Len(f)
    <3>1. m \in 1..Len(M)
      BY <1>1
    <3>2. m - Len(f) \in 1..Len(T) /\ M[m] = T[m - Len(f)]
      BY <2>5, <3>1, JoinParts
    <3>3. m - Len(f) \in 1..((n - Len(f)) - 1)
      BY <1>1, <2>1, <3>2
    <3>. QED  BY <2>1, <3>2, <3>3 DEF Before
  <2>. QED  BY <2>4, <2>5
<1>. QED  BY <1>2, <1>3

LEMMA ApartTail ==
  ASSUME NEW a, NEW S, NEW L \in Seq(S), L # <<>>, Apart(L, a)
  PROVE  /\ Apart(Tail(L), a)
         /\ Head(L).do = a => \A c \in CallsIn(Tail(L)) : c.do = a => c.kf # Head(L).kf
<1>1. ASSUME NEW m \in 1..Len(Tail(L)), NEW n \in 1..Len(Tail(L)), m # n,
             Tail(L)[m].do = a, Tail(L)[n].do = a
      PROVE  Tail(L)[m].kf # Tail(L)[n].kf
  <2>1. m + 1 \in 1..Len(L) /\ n + 1 \in 1..Len(L) /\ L[m + 1] = Tail(L)[m] /\ L[n + 1] = Tail(L)[n]
    BY TailParts
  <2>2. m + 1 # n + 1
    BY <1>1
  <2>. QED  BY <1>1, <2>1, <2>2 DEF Apart
<1>2. ASSUME Head(L).do = a, NEW c \in CallsIn(Tail(L)), c.do = a  PROVE c.kf # Head(L).kf
  <2>1. PICK n \in 1..Len(Tail(L)) : Tail(L)[n] = c
    BY <1>2 DEF CallsIn
  <2>2. n + 1 \in 1..Len(L) /\ L[n + 1] = c /\ L[1] = Head(L) /\ 1 \in 1..Len(L)
    BY <2>1, TailParts
  <2>3. n + 1 # 1
    OBVIOUS
  <2>. QED  BY <1>2, <2>2, <2>3 DEF Apart
<1>3. Apart(Tail(L), a)
  BY <1>1 DEF Apart
<1>. QED  BY <1>2, <1>3

LEMMA ApartJoin ==
  ASSUME NEW a, NEW S, NEW f \in Seq(S), NEW T \in Seq(S), Apart(f, a), Apart(T, a),
         (\A c \in CallsIn(f) : c.do # a) \/ (\A c \in CallsIn(T) : c.do # a)
  PROVE  Apart(f \o T, a)
<1>. DEFINE M == f \o T
<1>. SUFFICES ASSUME NEW m \in 1..Len(M), NEW n \in 1..Len(M), m # n, M[m].do = a, M[n].do = a
              PROVE  M[m].kf # M[n].kf
  BY DEF Apart
<1>0. Len(f) \in Nat /\ Len(T) \in Nat
  BY JoinParts
<1>1. ASSUME NEW k \in 1..Len(M)
      PROVE  \/ k \in 1..Len(f) /\ M[k] = f[k] /\ f[k] \in CallsIn(f)
             \/ k \notin 1..Len(f) /\ k - Len(f) \in 1..Len(T) /\ M[k] = T[k - Len(f)] /\ T[k - Len(f)] \in CallsIn(T)
  <2>1. \/ k \in 1..Len(f) /\ M[k] = f[k]
        \/ k \notin 1..Len(f) /\ k - Len(f) \in 1..Len(T) /\ M[k] = T[k - Len(f)]
    BY JoinParts
  <2>. QED  BY <2>1 DEF CallsIn
<1>2. CASE m \in 1..Len(f) /\ n \in 1..Len(f)
  BY <1>1, <1>2 DEF Apart
<1>3. CASE m \notin 1..Len(f) /\ n \notin 1..Len(f)
  <2>1. m - Len(f) # n - Len(f)
    BY <1>0
  <2>. QED  BY <1>1, <1>3, <2>1 DEF Apart
<1>4. CASE m \in 1..Len(f) /\ n \notin 1..Len(f)
  BY <1>1, <1>4
<1>5. CASE m \notin 1..Len(f) /\ n \in 1..Len(f)
  BY <1>1, <1>5
<1>. QED  BY <1>2, <1>3, <1>4, <1>5

-----------------------------------------------------------------------------
\* Where the calls that touch slots and observations may stand in a list.
Shaped(L) ==
  /\ Before(L, {"SetMatch", "AddObservation"}, {"SetMatch", "AddObservation"})
  /\ Before(L, {"MoveObservation"}, {"SetMatch", "AddObservation", "MoveObservation"})
  /\ Before(L, {"Associate"}, {"AddObservation", "Associate"})
  /\ Before(L, {"EraseObservation"}, {"EraseMatch", "SetMatch"})
  /\ Before(L, {"EraseMatch"}, {})
  /\ Apart(L, "MoveObservation")

\* obs stands for mObservations, slot for mvpMapPoints, C for the calls to be made.
Observed(obs, p, k, i) == k \in DOMAIN obs[p] /\ obs[p][k] = i

Alone(obs) == \A p, q \in Points : \A k \in KeyFrames, i \in Features : Observed(obs, p, k, i) /\ Observed(obs, q, k, i) => p = q

Shown(obs, slot, C) ==
  \A p \in Points : \A k \in KeyFrames, i \in Features : Observed(obs, p, k, i) =>
     slot[k][i] = p \/ SetMatch(k, i, p) \in C \/ EraseObservationOf(p, k) \in C

SetsPlaced(obs, C) == \A k \in KeyFrames, i \in Features : \A x : SetMatch(k, i, x) \in C =>
  /\ \A p \in Points : Observed(obs, p, k, i) => p = x \/ EraseObservationOf(p, k) \in C
  /\ \A y : SetMatch(k, i, y) \in C => y = x
  /\ \A p : AddObservationOf(p, k, i) \in C => p = x

AddsPlaced(obs, slot, C) == \A k \in KeyFrames, i \in Features : \A p : AddObservationOf(p, k, i) \in C =>
  /\ \A q \in Points : Observed(obs, q, k, i) => q = p
  /\ slot[k][i] = p \/ SetMatch(k, i, p) \in C
  /\ \A q : AddObservationOf(q, k, i) \in C => q = p

MovesPlaced(obs, C) == \A k \in KeyFrames, i \in Features : \A q : MoveObservation(q, k, i) \in C =>
  /\ \A p \in Points : ~Observed(obs, p, k, i)
  /\ \A x : SetMatch(k, i, x) \notin C /\ AddObservationOf(x, k, i) \notin C

AssociatesShown(slot, C) == \A k \in KeyFrames, i \in Features : \A p : Associate(p, k, i) \in C =>
  slot[k][i] = p /\ \A c \in C : c.do \in {"Associate", "AddObservation", "InsertInMap"}

ErasedTogether(C) == \A k, p : EraseMatch(k, p) \in C => EraseObservationOf(p, k) \in C

Placed(obs, slot, C) ==
  /\ SetsPlaced(obs, C) /\ AddsPlaced(obs, slot, C) /\ MovesPlaced(obs, C)
  /\ AssociatesShown(slot, C) /\ ErasedTogether(C)

Slots(obs, slot, L) == Shaped(L) /\ Alone(obs) /\ Shown(obs, slot, CallsIn(L)) /\ Placed(obs, slot, CallsIn(L))

SlotNames == {"SetMatch", "AddObservation", "MoveObservation", "Associate", "EraseObservation", "EraseMatch"}
Quiet(L) == \A c \in CallsIn(L) : c.do \notin SlotNames
AllShown(obs, slot) ==
  \A p \in Points : \A k \in KeyFrames, i \in Features : Observed(obs, p, k, i) => slot[k][i] = p

LEMMA CallParts ==
  /\ \A p, k, i : LET c == AddObservationOf(p, k, i) IN c.do = "AddObservation" /\ c.mp = p /\ c.kf = k /\ c.idx = i
  /\ \A p, k, i : LET c == MoveObservation(p, k, i) IN c.do = "MoveObservation" /\ c.mp = p /\ c.kf = k /\ c.idx = i
  /\ \A p, k, i : LET c == Associate(p, k, i) IN c.do = "Associate" /\ c.mp = p /\ c.kf = k /\ c.idx = i
  /\ \A p, k, i : LET c == SetMatch(k, i, p) IN c.do = "SetMatch" /\ c.mp = p /\ c.kf = k /\ c.idx = i
  /\ \A p, k : LET c == EraseObservationOf(p, k) IN c.do = "EraseObservation" /\ c.mp = p /\ c.kf = k
  /\ \A p, k : LET c == EraseMatch(k, p) IN c.do = "EraseMatch" /\ c.mp = p /\ c.kf = k
  /\ \A p : SetBadFlagOf(p).do = "SetBadFlag" /\ SetBadFlagOf(p).mp = p
  /\ \A p : EraseFromMap(p).do = "EraseFromMap" /\ AddToMap(p).do = "AddToMap"
  /\ \A p, q : ReplaceBy(p, q).do = "Replace"
  /\ \A k, i : Forget(k, i).do = "Forget"
  /\ \A k : MarkBad(k).do = "MarkBad" /\ InsertInMap(k).do = "InsertInMap"
  /\ Unlock.do = "Unlock"
BY DEF AddObservationOf, MoveObservation, Associate, SetMatch, EraseObservationOf, EraseMatch,
       SetBadFlagOf, EraseFromMap, AddToMap, ReplaceBy, Forget, MarkBad, InsertInMap, Unlock

LEMMA NotQuiet ==
  /\ \A p, k, i : /\ AddObservationOf(p, k, i).do \in SlotNames /\ MoveObservation(p, k, i).do \in SlotNames
                  /\ Associate(p, k, i).do \in SlotNames /\ SetMatch(k, i, p).do \in SlotNames
  /\ \A p, k : EraseObservationOf(p, k).do \in SlotNames /\ EraseMatch(k, p).do \in SlotNames
BY CallParts DEF SlotNames

LEMMA ShownAlone == \A obs, slot : AllShown(obs, slot) => Alone(obs)
BY DEF AllShown, Alone

LEMMA QuietShaped ==
  ASSUME NEW L, Quiet(L)
  PROVE  Shaped(L)
<1>1. \A n \in 1..Len(L) : L[n].do \notin SlotNames
  BY DEF Quiet, CallsIn
<1>2. \A A, B : A \subseteq SlotNames => Before(L, A, B)
  BY <1>1 DEF Before
<1>3. Apart(L, "MoveObservation")
  BY <1>1 DEF Apart, SlotNames
<1>4. /\ {"SetMatch", "AddObservation"} \subseteq SlotNames /\ {"MoveObservation"} \subseteq SlotNames
      /\ {"Associate"} \subseteq SlotNames /\ {"EraseObservation"} \subseteq SlotNames /\ {"EraseMatch"} \subseteq SlotNames
  BY DEF SlotNames
<1>. QED  BY <1>2, <1>3, <1>4 DEF Shaped

LEMMA QuietSlots ==
  ASSUME NEW L, Quiet(L), NEW obs, NEW slot, AllShown(obs, slot)
  PROVE  Slots(obs, slot, L)
<1>1. \A p, k, i : /\ AddObservationOf(p, k, i) \notin CallsIn(L) /\ MoveObservation(p, k, i) \notin CallsIn(L)
                   /\ Associate(p, k, i) \notin CallsIn(L) /\ SetMatch(k, i, p) \notin CallsIn(L)
                   /\ EraseObservationOf(p, k) \notin CallsIn(L) /\ EraseMatch(k, p) \notin CallsIn(L)
  BY NotQuiet DEF Quiet
<1>2. Alone(obs) /\ Shown(obs, slot, CallsIn(L))
  BY ShownAlone DEF AllShown, Shown
<1>3. Placed(obs, slot, CallsIn(L))
  BY <1>1 DEF Placed, SetsPlaced, AddsPlaced, MovesPlaced, AssociatesShown, ErasedTogether
<1>. QED  BY <1>2, <1>3, QuietShaped DEF Slots

LEMMA QuietShown ==
  ASSUME NEW L, Quiet(L), NEW obs, NEW slot, Slots(obs, slot, L)
  PROVE  AllShown(obs, slot)
<1>1. \A p, k, i : SetMatch(k, i, p) \notin CallsIn(L) /\ EraseObservationOf(p, k) \notin CallsIn(L)
  BY NotQuiet DEF Quiet
<1>. QED  BY <1>1 DEF Slots, Shown, AllShown

\* What follows the calls that touch slots leaves them alone.
LEMMA QuietRest ==
  ASSUME NEW S, NEW f \in Seq(S), NEW T \in Seq(S), Quiet(T), NEW obs, NEW slot, Slots(obs, slot, f),
         \A c \in CallsIn(f) : c.do # "Associate"
  PROVE  Slots(obs, slot, f \o T)
<1>. DEFINE C == CallsIn(f)
            D == CallsIn(f \o T)
<1>1. D = C \cup CallsIn(T)
  BY CallsOfJoin
<1>2. Shaped(f) /\ Shaped(T)
  BY QuietShaped DEF Slots
<1>3. \A c \in CallsIn(T) : c.do \notin SlotNames
  BY DEF Quiet
<1>4. Shaped(f \o T)
  <2>1. \A c \in CallsIn(T) : /\ c.do \notin {"SetMatch", "AddObservation"} /\ c.do \notin {"MoveObservation"} /\ c.do # "MoveObservation"
                              /\ c.do \notin {"Associate"} /\ c.do \notin {"EraseObservation"} /\ c.do \notin {"EraseMatch"}
    BY <1>3 DEF SlotNames
  <2>2. Apart(f \o T, "MoveObservation")
    BY <1>2, <2>1, ApartJoin DEF Shaped
  <2>3. Before(f \o T, {"SetMatch", "AddObservation"}, {"SetMatch", "AddObservation"})
    BY <1>2, <2>1, BeforeJoin DEF Shaped
  <2>4. Before(f \o T, {"MoveObservation"}, {"SetMatch", "AddObservation", "MoveObservation"})
    BY <1>2, <2>1, BeforeJoin DEF Shaped
  <2>5. Before(f \o T, {"Associate"}, {"AddObservation", "Associate"})
    BY <1>2, <2>1, BeforeJoin DEF Shaped
  <2>6. Before(f \o T, {"EraseObservation"}, {"EraseMatch", "SetMatch"})
    BY <1>2, <2>1, BeforeJoin DEF Shaped
  <2>7. Before(f \o T, {"EraseMatch"}, {})
    BY <1>2, <2>1, BeforeJoin DEF Shaped
  <2>. QED  BY <2>2, <2>3, <2>4, <2>5, <2>6, <2>7 DEF Shaped
<1>5. \A c : c.do \in SlotNames => (c \in D <=> c \in C)
  BY <1>1, <1>3
<1>6. \A p, k, i : /\ AddObservationOf(p, k, i) \in D <=> AddObservationOf(p, k, i) \in C
                   /\ MoveObservation(p, k, i) \in D <=> MoveObservation(p, k, i) \in C
                   /\ Associate(p, k, i) \notin D
                   /\ SetMatch(k, i, p) \in D <=> SetMatch(k, i, p) \in C
                   /\ EraseObservationOf(p, k) \in D <=> EraseObservationOf(p, k) \in C
                   /\ EraseMatch(k, p) \in D <=> EraseMatch(k, p) \in C
  BY <1>5, NotQuiet, CallParts
<1>. HIDE DEF C, D
<1>7. Alone(obs) /\ Shown(obs, slot, C) /\ Placed(obs, slot, C)
  BY DEF Slots, C
<1>8. Shown(obs, slot, D)
  BY <1>6, <1>7 DEF Shown
<1>9. SetsPlaced(obs, D)
  <2>1. SetsPlaced(obs, C)
    BY <1>7 DEF Placed
  <2>2. \A p, k, i : /\ AddObservationOf(p, k, i) \in D => AddObservationOf(p, k, i) \in C
                     /\ SetMatch(k, i, p) \in D => SetMatch(k, i, p) \in C
                     /\ EraseObservationOf(p, k) \in C => EraseObservationOf(p, k) \in D
    BY <1>6
  <2>. SUFFICES ASSUME NEW k \in KeyFrames, NEW i \in Features, NEW x, SetMatch(k, i, x) \in D
                PROVE  /\ \A p \in Points : Observed(obs, p, k, i) => p = x \/ EraseObservationOf(p, k) \in D
                       /\ \A y : SetMatch(k, i, y) \in D => y = x
                       /\ \A p : AddObservationOf(p, k, i) \in D => p = x
    BY DEF SetsPlaced
  <2>3. SetMatch(k, i, x) \in C
    BY <2>2
  <2>4. /\ \A p \in Points : Observed(obs, p, k, i) => p = x \/ EraseObservationOf(p, k) \in C
        /\ \A y : SetMatch(k, i, y) \in C => y = x
        /\ \A p : AddObservationOf(p, k, i) \in C => p = x
    BY <2>1, <2>3 DEF SetsPlaced
  <2>. QED  BY <2>2, <2>4
<1>12. MovesPlaced(obs, D)
  BY <1>6, <1>7 DEF Placed, MovesPlaced
<1>10. AddsPlaced(obs, slot, D)
  BY <1>6, <1>7 DEF Placed, AddsPlaced
<1>11. AssociatesShown(slot, D) /\ ErasedTogether(D)
  BY <1>6, <1>7 DEF Placed, AssociatesShown, ErasedTogether
<1>. QED  BY <1>4, <1>7, <1>8, <1>9, <1>10, <1>11, <1>12 DEF Slots, Placed, D

LEMMA ShapedTail ==
  ASSUME NEW S, NEW L \in Seq(S), L # <<>>, Shaped(L)
  PROVE  /\ Shaped(Tail(L)) /\ Tail(L) \in Seq(S)
         /\ \A c \in CallsIn(Tail(L)) :
              /\ Head(L).do \notin {"SetMatch", "AddObservation"} => c.do \notin {"SetMatch", "AddObservation"}
              /\ Head(L).do \notin {"SetMatch", "AddObservation", "MoveObservation"} => c.do # "MoveObservation"
              /\ Head(L).do \notin {"AddObservation", "Associate"} => c.do # "Associate"
              /\ Head(L).do \notin {"EraseMatch", "SetMatch"} => c.do # "EraseObservation"
              /\ c.do # "EraseMatch"
<1>1. Tail(L) \in Seq(S)
  BY TailParts
<1>2. /\ Before(Tail(L), {"SetMatch", "AddObservation"}, {"SetMatch", "AddObservation"})
      /\ Head(L).do \notin {"SetMatch", "AddObservation"} => \A c \in CallsIn(Tail(L)) : c.do \notin {"SetMatch", "AddObservation"}
  BY BeforeTail DEF Shaped
<1>3. /\ Before(Tail(L), {"MoveObservation"}, {"SetMatch", "AddObservation", "MoveObservation"})
      /\ Head(L).do \notin {"SetMatch", "AddObservation", "MoveObservation"} => \A c \in CallsIn(Tail(L)) : c.do \notin {"MoveObservation"}
  BY BeforeTail DEF Shaped
<1>4. /\ Before(Tail(L), {"Associate"}, {"AddObservation", "Associate"})
      /\ Head(L).do \notin {"AddObservation", "Associate"} => \A c \in CallsIn(Tail(L)) : c.do \notin {"Associate"}
  BY BeforeTail DEF Shaped
<1>5. /\ Before(Tail(L), {"EraseObservation"}, {"EraseMatch", "SetMatch"})
      /\ Head(L).do \notin {"EraseMatch", "SetMatch"} => \A c \in CallsIn(Tail(L)) : c.do \notin {"EraseObservation"}
  BY BeforeTail DEF Shaped
<1>6. Before(Tail(L), {"EraseMatch"}, {}) /\ \A c \in CallsIn(Tail(L)) : c.do \notin {"EraseMatch"}
  BY BeforeTail DEF Shaped
<1>7. Apart(Tail(L), "MoveObservation")
  BY ApartTail DEF Shaped
<1>8. Shaped(Tail(L))
  BY <1>2, <1>3, <1>4, <1>5, <1>6, <1>7 DEF Shaped
<1>. QED  BY <1>1, <1>2, <1>3, <1>4, <1>5, <1>6, <1>8

QuietNames == {"SetBadFlag", "Replace", "Forget", "MarkBad", "InsertInMap", "AddToMap", "EraseFromMap", "Unlock"}

LEMMA QuietTail ==
  ASSUME NEW S, NEW L \in Seq(S), L # <<>>, Shaped(L), Head(L).do \in QuietNames \cup {"EraseObservation"}
  PROVE  Tail(L) \in Seq(S) /\ Quiet(Tail(L)) /\ (Head(L).do \in QuietNames => Quiet(L))
<1>1. /\ Head(L).do \notin {"SetMatch", "AddObservation", "MoveObservation", "Associate", "EraseMatch"}
      /\ Head(L).do \in QuietNames => Head(L).do \notin SlotNames
  BY DEF QuietNames, SlotNames
<1>2. \A c \in CallsIn(Tail(L)) : c.do \notin SlotNames
  BY <1>1, ShapedTail DEF SlotNames
<1>3. Quiet(Tail(L))
  BY <1>2 DEF Quiet
<1>4. CallsIn(L) = {Head(L)} \cup CallsIn(Tail(L))
  BY CallsOfTail
<1>. QED  BY <1>1, <1>2, <1>3, <1>4, TailParts DEF Quiet

-----------------------------------------------------------------------------
(* What each call does to slots and observations. *)

\* What is called next goes before what is left.
LEMMA CallsOfRest ==
  ASSUME NEW S, NEW L \in Seq(S), L # <<>>, NEW f \in Seq(S)
  PROVE  CallsIn(f \o Tail(L)) = CallsIn(f) \cup CallsIn(Tail(L))
<1>1. PICK T \in Seq(S) : T = Tail(L)
  BY TailParts
<1>2. CallsIn(f \o T) = CallsIn(f) \cup CallsIn(T)
  BY CallsOfJoin
<1>. QED  BY <1>1, <1>2

LEMMA BeforePlainly ==
  ASSUME NEW f, NEW A, NEW B, (\A c \in CallsIn(f) : c.do \notin A) \/ (\A c \in CallsIn(f) : c.do \in B)
  PROVE  Before(f, A, B)
<1>. SUFFICES ASSUME NEW n \in 1..Len(f), f[n].do \in A, NEW m \in 1..(n - 1)  PROVE f[m].do \in B
  BY DEF Before
<1>1. f[n] \in CallsIn(f)
  BY DEF CallsIn
<1>2. m \in 1..Len(f)
  OBVIOUS
<1>3. f[m] \in CallsIn(f)
  BY <1>2 DEF CallsIn
<1>. QED  BY <1>1, <1>3

LEMMA ApartPlainly ==
  ASSUME NEW a, NEW f, \A c \in CallsIn(f) : c.do # a
  PROVE  Apart(f, a)
BY DEF Apart, CallsIn

LEMMA SetMatchSlots ==
  ASSUME NEW S, NEW L \in Seq(S), L # <<>>, NEW obs, NEW slot, Slots(obs, slot, L),
         NEW k \in KeyFrames, NEW i \in Features, NEW x, Head(L) = SetMatch(k, i, x),
         NEW slot2, \A j \in KeyFrames, n \in Features : slot2[j][n] = IF j = k /\ n = i THEN x ELSE slot[j][n]
  PROVE  Slots(obs, slot2, Tail(L))
<1>. DEFINE C == CallsIn(L)
            D == CallsIn(Tail(L))
<1>1. C = {SetMatch(k, i, x)} \cup D
  BY CallsOfTail
<1>2. Shaped(Tail(L)) /\ \A c \in D : c.do # "Associate" /\ c.do # "EraseMatch"
  <2>1. Shaped(L) /\ Head(L).do = "SetMatch"
    BY CallParts DEF Slots
  <2>2. Head(L).do \notin {"AddObservation", "Associate"}
    BY <2>1
  <2>. QED  BY <2>1, <2>2, ShapedTail
<1>3. Alone(obs) /\ Shown(obs, slot, C) /\ SetsPlaced(obs, C) /\ AddsPlaced(obs, slot, C) /\ MovesPlaced(obs, C)
  BY DEF Slots, Placed
<1>. HIDE DEF C, D
<1>4. \A p, j, n : /\ Associate(p, j, n) \notin D /\ EraseMatch(j, p) \notin D
                   /\ EraseObservationOf(p, j) \in C <=> EraseObservationOf(p, j) \in D
                   /\ AddObservationOf(p, j, n) \in C <=> AddObservationOf(p, j, n) \in D
                   /\ MoveObservation(p, j, n) \in C <=> MoveObservation(p, j, n) \in D
                   /\ SetMatch(j, n, p) \in C <=> SetMatch(j, n, p) \in D \/ (j = k /\ n = i /\ p = x)
  BY <1>1, <1>2, CallParts
<1>5. Shown(obs, slot2, D)
  <2>. SUFFICES ASSUME NEW p \in Points, NEW j \in KeyFrames, NEW n \in Features, Observed(obs, p, j, n)
                PROVE  slot2[j][n] = p \/ SetMatch(j, n, p) \in D \/ EraseObservationOf(p, j) \in D
    BY DEF Shown
  <2>1. CASE j = k /\ n = i
    <3>1. p = x \/ EraseObservationOf(p, k) \in C
      BY <1>3, <1>4, <2>1 DEF SetsPlaced
    <3>. QED  BY <1>4, <2>1, <3>1
  <2>2. CASE ~(j = k /\ n = i)
    BY <1>3, <1>4, <2>2 DEF Shown
  <2>. QED  BY <2>1, <2>2
<1>6. SetsPlaced(obs, D)
  <2>. SUFFICES ASSUME NEW j \in KeyFrames, NEW n \in Features, NEW y, SetMatch(j, n, y) \in D
                PROVE  /\ \A p \in Points : Observed(obs, p, j, n) => p = y \/ EraseObservationOf(p, j) \in D
                       /\ \A z : SetMatch(j, n, z) \in D => z = y
                       /\ \A p : AddObservationOf(p, j, n) \in D => p = y
    BY DEF SetsPlaced
  <2>1. SetMatch(j, n, y) \in C
    BY <1>4
  <2>2. /\ \A p \in Points : Observed(obs, p, j, n) => p = y \/ EraseObservationOf(p, j) \in C
        /\ \A z : SetMatch(j, n, z) \in C => z = y
        /\ \A p : AddObservationOf(p, j, n) \in C => p = y
    BY <1>3, <2>1 DEF SetsPlaced
  <2>. QED  BY <1>4, <2>2
<1>7. AddsPlaced(obs, slot2, D)
  <2>. SUFFICES ASSUME NEW j \in KeyFrames, NEW n \in Features, NEW p, AddObservationOf(p, j, n) \in D
                PROVE  /\ \A q \in Points : Observed(obs, q, j, n) => q = p
                       /\ slot2[j][n] = p \/ SetMatch(j, n, p) \in D
                       /\ \A q : AddObservationOf(q, j, n) \in D => q = p
    BY DEF AddsPlaced
  <2>1. /\ \A q \in Points : Observed(obs, q, j, n) => q = p
        /\ slot[j][n] = p \/ SetMatch(j, n, p) \in C
        /\ \A q : AddObservationOf(q, j, n) \in D => q = p
    BY <1>3, <1>4 DEF AddsPlaced
  <2>2. CASE j = k /\ n = i
    <3>1. p = x
      BY <1>3, <1>4, <2>2 DEF SetsPlaced
    <3>. QED  BY <2>1, <2>2, <3>1
  <2>3. CASE ~(j = k /\ n = i)
    BY <1>4, <2>1, <2>3
  <2>. QED  BY <2>2, <2>3
<1>8. MovesPlaced(obs, D)
  BY <1>3, <1>4 DEF MovesPlaced
<1>9. AssociatesShown(slot2, D) /\ ErasedTogether(D)
  BY <1>4 DEF AssociatesShown, ErasedTogether
<1>. QED  BY <1>2, <1>3, <1>5, <1>6, <1>7, <1>8, <1>9 DEF Slots, Placed, D

LEMMA AddObservationSlots ==
  ASSUME NEW S, NEW L \in Seq(S), L # <<>>, NEW obs, NEW slot, Slots(obs, slot, L),
         NEW k \in KeyFrames, NEW i \in Features, NEW p \in Points, Head(L) = AddObservationOf(p, k, i),
         NEW obs2, \A q \in Points : \A j, n : Observed(obs2, q, j, n) <=>
                      IF q = p /\ j = k THEN n = i ELSE Observed(obs, q, j, n)
  PROVE  Slots(obs2, slot, Tail(L))
<1>. DEFINE C == CallsIn(L)
            D == CallsIn(Tail(L))
<1>1. C = {AddObservationOf(p, k, i)} \cup D
  BY CallsOfTail
<1>2. Shaped(Tail(L)) /\ \A c \in D : c.do # "EraseObservation" /\ c.do # "EraseMatch"
  <2>1. Shaped(L) /\ Head(L).do = "AddObservation"
    BY CallParts DEF Slots
  <2>2. Head(L).do \notin {"EraseMatch", "SetMatch"}
    BY <2>1
  <2>. QED  BY <2>1, <2>2, ShapedTail
<1>3. Alone(obs) /\ Shown(obs, slot, C) /\ SetsPlaced(obs, C) /\ AddsPlaced(obs, slot, C) /\ MovesPlaced(obs, C)
      /\ AssociatesShown(slot, C)
  BY DEF Slots, Placed
<1>. HIDE DEF C, D
<1>4. \A q, j, n : /\ EraseObservationOf(q, j) \notin C /\ EraseMatch(j, q) \notin D
                   /\ Associate(q, j, n) \in C <=> Associate(q, j, n) \in D
                   /\ SetMatch(j, n, q) \in C <=> SetMatch(j, n, q) \in D
                   /\ MoveObservation(q, j, n) \in C <=> MoveObservation(q, j, n) \in D
                   /\ AddObservationOf(q, j, n) \in D => AddObservationOf(q, j, n) \in C
  BY <1>1, <1>2, CallParts
<1>5. AddObservationOf(p, k, i) \in C
  BY <1>1
<1>6. \A q \in Points : Observed(obs, q, k, i) => q = p
  BY <1>3, <1>5 DEF AddsPlaced
<1>7. \A q \in Points : \A j, n : Observed(obs2, q, j, n) => (q = p /\ j = k /\ n = i) \/ Observed(obs, q, j, n)
  OBVIOUS
<1>8. Alone(obs2)
  BY <1>3, <1>6, <1>7 DEF Alone
<1>9. Shown(obs2, slot, D)
  <2>. SUFFICES ASSUME NEW q \in Points, NEW j \in KeyFrames, NEW n \in Features, Observed(obs2, q, j, n)
                PROVE  slot[j][n] = q \/ SetMatch(j, n, q) \in D
    BY DEF Shown
  <2>1. CASE q = p /\ j = k /\ n = i
    BY <1>3, <1>4, <1>5, <2>1 DEF AddsPlaced
  <2>2. CASE Observed(obs, q, j, n)
    BY <1>3, <1>4, <2>2 DEF Shown
  <2>. QED  BY <1>7, <2>1, <2>2
<1>10. SetsPlaced(obs2, D)
  <2>. SUFFICES ASSUME NEW j \in KeyFrames, NEW n \in Features, NEW x, SetMatch(j, n, x) \in D
                PROVE  /\ \A q \in Points : Observed(obs2, q, j, n) => q = x
                       /\ \A y : SetMatch(j, n, y) \in D => y = x
                       /\ \A q : AddObservationOf(q, j, n) \in D => q = x
    BY DEF SetsPlaced
  <2>1. SetMatch(j, n, x) \in C
    BY <1>4
  <2>2. /\ \A y : SetMatch(j, n, y) \in C => y = x
        /\ \A q : AddObservationOf(q, j, n) \in C => q = x
        /\ \A q \in Points : Observed(obs, q, j, n) => q = x
    BY <1>3, <1>4, <2>1 DEF SetsPlaced
  <2>3. ASSUME NEW q \in Points, Observed(obs2, q, j, n)  PROVE q = x
    BY <1>5, <1>7, <2>2, <2>3
  <2>. QED  BY <1>4, <2>2, <2>3
<1>11. AddsPlaced(obs2, slot, D)
  <2>. SUFFICES ASSUME NEW j \in KeyFrames, NEW n \in Features, NEW o, AddObservationOf(o, j, n) \in D
                PROVE  /\ \A q \in Points : Observed(obs2, q, j, n) => q = o
                       /\ slot[j][n] = o \/ SetMatch(j, n, o) \in D
                       /\ \A q : AddObservationOf(q, j, n) \in D => q = o
    BY DEF AddsPlaced
  <2>1. /\ \A q \in Points : Observed(obs, q, j, n) => q = o
        /\ slot[j][n] = o \/ SetMatch(j, n, o) \in C
        /\ \A q : AddObservationOf(q, j, n) \in C => q = o
    BY <1>3, <1>4 DEF AddsPlaced
  <2>2. ASSUME NEW q \in Points, Observed(obs2, q, j, n)  PROVE q = o
    BY <1>5, <1>7, <2>1, <2>2
  <2>. QED  BY <1>4, <2>1, <2>2
<1>12. MovesPlaced(obs2, D)
  <2>. SUFFICES ASSUME NEW j \in KeyFrames, NEW n \in Features, NEW o, MoveObservation(o, j, n) \in D
                PROVE  /\ \A q \in Points : ~Observed(obs2, q, j, n)
                       /\ \A x : SetMatch(j, n, x) \notin D /\ AddObservationOf(x, j, n) \notin D
    BY DEF MovesPlaced
  <2>1. /\ \A q \in Points : ~Observed(obs, q, j, n)
        /\ \A x : SetMatch(j, n, x) \notin C /\ AddObservationOf(x, j, n) \notin C
    BY <1>3, <1>4 DEF MovesPlaced
  <2>2. ASSUME NEW q \in Points, Observed(obs2, q, j, n)  PROVE FALSE
    BY <1>5, <1>7, <2>1, <2>2
  <2>. QED  BY <1>4, <2>1, <2>2
<1>13. AssociatesShown(slot, D) /\ ErasedTogether(D)
  <2>1. D \subseteq C
    BY <1>1
  <2>2. AssociatesShown(slot, D)
    BY <1>3, <1>4, <2>1 DEF AssociatesShown
  <2>. QED  BY <1>4, <2>2 DEF ErasedTogether
<1>. QED  BY <1>2, <1>8, <1>9, <1>10, <1>11, <1>12, <1>13 DEF Slots, Placed, D

LEMMA EraseObservationSlots ==
  ASSUME NEW S, NEW L \in Seq(S), L # <<>>, NEW obs, NEW slot, Slots(obs, slot, L),
         NEW k, NEW p, Head(L) = EraseObservationOf(p, k),
         NEW obs2, \A q \in Points : \A j, n : Observed(obs2, q, j, n) => Observed(obs, q, j, n) /\ ~(q = p /\ j = k),
         NEW f \in Seq(S), Quiet(f)
  PROVE  Slots(obs2, slot, f \o Tail(L))
<1>. DEFINE C == CallsIn(L)
<1>1. C = {EraseObservationOf(p, k)} \cup CallsIn(Tail(L))
  BY CallsOfTail
<1>2. Tail(L) \in Seq(S) /\ Quiet(Tail(L))
  <2>1. Shaped(L) /\ Head(L).do = "EraseObservation"
    BY CallParts DEF Slots
  <2>. QED  BY <2>1, QuietTail
<1>3. \A q, j, n : /\ SetMatch(j, n, q) \notin C
                   /\ EraseObservationOf(q, j) \in C => q = p /\ j = k
  BY <1>1, <1>2, CallParts, NotQuiet DEF Quiet
<1>4. AllShown(obs2, slot)
  <2>1. Shown(obs, slot, C)
    BY DEF Slots
  <2>. QED  BY <1>3, <2>1 DEF Shown, AllShown
<1>5. Quiet(f \o Tail(L))
  <2>1. CallsIn(f \o Tail(L)) = CallsIn(f) \cup CallsIn(Tail(L))
    BY CallsOfRest
  <2>. QED  BY <1>2, <2>1 DEF Quiet
<1>. QED  BY <1>4, <1>5, QuietSlots

LEMMA EraseMatchSlots ==
  ASSUME NEW S, NEW L \in Seq(S), L # <<>>, NEW obs, NEW slot, Slots(obs, slot, L),
         NEW k \in KeyFrames, NEW i, NEW p \in Points, Head(L) = EraseMatch(k, p),
         NEW f \in Seq(S), f = <<>> \/ (f = <<SetMatch(k, i, None)>> /\ i \in Features /\ Observed(obs, p, k, i))
  PROVE  Slots(obs, slot, f \o Tail(L))
<1>. DEFINE C == CallsIn(L)
            T == Tail(L)
            D == CallsIn(T)
            E == CallsIn(f \o T)
<1>1. C = {EraseMatch(k, p)} \cup D /\ T \in Seq(S) /\ E = CallsIn(f) \cup D
  <2>1. T \in Seq(S) /\ C = {EraseMatch(k, p)} \cup D
    BY CallsOfTail, TailParts
  <2>2. E = CallsIn(f) \cup D
    BY CallsOfRest
  <2>. QED  BY <2>1, <2>2
<1>2. Shaped(T) /\ \A c \in D : /\ c.do \notin {"SetMatch", "AddObservation"} /\ c.do # "MoveObservation" /\ c.do # "Associate"
                                /\ c.do # "EraseMatch"
  <2>1. Shaped(L) /\ Head(L).do = "EraseMatch"
    BY CallParts DEF Slots
  <2>2. Head(L).do \notin {"AddObservation", "Associate"} /\ Head(L).do \notin {"SetMatch", "AddObservation"}
        /\ Head(L).do \notin {"SetMatch", "AddObservation", "MoveObservation"}
    BY <2>1
  <2>. QED  BY <2>1, <2>2, ShapedTail
<1>3. Alone(obs) /\ Shown(obs, slot, C) /\ ErasedTogether(C)
  BY DEF Slots, Placed
<1>4. CallsIn(f) = IF f = <<>> THEN {} ELSE {SetMatch(k, i, None)}
  BY CallsOfList
<1>5. Shaped(f \o T)
  <2>1. \A c \in CallsIn(f) : c.do = "SetMatch"
    BY <1>4, CallParts
  <2>2. Apart(f \o T, "MoveObservation")
    <3>1. Apart(f, "MoveObservation")
      BY <2>1, ApartPlainly
    <3>. QED  BY <1>1, <1>2, <3>1, ApartJoin DEF Shaped
  <2>3. /\ Before(f, {"SetMatch", "AddObservation"}, {"SetMatch", "AddObservation"})
        /\ Before(f, {"MoveObservation"}, {"SetMatch", "AddObservation", "MoveObservation"})
        /\ Before(f, {"Associate"}, {"AddObservation", "Associate"})
        /\ Before(f, {"EraseObservation"}, {"EraseMatch", "SetMatch"})
        /\ Before(f, {"EraseMatch"}, {})
    <3>1. \A c \in CallsIn(f) : /\ c.do \in {"SetMatch", "AddObservation"} /\ c.do \in {"SetMatch", "AddObservation", "MoveObservation"}
                                /\ c.do \notin {"Associate"} /\ c.do \in {"EraseMatch", "SetMatch"} /\ c.do \notin {"EraseMatch"}
      BY <2>1
    <3>. QED  BY <3>1, BeforePlainly
  <2>4. Before(f \o T, {"SetMatch", "AddObservation"}, {"SetMatch", "AddObservation"})
    <3>1. \A c \in CallsIn(f) : c.do \in {"SetMatch", "AddObservation"}
      BY <2>1
    <3>. QED  BY <1>1, <1>2, <2>3, <3>1, BeforeJoin DEF Shaped
  <2>5. Before(f \o T, {"MoveObservation"}, {"SetMatch", "AddObservation", "MoveObservation"})
    <3>1. \A c \in CallsIn(f) : c.do \in {"SetMatch", "AddObservation", "MoveObservation"}
      BY <2>1
    <3>. QED  BY <1>1, <1>2, <2>3, <3>1, BeforeJoin DEF Shaped
  <2>6. Before(f \o T, {"Associate"}, {"AddObservation", "Associate"})
    <3>1. \A c \in D : c.do \notin {"Associate"}
      BY <1>2
    <3>. QED  BY <1>1, <1>2, <2>3, <3>1, BeforeJoin DEF Shaped
  <2>7. Before(f \o T, {"EraseObservation"}, {"EraseMatch", "SetMatch"})
    <3>1. \A c \in CallsIn(f) : c.do \in {"EraseMatch", "SetMatch"}
      BY <2>1
    <3>. QED  BY <1>1, <1>2, <2>3, <3>1, BeforeJoin DEF Shaped
  <2>8. Before(f \o T, {"EraseMatch"}, {})
    <3>1. \A c \in D : c.do \notin {"EraseMatch"}
      BY <1>2
    <3>. QED  BY <1>1, <1>2, <2>3, <3>1, BeforeJoin DEF Shaped
  <2>. QED  BY <2>2, <2>4, <2>5, <2>6, <2>7, <2>8 DEF Shaped
<1>. HIDE DEF C, D, E, T
<1>6. \A q, j, n : /\ AddObservationOf(q, j, n) \notin E /\ MoveObservation(q, j, n) \notin E
                   /\ Associate(q, j, n) \notin E /\ EraseMatch(j, q) \notin E
                   /\ EraseObservationOf(q, j) \in C <=> EraseObservationOf(q, j) \in E
                   /\ SetMatch(j, n, q) \notin C
                   /\ SetMatch(j, n, q) \in E => f # <<>> /\ j = k /\ n = i /\ q = None
  BY <1>1, <1>2, <1>4, CallParts
<1>7. Shown(obs, slot, E)
  BY <1>3, <1>6 DEF Shown
<1>8. SetsPlaced(obs, E)
  <2>1. EraseObservationOf(p, k) \in E
    BY <1>1, <1>3, <1>6 DEF ErasedTogether
  <2>2. f # <<>> => \A q \in Points : Observed(obs, q, k, i) => q = p
    BY <1>3 DEF Alone
  <2>. QED  BY <1>6, <2>1, <2>2 DEF SetsPlaced
<1>9. AddsPlaced(obs, slot, E) /\ MovesPlaced(obs, E) /\ AssociatesShown(slot, E) /\ ErasedTogether(E)
  BY <1>6 DEF AddsPlaced, MovesPlaced, AssociatesShown, ErasedTogether
<1>. QED  BY <1>3, <1>5, <1>7, <1>8, <1>9 DEF Slots, Placed, E, T

LEMMA ShapedJoin ==
  ASSUME NEW S, NEW f \in Seq(S), NEW T \in Seq(S), Shaped(T),
         \A c \in CallsIn(f) : c.do \in {"SetMatch", "AddObservation"},
         \A c \in CallsIn(T) : c.do # "EraseObservation" /\ c.do # "EraseMatch",
         (\A c \in CallsIn(T) : c.do # "Associate") \/ (\A c \in CallsIn(f) : c.do = "AddObservation")
  PROVE  Shaped(f \o T)
<1>1. \A c \in CallsIn(f) : /\ c.do \in {"SetMatch", "AddObservation", "MoveObservation"} /\ c.do \notin {"Associate"}
                            /\ c.do \notin {"EraseObservation"} /\ c.do \notin {"EraseMatch"} /\ c.do # "MoveObservation"
  OBVIOUS
<1>2. /\ \A c \in CallsIn(T) : c.do \notin {"EraseObservation"} /\ c.do \notin {"EraseMatch"}
      /\ (\A c \in CallsIn(f) : c.do \in {"AddObservation", "Associate"}) \/ (\A c \in CallsIn(T) : c.do \notin {"Associate"})
  OBVIOUS
<1>3. /\ Before(f, {"SetMatch", "AddObservation"}, {"SetMatch", "AddObservation"})
      /\ Before(f, {"MoveObservation"}, {"SetMatch", "AddObservation", "MoveObservation"})
      /\ Before(f, {"Associate"}, {"AddObservation", "Associate"})
      /\ Before(f, {"EraseObservation"}, {"EraseMatch", "SetMatch"})
      /\ Before(f, {"EraseMatch"}, {})
  BY <1>1, BeforePlainly
<1>4. Apart(f \o T, "MoveObservation")
  <2>1. Apart(f, "MoveObservation")
    BY <1>1, ApartPlainly
  <2>. QED  BY <1>1, <2>1, ApartJoin DEF Shaped
<1>5. Before(f \o T, {"SetMatch", "AddObservation"}, {"SetMatch", "AddObservation"})
  BY <1>3, BeforeJoin DEF Shaped
<1>6. Before(f \o T, {"MoveObservation"}, {"SetMatch", "AddObservation", "MoveObservation"})
  BY <1>1, <1>3, BeforeJoin DEF Shaped
<1>7. Before(f \o T, {"Associate"}, {"AddObservation", "Associate"})
  BY <1>2, <1>3, BeforeJoin DEF Shaped
<1>8. Before(f \o T, {"EraseObservation"}, {"EraseMatch", "SetMatch"})
  BY <1>2, <1>3, BeforeJoin DEF Shaped
<1>9. Before(f \o T, {"EraseMatch"}, {})
  BY <1>2, <1>3, BeforeJoin DEF Shaped
<1>. QED  BY <1>4, <1>5, <1>6, <1>7, <1>8, <1>9 DEF Shaped

LEMMA MoveSlots ==
  ASSUME NEW S, NEW L \in Seq(S), L # <<>>, NEW obs, NEW slot, Slots(obs, slot, L),
         NEW k \in KeyFrames, NEW i \in Features, NEW q, Head(L) = MoveObservation(q, k, i),
         NEW f \in Seq(S), f = <<SetMatch(k, i, None)>> \/ f = <<SetMatch(k, i, q), AddObservationOf(q, k, i)>>
  PROVE  Slots(obs, slot, f \o Tail(L))
<1>. DEFINE C == CallsIn(L)
            D == CallsIn(Tail(L))
            E == CallsIn(f \o Tail(L))
<1>1. Tail(L) \in Seq(S) /\ C = {MoveObservation(q, k, i)} \cup D
  BY CallsOfTail, TailParts
<1>2. E = CallsIn(f) \cup D
  BY CallsOfRest
<1>3. /\ Shaped(Tail(L))
      /\ \A c \in D : /\ c.do # "SetMatch" /\ c.do # "AddObservation" /\ c.do # "Associate" /\ c.do # "EraseObservation"
                      /\ c.do # "EraseMatch" /\ (c.do = "MoveObservation" => c.kf # k)
  <2>1. Shaped(L) /\ Head(L).do = "MoveObservation" /\ Head(L).kf = k
    BY CallParts DEF Slots
  <2>2. Head(L).do \notin {"AddObservation", "Associate"} /\ Head(L).do \notin {"SetMatch", "AddObservation"}
        /\ Head(L).do \notin {"EraseMatch", "SetMatch"}
    BY <2>1
  <2>3. \A c \in D : c.do = "MoveObservation" => c.kf # k
    BY <2>1, ApartTail DEF Shaped
  <2>. QED  BY <2>1, <2>2, <2>3, ShapedTail
<1>4. Alone(obs) /\ Shown(obs, slot, C) /\ MovesPlaced(obs, C)
  BY DEF Slots, Placed
<1>5. \/ CallsIn(f) = {SetMatch(k, i, None)}
      \/ CallsIn(f) = {SetMatch(k, i, q), AddObservationOf(q, k, i)}
  BY CallsOfList
<1>6. Shaped(f \o Tail(L))
  <2>1. \A c \in CallsIn(f) : c.do \in {"SetMatch", "AddObservation"}
    BY <1>5, CallParts
  <2>. QED  BY <1>1, <1>3, <2>1, ShapedJoin
<1>. HIDE DEF C, D, E
<1>7. \A p, j, n : /\ Associate(p, j, n) \notin E /\ EraseMatch(j, p) \notin E
                   /\ EraseObservationOf(p, j) \notin C
                   /\ SetMatch(j, n, p) \notin C
                   /\ MoveObservation(p, j, n) \in E => MoveObservation(p, j, n) \in C /\ j # k
  BY <1>1, <1>2, <1>3, <1>5, CallParts
<1>8. \A p, j, n : /\ SetMatch(j, n, p) \in E => j = k /\ n = i
                   /\ AddObservationOf(p, j, n) \in E => j = k /\ n = i
                   /\ SetMatch(j, n, p) \in E <=> SetMatch(j, n, p) \in CallsIn(f)
                   /\ AddObservationOf(p, j, n) \in E <=> AddObservationOf(p, j, n) \in CallsIn(f)
  BY <1>2, <1>3, <1>5, CallParts
<1>9. \A p \in Points : ~Observed(obs, p, k, i)
  <2>1. MoveObservation(q, k, i) \in C
    BY <1>1
  <2>. QED  BY <1>4, <2>1 DEF MovesPlaced
<1>10. Shown(obs, slot, E)
  BY <1>4, <1>7 DEF Shown
<1>11. \A p, o : /\ SetMatch(k, i, p) \in CallsIn(f) /\ SetMatch(k, i, o) \in CallsIn(f) => p = o
                 /\ SetMatch(k, i, p) \in CallsIn(f) /\ AddObservationOf(o, k, i) \in CallsIn(f) => p = o
                 /\ AddObservationOf(p, k, i) \in CallsIn(f) => p = q /\ SetMatch(k, i, p) \in CallsIn(f)
  BY <1>5, CallParts
<1>12. SetsPlaced(obs, E)
  BY <1>8, <1>9, <1>11 DEF SetsPlaced
<1>13. AddsPlaced(obs, slot, E)
  BY <1>8, <1>9, <1>11 DEF AddsPlaced
<1>14. MovesPlaced(obs, E)
  BY <1>4, <1>7, <1>8 DEF MovesPlaced
<1>15. AssociatesShown(slot, E) /\ ErasedTogether(E)
  BY <1>7 DEF AssociatesShown, ErasedTogether
<1>. QED  BY <1>4, <1>6, <1>10, <1>12, <1>13, <1>14, <1>15 DEF Slots, Placed, E

LEMMA AssociateSlots ==
  ASSUME NEW S, NEW L \in Seq(S), L # <<>>, NEW obs, NEW slot, Slots(obs, slot, L),
         NEW k \in KeyFrames, NEW i \in Features, NEW p, Head(L) = Associate(p, k, i),
         NEW f \in Seq(S), f = <<>> \/ f = <<AddObservationOf(p, k, i)>>
  PROVE  Slots(obs, slot, f \o Tail(L))
<1>. DEFINE C == CallsIn(L)
            D == CallsIn(Tail(L))
            E == CallsIn(f \o Tail(L))
<1>1. Tail(L) \in Seq(S) /\ C = {Associate(p, k, i)} \cup D
  BY CallsOfTail, TailParts
<1>2. E = CallsIn(f) \cup D
  BY CallsOfRest
<1>3. Alone(obs) /\ Shown(obs, slot, C) /\ AssociatesShown(slot, C) /\ Shaped(L)
  BY DEF Slots, Placed
<1>4. \A c \in D : c.do \in {"Associate", "InsertInMap"}
  <2>1. Associate(p, k, i) \in C
    BY <1>1
  <2>2. \A c \in C : c.do \in {"Associate", "AddObservation", "InsertInMap"}
    BY <1>3, <2>1 DEF AssociatesShown
  <2>3. Head(L).do = "Associate"
    BY CallParts
  <2>4. Head(L).do \notin {"SetMatch", "AddObservation"}
    BY <2>3
  <2>5. \A c \in D : c.do \notin {"SetMatch", "AddObservation"}
    BY <1>3, <2>4, ShapedTail
  <2>. QED  BY <1>1, <2>2, <2>5
<1>5. (f = <<>> /\ CallsIn(f) = {}) \/ CallsIn(f) = {AddObservationOf(p, k, i)}
  BY CallsOfList
<1>6. Shaped(f \o Tail(L))
  <2>1. \A c \in CallsIn(f) : c.do = "AddObservation"
    BY <1>5, CallParts
  <2>2. \A c \in CallsIn(f) : c.do \in {"SetMatch", "AddObservation"}
    BY <2>1
  <2>3. Shaped(Tail(L))
    BY <1>3, ShapedTail
  <2>. QED  BY <1>1, <1>4, <2>1, <2>2, <2>3, ShapedJoin
<1>. HIDE DEF C, D, E
<1>7. \A o, j, n : /\ EraseObservationOf(o, j) \notin C /\ SetMatch(j, n, o) \notin C
                   /\ EraseMatch(j, o) \notin E /\ SetMatch(j, n, o) \notin E /\ MoveObservation(o, j, n) \notin E
                   /\ AddObservationOf(o, j, n) \in E => o = p /\ j = k /\ n = i
                   /\ Associate(o, j, n) \in E => Associate(o, j, n) \in C
  BY <1>1, <1>2, <1>4, <1>5, CallParts
<1>8. \A c \in E : c.do \in {"Associate", "AddObservation", "InsertInMap"}
  BY <1>2, <1>4, <1>5, CallParts
<1>9. slot[k][i] = p
  <2>1. Associate(p, k, i) \in C
    BY <1>1
  <2>. QED  BY <1>3, <2>1 DEF AssociatesShown
<1>10. \A q \in Points : \A j \in KeyFrames, n \in Features : Observed(obs, q, j, n) => slot[j][n] = q
  BY <1>3, <1>7 DEF Shown
<1>11. Shown(obs, slot, E)
  BY <1>10 DEF Shown
<1>12. SetsPlaced(obs, E) /\ MovesPlaced(obs, E) /\ ErasedTogether(E)
  BY <1>7 DEF SetsPlaced, MovesPlaced, ErasedTogether
<1>13. AddsPlaced(obs, slot, E)
  BY <1>7, <1>9, <1>10 DEF AddsPlaced
<1>14. AssociatesShown(slot, E)
  BY <1>3, <1>7, <1>8 DEF AssociatesShown
<1>. QED  BY <1>3, <1>6, <1>11, <1>12, <1>13, <1>14 DEF Slots, Placed, E

-----------------------------------------------------------------------------
(* The lists that are started, each when every observation is shown. *)

LEMMA ClearingSlots ==
  ASSUME NEW obs, NEW slot, AllShown(obs, slot), NEW p \in Points,
         NEW obs2, \A q \in Points : \A j, n : Observed(obs2, q, j, n) => Observed(obs, q, j, n) /\ q # p,
         NEW f, \A c \in CallsIn(f) : \E k \in KeyFrames, i \in Features : c = SetMatch(k, i, None) /\ Observed(obs, p, k, i)
  PROVE  Slots(obs2, slot, f)
<1>. DEFINE C == CallsIn(f)
<1>1. \A c \in C : c.do = "SetMatch"
  BY CallParts
<1>2. Shaped(f)
  <2>1. \A c \in C : /\ c.do \in {"SetMatch", "AddObservation"} /\ c.do \notin {"MoveObservation"} /\ c.do \notin {"Associate"}
                     /\ c.do \notin {"EraseObservation"} /\ c.do \notin {"EraseMatch"} /\ c.do # "MoveObservation"
    BY <1>1
  <2>2. /\ Before(f, {"SetMatch", "AddObservation"}, {"SetMatch", "AddObservation"})
        /\ Before(f, {"MoveObservation"}, {"SetMatch", "AddObservation", "MoveObservation"})
        /\ Before(f, {"Associate"}, {"AddObservation", "Associate"})
        /\ Before(f, {"EraseObservation"}, {"EraseMatch", "SetMatch"})
        /\ Before(f, {"EraseMatch"}, {})
    BY <2>1, BeforePlainly
  <2>3. Apart(f, "MoveObservation")
    BY <2>1, ApartPlainly
  <2>. QED  BY <2>2, <2>3 DEF Shaped
<1>3. AllShown(obs2, slot)
  BY DEF AllShown
<1>4. \A o, j, n : /\ AddObservationOf(o, j, n) \notin C /\ MoveObservation(o, j, n) \notin C
                   /\ Associate(o, j, n) \notin C /\ EraseMatch(j, o) \notin C
                   /\ SetMatch(j, n, o) \in C => o = None /\ Observed(obs, p, j, n)
  BY <1>1, CallParts
<1>. HIDE DEF C
<1>5. ASSUME NEW j \in KeyFrames, NEW n \in Features, NEW x, SetMatch(j, n, x) \in C, NEW q \in Points, Observed(obs2, q, j, n)
      PROVE  FALSE
  <2>1. Observed(obs, p, j, n) /\ Observed(obs, q, j, n) /\ q # p
    BY <1>4, <1>5
  <2>. QED  BY <2>1 DEF AllShown
<1>6. SetsPlaced(obs2, C)
  BY <1>4, <1>5 DEF SetsPlaced
<1>7. AddsPlaced(obs2, slot, C) /\ MovesPlaced(obs2, C) /\ AssociatesShown(slot, C) /\ ErasedTogether(C)
  BY <1>4 DEF AddsPlaced, MovesPlaced, AssociatesShown, ErasedTogether
<1>8. Alone(obs2) /\ Shown(obs2, slot, C)
  BY <1>3, ShownAlone DEF Shown, AllShown
<1>. QED  BY <1>2, <1>6, <1>7, <1>8 DEF Slots, Placed, C

LEMMA MovingSlots ==
  ASSUME NEW obs, NEW slot, AllShown(obs, slot), NEW p \in Points, NEW q,
         NEW obs2, \A o \in Points : \A j, n : Observed(obs2, o, j, n) => Observed(obs, o, j, n) /\ o # p,
         NEW f, Apart(f, "MoveObservation"),
         \A c \in CallsIn(f) : \E k \in KeyFrames, i \in Features : c = MoveObservation(q, k, i) /\ Observed(obs, p, k, i)
  PROVE  Slots(obs2, slot, f)
<1>. DEFINE C == CallsIn(f)
<1>1. \A c \in C : c.do = "MoveObservation"
  BY CallParts
<1>2. Shaped(f)
  <2>1. \A c \in C : /\ c.do \notin {"SetMatch", "AddObservation"} /\ c.do \in {"SetMatch", "AddObservation", "MoveObservation"}
                     /\ c.do \notin {"Associate"} /\ c.do \notin {"EraseObservation"} /\ c.do \notin {"EraseMatch"}
    BY <1>1
  <2>2. /\ Before(f, {"SetMatch", "AddObservation"}, {"SetMatch", "AddObservation"})
        /\ Before(f, {"MoveObservation"}, {"SetMatch", "AddObservation", "MoveObservation"})
        /\ Before(f, {"Associate"}, {"AddObservation", "Associate"})
        /\ Before(f, {"EraseObservation"}, {"EraseMatch", "SetMatch"})
        /\ Before(f, {"EraseMatch"}, {})
    BY <2>1, BeforePlainly
  <2>. QED  BY <2>2 DEF Shaped
<1>3. AllShown(obs2, slot)
  BY DEF AllShown
<1>4. \A o, j, n : /\ AddObservationOf(o, j, n) \notin C /\ SetMatch(j, n, o) \notin C
                   /\ Associate(o, j, n) \notin C /\ EraseMatch(j, o) \notin C
                   /\ MoveObservation(o, j, n) \in C => Observed(obs, p, j, n)
  BY <1>1, CallParts
<1>. HIDE DEF C
<1>5. ASSUME NEW j \in KeyFrames, NEW n \in Features, NEW x, MoveObservation(x, j, n) \in C, NEW o \in Points, Observed(obs2, o, j, n)
      PROVE  FALSE
  <2>1. Observed(obs, p, j, n) /\ Observed(obs, o, j, n) /\ o # p
    BY <1>4, <1>5
  <2>. QED  BY <2>1 DEF AllShown
<1>6. MovesPlaced(obs2, C)
  BY <1>4, <1>5 DEF MovesPlaced
<1>7. AddsPlaced(obs2, slot, C) /\ SetsPlaced(obs2, C) /\ AssociatesShown(slot, C) /\ ErasedTogether(C)
  BY <1>4 DEF AddsPlaced, SetsPlaced, AssociatesShown, ErasedTogether
<1>8. Alone(obs2) /\ Shown(obs2, slot, C)
  BY <1>3, ShownAlone DEF Shown, AllShown
<1>. QED  BY <1>2, <1>6, <1>7, <1>8 DEF Slots, Placed, C

LEMMA FreeSlots ==
  ASSUME NEW obs, NEW slot, AllShown(obs, slot), NEW p,
         NEW f, \A c \in CallsIn(f) : \E k \in KeyFrames, i \in Features :
                   slot[k][i] = None /\ SetMatch(k, i, p) \in CallsIn(f) /\ c \in {SetMatch(k, i, p), AddObservationOf(p, k, i)}
  PROVE  Slots(obs, slot, f)
<1>. DEFINE C == CallsIn(f)
<1>1. \A c \in C : c.do \in {"SetMatch", "AddObservation"}
  BY CallParts
<1>2. Shaped(f)
  <2>1. \A c \in C : /\ c.do \in {"SetMatch", "AddObservation"} /\ c.do \notin {"MoveObservation"} /\ c.do \notin {"Associate"}
                     /\ c.do \notin {"EraseObservation"} /\ c.do \notin {"EraseMatch"} /\ c.do # "MoveObservation"
    BY <1>1
  <2>2. /\ Before(f, {"SetMatch", "AddObservation"}, {"SetMatch", "AddObservation"})
        /\ Before(f, {"MoveObservation"}, {"SetMatch", "AddObservation", "MoveObservation"})
        /\ Before(f, {"Associate"}, {"AddObservation", "Associate"})
        /\ Before(f, {"EraseObservation"}, {"EraseMatch", "SetMatch"})
        /\ Before(f, {"EraseMatch"}, {})
    BY <2>1, BeforePlainly
  <2>3. Apart(f, "MoveObservation")
    BY <2>1, ApartPlainly
  <2>. QED  BY <2>2, <2>3 DEF Shaped
<1>3. \A o, j, n : /\ MoveObservation(o, j, n) \notin C /\ Associate(o, j, n) \notin C
                   /\ EraseMatch(j, o) \notin C
                   /\ SetMatch(j, n, o) \in C => o = p /\ slot[j][n] = None
                   /\ AddObservationOf(o, j, n) \in C => o = p /\ slot[j][n] = None /\ SetMatch(j, n, o) \in C
  BY <1>1, CallParts
<1>. HIDE DEF C
<1>4. \A j \in KeyFrames, n \in Features : slot[j][n] = None => \A q \in Points : ~Observed(obs, q, j, n)
  BY DEF AllShown, None, Points
<1>5. SetsPlaced(obs, C)
  BY <1>3, <1>4 DEF SetsPlaced
<1>6. AddsPlaced(obs, slot, C)
  BY <1>3, <1>4 DEF AddsPlaced
<1>7. MovesPlaced(obs, C) /\ AssociatesShown(slot, C) /\ ErasedTogether(C)
  BY <1>3 DEF MovesPlaced, AssociatesShown, ErasedTogether
<1>8. Alone(obs) /\ Shown(obs, slot, C)
  BY ShownAlone DEF Shown, AllShown
<1>. QED  BY <1>2, <1>5, <1>6, <1>7, <1>8 DEF Slots, Placed, C

LEMMA AssociatingSlots ==
  ASSUME NEW obs, NEW slot, AllShown(obs, slot), NEW k,
         NEW f, Before(f, {"Associate"}, {"AddObservation", "Associate"}),
         \A c \in CallsIn(f) : c = InsertInMap(k) \/ \E i, p : slot[k][i] = p /\ c = Associate(p, k, i)
  PROVE  Slots(obs, slot, f)
<1>. DEFINE C == CallsIn(f)
<1>1. \A c \in C : c.do \in {"InsertInMap", "Associate"}
  BY CallParts
<1>2. Shaped(f)
  <2>1. \A c \in C : /\ c.do \notin {"SetMatch", "AddObservation"} /\ c.do \notin {"MoveObservation"}
                     /\ c.do \notin {"EraseObservation"} /\ c.do \notin {"EraseMatch"} /\ c.do # "MoveObservation"
    BY <1>1
  <2>2. /\ Before(f, {"SetMatch", "AddObservation"}, {"SetMatch", "AddObservation"})
        /\ Before(f, {"MoveObservation"}, {"SetMatch", "AddObservation", "MoveObservation"})
        /\ Before(f, {"EraseObservation"}, {"EraseMatch", "SetMatch"})
        /\ Before(f, {"EraseMatch"}, {})
    BY <2>1, BeforePlainly
  <2>3. Apart(f, "MoveObservation")
    BY <2>1, ApartPlainly
  <2>. QED  BY <2>2, <2>3 DEF Shaped
<1>3. \A o, j, n : /\ MoveObservation(o, j, n) \notin C /\ SetMatch(j, n, o) \notin C
                   /\ EraseMatch(j, o) \notin C /\ AddObservationOf(o, j, n) \notin C
                   /\ Associate(o, j, n) \in C => slot[j][n] = o
  BY <1>1, CallParts
<1>4. AssociatesShown(slot, C)
  BY <1>1, <1>3 DEF AssociatesShown
<1>. HIDE DEF C
<1>5. SetsPlaced(obs, C) /\ AddsPlaced(obs, slot, C) /\ MovesPlaced(obs, C) /\ ErasedTogether(C)
  BY <1>3 DEF SetsPlaced, AddsPlaced, MovesPlaced, ErasedTogether
<1>6. Alone(obs) /\ Shown(obs, slot, C)
  BY ShownAlone DEF Shown, AllShown
<1>. QED  BY <1>2, <1>4, <1>5, <1>6 DEF Slots, Placed, C

LEMMA ErasingSlots ==
  ASSUME NEW obs, NEW slot, AllShown(obs, slot), NEW p, NEW k,
         NEW f, f \in {<<EraseObservationOf(p, k)>>, <<EraseMatch(k, p), EraseObservationOf(p, k), Unlock>>}
  PROVE  Slots(obs, slot, f)
<1>. DEFINE C == CallsIn(f)
<1>1. /\ \A c \in C : c \in {EraseObservationOf(p, k), EraseMatch(k, p), Unlock}
      /\ EraseObservationOf(p, k) \in C
  BY CallsOfList
<1>2. Shaped(f)
  <2>1. \A c \in C : /\ c.do \notin {"SetMatch", "AddObservation"} /\ c.do \notin {"MoveObservation"}
                     /\ c.do \notin {"Associate"} /\ c.do # "MoveObservation"
    BY <1>1, CallParts
  <2>2. /\ Before(f, {"SetMatch", "AddObservation"}, {"SetMatch", "AddObservation"})
        /\ Before(f, {"MoveObservation"}, {"SetMatch", "AddObservation", "MoveObservation"})
        /\ Before(f, {"Associate"}, {"AddObservation", "Associate"})
    BY <2>1, BeforePlainly
  <2>3. Apart(f, "MoveObservation")
    BY <2>1, ApartPlainly
  <2>4. Before(f, {"EraseObservation"}, {"EraseMatch", "SetMatch"}) /\ Before(f, {"EraseMatch"}, {})
    <3>1. CASE f = <<EraseObservationOf(p, k)>>
      <4>1. Len(f) = 1 /\ f[1].do = "EraseObservation"
        BY <3>1, CallParts
      <4>. QED  BY <4>1 DEF Before
    <3>2. CASE f = <<EraseMatch(k, p), EraseObservationOf(p, k), Unlock>>
      <4>1. Len(f) = 3 /\ f[1].do = "EraseMatch" /\ f[2].do = "EraseObservation" /\ f[3].do = "Unlock"
        BY <3>2, CallParts
      <4>2. \A n \in 1..Len(f) : n \in {1, 2, 3}
        BY <4>1
      <4>. QED  BY <4>1, <4>2 DEF Before
    <3>. QED  BY <3>1, <3>2
  <2>. QED  BY <2>2, <2>3, <2>4 DEF Shaped
<1>3. \A o, j, n : /\ MoveObservation(o, j, n) \notin C /\ SetMatch(j, n, o) \notin C
                   /\ Associate(o, j, n) \notin C /\ AddObservationOf(o, j, n) \notin C
                   /\ EraseMatch(j, o) \in C => o = p /\ j = k
  BY <1>1, CallParts
<1>. HIDE DEF C
<1>4. SetsPlaced(obs, C) /\ AddsPlaced(obs, slot, C) /\ MovesPlaced(obs, C) /\ AssociatesShown(slot, C)
  BY <1>3 DEF SetsPlaced, AddsPlaced, MovesPlaced, AssociatesShown
<1>5. ErasedTogether(C)
  BY <1>1, <1>3 DEF ErasedTogether
<1>6. Alone(obs) /\ Shown(obs, slot, C)
  BY ShownAlone DEF Shown, AllShown
<1>. QED  BY <1>2, <1>4, <1>5, <1>6 DEF Slots, Placed, C

\* A new keyframe shows its own matches; no call is about it yet.
LEMMA MoreSlots ==
  ASSUME NEW obs, NEW slot, NEW L, Slots(obs, slot, L), NEW o,
         NEW obs2, \A q \in Points : \A j, i : j # o /\ Observed(obs2, q, j, i) => Observed(obs, q, j, i),
         NEW slot2, \A j \in KeyFrames, i \in Features : j # o => slot2[j][i] = slot[j][i],
         \A q \in Points : \A i \in Features : Observed(obs2, q, o, i) => slot2[o][i] = q,
         \A c \in CallsIn(L) : c.do \in SlotNames => c.kf # o
  PROVE  Slots(obs2, slot2, L)
<1>. DEFINE C == CallsIn(L)
<1>1. \A p, k, i : /\ AddObservationOf(p, k, i) \in C => k # o
                   /\ MoveObservation(p, k, i) \in C => k # o
                   /\ Associate(p, k, i) \in C => k # o
                   /\ SetMatch(k, i, p) \in C => k # o
  BY NotQuiet, CallParts
<1>. HIDE DEF C
<1>2. Alone(obs) /\ Shown(obs, slot, C) /\ Shaped(L)
  BY DEF Slots, C
<1>3. Alone(obs2)
  <2>. SUFFICES ASSUME NEW p \in Points, NEW q \in Points, NEW k \in KeyFrames, NEW i \in Features,
                       Observed(obs2, p, k, i), Observed(obs2, q, k, i)
                PROVE  p = q
    BY DEF Alone
  <2>1. CASE k = o
    <3>1. slot2[o][i] = p /\ slot2[o][i] = q
      BY <2>1
    <3>. QED  BY <3>1
  <2>2. CASE k # o
    <3>1. Observed(obs, p, k, i) /\ Observed(obs, q, k, i)
      BY <2>2
    <3>. QED  BY <1>2, <3>1 DEF Alone
  <2>. QED  BY <2>1, <2>2
<1>4. Shown(obs2, slot2, C)
  <2>. SUFFICES ASSUME NEW p \in Points, NEW k \in KeyFrames, NEW i \in Features, Observed(obs2, p, k, i)
                PROVE  slot2[k][i] = p \/ SetMatch(k, i, p) \in C \/ EraseObservationOf(p, k) \in C
    BY DEF Shown
  <2>1. CASE k = o
    BY <2>1
  <2>2. CASE k # o
    <3>1. Observed(obs, p, k, i) /\ slot2[k][i] = slot[k][i]
      BY <2>2
    <3>. QED  BY <1>2, <3>1 DEF Shown
  <2>. QED  BY <2>1, <2>2
<1>5. SetsPlaced(obs, C) /\ AddsPlaced(obs, slot, C) /\ MovesPlaced(obs, C) /\ AssociatesShown(slot, C) /\ ErasedTogether(C)
  BY DEF Slots, Placed, C
<1>6. SetsPlaced(obs2, C)
  BY <1>1, <1>5 DEF SetsPlaced
<1>7. AddsPlaced(obs2, slot2, C)
  BY <1>1, <1>5 DEF AddsPlaced
<1>8. MovesPlaced(obs2, C)
  BY <1>1, <1>5 DEF MovesPlaced
<1>9. AssociatesShown(slot2, C)
  BY <1>1, <1>5 DEF AssociatesShown
<1>. QED  BY <1>2, <1>3, <1>4, <1>5, <1>6, <1>7, <1>8, <1>9 DEF Slots, Placed, C

-----------------------------------------------------------------------------
\* Until an erasure is made up for, one thread at most has calls to make, and they put right what is not.
SlotInv ==
  erasedLate = {} =>
    \E t \in Threads : (\A u \in Threads : u # t => Idle(u)) /\ Slots(mObservations, mvpMapPoints, calls[t])

ACalls == AllCalls(points, keyFrames, 1..points)

LEMMA NothingToCall == \A S : <<>> \in Seq(S) /\ CallsIn(<<>>) = {} /\ Quiet(<<>>)
BY DEF CallsIn, Quiet

LEMMA ListCalls ==
  ASSUME NEW S, NEW a \in S
  PROVE  <<a>> \in Seq(S) /\ CallsIn(<<a>>) = {a}
BY CallsOfList

LEMMA CallsTyped ==
  ASSUME IInv
  PROVE  /\ points \in Nat /\ keyFrames \in Nat /\ 1..points \subseteq Points /\ 1..keyFrames \subseteq KeyFrames
         /\ AllCalls(points, keyFrames, mbBad) \subseteq ACalls
         /\ \A t \in Threads : calls[t] \in Seq(ACalls)
         /\ calls = [t \in Threads |-> calls[t]]
<1>1. points \in 0..MaxPoints /\ keyFrames \in 0..MaxKeyFrames /\ mbBad \subseteq 1..points
  BY DEF IInv, Types
<1>2. points \in Nat /\ keyFrames \in Nat /\ 1..points \subseteq Points /\ 1..keyFrames \subseteq KeyFrames
  BY <1>1, MapPointsAssumption DEF Points, KeyFrames
<1>3. AllCalls(points, keyFrames, mbBad) \subseteq ACalls /\ OtherCalls(points, keyFrames, mbBad) \subseteq AllCalls(points, keyFrames, mbBad)
  <2>1. points <= points /\ keyFrames <= keyFrames
    BY <1>2
  <2>. QED  BY <1>1, <1>2, <2>1, CallsGrow, MakingCalls, Zenon DEF ACalls
<1>4. calls["looping"] \in Seq(ACalls) /\ calls["mapping"] \in Seq(ACalls)
  <2>1. /\ calls["looping"] \in Seq(OtherCalls(points, keyFrames, mbBad))
        /\ calls["mapping"] \in Seq(AllCalls(points, keyFrames, mbBad))
    BY DEF IInv, Calling
  <2>2. OtherCalls(points, keyFrames, mbBad) \subseteq ACalls
    BY <1>3
  <2>. QED  BY <1>3, <2>1, <2>2, SeqMonotonic
<1>5. calls = [t \in Threads |-> calls[t]]
  BY DEF IInv, Calling
<1>. QED  BY <1>2, <1>3, <1>4, <1>5, TheThreads

LEMMA CallsAre ==
  ASSUME NEW np, NEW nk, NEW bad, NEW c \in AllCalls(np, nk, bad)
  PROVE  /\ c.do = "AddObservation" => c = AddObservationOf(c.mp, c.kf, c.idx)
         /\ c.do = "MoveObservation" => c = MoveObservation(c.mp, c.kf, c.idx)
         /\ c.do = "Associate" => c = Associate(c.mp, c.kf, c.idx)
         /\ c.do = "SetMatch" => c = SetMatch(c.kf, c.idx, c.mp)
         /\ c.do = "EraseObservation" => c = EraseObservationOf(c.mp, c.kf)
         /\ c.do = "EraseMatch" => c = EraseMatch(c.kf, c.mp)
<1>1. c.do \in {"AddObservation", "MoveObservation", "Associate"} =>
         c \in [do : {"AddObservation", "MoveObservation", "Associate"}, mp : 1..np, kf : 1..nk, idx : Features]
  BY DEF AllCalls, OtherCalls
<1>2. c.do = "SetMatch" => c \in [do : {"SetMatch"}, mp : 0..np, kf : 1..nk, idx : Features]
  BY DEF AllCalls, OtherCalls
<1>3. c.do \in {"EraseObservation", "EraseMatch"} => c \in [do : {"EraseObservation", "EraseMatch"}, mp : 1..np, kf : 1..nk]
  BY DEF AllCalls, OtherCalls
<1>4. c.do = "AddObservation" => c = AddObservationOf(c.mp, c.kf, c.idx)
  BY <1>1 DEF AddObservationOf
<1>5. c.do = "MoveObservation" => c = MoveObservation(c.mp, c.kf, c.idx)
  BY <1>1 DEF MoveObservation
<1>6. c.do = "Associate" => c = Associate(c.mp, c.kf, c.idx)
  BY <1>1 DEF Associate
<1>7. c.do = "SetMatch" => c = SetMatch(c.kf, c.idx, c.mp)
  BY <1>2 DEF SetMatch
<1>8. c.do = "EraseObservation" => c = EraseObservationOf(c.mp, c.kf)
  BY <1>3 DEF EraseObservationOf
<1>9. c.do = "EraseMatch" => c = EraseMatch(c.kf, c.mp)
  BY <1>3 DEF EraseMatch
<1>. QED  BY <1>4, <1>5, <1>6, <1>7, <1>8, <1>9

LEMMA InitSlotInv == Init => SlotInv
<1>. SUFFICES ASSUME Init  PROVE SlotInv
  OBVIOUS
<1>1. \A p \in Points : DOMAIN mObservations[p] = {}
  BY DEF Init
<1>2. AllShown(mObservations, mvpMapPoints)
  BY <1>1 DEF AllShown, Observed
<1>3. calls["mapping"] = <<>> /\ calls["looping"] = <<>>
  BY TheThreads DEF Init
<1>4. Slots(mObservations, mvpMapPoints, <<>>)
  BY <1>2, NothingToCall, QuietSlots
<1>. QED  BY <1>3, <1>4, TheThreads DEF SlotInv, Idle

LEMMA AtWork ==
  ASSUME SlotInv, erasedLate = {}, NEW t \in Threads, calls[t] # <<>>
  PROVE  Slots(mObservations, mvpMapPoints, calls[t]) /\ \A u \in Threads : u # t => Idle(u)
<1>1. PICK w \in Threads : (\A u \in Threads : u # w => Idle(u)) /\ Slots(mObservations, mvpMapPoints, calls[w])
  BY DEF SlotInv
<1>2. w = t
  BY <1>1 DEF Idle
<1>. QED  BY <1>1, <1>2

LEMMA NoneAtWork ==
  ASSUME SlotInv, erasedLate = {}, \A u \in Threads : Idle(u)
  PROVE  AllShown(mObservations, mvpMapPoints)
<1>1. PICK w \in Threads : Slots(mObservations, mvpMapPoints, calls[w])
  BY DEF SlotInv
<1>2. calls[w] = <<>>
  BY DEF Idle
<1>. QED  BY <1>1, <1>2, NothingToCall, QuietShown

LEMMA GoesOn ==
  ASSUME IInv, NEW t \in Threads, \A u \in Threads : u # t => Idle(u),
         NEW L, calls' = [calls EXCEPT ![t] = L], Slots(mObservations', mvpMapPoints', L)
  PROVE  SlotInv'
<1>1. calls = [u \in Threads |-> calls[u]]
  BY DEF IInv, Calling
<1>2. calls'[t] = L /\ \A u \in Threads : u # t => calls'[u] = calls[u]
  BY <1>1
<1>. QED  BY <1>2 DEF SlotInv, Idle

LEMMA SlotsKept ==
  ASSUME SlotInv, UNCHANGED <<mObservations, mvpMapPoints, calls>>, erasedLate \subseteq erasedLate'
  PROVE  SlotInv'
BY DEF SlotInv, Idle

\* A call that is not about slots: what follows it starts from observations all shown.
LEMMA QuietReturn ==
  ASSUME IInv, SlotInv, NEW t \in Threads, calls[t] # <<>>, Head(calls[t]).do \in QuietNames,
         NEW S, calls[t] \in Seq(S), NEW f \in Seq(S),
         AllShown(mObservations, mvpMapPoints) => Slots(mObservations', mvpMapPoints', f),
         \A c \in CallsIn(f) : c.do # "Associate",
         Return(t, f), erasedLate' = erasedLate
  PROVE  SlotInv'
<1>. SUFFICES ASSUME erasedLate = {}  PROVE SlotInv'
  BY DEF SlotInv
<1>1. Slots(mObservations, mvpMapPoints, calls[t]) /\ \A u \in Threads : u # t => Idle(u)
  BY AtWork
<1>2. Tail(calls[t]) \in Seq(S) /\ Quiet(Tail(calls[t])) /\ Quiet(calls[t])
  <2>1. Shaped(calls[t])
    BY <1>1 DEF Slots
  <2>. QED  BY <2>1, QuietTail
<1>3. AllShown(mObservations, mvpMapPoints)
  BY <1>1, <1>2, QuietShown
<1>4. PICK T : T = Tail(calls[t])
  OBVIOUS
<1>5. Slots(mObservations', mvpMapPoints', f \o T)
  BY <1>2, <1>3, <1>4, QuietRest
<1>6. calls' = [calls EXCEPT ![t] = f \o T]
  BY <1>4 DEF Return
<1>. QED  BY <1>1, <1>5, <1>6, GoesOn

\* A thread that starts when nobody is at work.
LEMMA SlotsStart ==
  ASSUME IInv, SlotInv, NEW t \in Threads, erasedLate = {} => \A u \in Threads : Idle(u),
         NEW L, Call(t, L), AllShown(mObservations, mvpMapPoints) => Slots(mObservations', mvpMapPoints', L),
         erasedLate' = erasedLate
  PROVE  SlotInv'
<1>. SUFFICES ASSUME erasedLate = {}  PROVE SlotInv'
  BY DEF SlotInv
<1>1. Slots(mObservations', mvpMapPoints', L)
  BY NoneAtWork
<1>. QED  BY <1>1, GoesOn DEF Call

\* A call about slots: what follows it is put before the rest.
LEMMA SlotsReturn ==
  ASSUME IInv, SlotInv, NEW t \in Threads, calls[t] # <<>>, NEW f, Return(t, f), erasedLate' = erasedLate,
         Slots(mObservations, mvpMapPoints, calls[t]) => Slots(mObservations', mvpMapPoints', f \o Tail(calls[t]))
  PROVE  SlotInv'
<1>. SUFFICES ASSUME erasedLate = {}  PROVE SlotInv'
  BY DEF SlotInv
<1>1. Slots(mObservations, mvpMapPoints, calls[t]) /\ \A u \in Threads : u # t => Idle(u)
  BY AtWork
<1>2. PICK L : L = f \o Tail(calls[t])
  OBVIOUS
<1>3. Slots(mObservations', mvpMapPoints', L) /\ calls' = [calls EXCEPT ![t] = L]
  BY <1>1, <1>2 DEF Return
<1>. QED  BY <1>1, <1>3, GoesOn

LEMMA NothingFirst ==
  ASSUME NEW S, NEW L \in Seq(S), L # <<>>
  PROVE  <<>> \o Tail(L) = Tail(L)
<1>1. Tail(L) \in Seq(S)
  BY TailParts
<1>. QED  BY <1>1, ConcatEmptySeq

LEMMA HeadIs ==
  ASSUME IInv, NEW t \in Threads, calls[t] # <<>>
  PROVE  LET c == Head(calls[t]) IN
         /\ calls[t] \in Seq(ACalls)
         /\ c.do \in {"AddObservation", "MoveObservation", "Associate"} =>
              c.mp \in 1..points /\ c.mp \in Points /\ c.kf \in 1..keyFrames /\ c.kf \in KeyFrames /\ c.idx \in Features
         /\ c.do = "SetMatch" => c.mp \in 0..points /\ c.kf \in 1..keyFrames /\ c.kf \in KeyFrames /\ c.idx \in Features
         /\ c.do \in {"EraseObservation", "EraseMatch"} =>
              c.mp \in 1..points /\ c.mp \in Points /\ c.kf \in 1..keyFrames /\ c.kf \in KeyFrames
         /\ c.do = "AddObservation" => c = AddObservationOf(c.mp, c.kf, c.idx)
         /\ c.do = "MoveObservation" => c = MoveObservation(c.mp, c.kf, c.idx)
         /\ c.do = "Associate" => c = Associate(c.mp, c.kf, c.idx)
         /\ c.do = "SetMatch" => c = SetMatch(c.kf, c.idx, c.mp)
         /\ c.do = "EraseObservation" => c = EraseObservationOf(c.mp, c.kf)
         /\ c.do = "EraseMatch" => c = EraseMatch(c.kf, c.mp)
<1>. DEFINE c == Head(calls[t])
<1>1. calls[t] \in Seq(ACalls) /\ 1..points \subseteq Points /\ 1..keyFrames \subseteq KeyFrames
  BY CallsTyped
<1>2. /\ c \in AllCalls(points, keyFrames, mbBad)
      /\ c.do \in {"AddObservation", "MoveObservation", "Associate"} => c.mp \in 1..points /\ c.kf \in 1..keyFrames /\ c.idx \in Features
      /\ c.do = "SetMatch" => c.mp \in 0..points /\ c.kf \in 1..keyFrames /\ c.idx \in Features
      /\ c.do \in {"EraseObservation", "EraseMatch"} => c.mp \in 1..points /\ c.kf \in 1..keyFrames
  BY HeadTyped
<1>. HIDE DEF c
<1>3. /\ c.do = "AddObservation" => c = AddObservationOf(c.mp, c.kf, c.idx)
      /\ c.do = "MoveObservation" => c = MoveObservation(c.mp, c.kf, c.idx)
      /\ c.do = "Associate" => c = Associate(c.mp, c.kf, c.idx)
      /\ c.do = "SetMatch" => c = SetMatch(c.kf, c.idx, c.mp)
      /\ c.do = "EraseObservation" => c = EraseObservationOf(c.mp, c.kf)
      /\ c.do = "EraseMatch" => c = EraseMatch(c.kf, c.mp)
  BY <1>2, CallsAre
<1>. QED  BY <1>1, <1>2, <1>3 DEF c

\* The calls of ACalls that follow.
LEMMA MoreCalls ==
  ASSUME IInv
  PROVE  /\ \A p \in 1..points, k \in 1..keyFrames, i \in Features :
              /\ AddObservationOf(p, k, i) \in ACalls /\ MoveObservation(p, k, i) \in ACalls /\ Associate(p, k, i) \in ACalls
         /\ \A p \in 0..points, k \in 1..keyFrames, i \in Features : SetMatch(k, i, p) \in ACalls
         /\ \A p \in 1..points, k \in 1..keyFrames : EraseObservationOf(p, k) \in ACalls /\ EraseMatch(k, p) \in ACalls
         /\ \A p \in 1..points : SetBadFlagOf(p) \in ACalls /\ EraseFromMap(p) \in ACalls
         /\ \A k \in 1..keyFrames : InsertInMap(k) \in ACalls
         /\ Unlock \in ACalls
<1>1. points \in Nat /\ keyFrames \in Nat
  BY CallsTyped
<1>2. OtherCalls(points, keyFrames, 1..points) \subseteq ACalls
  BY MakingCalls DEF ACalls
<1>. QED  BY <1>1, <1>2, CallMakers

LEMMA SetMatchKeepsSlots ==
  ASSUME IInv, SlotInv, NEW t \in Threads, SetMapPointMatch(t)
  PROVE  SlotInv'
<1>. DEFINE c == Head(calls[t])
<1>1. calls[t] # <<>> /\ c.do = "SetMatch"
  BY DEF SetMapPointMatch, Calls
<1>2. /\ calls[t] \in Seq(ACalls) /\ c = SetMatch(c.kf, c.idx, c.mp)
      /\ c.kf \in KeyFrames /\ c.idx \in Features
  BY <1>1, HeadIs
<1>3. /\ mvpMapPoints' = [mvpMapPoints EXCEPT ![c.kf][c.idx] = c.mp] /\ Return(t, <<>>)
      /\ mObservations' = mObservations /\ erasedLate' = erasedLate
  BY DEF SetMapPointMatch, ButPoints, pointVars, keyFrameVars
<1>4. \A j \in KeyFrames, n \in Features : mvpMapPoints'[j][n] = IF j = c.kf /\ n = c.idx THEN c.mp ELSE mvpMapPoints[j][n]
  BY <1>2, <1>3 DEF IInv, Types
<1>5. ASSUME Slots(mObservations, mvpMapPoints, calls[t])  PROVE Slots(mObservations', mvpMapPoints', <<>> \o Tail(calls[t]))
  <2>. HIDE DEF c
  <2>1. Head(calls[t]) = SetMatch(c.kf, c.idx, c.mp)
    BY <1>2 DEF c
  <2>2. Slots(mObservations, mvpMapPoints', Tail(calls[t]))
    BY <1>1, <1>2, <1>4, <1>5, <2>1, SetMatchSlots
  <2>. QED  BY <1>1, <1>2, <1>3, <2>2, NothingFirst
<1>. QED  BY <1>1, <1>3, <1>5, SlotsReturn

LEMMA AddObservationKeepsSlots ==
  ASSUME IInv, SlotInv, NEW t \in Threads, AddObservation(t)
  PROVE  SlotInv'
<1>. DEFINE c == Head(calls[t])
<1>1. calls[t] # <<>> /\ c.do = "AddObservation"
  BY DEF AddObservation, Calls
<1>2. /\ calls[t] \in Seq(ACalls) /\ c = AddObservationOf(c.mp, c.kf, c.idx)
      /\ c.mp \in Points /\ c.kf \in KeyFrames /\ c.idx \in Features
  BY <1>1, HeadIs
<1>3. /\ mObservations' = [mObservations EXCEPT ![c.mp] = ObservedAt(mObservations[c.mp], c.kf, c.idx)] /\ Return(t, <<>>)
      /\ OnlyPoints
  BY DEF AddObservation
<1>4. mvpMapPoints' = mvpMapPoints /\ erasedLate' = erasedLate
  BY <1>3, OnlyPointsPlaces
<1>5. \A q \in Points : \A j, n : Observed(mObservations', q, j, n) <=>
                            IF q = c.mp /\ j = c.kf THEN n = c.idx ELSE Observed(mObservations, q, j, n)
  <2>. HIDE DEF c
  <2>1. \A q \in Points : mObservations'[q] = IF q = c.mp THEN ObservedAt(mObservations[q], c.kf, c.idx) ELSE mObservations[q]
    BY <1>2, <1>3 DEF IInv, Types, c
  <2>2. \A f, j : /\ j \in DOMAIN ObservedAt(f, c.kf, c.idx) <=> j = c.kf \/ j \in DOMAIN f
                  /\ ObservedAt(f, c.kf, c.idx)[c.kf] = c.idx
                  /\ j # c.kf /\ j \in DOMAIN f => ObservedAt(f, c.kf, c.idx)[j] = f[j]
    BY DEF ObservedAt
  <2>. SUFFICES ASSUME NEW q \in Points, NEW j, NEW n
                PROVE  Observed(mObservations', q, j, n) <=>
                            IF q = c.mp /\ j = c.kf THEN n = c.idx ELSE Observed(mObservations, q, j, n)
    OBVIOUS
  <2>3. CASE q = c.mp
    BY <2>1, <2>2, <2>3 DEF Observed
  <2>4. CASE q # c.mp
    BY <2>1, <2>4 DEF Observed
  <2>. QED  BY <2>3, <2>4
<1>6. ASSUME Slots(mObservations, mvpMapPoints, calls[t])  PROVE Slots(mObservations', mvpMapPoints', <<>> \o Tail(calls[t]))
  <2>. HIDE DEF c
  <2>1. Head(calls[t]) = AddObservationOf(c.mp, c.kf, c.idx)
    BY <1>2 DEF c
  <2>2. Slots(mObservations', mvpMapPoints, Tail(calls[t]))
    BY <1>1, <1>2, <1>5, <1>6, <2>1, AddObservationSlots
  <2>. QED  BY <1>1, <1>2, <1>4, <2>2, NothingFirst
<1>. QED  BY <1>1, <1>3, <1>4, <1>6, SlotsReturn

LEMMA EraseObservationKeepsSlots ==
  ASSUME IInv, SlotInv, NEW t \in Threads, EraseObservation(t)
  PROVE  SlotInv'
<1>. DEFINE p == Head(calls[t]).mp
            k == Head(calls[t]).kf
            left == Observers(p) \ {k}
<1>1. calls[t] # <<>> /\ Head(calls[t]).do = "EraseObservation"
  BY DEF EraseObservation, Calls
<1>2. calls[t] \in Seq(ACalls) /\ Head(calls[t]) = EraseObservationOf(p, k) /\ p \in Points /\ p \in 1..points
  BY <1>1, HeadIs
<1>3. OnlyPoints /\ \/ k \notin Observers(p) /\ mObservations' = mObservations /\ Return(t, <<>>)
                    \/ /\ mObservations' = [mObservations EXCEPT ![p] = [o \in left |-> @[o]]]
                       /\ \E f \in {<<>>, <<SetBadFlagOf(p)>>} : Return(t, f)
  BY DEF EraseObservation
<1>4. mvpMapPoints' = mvpMapPoints /\ erasedLate' = erasedLate
  BY <1>3, OnlyPointsPlaces
<1>5. PICK f \in {<<>>, <<SetBadFlagOf(p)>>} : Return(t, f)
  BY <1>3
<1>6. f \in Seq(ACalls) /\ Quiet(f)
  <2>. HIDE DEF p
  <2>1. SetBadFlagOf(p) \in ACalls /\ SetBadFlagOf(p).do \notin SlotNames
    BY <1>2, MoreCalls, CallParts DEF SlotNames
  <2>2. <<>> \in Seq(ACalls) /\ Quiet(<<>>)
    BY NothingToCall
  <2>3. <<SetBadFlagOf(p)>> \in Seq(ACalls) /\ Quiet(<<SetBadFlagOf(p)>>)
    BY <2>1, ListCalls DEF Quiet
  <2>. QED  BY <1>5, <2>2, <2>3
<1>7. \A q \in Points : \A j, n : Observed(mObservations', q, j, n) => Observed(mObservations, q, j, n) /\ ~(q = p /\ j = k)
  <2>1. CASE k \notin Observers(p) /\ mObservations' = mObservations
    BY <2>1 DEF Observed, Observers
  <2>2. CASE mObservations' = [mObservations EXCEPT ![p] = [o \in left |-> @[o]]]
    <3>1. mObservations'[p] = [o \in left |-> mObservations[p][o]] /\ \A q \in Points : q # p => mObservations'[q] = mObservations[q]
      BY <1>2, <2>2 DEF IInv, Types
    <3>2. DOMAIN mObservations'[p] = DOMAIN mObservations[p] \ {k} /\ \A j \in DOMAIN mObservations'[p] : mObservations'[p][j] = mObservations[p][j]
      BY <3>1 DEF Observers
    <3>. HIDE DEF p, k, left
    <3>. QED  BY <3>1, <3>2 DEF Observed
  <2>. QED  BY <1>3, <2>1, <2>2
<1>8. ASSUME Slots(mObservations, mvpMapPoints, calls[t])  PROVE Slots(mObservations', mvpMapPoints', f \o Tail(calls[t]))
  <2>. HIDE DEF p, k, left
  <2>1. Slots(mObservations', mvpMapPoints, f \o Tail(calls[t]))
    BY <1>1, <1>2, <1>6, <1>7, <1>8, EraseObservationSlots
  <2>. QED  BY <1>4, <2>1
<1>. QED  BY <1>1, <1>4, <1>5, <1>8, SlotsReturn

LEMMA EraseMatchKeepsSlots ==
  ASSUME IInv, SlotInv, NEW t \in Threads, EraseMapPointMatch(t)
  PROVE  SlotInv'
<1>. DEFINE c == Head(calls[t])
<1>1. calls[t] # <<>> /\ c.do = "EraseMatch"
  BY DEF EraseMapPointMatch, Calls
<1>2. /\ calls[t] \in Seq(ACalls) /\ c = EraseMatch(c.kf, c.mp)
      /\ c.mp \in Points /\ c.mp \in 1..points /\ c.kf \in KeyFrames /\ c.kf \in 1..keyFrames
  BY <1>1, HeadIs
<1>3. UNCHANGED pointVars /\ OnlyPoints
      /\ Return(t, IF c.kf \in Observers(c.mp) THEN <<SetMatch(c.kf, mObservations[c.mp][c.kf], None)>> ELSE <<>>)
  BY DEF EraseMapPointMatch
<1>4. mvpMapPoints' = mvpMapPoints /\ erasedLate' = erasedLate /\ mObservations' = mObservations
  BY <1>3, OnlyPointsPlaces DEF pointVars
<1>. HIDE DEF c
<1>5. ASSUME c.kf \notin Observers(c.mp)  PROVE SlotInv'
  <2>1. Return(t, <<>>)
    BY <1>3, <1>5
  <2>2. PICK f \in Seq(ACalls) : f = <<>>
    BY NothingToCall
  <2>3. ASSUME Slots(mObservations, mvpMapPoints, calls[t])  PROVE Slots(mObservations', mvpMapPoints', <<>> \o Tail(calls[t]))
    <3>1. Slots(mObservations, mvpMapPoints, f \o Tail(calls[t]))
      BY <1>1, <1>2, <2>2, <2>3, EraseMatchSlots DEF c
    <3>. QED  BY <1>4, <2>2, <3>1
  <2>. QED  BY <1>1, <1>4, <2>1, <2>3, SlotsReturn
<1>6. ASSUME c.kf \in Observers(c.mp)  PROVE SlotInv'
  <2>1. PICK i : i = mObservations[c.mp][c.kf]
    OBVIOUS
  <2>2. i \in Features /\ Observed(mObservations, c.mp, c.kf, i)
    <3>1. mObservations[c.mp] \in ObservationsTo(keyFrames) /\ keyFrames \in Nat
      BY <1>2, CallsTyped DEF IInv, Types
    <3>2. i \in Features
      BY <1>6, <2>1, <3>1, ObservationsAreFinite, Zenon DEF Observers
    <3>. QED  BY <1>6, <2>1, <3>2 DEF Observed, Observers
  <2>3. Return(t, <<SetMatch(c.kf, i, None)>>)
    BY <1>3, <1>6, <2>1
  <2>4. <<SetMatch(c.kf, i, None)>> \in Seq(ACalls)
    <3>1. None \in 0..points
      BY CallsTyped DEF None
    <3>2. SetMatch(c.kf, i, None) \in ACalls
      BY <1>2, <2>2, <3>1, MoreCalls
    <3>. QED  BY <3>2, ListCalls
  <2>5. ASSUME Slots(mObservations, mvpMapPoints, calls[t])
        PROVE  Slots(mObservations', mvpMapPoints', <<SetMatch(c.kf, i, None)>> \o Tail(calls[t]))
    <3>1. PICK f \in Seq(ACalls) : f = <<SetMatch(c.kf, i, None)>>
      BY <2>4
    <3>2. Slots(mObservations, mvpMapPoints, f \o Tail(calls[t]))
      BY <1>1, <1>2, <2>2, <2>5, <3>1, EraseMatchSlots DEF c
    <3>. QED  BY <1>4, <3>1, <3>2
  <2>. QED  BY <1>1, <1>4, <2>3, <2>5, SlotsReturn
<1>. QED  BY <1>5, <1>6

LEMMA MoveKeepsSlots ==
  ASSUME IInv, SlotInv, NEW t \in Threads, MoveOne(t)
  PROVE  SlotInv'
<1>. DEFINE c == Head(calls[t])
<1>1. calls[t] # <<>> /\ c.do = "MoveObservation"
  BY DEF MoveOne, Calls
<1>2. /\ calls[t] \in Seq(ACalls) /\ c = MoveObservation(c.mp, c.kf, c.idx)
      /\ c.mp \in 1..points /\ c.kf \in KeyFrames /\ c.kf \in 1..keyFrames /\ c.idx \in Features
  BY <1>1, HeadIs
<1>3. /\ UNCHANGED pointVars /\ OnlyPoints
      /\ Return(t, IF c.kf \in Observers(c.mp) THEN <<SetMatch(c.kf, c.idx, None)>>
                   ELSE <<SetMatch(c.kf, c.idx, c.mp), AddObservationOf(c.mp, c.kf, c.idx)>>)
  BY DEF MoveOne
<1>4. mvpMapPoints' = mvpMapPoints /\ erasedLate' = erasedLate /\ mObservations' = mObservations
  BY <1>3, OnlyPointsPlaces DEF pointVars
<1>. HIDE DEF c
<1>5. PICK f : /\ f = <<SetMatch(c.kf, c.idx, None)>> \/ f = <<SetMatch(c.kf, c.idx, c.mp), AddObservationOf(c.mp, c.kf, c.idx)>>
               /\ Return(t, f)
  BY <1>3
<1>6. f \in Seq(ACalls)
  <2>1. None \in 0..points /\ c.mp \in 0..points
    BY <1>2, CallsTyped DEF None
  <2>2. SetMatch(c.kf, c.idx, None) \in ACalls /\ SetMatch(c.kf, c.idx, c.mp) \in ACalls /\ AddObservationOf(c.mp, c.kf, c.idx) \in ACalls
    BY <1>2, <2>1, MoreCalls
  <2>3. \A a, b \in ACalls : <<a>> \in Seq(ACalls) /\ <<a, b>> \in Seq(ACalls)
    OBVIOUS
  <2>. QED  BY <1>5, <2>2, <2>3
<1>7. ASSUME Slots(mObservations, mvpMapPoints, calls[t])  PROVE Slots(mObservations', mvpMapPoints', f \o Tail(calls[t]))
  <2>1. Head(calls[t]) = MoveObservation(c.mp, c.kf, c.idx)
    BY <1>2 DEF c
  <2>2. Slots(mObservations, mvpMapPoints, f \o Tail(calls[t]))
    BY <1>1, <1>2, <1>5, <1>6, <1>7, <2>1, MoveSlots
  <2>. QED  BY <1>4, <2>2
<1>. QED  BY <1>1, <1>4, <1>5, <1>7, SlotsReturn

LEMMA AssociateKeepsSlots ==
  ASSUME IInv, SlotInv, NEW t \in Threads, AssociateMapPoint(t)
  PROVE  SlotInv'
<1>. DEFINE c == Head(calls[t])
<1>1. calls[t] # <<>> /\ c.do = "Associate"
  BY DEF AssociateMapPoint, Calls
<1>2. /\ calls[t] \in Seq(ACalls) /\ c = Associate(c.mp, c.kf, c.idx)
      /\ c.mp \in 1..points /\ c.kf \in KeyFrames /\ c.kf \in 1..keyFrames /\ c.idx \in Features
  BY <1>1, HeadIs
<1>3. \E f \in {<<>>, <<AddObservationOf(c.mp, c.kf, c.idx)>>} : Return(t, f)
  BY DEF AssociateMapPoint
<1>4. mvpMapPoints' = mvpMapPoints /\ erasedLate' = erasedLate /\ mObservations' = mObservations
  BY DEF AssociateMapPoint, ButPoints, pointVars, keyFrameVars
<1>. HIDE DEF c
<1>5. PICK f : (f = <<>> \/ f = <<AddObservationOf(c.mp, c.kf, c.idx)>>) /\ Return(t, f)
  BY <1>3
<1>6. f \in Seq(ACalls)
  <2>1. AddObservationOf(c.mp, c.kf, c.idx) \in ACalls
    BY <1>2, MoreCalls
  <2>2. <<>> \in Seq(ACalls) /\ <<AddObservationOf(c.mp, c.kf, c.idx)>> \in Seq(ACalls)
    BY <2>1, NothingToCall, ListCalls
  <2>. QED  BY <1>5, <2>2
<1>7. ASSUME Slots(mObservations, mvpMapPoints, calls[t])  PROVE Slots(mObservations', mvpMapPoints', f \o Tail(calls[t]))
  <2>1. Head(calls[t]) = Associate(c.mp, c.kf, c.idx)
    BY <1>2 DEF c
  <2>2. Slots(mObservations, mvpMapPoints, f \o Tail(calls[t]))
    BY <1>1, <1>2, <1>5, <1>6, <1>7, <2>1, AssociateSlots
  <2>. QED  BY <1>4, <2>2
<1>. QED  BY <1>1, <1>4, <1>5, <1>7, SlotsReturn

\* Calls that are about neither slots nor observations.
LEMMA OtherReturn ==
  ASSUME IInv, SlotInv, NEW t \in Threads, calls[t] # <<>>, Head(calls[t]).do \in QuietNames, Return(t, <<>>),
         UNCHANGED <<mObservations, mvpMapPoints, erasedLate>>
  PROVE  SlotInv'
<1>1. calls[t] \in Seq(ACalls)
  BY CallsTyped
<1>2. PICK f \in Seq(ACalls) : f = <<>>
  BY NothingToCall
<1>3. ASSUME AllShown(mObservations, mvpMapPoints)  PROVE Slots(mObservations', mvpMapPoints', f)
  <2>1. Slots(mObservations, mvpMapPoints, f)
    BY <1>2, <1>3, NothingToCall, QuietSlots
  <2>. QED  BY <2>1
<1>4. Return(t, f) /\ \A c \in CallsIn(f) : c.do # "Associate"
  BY <1>2, NothingToCall
<1>. QED  BY <1>1, <1>3, <1>4, QuietReturn

LEMMA OtherCallsKeepSlots ==
  ASSUME IInv, SlotInv, NEW t \in Threads, MarkKeyFrameBad(t) \/ UpdateMap(t) \/ UnlockMapUpdate(t)
  PROVE  SlotInv'
<1>1. calls[t] # <<>> /\ Head(calls[t]).do \in QuietNames /\ Return(t, <<>>)
  BY DEF MarkKeyFrameBad, UpdateMap, UnlockMapUpdate, Calls, QuietNames
<1>2. UNCHANGED <<mObservations, mvpMapPoints, erasedLate>>
  BY DEF MarkKeyFrameBad, UpdateMap, UnlockMapUpdate, ButPoints, pointVars, keyFrameVars
<1>. QED  BY <1>1, <1>2, OtherReturn

LEMMA ForgetKeepsSlots ==
  ASSUME IInv, SlotInv, NEW t \in Threads, ForgetMatch(t)
  PROVE  SlotInv'
<1>. DEFINE k == Head(calls[t]).kf
            p == mvpMapPoints[k][Head(calls[t]).idx]
<1>1. calls[t] # <<>> /\ Head(calls[t]).do = "Forget" /\ Head(calls[t]).do \in QuietNames
  BY DEF ForgetMatch, Calls, QuietNames
<1>2. k \in 1..keyFrames /\ k \in KeyFrames /\ Head(calls[t]).idx \in Features
  BY <1>1, HeadTyped, CallsTyped
<1>3. UNCHANGED pointVars /\ OnlyPoints /\ Return(t, IF p = None THEN <<>> ELSE <<EraseObservationOf(p, k)>>)
  BY DEF ForgetMatch
<1>4. mvpMapPoints' = mvpMapPoints /\ erasedLate' = erasedLate /\ mObservations' = mObservations
  BY <1>3, OnlyPointsPlaces DEF pointVars
<1>5. p \in 0..points
  BY <1>2 DEF IInv, Types
<1>. HIDE DEF k, p
<1>6. ASSUME p = None  PROVE SlotInv'
  BY <1>1, <1>3, <1>4, <1>6, OtherReturn
<1>7. ASSUME p # None  PROVE SlotInv'
  <2>1. p \in 1..points
    BY <1>5, <1>7, CallsTyped DEF None
  <2>2. PICK f : f = <<EraseObservationOf(p, k)>>
    OBVIOUS
  <2>3. f \in Seq(ACalls) /\ \A c \in CallsIn(f) : c.do # "Associate"
    <3>1. EraseObservationOf(p, k) \in ACalls /\ EraseObservationOf(p, k).do = "EraseObservation"
      BY <1>2, <2>1, MoreCalls, CallParts
    <3>. QED  BY <2>2, <3>1, ListCalls
  <2>4. ASSUME AllShown(mObservations, mvpMapPoints)  PROVE Slots(mObservations', mvpMapPoints', f)
    <3>1. Slots(mObservations, mvpMapPoints, f)
      BY <2>2, <2>4, ErasingSlots
    <3>. QED  BY <1>4, <3>1
  <2>5. Return(t, f) /\ calls[t] \in Seq(ACalls)
    BY <1>3, <1>7, <2>2, CallsTyped
  <2>. QED  BY <1>1, <1>4, <2>3, <2>4, <2>5, QuietReturn
<1>. QED  BY <1>6, <1>7

\* An enumeration names no element twice.
LEMMA OrdersApart ==
  ASSUME NEW S, NEW s \in Orders(S), IsFiniteSet(S)
  PROVE  \A m, n \in 1..Len(s) : s[m] = s[n] => m = n
<1>1. Len(s) = Cardinality(S)
  BY OrdersFacts
<1>2. \A m, n \in 1..Cardinality(S) : s[m] = s[n] => m = n
  BY DEF Orders, Bijection, Injection, IsInjective
<1>. QED  BY <1>1, <1>2

(* A list written out as a function of 1..N has length N. *)
LEMMA ListLength ==
  ASSUME NEW N \in Nat, NEW l, l = [n \in 1..N |-> l[n]]
  PROVE  Len(l) = N
OBVIOUS

LEMMA TakenSlots ==
  ASSUME IInv, NEW p \in 1..points, TakeObservations(p), NEW ks \in Orders(Observers(p))
  PROVE  /\ \A q \in Points : \A j, n : Observed(mObservations', q, j, n) => Observed(mObservations, q, j, n) /\ q # p
         /\ Len(ks) \in Nat
         /\ \A n \in 1..Len(ks) : /\ ks[n] \in 1..keyFrames /\ ks[n] \in KeyFrames /\ mObservations[p][ks[n]] \in Features
                                  /\ Observed(mObservations, p, ks[n], mObservations[p][ks[n]])
         /\ \A m, n \in 1..Len(ks) : ks[m] = ks[n] => m = n
<1>1. p \in Points /\ 1..keyFrames \subseteq KeyFrames /\ keyFrames \in Nat
  BY CallsTyped
<1>2. \A q \in Points : mObservations'[q] = IF q = p THEN <<>> ELSE mObservations[q]
  BY <1>1 DEF TakeObservations, IInv, Types
<1>3. \A q \in Points : \A j, n : Observed(mObservations', q, j, n) => Observed(mObservations, q, j, n) /\ q # p
  <2>1. DOMAIN <<>> = {}
    OBVIOUS
  <2>. QED  BY <1>2, <2>1 DEF Observed
<1>4. /\ Len(ks) \in Nat
      /\ \A n \in 1..Len(ks) : ks[n] \in 1..keyFrames /\ mObservations[p][ks[n]] \in Features
  BY TheObservers
<1>5. IsFiniteSet(Observers(p))
  <2>1. mObservations[p] \in ObservationsTo(keyFrames)
    BY <1>1 DEF IInv, Types
  <2>. QED  BY <1>1, <2>1, ObservationsAreFinite, Zenon DEF Observers
<1>6. \A n \in 1..Len(ks) : ks[n] \in Observers(p)
  BY <1>5, OrdersFacts
<1>7. \A m, n \in 1..Len(ks) : ks[m] = ks[n] => m = n
  BY <1>5, OrdersApart
<1>8. \A n \in 1..Len(ks) : Observed(mObservations, p, ks[n], mObservations[p][ks[n]])
  BY <1>6 DEF Observed, Observers
<1>. QED  BY <1>1, <1>3, <1>4, <1>7, <1>8

LEMMA CallsOfAppend ==
  ASSUME NEW S, NEW list \in Seq(S), NEW c \in S
  PROVE  Append(list, c) = list \o <<c>> /\ Append(list, c) \in Seq(S) /\ CallsIn(Append(list, c)) = CallsIn(list) \cup {c}
<1>1. PICK T \in Seq(S) : T = <<c>> /\ CallsIn(T) = {c}
  BY ListCalls
<1>2. Append(list, c) = list \o T /\ Append(list, c) \in Seq(S)
  BY <1>1, AppendIsConcat, AppendProperties
<1>3. CallsIn(list \o T) = CallsIn(list) \cup CallsIn(T)
  BY CallsOfJoin
<1>. QED  BY <1>1, <1>2, <1>3

\* A list is followed by one quiet call more.
LEMMA OneQuietMore ==
  ASSUME NEW S, NEW list \in Seq(S), NEW c \in S, c.do \notin SlotNames, \A d \in CallsIn(list) : d.do # "Associate"
  PROVE  /\ Append(list, c) \in Seq(S)
         /\ \A d \in CallsIn(Append(list, c)) : d.do # "Associate"
         /\ \A obs, slot : Slots(obs, slot, list) => Slots(obs, slot, Append(list, c))
<1>1. PICK T \in Seq(S) : T = <<c>> /\ CallsIn(T) = {c}
  BY ListCalls
<1>2. Append(list, c) = list \o T /\ Append(list, c) \in Seq(S) /\ CallsIn(Append(list, c)) = CallsIn(list) \cup {c}
  BY <1>1, CallsOfAppend
<1>3. Quiet(T) /\ c.do # "Associate"
  BY <1>1 DEF Quiet, SlotNames
<1>4. \A obs, slot : Slots(obs, slot, list) => Slots(obs, slot, list \o T)
  BY <1>3, QuietRest
<1>. QED  BY <1>2, <1>3, <1>4

LEMMA SetBadFlagKeepsSlots ==
  ASSUME IInv, SlotInv, NEW t \in Threads, SetBadFlag(t)
  PROVE  SlotInv'
<1>. DEFINE p == Head(calls[t]).mp
            list(ks) == [n \in 1..Len(ks) |-> SetMatch(ks[n], mObservations[p][ks[n]], None)]
<1>1. calls[t] # <<>> /\ Head(calls[t]).do = "SetBadFlag" /\ Head(calls[t]).do \in QuietNames
  BY DEF SetBadFlag, Calls, QuietNames
<1>2. p \in 1..points /\ None \in 0..points
  BY <1>1, HeadTyped DEF None
<1>3. TakeObservations(p) /\ OnlyPoints /\ \E ks \in Orders(Observers(p)) : Return(t, Append(list(ks), EraseFromMap(p)))
  BY DEF SetBadFlag
<1>4. PICK ks \in Orders(Observers(p)) : Return(t, Append(list(ks), EraseFromMap(p)))
  BY <1>3
<1>5. mvpMapPoints' = mvpMapPoints /\ erasedLate' = erasedLate
  BY <1>3, OnlyPointsPlaces
<1>. HIDE DEF p
<1>6. /\ \A q \in Points : \A j, n : Observed(mObservations', q, j, n) => Observed(mObservations, q, j, n) /\ q # p
      /\ Len(ks) \in Nat
      /\ \A n \in 1..Len(ks) : /\ ks[n] \in 1..keyFrames /\ ks[n] \in KeyFrames /\ mObservations[p][ks[n]] \in Features
                               /\ Observed(mObservations, p, ks[n], mObservations[p][ks[n]])
  BY <1>2, <1>3, TakenSlots
<1>7. PICK l : l = list(ks)
  OBVIOUS
<1>8. /\ l \in Seq(ACalls)
      /\ \A c \in CallsIn(l) : \E k \in KeyFrames, i \in Features : c = SetMatch(k, i, None) /\ Observed(mObservations, p, k, i)
  <2>1. \A n \in 1..Len(ks) : SetMatch(ks[n], mObservations[p][ks[n]], None) \in ACalls
    BY <1>2, <1>6, MoreCalls
  <2>2. Len(l) = Len(ks) /\ \A n \in 1..Len(ks) : l[n] = SetMatch(ks[n], mObservations[p][ks[n]], None)
    <3>1. l = [n \in 1..Len(ks) |-> l[n]]
      BY <1>7
    <3>2. \A n \in 1..Len(ks) : l[n] = SetMatch(ks[n], mObservations[p][ks[n]], None)
      BY <1>7
    <3>3. Len(l) = Len(ks)
      BY <1>6, <3>1, ListLength, Zenon
    <3>. QED  BY <3>2, <3>3
  <2>3. l \in Seq(ACalls)
    BY <1>6, <1>7, <2>1
  <2>. QED  BY <1>6, <2>2, <2>3 DEF CallsIn
<1>9. ASSUME AllShown(mObservations, mvpMapPoints)  PROVE Slots(mObservations', mvpMapPoints', l)
  <2>1. p \in Points
    BY <1>2, CallsTyped
  <2>2. Slots(mObservations', mvpMapPoints, l)
    BY <1>6, <1>8, <1>9, <2>1, ClearingSlots
  <2>. QED  BY <1>5, <2>2
<1>10. PICK f : f = Append(l, EraseFromMap(p))
  OBVIOUS
<1>11. EraseFromMap(p) \in ACalls /\ EraseFromMap(p).do \notin SlotNames /\ \A d \in CallsIn(l) : d.do # "Associate"
  BY <1>2, <1>8, MoreCalls, CallParts DEF SlotNames
<1>12. /\ f \in Seq(ACalls) /\ \A d \in CallsIn(f) : d.do # "Associate"
       /\ AllShown(mObservations, mvpMapPoints) => Slots(mObservations', mvpMapPoints', f)
  <2>1. PICK e \in ACalls : e = EraseFromMap(p) /\ e.do \notin SlotNames
    BY <1>11
  <2>2. /\ Append(l, e) \in Seq(ACalls) /\ \A d \in CallsIn(Append(l, e)) : d.do # "Associate"
        /\ \A obs, slot : Slots(obs, slot, l) => Slots(obs, slot, Append(l, e))
    BY <1>8, <1>11, <2>1, OneQuietMore
  <2>. QED  BY <1>9, <1>10, <2>1, <2>2
<1>13. Return(t, f) /\ calls[t] \in Seq(ACalls)
  BY <1>4, <1>7, <1>10, CallsTyped
<1>. QED  BY <1>1, <1>5, <1>12, <1>13, QuietReturn

LEMMA ReplaceKeepsSlots ==
  ASSUME IInv, SlotInv, NEW t \in Threads, Replace(t)
  PROVE  SlotInv'
<1>. DEFINE p == Head(calls[t]).mp
            q == Head(calls[t]).by
            list(ks) == [n \in 1..Len(ks) |-> MoveObservation(q, ks[n], mObservations[p][ks[n]])]
<1>1. calls[t] # <<>> /\ Head(calls[t]).do = "Replace" /\ Head(calls[t]).do \in QuietNames
  BY DEF Replace, Calls, QuietNames
<1>2. p \in 1..points /\ q \in 1..points
  BY <1>1, HeadTyped
<1>3. /\ OnlyPoints
      /\ \/ Return(t, <<>>) /\ mObservations' = mObservations
         \/ TakeObservations(p) /\ \E ks \in Orders(Observers(p)) : Return(t, Append(list(ks), EraseFromMap(p)))
  BY DEF Replace
<1>4. mvpMapPoints' = mvpMapPoints /\ erasedLate' = erasedLate
  BY <1>3, OnlyPointsPlaces
<1>. HIDE DEF p, q
<1>5. ASSUME Return(t, <<>>), mObservations' = mObservations  PROVE SlotInv'
  BY <1>1, <1>4, <1>5, OtherReturn
<1>6. ASSUME TakeObservations(p), NEW ks \in Orders(Observers(p)), Return(t, Append(list(ks), EraseFromMap(p)))  PROVE SlotInv'
  <2>1. /\ \A o \in Points : \A j, n : Observed(mObservations', o, j, n) => Observed(mObservations, o, j, n) /\ o # p
        /\ Len(ks) \in Nat
        /\ \A n \in 1..Len(ks) : /\ ks[n] \in 1..keyFrames /\ ks[n] \in KeyFrames /\ mObservations[p][ks[n]] \in Features
                                 /\ Observed(mObservations, p, ks[n], mObservations[p][ks[n]])
        /\ \A m, n \in 1..Len(ks) : ks[m] = ks[n] => m = n
    BY <1>2, <1>6, TakenSlots
  <2>2. PICK l : l = list(ks)
    OBVIOUS
  <2>3. Len(l) = Len(ks) /\ \A n \in 1..Len(ks) : l[n] = MoveObservation(q, ks[n], mObservations[p][ks[n]])
    <3>1. l = [n \in 1..Len(ks) |-> l[n]]
      BY <2>2
    <3>2. \A n \in 1..Len(ks) : l[n] = MoveObservation(q, ks[n], mObservations[p][ks[n]])
      BY <2>2
    <3>3. Len(l) = Len(ks)
      BY <2>1, <3>1, ListLength, Zenon
    <3>. QED  BY <3>2, <3>3
  <2>4. l \in Seq(ACalls)
    <3>1. \A n \in 1..Len(ks) : MoveObservation(q, ks[n], mObservations[p][ks[n]]) \in ACalls
      BY <1>2, <2>1, MoreCalls
    <3>. QED  BY <2>1, <2>2, <3>1
  <2>5. \A c \in CallsIn(l) : \E k \in KeyFrames, i \in Features : c = MoveObservation(q, k, i) /\ Observed(mObservations, p, k, i)
    BY <2>1, <2>3 DEF CallsIn
  <2>6. Apart(l, "MoveObservation")
    <3>1. \A n \in 1..Len(l) : n \in 1..Len(ks) /\ l[n].kf = ks[n]
      BY <2>3, CallParts
    <3>. QED  BY <2>1, <3>1 DEF Apart
  <2>7. ASSUME AllShown(mObservations, mvpMapPoints)  PROVE Slots(mObservations', mvpMapPoints', l)
    <3>1. p \in Points
      BY <1>2, CallsTyped
    <3>2. Slots(mObservations', mvpMapPoints, l)
      BY <2>1, <2>5, <2>6, <2>7, <3>1, MovingSlots
    <3>. QED  BY <1>4, <3>2
  <2>8. EraseFromMap(p) \in ACalls /\ EraseFromMap(p).do \notin SlotNames /\ \A d \in CallsIn(l) : d.do # "Associate"
    BY <1>2, <2>5, MoreCalls, CallParts DEF SlotNames
  <2>9. PICK f : f = Append(l, EraseFromMap(p))
    OBVIOUS
  <2>10. /\ f \in Seq(ACalls) /\ \A d \in CallsIn(f) : d.do # "Associate"
         /\ AllShown(mObservations, mvpMapPoints) => Slots(mObservations', mvpMapPoints', f)
    <3>1. PICK e \in ACalls : e = EraseFromMap(p) /\ e.do \notin SlotNames
      BY <2>8
    <3>2. /\ Append(l, e) \in Seq(ACalls) /\ \A d \in CallsIn(Append(l, e)) : d.do # "Associate"
          /\ \A obs, slot : Slots(obs, slot, l) => Slots(obs, slot, Append(l, e))
      BY <2>4, <2>8, <3>1, OneQuietMore
    <3>. QED  BY <2>7, <2>9, <3>1, <3>2
  <2>11. Return(t, f) /\ calls[t] \in Seq(ACalls)
    BY <1>6, <2>2, <2>9, CallsTyped
  <2>. QED  BY <1>1, <1>4, <2>10, <2>11, QuietReturn
<1>. QED  BY <1>3, <1>5, <1>6

LEMMA RunCallKeepsSlots ==
  ASSUME IInv, SlotInv, NEW t \in Threads, RunCall(t)
  PROVE  SlotInv'
BY SetMatchKeepsSlots, AddObservationKeepsSlots, EraseObservationKeepsSlots, EraseMatchKeepsSlots, MoveKeepsSlots,
   AssociateKeepsSlots, OtherCallsKeepSlots, ForgetKeepsSlots, SetBadFlagKeepsSlots, ReplaceKeepsSlots DEF RunCall

-----------------------------------------------------------------------------
(* Where a thread starts, nobody is at work unless an erasure has been made up for. *)

LEMMA MappingAlone ==
  ASSUME IInv, Idle("mapping"), mapper # "stopped"
  PROVE  erasedLate = {} => \A u \in Threads : Idle(u)
<1>1. looper # "fuse"
  BY DEF IInv, Places
<1>2. erasedLate = {} => Idle("looping")
  BY <1>1 DEF IInv, Turns
<1>. QED  BY <1>2, TheThreads

LEMMA FusingAlone ==
  ASSUME IInv, Idle("looping"), looper = "fuse" \/ mapper = "idle"
  PROVE  \A u \in Threads : Idle(u)
<1>1. mapper \in {"idle", "stopped"}
  BY DEF IInv, Places
<1>2. Idle("mapping")
  BY <1>1 DEF IInv, Turns
<1>. QED  BY <1>2, TheThreads

\* A list that is not about slots, or about free ones.
LEMMA StartQuietly ==
  ASSUME IInv, SlotInv, NEW t \in Threads, erasedLate = {} => \A u \in Threads : Idle(u),
         NEW L, Call(t, L), Quiet(L), UNCHANGED <<mObservations, mvpMapPoints, erasedLate>>
  PROVE  SlotInv'
<1>1. ASSUME AllShown(mObservations, mvpMapPoints)  PROVE Slots(mObservations', mvpMapPoints', L)
  <2>1. Slots(mObservations, mvpMapPoints, L)
    BY <1>1, QuietSlots
  <2>. QED  BY <2>1
<1>. QED  BY <1>1, SlotsStart

LEMMA MakeObservedSlots ==
  ASSUME NEW obs, NEW slot, AllShown(obs, slot), NEW k \in KeyFrames, NEW i \in Features, NEW p, slot[k][i] = None
  PROVE  Slots(obs, slot, MakeObserved(p, k, i))
<1>1. PICK f : f = MakeObserved(p, k, i)
  OBVIOUS
<1>2. CallsIn(f) = {AddObservationOf(p, k, i), SetMatch(k, i, p)}
  BY <1>1, CallsOfList DEF MakeObserved
<1>. QED  BY <1>1, <1>2, FreeSlots

LEMMA FrameKeepsSlots ==
  ASSUME SlotInv, CheckReplacedInLastFrame \/ TrackLocalMap \/ EndFrame
  PROVE  SlotInv'
<1>1. UNCHANGED <<mObservations, mvpMapPoints, calls>> /\ erasedLate \subseteq erasedLate'
  BY DEF CheckReplacedInLastFrame, TrackLocalMap, EndFrame, TrackRest, pointVars, keyFrameVars
<1>. QED  BY <1>1, SlotsKept

LEMMA ProcessNewKeyFrameKeepsSlots ==
  ASSUME IInv, SlotInv, ProcessNewKeyFrame
  PROVE  SlotInv'
<1>. DEFINE k == Head(mlNewKeyFrames)
            list(is) == [n \in 1..Len(is) |-> Associate(mvpMapPoints[k][is[n]], k, is[n])]
            Shows == {i \in Features : mvpMapPoints[k][i] # None}
<1>1. mapper = "idle" /\ UNCHANGED <<pointVars, mvpMapPoints, keyFrameVars>>
  BY DEF ProcessNewKeyFrame, MappingRest
<1>2. PICK is \in Ascending(Shows) : Call("mapping", Append(list(is), InsertInMap(k)))
  BY DEF ProcessNewKeyFrame
<1>3. Idle("mapping") /\ UNCHANGED <<mObservations, mvpMapPoints, erasedLate>>
  BY <1>1 DEF IInv, Turns, pointVars, keyFrameVars
<1>4. Len(is) \in Nat
  <2>1. Shows \in SUBSET Features /\ IsFiniteSet(Features)
    BY MapPointsAssumption
  <2>2. IsFiniteSet(Shows)
    BY <2>1, FS_Subset
  <2>3. is \in Orders(Shows)
    BY DEF Ascending
  <2>. QED  BY <2>2, <2>3, OrdersFacts
<1>. HIDE DEF k
<1>5. PICK l : l = list(is)
  OBVIOUS
<1>6. Len(l) = Len(is) /\ \A n \in 1..Len(is) : l[n] = Associate(mvpMapPoints[k][is[n]], k, is[n])
  <2>1. l = [n \in 1..Len(is) |-> l[n]]
    BY <1>5
  <2>2. \A n \in 1..Len(is) : l[n] = Associate(mvpMapPoints[k][is[n]], k, is[n])
    BY <1>5
  <2>3. Len(l) = Len(is)
    BY <1>4, <2>1, ListLength, Zenon
  <2>. QED  BY <2>2, <2>3
<1>7. PICK f : f = Append(l, InsertInMap(k))
  OBVIOUS
<1>8. /\ Len(f) = Len(l) + 1 /\ f[Len(l) + 1] = InsertInMap(k)
      /\ \A n \in 1..Len(l) : f[n] = l[n]
  <2>1. PICK S : l \in Seq(S) /\ InsertInMap(k) \in S
    <3>1. l \in Seq({l[n] : n \in 1..Len(is)} \cup {InsertInMap(k)})
      BY <1>4, <1>5
    <3>. QED  BY <3>1
  <2>. QED  BY <1>7, <2>1, AppendProperties
<1>9. \A n \in 1..Len(f) : f[n].do \in {"Associate", "InsertInMap"} /\ (n \in 1..Len(l) \/ n = Len(l) + 1)
  <2>1. \A n \in 1..Len(f) : n \in 1..Len(l) \/ n = Len(l) + 1
    BY <1>4, <1>6, <1>8
  <2>. QED  BY <1>6, <1>8, <2>1, CallParts
<1>10. Before(f, {"Associate"}, {"AddObservation", "Associate"})
  <2>. SUFFICES ASSUME NEW n \in 1..Len(f), f[n].do = "Associate", NEW m \in 1..(n - 1)  PROVE f[m].do = "Associate"
    BY DEF Before
  <2>1. m \in 1..Len(l)
    BY <1>4, <1>6, <1>8
  <2>. QED  BY <1>6, <1>8, <2>1, CallParts
<1>11. \A c \in CallsIn(f) : c = InsertInMap(k) \/ \E i, p : mvpMapPoints[k][i] = p /\ c = Associate(p, k, i)
  BY <1>6, <1>8, <1>9 DEF CallsIn
<1>12. AllShown(mObservations, mvpMapPoints) => Slots(mObservations', mvpMapPoints', f)
  <2>. SUFFICES ASSUME AllShown(mObservations, mvpMapPoints)  PROVE Slots(mObservations, mvpMapPoints, f)
    BY <1>3
  <2>. QED  BY <1>10, <1>11, AssociatingSlots
<1>13. erasedLate = {} => \A u \in Threads : Idle(u)
  BY <1>1, <1>3, MappingAlone
<1>14. Call("mapping", f) /\ "mapping" \in Threads
  BY <1>2, <1>5, <1>7, TheThreads
<1>. QED  BY <1>3, <1>12, <1>13, <1>14, SlotsStart

-----------------------------------------------------------------------------
LEMMA ListsTyped ==
  /\ \A S : \A a, b \in S : <<a>> \in Seq(S) /\ <<a, b>> \in Seq(S)
  /\ \A S : \A a, b, c, d \in S : <<a, b, c, d>> \in Seq(S)
<1>1. \A S : \A a, b \in S : <<a>> \in Seq(S) /\ <<a, b>> \in Seq(S)
  OBVIOUS
<1>2. \A S : \A a, b, c, d \in S : <<a, b, c, d>> \in Seq(S)
  OBVIOUS
<1>. QED  BY <1>1, <1>2

LEMMA FiveCalls ==
  ASSUME NEW S, NEW a \in S, NEW b \in S, NEW c \in S, NEW d \in S, NEW e \in S
  PROVE  Append(<<a, b, c, d>>, e) = <<a, b, c, d, e>>
<1>1. <<a, b, c, d>> \in Seq(S) /\ <<a, b, c, d, e>> \in Seq(S)
  OBVIOUS
<1>2. Append(<<a, b, c, d>>, e) \in Seq(S) /\ Len(Append(<<a, b, c, d>>, e)) = 5 /\ Len(<<a, b, c, d, e>>) = 5
  BY <1>1, AppendProperties
<1>3. \A n \in 1..5 : Append(<<a, b, c, d>>, e)[n] = <<a, b, c, d, e>>[n]
  BY <1>1, AppendProperties
<1>. QED  BY <1>1, <1>2, <1>3, SeqEqual

LEMMA MakingSlots ==
  ASSUME NEW obs, NEW slot, AllShown(obs, slot), NEW k \in KeyFrames, NEW o \in KeyFrames, NEW i \in Features, NEW j \in Features,
         NEW p, slot[k][i] = None, slot[o][j] = None
  PROVE  Slots(obs, slot, <<AddObservationOf(p, k, i), AddObservationOf(p, o, j), SetMatch(k, i, p), SetMatch(o, j, p), AddToMap(p)>>)
<1>1. PICK a, b, c, d, e : /\ a = AddObservationOf(p, k, i) /\ b = AddObservationOf(p, o, j) /\ c = SetMatch(k, i, p)
                           /\ d = SetMatch(o, j, p) /\ e = AddToMap(p)
  OBVIOUS
<1>2. PICK S : a \in S /\ b \in S /\ c \in S /\ d \in S /\ e \in S
  <2>1. a \in {a, b, c, d, e} /\ b \in {a, b, c, d, e} /\ c \in {a, b, c, d, e} /\ d \in {a, b, c, d, e} /\ e \in {a, b, c, d, e}
    OBVIOUS
  <2>. QED  BY <2>1
<1>3. PICK f \in Seq(S) : f = <<a, b, c, d>>
  BY <1>2, ListsTyped
<1>4. CallsIn(f) = {a, b, c, d}
  <2>1. Len(f) = 4 /\ 1..4 = {1, 2, 3, 4}
    BY <1>3
  <2>2. CallsIn(f) = {f[n] : n \in {1, 2, 3, 4}}
    BY <2>1 DEF CallsIn
  <2>. QED  BY <1>3, <2>2
<1>5. Slots(obs, slot, f)
  BY <1>1, <1>4, FreeSlots
<1>6. e.do \notin SlotNames /\ \A x \in CallsIn(f) : x.do # "Associate"
  BY <1>1, <1>4, CallParts DEF SlotNames
<1>7. Slots(obs, slot, Append(f, e))
  BY <1>2, <1>5, <1>6, OneQuietMore
<1>8. Append(f, e) = <<a, b, c, d, e>>
  BY <1>2, <1>3, FiveCalls
<1>. QED  BY <1>1, <1>7, <1>8

LEMMA CorrectingSlots ==
  ASSUME NEW obs, NEW slot, AllShown(obs, slot), NEW k \in KeyFrames, NEW i \in Features, NEW p, slot[k][i] = None
  PROVE  Slots(obs, slot, <<SetMatch(k, i, p), AddObservationOf(p, k, i)>> \o <<Unlock>>)
<1>. DEFINE S == {SetMatch(k, i, p), AddObservationOf(p, k, i), Unlock}
<1>1. PICK f \in Seq(S) : f = <<SetMatch(k, i, p), AddObservationOf(p, k, i)>>
  BY ListsTyped
<1>2. PICK T \in Seq(S) : T = <<Unlock>>
  BY ListsTyped
<1>3. CallsIn(f) = {SetMatch(k, i, p), AddObservationOf(p, k, i)} /\ CallsIn(T) = {Unlock}
  BY <1>1, <1>2, CallsOfList
<1>4. Slots(obs, slot, f)
  BY <1>3, FreeSlots
<1>5. Quiet(T) /\ \A c \in CallsIn(f) : c.do # "Associate"
  BY <1>3, CallParts DEF Quiet, SlotNames
<1>6. Slots(obs, slot, f \o T)
  <2>. HIDE DEF S
  <2>. QED  BY <1>4, <1>5, QuietRest
<1>. QED  BY <1>1, <1>2, <1>6

LEMMA QuietLists ==
  /\ \A c : c.do \notin SlotNames => Quiet(<<c>>)
  /\ \A c, d : c.do \notin SlotNames /\ d.do \notin SlotNames => Quiet(<<c, d>>)
  /\ \A p, q : ReplaceBy(p, q).do \notin SlotNames
  /\ \A k, i : Forget(k, i).do \notin SlotNames
  /\ \A k : MarkBad(k).do \notin SlotNames
  /\ \A p : SetBadFlagOf(p).do \notin SlotNames
  /\ Unlock.do \notin SlotNames
<1>1. \A c, d : CallsIn(<<c>>) = {c} /\ CallsIn(<<c, d>>) = {c, d}
  BY CallsOfList
<1>. QED  BY <1>1, CallParts DEF Quiet, SlotNames

LEMMA QuietAppend ==
  ASSUME NEW S, NEW l \in Seq(S), NEW c \in S, Quiet(l), c.do \notin SlotNames
  PROVE  Quiet(Append(l, c)) /\ Quiet(l \o <<c>>)
<1>1. Append(l, c) = l \o <<c>> /\ CallsIn(Append(l, c)) = CallsIn(l) \cup {c}
  BY CallsOfAppend
<1>. QED  BY <1>1 DEF Quiet

LEMMA QuietEnd ==
  ASSUME NEW N \in Nat, NEW list, list = [n \in 1..N |-> list[n]], \A n \in 1..N : list[n].do \notin SlotNames,
         NEW c, c.do \notin SlotNames
  PROVE  Quiet(Append(list, c)) /\ Quiet(list \o <<c>>)
<1>1. PICK S : list \in Seq(S) /\ Len(list) = N /\ c \in S
  <2>. DEFINE S == {list[n] : n \in 1..N} \cup {c}
  <2>1. list \in Seq(S) /\ Len(list) = N /\ c \in S
    OBVIOUS
  <2>. QED  BY <2>1
<1>2. Quiet(list)
  BY <1>1 DEF Quiet, CallsIn
<1>. QED  BY <1>1, <1>2, QuietAppend

LEMMA EraseKeyFrameQuiet ==
  ASSUME NEW k, NEW is \in Ascending(Features)
  PROVE  Quiet(EraseKeyFrame(k, is))
<1>1. Len(is) \in Nat
  <2>1. is \in Orders(Features) /\ IsFiniteSet(Features)
    BY MapPointsAssumption DEF Ascending
  <2>. QED  BY <2>1, OrdersFacts
<1>2. PICK list : list = [n \in 1..Len(is) |-> Forget(k, is[n])]
  OBVIOUS
<1>3. \A n \in 1..Len(is) : list[n].do \notin SlotNames
  BY <1>2, QuietLists
<1>4. list = [n \in 1..Len(is) |-> list[n]] /\ MarkBad(k).do \notin SlotNames
  BY <1>2, QuietLists
<1>5. Quiet(list \o <<MarkBad(k)>>)
  BY <1>1, <1>3, <1>4, QuietEnd
<1>. QED  BY <1>2, <1>5 DEF EraseKeyFrame

LEMMA MapPointCullingKeepsSlots ==
  ASSUME IInv, SlotInv, MapPointCulling
  PROVE  SlotInv'
<1>1. mapper = "cull" /\ Idle("mapping") /\ UNCHANGED <<mObservations, mvpMapPoints, erasedLate>>
  BY DEF MapPointCulling, MappingRest, pointVars, keyFrameVars
<1>2. PICK p : Call("mapping", <<SetBadFlagOf(p)>>) \/ UNCHANGED calls
  BY DEF MapPointCulling
<1>3. CASE UNCHANGED calls
  BY <1>1, <1>3, SlotsKept
<1>4. CASE Call("mapping", <<SetBadFlagOf(p)>>)
  <2>1. Quiet(<<SetBadFlagOf(p)>>)
    BY QuietLists
  <2>2. erasedLate = {} => \A u \in Threads : Idle(u)
    BY <1>1, MappingAlone
  <2>. QED  BY <1>1, <1>4, <2>1, <2>2, TheThreads, StartQuietly
<1>. QED  BY <1>2, <1>3, <1>4

LEMMA CreateNewMapPointsKeepsSlots ==
  ASSUME IInv, SlotInv, CreateNewMapPoints
  PROVE  SlotInv'
<1>1. mapper \in {"cull", "create"} /\ Idle("mapping") /\ UNCHANGED <<mObservations, mvpMapPoints, erasedLate>>
  BY DEF CreateNewMapPoints, MappingRest, keyFrameVars
<1>2. PICK k \in Live, i \in Features, j \in Features :
        /\ mvpMapPoints[mpCurrentKF][i] = None /\ mvpMapPoints[k][j] = None
        /\ Call("mapping", <<AddObservationOf(points + 1, mpCurrentKF, i), AddObservationOf(points + 1, k, j),
                             SetMatch(mpCurrentKF, i, points + 1), SetMatch(k, j, points + 1), AddToMap(points + 1)>>)
  BY DEF CreateNewMapPoints
<1>3. k \in KeyFrames /\ mpCurrentKF \in KeyFrames
  <2>1. mpCurrentKF # 0 /\ mpCurrentKF \in 0..keyFrames
    BY <1>1 DEF IInv, Places
  <2>2. k \in 1..keyFrames
    BY DEF Live, IInv, Types
  <2>. QED  BY <2>1, <2>2, CallsTyped
<1>4. PICK L : L = <<AddObservationOf(points + 1, mpCurrentKF, i), AddObservationOf(points + 1, k, j),
                     SetMatch(mpCurrentKF, i, points + 1), SetMatch(k, j, points + 1), AddToMap(points + 1)>>
  OBVIOUS
<1>5. ASSUME AllShown(mObservations, mvpMapPoints)  PROVE Slots(mObservations', mvpMapPoints', L)
  <2>1. Slots(mObservations, mvpMapPoints, L)
    BY <1>2, <1>3, <1>4, <1>5, MakingSlots
  <2>. QED  BY <1>1, <2>1
<1>6. erasedLate = {} => \A u \in Threads : Idle(u)
  BY <1>1, MappingAlone
<1>7. Call("mapping", L) /\ "mapping" \in Threads
  BY <1>2, <1>4, TheThreads
<1>. QED  BY <1>1, <1>5, <1>6, <1>7, SlotsStart

LEMMA SearchInNeighborsKeepsSlots ==
  ASSUME IInv, SlotInv, SearchInNeighbors
  PROVE  SlotInv'
<1>1. mapper = "fuse" /\ Idle("mapping") /\ UNCHANGED <<mObservations, mvpMapPoints, erasedLate>>
  BY DEF SearchInNeighbors, MappingRest, pointVars, keyFrameVars
<1>2. PICK k \in Live \cup {mpCurrentKF}, i \in Features : \E p : Call("mapping", FuseCalls(p, k, i))
  BY DEF SearchInNeighbors
<1>3. PICK p : Call("mapping", FuseCalls(p, k, i))
  BY <1>2
<1>4. k \in KeyFrames
  <2>1. mpCurrentKF # 0 /\ mpCurrentKF \in 0..keyFrames
    BY <1>1 DEF IInv, Places
  <2>2. Live \subseteq 1..keyFrames
    BY DEF Live, IInv, Types
  <2>. QED  BY <2>1, <2>2, CallsTyped
<1>5. erasedLate = {} => \A u \in Threads : Idle(u)
  BY <1>1, MappingAlone
<1>6. CASE mvpMapPoints[k][i] = None
  <2>1. PICK L : L = MakeObserved(p, k, i)
    OBVIOUS
  <2>2. Call("mapping", L) /\ "mapping" \in Threads
    BY <1>3, <1>6, <2>1, TheThreads DEF FuseCalls
  <2>3. ASSUME AllShown(mObservations, mvpMapPoints)  PROVE Slots(mObservations', mvpMapPoints', L)
    <3>1. Slots(mObservations, mvpMapPoints, L)
      BY <1>4, <1>6, <2>1, <2>3, MakeObservedSlots
    <3>. QED  BY <1>1, <3>1
  <2>. QED  BY <1>1, <1>5, <2>2, <2>3, SlotsStart
<1>7. CASE mvpMapPoints[k][i] # None
  <2>1. PICK L : L = FuseCalls(p, k, i)
    OBVIOUS
  <2>2. L = <<>> \/ \E q, r : L = <<ReplaceBy(q, r)>>
    BY <1>7, <2>1 DEF FuseCalls
  <2>3. Quiet(L)
    BY <2>2, QuietLists, NothingToCall
  <2>. QED  BY <1>1, <1>3, <1>5, <2>1, <2>3, TheThreads, StartQuietly
<1>. QED  BY <1>6, <1>7

LEMMA LocalBundleAdjustmentKeepsSlots ==
  ASSUME IInv, SlotInv, LocalBundleAdjustment
  PROVE  SlotInv'
<1>1. mapper = "ba" /\ Idle("mapping") /\ UNCHANGED <<mObservations, mvpMapPoints, erasedLate>>
  BY DEF LocalBundleAdjustment, MappingRest, pointVars, keyFrameVars
<1>2. \E p, k : Call("mapping", <<EraseMatch(k, p), EraseObservationOf(p, k), Unlock>>)
  BY DEF LocalBundleAdjustment
<1>3. PICK p, k : Call("mapping", <<EraseMatch(k, p), EraseObservationOf(p, k), Unlock>>)
  BY <1>2
<1>4. PICK L : L = <<EraseMatch(k, p), EraseObservationOf(p, k), Unlock>>
  OBVIOUS
<1>5. ASSUME AllShown(mObservations, mvpMapPoints)  PROVE Slots(mObservations', mvpMapPoints', L)
  <2>1. Slots(mObservations, mvpMapPoints, L)
    BY <1>4, <1>5, ErasingSlots
  <2>. QED  BY <1>1, <2>1
<1>6. erasedLate = {} => \A u \in Threads : Idle(u)
  BY <1>1, MappingAlone
<1>7. Call("mapping", L) /\ "mapping" \in Threads
  BY <1>3, <1>4, TheThreads
<1>. QED  BY <1>1, <1>5, <1>6, <1>7, SlotsStart

LEMMA KeyFrameCullingKeepsSlots ==
  ASSUME IInv, SlotInv, KeyFrameCulling
  PROVE  SlotInv'
<1>1. mapper \in {"ba", "cullkf"} /\ Idle("mapping") /\ UNCHANGED <<mObservations, mvpMapPoints, erasedLate>>
  BY DEF KeyFrameCulling, pointVars
<1>2. PICK k : UNCHANGED calls \/ \E is \in Ascending(Features) : Call("mapping", EraseKeyFrame(k, is))
  BY DEF KeyFrameCulling
<1>3. CASE UNCHANGED calls
  BY <1>1, <1>3, SlotsKept
<1>4. CASE \E is \in Ascending(Features) : Call("mapping", EraseKeyFrame(k, is))
  <2>1. PICK is \in Ascending(Features) : Call("mapping", EraseKeyFrame(k, is))
    BY <1>4
  <2>2. Quiet(EraseKeyFrame(k, is))
    BY EraseKeyFrameQuiet
  <2>3. erasedLate = {} => \A u \in Threads : Idle(u)
    BY <1>1, MappingAlone
  <2>. QED  BY <1>1, <2>1, <2>2, <2>3, TheThreads, StartQuietly
<1>. QED  BY <1>2, <1>3, <1>4

LEMMA MappingKeepsSlots ==
  ASSUME IInv, SlotInv, Mapping
  PROVE  SlotInv'
<1>1. CASE NextTask
  <2>1. UNCHANGED <<mObservations, mvpMapPoints, calls>> /\ erasedLate \subseteq erasedLate'
    BY <1>1 DEF NextTask, pointVars, keyFrameVars
  <2>. QED  BY <2>1, SlotsKept
<1>. QED  BY <1>1, ProcessNewKeyFrameKeepsSlots, MapPointCullingKeepsSlots, CreateNewMapPointsKeepsSlots,
             SearchInNeighborsKeepsSlots, LocalBundleAdjustmentKeepsSlots, KeyFrameCullingKeepsSlots DEF Mapping

-----------------------------------------------------------------------------
LEMMA NotDetectedKeepsSlots ==
  ASSUME IInv, SlotInv, NotDetected
  PROVE  SlotInv'
<1>1. looper = "detect" /\ UNCHANGED <<mObservations, mvpMapPoints>>
      /\ erasedLate' = erasedLate \cup ({mpLoopKF} \cap mbToBeErased)
  BY DEF NotDetected, LoopingRest, pointVars
<1>2. CASE mpLoopKF \in mbToBeErased
  <2>1. erasedLate' # {}
    BY <1>1, <1>2
  <2>. QED  BY <2>1 DEF SlotInv
<1>3. CASE mpLoopKF \notin mbToBeErased
  <2>1. Call("looping", <<>>)
    BY <1>3 DEF NotDetected
  <2>2. calls["looping"] = <<>>
    BY <1>1 DEF IInv, Turns, Idle
  <2>3. calls' = calls
    BY <2>1, <2>2, TheThreads, CallsTyped DEF Call
  <2>4. erasedLate \subseteq erasedLate'
    BY <1>1
  <2>. QED  BY <1>1, <2>3, <2>4, SlotsKept
<1>. QED  BY <1>2, <1>3

LEMMA CorrectLoopKeepsSlots ==
  ASSUME IInv, SlotInv, CorrectLoop
  PROVE  SlotInv'
<1>. DEFINE r == mvpMapPoints[mpLoopKF][matched.idx]
<1>1. /\ looper = "waitStop" /\ mapper = "idle" /\ UNCHANGED <<mObservations, mvpMapPoints, erasedLate>>
      /\ Call("looping", (IF r # None THEN <<ReplaceBy(r, matched.mp)>>
                          ELSE <<SetMatch(mpLoopKF, matched.idx, matched.mp), AddObservationOf(matched.mp, mpLoopKF, matched.idx)>>)
                         \o <<Unlock>>)
  BY DEF CorrectLoop, LoopingRest, pointVars, keyFrameVars
<1>2. mpLoopKF \in KeyFrames /\ matched.idx \in Features
  <2>1. mpLoopKF # 0 /\ mpLoopKF \in 0..keyFrames /\ matched.idx \in Features
    BY <1>1 DEF IInv, Places
  <2>. QED  BY <2>1, CallsTyped
<1>3. Idle("looping") /\ "looping" \in Threads
  BY <1>1, TheThreads DEF IInv, Turns
<1>4. erasedLate = {} => \A u \in Threads : Idle(u)
  BY <1>1, <1>3, FusingAlone
<1>5. CASE r # None
  <2>1. PICK c : c = ReplaceBy(r, matched.mp) /\ c.do \notin SlotNames
    BY QuietLists
  <2>2. PICK L : L = <<c>> \o <<Unlock>>
    OBVIOUS
  <2>3. Quiet(L)
    <3>1. PICK S : c \in S /\ Unlock \in S
      <4>1. c \in {c, Unlock} /\ Unlock \in {c, Unlock}
        OBVIOUS
      <4>. QED  BY <4>1
    <3>2. <<c>> \in Seq(S) /\ Quiet(<<c>>) /\ Unlock.do \notin SlotNames
      BY <2>1, <3>1, ListCalls, QuietLists
    <3>. QED  BY <2>2, <3>1, <3>2, QuietAppend
  <2>4. Call("looping", L)
    BY <1>1, <1>5, <2>1, <2>2
  <2>. QED  BY <1>1, <1>3, <1>4, <2>3, <2>4, StartQuietly
<1>6. CASE r = None
  <2>1. PICK L : L = <<SetMatch(mpLoopKF, matched.idx, matched.mp), AddObservationOf(matched.mp, mpLoopKF, matched.idx)>> \o <<Unlock>>
    OBVIOUS
  <2>2. ASSUME AllShown(mObservations, mvpMapPoints)  PROVE Slots(mObservations', mvpMapPoints', L)
    <3>1. Slots(mObservations, mvpMapPoints, L)
      BY <1>2, <1>6, <2>1, <2>2, CorrectingSlots
    <3>. QED  BY <1>1, <3>1
  <2>3. Call("looping", L)
    BY <1>1, <1>6, <2>1
  <2>. QED  BY <1>1, <1>3, <1>4, <2>2, <2>3, SlotsStart
<1>. QED  BY <1>5, <1>6

LEMMA SearchAndFuseKeepsSlots ==
  ASSUME IInv, SlotInv, SearchAndFuse
  PROVE  SlotInv'
<1>1. looper = "fuse" /\ Idle("looping") /\ UNCHANGED <<mObservations, mvpMapPoints, erasedLate>>
  BY DEF SearchAndFuse, LoopingRest, pointVars, keyFrameVars
<1>2. PICK k \in Live, i \in Features : \E p :
         \/ mvpMapPoints[k][i] = None /\ Call("looping", MakeObserved(p, k, i))
         \/ UNCHANGED calls
  BY DEF SearchAndFuse
<1>3. PICK p : \/ mvpMapPoints[k][i] = None /\ Call("looping", MakeObserved(p, k, i))
               \/ UNCHANGED calls
  BY <1>2
<1>4. CASE UNCHANGED calls
  BY <1>1, <1>4, SlotsKept
<1>5. CASE mvpMapPoints[k][i] = None /\ Call("looping", MakeObserved(p, k, i))
  <2>1. k \in KeyFrames
    <3>1. k \in 1..keyFrames
      BY DEF Live, IInv, Types
    <3>. QED  BY <3>1, CallsTyped
  <2>2. PICK L : L = MakeObserved(p, k, i)
    OBVIOUS
  <2>3. ASSUME AllShown(mObservations, mvpMapPoints)  PROVE Slots(mObservations', mvpMapPoints', L)
    <3>1. Slots(mObservations, mvpMapPoints, L)
      BY <1>5, <2>1, <2>2, <2>3, MakeObservedSlots
    <3>. QED  BY <1>1, <3>1
  <2>4. (erasedLate = {} => \A u \in Threads : Idle(u)) /\ "looping" \in Threads /\ Call("looping", L)
    BY <1>1, <1>5, <2>2, FusingAlone, TheThreads
  <2>. QED  BY <1>1, <2>3, <2>4, SlotsStart
<1>. QED  BY <1>3, <1>4, <1>5

LEMMA ReplaceFusedKeepsSlots ==
  ASSUME IInv, SlotInv, ReplaceFused
  PROVE  SlotInv'
<1>. DEFINE list == [n \in 1..Len(vpReplacePoints) |-> ReplaceBy(vpReplacePoints[n].mp, vpReplacePoints[n].by)]
<1>1. /\ looper = "fuse" /\ Idle("looping") /\ UNCHANGED <<mObservations, mvpMapPoints, erasedLate>>
      /\ Call("looping", Append(list, Unlock))
  BY DEF ReplaceFused, LoopingRest, pointVars, keyFrameVars
<1>2. PICK N \in Nat : N = Len(vpReplacePoints)
  <2>1. Len(vpReplacePoints) \in Nat
    <3>1. vpReplacePoints \in Seq([kf : 1..keyFrames, mp : 1..points, by : 1..points])
      BY DEF IInv, Places
    <3>. QED  BY <3>1, LenProperties, Zenon
  <2>. QED  BY <2>1, Zenon
<1>3. PICK l : l = list
  OBVIOUS
<1>4. l = [n \in 1..N |-> l[n]] /\ \A n \in 1..N : l[n].do \notin SlotNames
  BY <1>2, <1>3, QuietLists
<1>5. Quiet(Append(l, Unlock))
  <2>1. Unlock.do \notin SlotNames
    BY QuietLists
  <2>. QED  BY <1>4, <2>1, QuietEnd
<1>6. PICK L : L = Append(l, Unlock)
  OBVIOUS
<1>7. (erasedLate = {} => \A u \in Threads : Idle(u)) /\ "looping" \in Threads /\ Call("looping", L)
  BY <1>1, <1>3, <1>6, FusingAlone, TheThreads
<1>. QED  BY <1>1, <1>5, <1>6, <1>7, StartQuietly

LEMMA LoopingKeepsSlots ==
  ASSUME IInv, SlotInv, Looping
  PROVE  SlotInv'
<1>1. CASE TakeKeyFrame \/ Detected \/ EndCorrection
  <2>1. UNCHANGED <<mObservations, mvpMapPoints, calls>> /\ erasedLate \subseteq erasedLate'
    BY <1>1 DEF TakeKeyFrame, Detected, EndCorrection, LoopingRest, pointVars, keyFrameVars
  <2>. QED  BY <2>1, SlotsKept
<1>. QED  BY <1>1, NotDetectedKeepsSlots, CorrectLoopKeepsSlots, SearchAndFuseKeepsSlots, ReplaceFusedKeepsSlots DEF Looping

LEMMA CreateKeyFrameKeepsSlots ==
  ASSUME IInv, SlotInv, CreateNewKeyFrame
  PROVE  SlotInv'
<1>1. PICK S \in SUBSET {i \in DepthFeatures : frame[i] = None \/ nObs[frame[i]] < 1} : \E is \in Ascending(S) :
        LET new == (points + 1)..(points + Len(is))
            idx(p) == is[p - points]
        IN /\ points + Len(is) <= MaxPoints
           /\ mObservations' = [p \in Points |-> IF p \in new THEN [o \in {keyFrames + 1} |-> idx(p)] ELSE mObservations[p]]
           /\ mvpMapPoints' = [mvpMapPoints EXCEPT ![keyFrames + 1] =
                                  [i \in Features |-> IF i \in S THEN CHOOSE p \in new : idx(p) = i ELSE frame[i]]]
  BY DEF CreateNewKeyFrame
<1>2. PICK is \in Ascending(S) :
        LET new == (points + 1)..(points + Len(is))
            idx(p) == is[p - points]
        IN /\ points + Len(is) <= MaxPoints
           /\ mObservations' = [p \in Points |-> IF p \in new THEN [o \in {keyFrames + 1} |-> idx(p)] ELSE mObservations[p]]
           /\ mvpMapPoints' = [mvpMapPoints EXCEPT ![keyFrames + 1] =
                                  [i \in Features |-> IF i \in S THEN CHOOSE p \in new : idx(p) = i ELSE frame[i]]]
  BY <1>1
<1>. DEFINE k == keyFrames + 1
            new == (points + 1)..(points + Len(is))
            idx(p) == is[p - points]
<1>3. keyFrames < MaxKeyFrames /\ UNCHANGED calls /\ erasedLate' = erasedLate
  BY DEF CreateNewKeyFrame, keyFrameVars
<1>4. points \in Nat /\ keyFrames \in Nat /\ k \in KeyFrames /\ k \notin 1..keyFrames /\ IsFiniteSet(Features) /\ DepthFeatures \subseteq Features
  <2>1. points \in Nat /\ keyFrames \in Nat
    BY CallsTyped
  <2>. QED  BY <1>3, <2>1, MapPointsAssumption DEF KeyFrames
<1>5. Len(is) \in Nat /\ (\A n \in 1..Len(is) : is[n] \in S) /\ \A m, n \in 1..Len(is) : is[m] = is[n] => m = n
  <2>1. S \in SUBSET Features
    BY <1>1, <1>4
  <2>2. IsFiniteSet(S)
    BY <1>4, <2>1, FS_Subset
  <2>3. is \in Orders(S)
    BY DEF Ascending
  <2>. QED  BY <2>2, <2>3, OrdersFacts, OrdersApart
<1>6. /\ \A q \in Points : mObservations'[q] = IF q \in new THEN [o \in {k} |-> idx(q)] ELSE mObservations[q]
      /\ \A j \in KeyFrames : j # k => mvpMapPoints'[j] = mvpMapPoints[j]
      /\ \A i \in Features : mvpMapPoints'[k][i] = IF i \in S THEN CHOOSE p \in new : idx(p) = i ELSE frame[i]
  BY <1>2, <1>4 DEF IInv, Types
<1>7. \A q \in Points : DOMAIN mObservations[q] \subseteq 1..keyFrames
  <2>1. \A q \in Points : mObservations[q] \in ObservationsTo(keyFrames)
    BY DEF IInv, Types
  <2>. QED  BY <1>4, <2>1, ObservationsAreFinite, Zenon
<1>8. \A q \in Points : \A j, i : j # k /\ Observed(mObservations', q, j, i) => Observed(mObservations, q, j, i)
  <2>. SUFFICES ASSUME NEW q \in Points, NEW j, NEW i, j # k, Observed(mObservations', q, j, i)
                PROVE  Observed(mObservations, q, j, i)
    OBVIOUS
  <2>1. CASE q \in new
    <3>1. DOMAIN mObservations'[q] = {k}
      BY <1>6, <2>1
    <3>. QED  BY <3>1 DEF Observed
  <2>2. CASE q \notin new
    <3>1. mObservations'[q] = mObservations[q]
      BY <1>6, <2>2
    <3>. QED  BY <3>1 DEF Observed
  <2>. QED  BY <2>1, <2>2
<1>9. \A q \in Points : \A i \in Features : Observed(mObservations', q, k, i) => mvpMapPoints'[k][i] = q
  <2>. SUFFICES ASSUME NEW q \in Points, NEW i \in Features, Observed(mObservations', q, k, i)
                PROVE  mvpMapPoints'[k][i] = q
    OBVIOUS
  <2>1. q \in new
    <3>. SUFFICES ASSUME q \notin new  PROVE FALSE
      OBVIOUS
    <3>1. mObservations'[q] = mObservations[q]
      BY <1>6
    <3>2. k \in DOMAIN mObservations[q]
      BY <3>1 DEF Observed
    <3>. QED  BY <1>4, <1>7, <3>2
  <2>2. idx(q) = i
    <3>1. mObservations'[q][k] = idx(q)
      BY <1>6, <2>1
    <3>. QED  BY <3>1 DEF Observed
  <2>3. q - points \in 1..Len(is)
    BY <1>4, <1>5, <2>1
  <2>4. i \in S
    BY <1>5, <2>2, <2>3
  <2>5. ASSUME NEW p \in new, idx(p) = i  PROVE p = q
    <3>1. p - points \in 1..Len(is)
      BY <1>4, <1>5
    <3>2. p - points = q - points
      BY <1>5, <2>2, <2>3, <2>5, <3>1
    <3>. QED  BY <1>4, <1>5, <2>1, <3>2
  <2>6. (CHOOSE p \in new : idx(p) = i) = q
    BY <2>1, <2>2, <2>5
  <2>. QED  BY <1>6, <2>4, <2>6
<1>. HIDE DEF k, new, idx
<1>. SUFFICES ASSUME erasedLate = {}  PROVE SlotInv'
  BY <1>3 DEF SlotInv
<1>10. PICK t \in Threads : (\A u \in Threads : u # t => Idle(u)) /\ Slots(mObservations, mvpMapPoints, calls[t])
  BY DEF SlotInv
<1>11. \A c \in CallsIn(calls[t]) : c.do \in SlotNames => c.kf # k
  <2>. SUFFICES ASSUME NEW c \in CallsIn(calls[t]), c.do \in SlotNames  PROVE c.kf # k
    OBVIOUS
  <2>1. calls[t] \in Seq(ACalls)
    BY CallsTyped
  <2>2. c \in ACalls
    <3>1. PICK n \in 1..Len(calls[t]) : c = calls[t][n]
      BY DEF CallsIn
    <3>. QED  BY <2>1, <3>1, ElementOfSeq
  <2>3. c \in AllCalls(points, keyFrames, 1..points)
    BY <2>2 DEF ACalls
  <2>4. c.kf \in 1..keyFrames
    <3>1. c.do \in {"AddObservation", "MoveObservation", "Associate"} \/ c.do = "SetMatch" \/ c.do \in {"EraseObservation", "EraseMatch"}
      BY DEF SlotNames
    <3>. QED  BY <1>4, <2>3, <3>1, CallFields
  <2>. QED  BY <1>4, <2>4
<1>12. \A j \in KeyFrames, i \in Features : j # k => mvpMapPoints'[j][i] = mvpMapPoints[j][i]
  BY <1>6
<1>13. Slots(mObservations', mvpMapPoints', calls[t])
  BY <1>8, <1>9, <1>10, <1>11, <1>12, MoreSlots
<1>14. calls' = [calls EXCEPT ![t] = calls[t]]
  BY <1>3, CallsTyped
<1>. QED  BY <1>10, <1>13, <1>14, GoesOn

LEMMA NextKeepsSlots ==
  ASSUME IInv, SlotInv, [Next]_vars
  PROVE  SlotInv'
<1>1. CASE vars' = vars
  <2>1. UNCHANGED <<mObservations, mvpMapPoints, calls>> /\ erasedLate \subseteq erasedLate'
    BY <1>1 DEF vars, pointVars, keyFrameVars
  <2>. QED  BY <2>1, SlotsKept
<1>. QED  BY <1>1, RunCallKeepsSlots, FrameKeepsSlots, CreateKeyFrameKeepsSlots, MappingKeepsSlots, LoopingKeepsSlots DEF Next, Tracking

LEMMA SlotInvShows ==
  ASSUME IInv, SlotInv
  PROVE  ObservationsMatchSlots
<1>. SUFFICES ASSUME AtRest, erasedLate = {}, NEW p \in 1..points, NEW k \in Observers(p)
              PROVE  mvpMapPoints[k][mObservations[p][k]] = p
  BY DEF ObservationsMatchSlots
<1>1. AllShown(mObservations, mvpMapPoints)
  BY NoneAtWork DEF AtRest
<1>2. p \in Points /\ 1..keyFrames \subseteq KeyFrames /\ mObservations[p] \in ObservationsTo(keyFrames) /\ keyFrames \in Nat
  BY CallsTyped DEF IInv, Types
<1>3. k \in 1..keyFrames /\ mObservations[p][k] \in Features
  BY <1>2, ObservationsAreFinite, Zenon DEF Observers
<1>4. Observed(mObservations, p, k, mObservations[p][k])
  BY DEF Observed, Observers
<1>. QED  BY <1>1, <1>2, <1>3, <1>4 DEF AllShown

(* Until loop closing has made up for an erasure, an observation names the *)
(* slot that shows the point whenever nobody is at work, with any number   *)
(* of keyframes, points and features and whatever fusions came before.     *)
THEOREM ObservationsAreShown == Spec => []ObservationsMatchSlots
<1>1. Init => SlotInv
  BY InitSlotInv
<1>2. IInv /\ SlotInv /\ [Next]_vars => SlotInv'
  BY NextKeepsSlots
<1>3. IInv /\ SlotInv => ObservationsMatchSlots
  BY SlotInvShows
<1>. QED  BY <1>1, <1>2, <1>3, Invariance, PTL DEF Spec

-----------------------------------------------------------------------------
(* Keyframes reach local mapping and loop closing in the order of their ids, each *)
(* once: a keyframe kept from erasure by a loop edge is not asked about again.    *)

Ordered(s) == \A m, n \in 1..Len(s) : m < n => s[m] < s[n]

Busy == mapper \notin {"idle", "stopped"}

Sequenced ==
  /\ Ordered(mlNewKeyFrames) /\ Ordered(mlpLoopKeyFrameQueue)
  /\ \A n \in 1..Len(mlNewKeyFrames) : mpCurrentKF < mlNewKeyFrames[n]
  /\ \A n \in 1..Len(mlpLoopKeyFrameQueue) :
        /\ mlpLoopKeyFrameQueue[n] <= mpCurrentKF
        /\ Busy => mlpLoopKeyFrameQueue[n] < mpCurrentKF
        /\ \A k \in mbNotErase : k < mlpLoopKeyFrameQueue[n]
  /\ \A k \in mbNotErase : k <= mpCurrentKF /\ (Busy => k < mpCurrentKF)
  /\ looper = "idle" => mpLoopKF = None
  /\ looper # "idle" => mpLoopKF \in mbNotErase

LEMMA OrderedTail ==
  ASSUME NEW s \in Seq(Nat), s # <<>>, Ordered(s)
  PROVE  /\ Ordered(Tail(s)) /\ Head(s) \in Nat /\ Head(s) = s[1] /\ 1 \in 1..Len(s)
         /\ \A n \in 1..Len(Tail(s)) : Head(s) < Tail(s)[n] /\ \E m \in 1..Len(s) : Tail(s)[n] = s[m]
<1>1. /\ Len(s) \in Nat \ {0} /\ Len(Tail(s)) = Len(s) - 1 /\ Head(s) = s[1] /\ 1 \in 1..Len(s)
      /\ \A n \in 1..Len(Tail(s)) : Tail(s)[n] = s[n + 1] /\ n + 1 \in 1..Len(s)
  BY TailParts
<1>2. ASSUME NEW m \in 1..Len(Tail(s)), NEW n \in 1..Len(Tail(s)), m < n  PROVE Tail(s)[m] < Tail(s)[n]
  <2>1. m + 1 < n + 1
    BY <1>2
  <2>. QED  BY <1>1, <2>1 DEF Ordered
<1>3. ASSUME NEW n \in 1..Len(Tail(s))  PROVE Head(s) < Tail(s)[n] /\ \E m \in 1..Len(s) : Tail(s)[n] = s[m]
  <2>1. 1 < n + 1
    OBVIOUS
  <2>2. s[1] < s[n + 1]
    BY <1>1, <2>1 DEF Ordered
  <2>. QED  BY <1>1, <2>2
<1>4. Head(s) \in Nat
  BY <1>1, ElementOfSeq
<1>. QED  BY <1>1, <1>2, <1>3, <1>4 DEF Ordered

LEMMA OrderedAppend ==
  ASSUME NEW s \in Seq(Nat), NEW x \in Nat, Ordered(s), \A n \in 1..Len(s) : s[n] < x
  PROVE  /\ Ordered(Append(s, x))
         /\ \A n \in 1..Len(Append(s, x)) : Append(s, x)[n] = x \/ \E m \in 1..Len(s) : Append(s, x)[n] = s[m]
<1>. DEFINE q == Append(s, x)
<1>1. /\ Len(s) \in Nat /\ Len(q) = Len(s) + 1 /\ q[Len(s) + 1] = x
      /\ \A n \in 1..Len(s) : q[n] = s[n]
  BY AppendProperties, LenProperties
<1>2. \A n \in 1..Len(q) : n = Len(s) + 1 \/ n \in 1..Len(s)
  BY <1>1
<1>. HIDE DEF q
<1>3. ASSUME NEW m \in 1..Len(q), NEW n \in 1..Len(q), m < n  PROVE q[m] < q[n]
  <2>1. m \in 1..Len(s)
    BY <1>1, <1>3
  <2>2. CASE n \in 1..Len(s)
    BY <1>1, <1>3, <2>1, <2>2 DEF Ordered
  <2>3. CASE n = Len(s) + 1
    BY <1>1, <2>1, <2>3
  <2>. QED  BY <1>2, <2>2, <2>3
<1>4. \A n \in 1..Len(q) : q[n] = x \/ \E m \in 1..Len(s) : q[n] = s[m]
  BY <1>1, <1>2
<1>5. Ordered(q)
  BY <1>3 DEF Ordered
<1>. QED  BY <1>4, <1>5 DEF q

LEMMA QueuesTyped ==
  ASSUME IInv
  PROVE  /\ keyFrames \in Nat /\ mlNewKeyFrames \in Seq(Nat) /\ mlpLoopKeyFrameQueue \in Seq(Nat)
         /\ mpCurrentKF \in 0..keyFrames /\ mpCurrentKF \in Nat /\ mbNotErase \subseteq Nat /\ None \notin mbNotErase
         /\ \A n \in 1..Len(mlNewKeyFrames) : mlNewKeyFrames[n] \in 1..keyFrames
         /\ \A n \in 1..Len(mlpLoopKeyFrameQueue) : mlpLoopKeyFrameQueue[n] \in 1..keyFrames
<1>1. /\ keyFrames \in Nat /\ mbNotErase \subseteq 1..keyFrames
  BY CallsTyped DEF IInv, Types
<1>2. mlNewKeyFrames \in Seq(1..keyFrames) /\ mlpLoopKeyFrameQueue \in Seq(1..keyFrames) /\ mpCurrentKF \in 0..keyFrames
  BY DEF IInv, Places
<1>3. 1..keyFrames \subseteq Nat
  BY <1>1
<1>4. mlNewKeyFrames \in Seq(Nat) /\ mlpLoopKeyFrameQueue \in Seq(Nat)
  BY <1>2, <1>3, SeqMonotonic
<1>. QED  BY <1>1, <1>2, <1>4, ElementOfSeq DEF None

LEMMA InitSequenced == Init => Sequenced
<1>1. Len(<<>>) = 0
  BY EmptySeq
<1>. QED  BY <1>1 DEF Init, Sequenced, Ordered

LEMMA SequencedKept ==
  ASSUME Sequenced, UNCHANGED <<mlNewKeyFrames, mpCurrentKF, mlpLoopKeyFrameQueue, mbNotErase, mpLoopKF>>,
         Busy' => Busy, (looper' = "idle") = (looper = "idle")
  PROVE  Sequenced'
BY DEF Sequenced, Ordered

LEMMA TrackingKeepsOrder ==
  ASSUME IInv, Sequenced, Tracking
  PROVE  Sequenced'
<1>1. CASE CheckReplacedInLastFrame \/ TrackLocalMap \/ EndFrame
  <2>1. UNCHANGED <<mlNewKeyFrames, mpCurrentKF, mlpLoopKeyFrameQueue, mbNotErase, mpLoopKF, mapper, looper>>
    BY <1>1 DEF CheckReplacedInLastFrame, TrackLocalMap, EndFrame, TrackRest, keyFrameVars, lmVars, lcVars
  <2>. QED  BY <2>1, SequencedKept DEF Busy
<1>2. CASE CreateNewKeyFrame
  <2>1. mlNewKeyFrames' = Append(mlNewKeyFrames, keyFrames + 1)
    BY <1>2 DEF CreateNewKeyFrame
  <2>2. UNCHANGED <<mpCurrentKF, mlpLoopKeyFrameQueue, mbNotErase, mpLoopKF, mapper, looper>>
    BY <1>2 DEF CreateNewKeyFrame, keyFrameVars, lmVars, lcVars
  <2>3. /\ keyFrames \in Nat /\ mlNewKeyFrames \in Seq(Nat) /\ mpCurrentKF \in 0..keyFrames
        /\ \A n \in 1..Len(mlNewKeyFrames) : mlNewKeyFrames[n] < keyFrames + 1
    BY QueuesTyped
  <2>4. Ordered(mlNewKeyFrames) /\ \A n \in 1..Len(mlNewKeyFrames) : mpCurrentKF < mlNewKeyFrames[n]
    BY DEF Sequenced
  <2>5. /\ Ordered(mlNewKeyFrames')
        /\ \A n \in 1..Len(mlNewKeyFrames') : mlNewKeyFrames'[n] = keyFrames + 1 \/ \E m \in 1..Len(mlNewKeyFrames) : mlNewKeyFrames'[n] = mlNewKeyFrames[m]
    BY <2>1, <2>3, <2>4, OrderedAppend
  <2>6. \A n \in 1..Len(mlNewKeyFrames') : mpCurrentKF < mlNewKeyFrames'[n]
    BY <2>3, <2>4, <2>5
  <2>. QED  BY <2>2, <2>5, <2>6 DEF Sequenced, Ordered, Busy
<1>. QED  BY <1>1, <1>2 DEF Tracking

LEMMA MappingKeepsOrder ==
  ASSUME IInv, Sequenced, Mapping
  PROVE  Sequenced'
<1>1. CASE ProcessNewKeyFrame
  <2>1. /\ mapper = "idle" /\ mlNewKeyFrames # <<>> /\ mpCurrentKF' = Head(mlNewKeyFrames) /\ mlNewKeyFrames' = Tail(mlNewKeyFrames)
        /\ UNCHANGED <<mlpLoopKeyFrameQueue, mbNotErase, mpLoopKF, looper>>
    BY <1>1 DEF ProcessNewKeyFrame, MappingRest, keyFrameVars, lcVars
  <2>2. /\ Ordered(mlNewKeyFrames') /\ mpCurrentKF' \in Nat /\ mpCurrentKF < mpCurrentKF' /\ mpCurrentKF \in Nat
        /\ \A n \in 1..Len(mlNewKeyFrames') : mpCurrentKF' < mlNewKeyFrames'[n]
    <3>1. mlNewKeyFrames \in Seq(Nat) /\ Ordered(mlNewKeyFrames) /\ mpCurrentKF \in Nat
      BY QueuesTyped DEF Sequenced
    <3>2. \A n \in 1..Len(mlNewKeyFrames) : mpCurrentKF < mlNewKeyFrames[n]
      BY DEF Sequenced
    <3>. QED  BY <2>1, <3>1, <3>2, OrderedTail
  <2>3. ASSUME NEW n \in 1..Len(mlpLoopKeyFrameQueue)  PROVE mlpLoopKeyFrameQueue[n] < mpCurrentKF'
    <3>1. mlpLoopKeyFrameQueue[n] \in Nat /\ mlpLoopKeyFrameQueue[n] <= mpCurrentKF
      BY QueuesTyped DEF Sequenced
    <3>. QED  BY <2>2, <3>1
  <2>4. ASSUME NEW k \in mbNotErase  PROVE k < mpCurrentKF'
    <3>1. k \in Nat /\ k <= mpCurrentKF
      BY QueuesTyped DEF Sequenced
    <3>. QED  BY <2>2, <3>1
  <2>5. \A n \in 1..Len(mlpLoopKeyFrameQueue) : mlpLoopKeyFrameQueue[n] <= mpCurrentKF'
    BY <2>2, <2>3, QueuesTyped
  <2>6. \A k \in mbNotErase : k <= mpCurrentKF'
    BY <2>2, <2>4, QueuesTyped
  <2>. QED  BY <2>1, <2>2, <2>3, <2>4, <2>5, <2>6 DEF Sequenced, Ordered, Busy
<1>2. CASE MapPointCulling \/ CreateNewMapPoints \/ SearchInNeighbors \/ LocalBundleAdjustment \/ KeyFrameCulling
  <2>1. /\ UNCHANGED <<mlNewKeyFrames, mpCurrentKF, mlpLoopKeyFrameQueue, mbNotErase, mpLoopKF, looper>> /\ Busy
    BY <1>2 DEF MapPointCulling, CreateNewMapPoints, SearchInNeighbors, LocalBundleAdjustment, KeyFrameCulling, MappingRest,
                keyFrameVars, lmVars, lcVars, Busy
  <2>. QED  BY <2>1, SequencedKept
<1>3. CASE NextTask
  <2>1. /\ Busy /\ UNCHANGED <<mlNewKeyFrames, mpCurrentKF, mbNotErase, mpLoopKF, looper>>
        /\ mlpLoopKeyFrameQueue' = IF mapper' = "idle" THEN Append(mlpLoopKeyFrameQueue, mpCurrentKF) ELSE mlpLoopKeyFrameQueue
    BY <1>3 DEF NextTask, Busy, keyFrameVars
  <2>2. CASE mapper' # "idle"
    BY <2>1, <2>2, SequencedKept
  <2>3. CASE mapper' = "idle"
    <3>1. /\ mlpLoopKeyFrameQueue \in Seq(Nat) /\ Ordered(mlpLoopKeyFrameQueue) /\ mpCurrentKF \in Nat
          /\ \A n \in 1..Len(mlpLoopKeyFrameQueue) : mlpLoopKeyFrameQueue[n] < mpCurrentKF /\ \A k \in mbNotErase : k < mlpLoopKeyFrameQueue[n]
          /\ \A k \in mbNotErase : k < mpCurrentKF
      BY <2>1, QueuesTyped DEF Sequenced
    <3>2. mlpLoopKeyFrameQueue' = Append(mlpLoopKeyFrameQueue, mpCurrentKF)
      BY <2>1, <2>3
    <3>3. /\ Ordered(mlpLoopKeyFrameQueue')
          /\ \A n \in 1..Len(mlpLoopKeyFrameQueue') : mlpLoopKeyFrameQueue'[n] = mpCurrentKF
                \/ \E m \in 1..Len(mlpLoopKeyFrameQueue) : mlpLoopKeyFrameQueue'[n] = mlpLoopKeyFrameQueue[m]
      BY <3>1, <3>2, OrderedAppend
    <3>4. \A n \in 1..Len(mlpLoopKeyFrameQueue') :
             mlpLoopKeyFrameQueue'[n] <= mpCurrentKF /\ \A k \in mbNotErase : k < mlpLoopKeyFrameQueue'[n]
      <4>1. \A n \in 1..Len(mlpLoopKeyFrameQueue) : mlpLoopKeyFrameQueue[n] <= mpCurrentKF
        BY DEF Sequenced
      <4>. QED  BY <3>1, <3>3, <4>1
    <3>5. ~Busy' /\ \A k \in mbNotErase : k <= mpCurrentKF
      BY <2>3 DEF Busy, Sequenced
    <3>. QED  BY <2>1, <3>3, <3>4, <3>5 DEF Sequenced, Ordered
  <2>. QED  BY <2>2, <2>3
<1>. QED  BY <1>1, <1>2, <1>3 DEF Mapping

LEMMA LoopingKeepsOrder ==
  ASSUME IInv, Sequenced, Looping
  PROVE  Sequenced'
<1>1. CASE TakeKeyFrame
  <2>1. /\ mlpLoopKeyFrameQueue # <<>> /\ mpLoopKF' = Head(mlpLoopKeyFrameQueue) /\ mlpLoopKeyFrameQueue' = Tail(mlpLoopKeyFrameQueue)
        /\ mbNotErase' = mbNotErase \cup {mpLoopKF'} /\ looper' = "detect"
        /\ UNCHANGED <<mlNewKeyFrames, mpCurrentKF, mapper>>
    BY <1>1 DEF TakeKeyFrame, LoopingRest
  <2>2. /\ mlpLoopKeyFrameQueue \in Seq(Nat) /\ Ordered(mlpLoopKeyFrameQueue)
        /\ \A n \in 1..Len(mlpLoopKeyFrameQueue) : /\ mlpLoopKeyFrameQueue[n] <= mpCurrentKF
                                                   /\ Busy => mlpLoopKeyFrameQueue[n] < mpCurrentKF
                                                   /\ \A k \in mbNotErase : k < mlpLoopKeyFrameQueue[n]
        /\ \A k \in mbNotErase : k <= mpCurrentKF /\ (Busy => k < mpCurrentKF)
    BY QueuesTyped DEF Sequenced
  <2>3. /\ Ordered(mlpLoopKeyFrameQueue') /\ mpLoopKF' = mlpLoopKeyFrameQueue[1] /\ 1 \in 1..Len(mlpLoopKeyFrameQueue)
        /\ \A n \in 1..Len(mlpLoopKeyFrameQueue') : /\ mpLoopKF' < mlpLoopKeyFrameQueue'[n]
                                                    /\ \E m \in 1..Len(mlpLoopKeyFrameQueue) : mlpLoopKeyFrameQueue'[n] = mlpLoopKeyFrameQueue[m]
    BY <2>1, <2>2, OrderedTail
  <2>4. \A n \in 1..Len(mlpLoopKeyFrameQueue') : /\ mlpLoopKeyFrameQueue'[n] <= mpCurrentKF
                                                 /\ Busy => mlpLoopKeyFrameQueue'[n] < mpCurrentKF
                                                 /\ \A k \in mbNotErase' : k < mlpLoopKeyFrameQueue'[n]
    BY <2>1, <2>2, <2>3
  <2>5. \A k \in mbNotErase' : k <= mpCurrentKF /\ (Busy => k < mpCurrentKF)
    BY <2>1, <2>2, <2>3
  <2>6. mpLoopKF' \in mbNotErase' /\ looper' # "idle" /\ Busy' = Busy
    BY <2>1 DEF Busy
  <2>7. Ordered(mlNewKeyFrames) /\ \A n \in 1..Len(mlNewKeyFrames) : mpCurrentKF < mlNewKeyFrames[n]
    BY DEF Sequenced
  <2>. QED  BY <2>1, <2>3, <2>4, <2>5, <2>6, <2>7 DEF Sequenced, Ordered
<1>2. CASE NotDetected
  <2>1. /\ mbNotErase' = mbNotErase \ {mpLoopKF} /\ looper' = "idle" /\ mpLoopKF' = None
        /\ UNCHANGED <<mlNewKeyFrames, mpCurrentKF, mlpLoopKeyFrameQueue, mapper>>
    BY <1>2 DEF NotDetected, LoopingRest
  <2>. QED  BY <2>1 DEF Sequenced, Ordered, Busy
<1>3. CASE Detected \/ CorrectLoop \/ SearchAndFuse \/ ReplaceFused
  <2>1. /\ UNCHANGED <<mlNewKeyFrames, mpCurrentKF, mlpLoopKeyFrameQueue, mbNotErase, mpLoopKF>>
        /\ looper # "idle" /\ looper' # "idle" /\ (Busy' => Busy)
    BY <1>3 DEF Detected, CorrectLoop, SearchAndFuse, ReplaceFused, LoopingRest, keyFrameVars, Busy
  <2>. QED  BY <2>1, SequencedKept
<1>4. CASE EndCorrection
  <2>1. /\ UNCHANGED <<mlNewKeyFrames, mpCurrentKF, mlpLoopKeyFrameQueue, mbNotErase>>
        /\ looper' = "idle" /\ mpLoopKF' = None /\ mapper' = "idle"
    BY <1>4 DEF EndCorrection, LoopingRest, keyFrameVars
  <2>. QED  BY <2>1 DEF Sequenced, Ordered, Busy
<1>. QED  BY <1>1, <1>2, <1>3, <1>4 DEF Looping

LEMMA CallsKeepOrder ==
  ASSUME Sequenced, NEW t \in Threads, RunCall(t)
  PROVE  Sequenced'
<1>1. CASE AddObservation(t) \/ EraseObservation(t) \/ SetBadFlag(t) \/ Replace(t) \/ MoveOne(t) \/ EraseMapPointMatch(t) \/ ForgetMatch(t)
  <2>1. OnlyPoints
    BY <1>1 DEF AddObservation, EraseObservation, SetBadFlag, Replace, MoveOne, EraseMapPointMatch, ForgetMatch
  <2>2. UNCHANGED <<mlNewKeyFrames, mpCurrentKF, mlpLoopKeyFrameQueue, mbNotErase, mpLoopKF, mapper, looper>>
    BY <2>1 DEF OnlyPoints, keyFrameVars, lmVars, lcVars
  <2>. QED  BY <2>2, SequencedKept DEF Busy
<1>2. CASE SetMapPointMatch(t) \/ MarkKeyFrameBad(t) \/ AssociateMapPoint(t) \/ UpdateMap(t) \/ UnlockMapUpdate(t)
  <2>1. UNCHANGED <<mlNewKeyFrames, mpCurrentKF, mlpLoopKeyFrameQueue, mbNotErase, mpLoopKF, mapper, looper>>
    BY <1>2 DEF SetMapPointMatch, MarkKeyFrameBad, AssociateMapPoint, UpdateMap, UnlockMapUpdate, ButPoints, keyFrameVars, lmVars, lcVars
  <2>. QED  BY <2>1, SequencedKept DEF Busy
<1>. QED  BY <1>1, <1>2 DEF RunCall

LEMMA NextKeepsOrder ==
  ASSUME IInv, Sequenced, [Next]_vars
  PROVE  Sequenced'
<1>1. CASE vars' = vars
  <2>1. UNCHANGED <<mlNewKeyFrames, mpCurrentKF, mlpLoopKeyFrameQueue, mbNotErase, mpLoopKF, mapper, looper>>
    BY <1>1 DEF vars, keyFrameVars, lmVars, lcVars
  <2>. QED  BY <2>1, SequencedKept DEF Busy
<1>. QED  BY <1>1, CallsKeepOrder, TrackingKeepsOrder, MappingKeepsOrder, LoopingKeepsOrder DEF Next

\* Once a loop has been corrected there is no way back.
LEMMA NoLoopBefore ==
  ASSUME IInv, Sequenced, [Next]_vars, NoLoopYet'
  PROVE  NoLoopYet
<1>1. CASE UNCHANGED <<mbNotErase, mpLoopKF, looper>>
  BY <1>1 DEF NoLoopYet
<1>2. CASE TakeKeyFrame
  <2>1. /\ mlpLoopKeyFrameQueue # <<>> /\ mpLoopKF' = Head(mlpLoopKeyFrameQueue) /\ looper = "idle"
        /\ mbNotErase' = mbNotErase \cup {mpLoopKF'}
    BY <1>2 DEF TakeKeyFrame
  <2>2. \A k \in mbNotErase : k = mpLoopKF'
    BY <2>1 DEF NoLoopYet
  <2>3. mlpLoopKeyFrameQueue \in Seq(Nat) /\ Ordered(mlpLoopKeyFrameQueue)
    BY QueuesTyped DEF Sequenced
  <2>4. mpLoopKF' \in Nat /\ mpLoopKF' = mlpLoopKeyFrameQueue[1] /\ 1 \in 1..Len(mlpLoopKeyFrameQueue)
    BY <2>1, <2>3, OrderedTail
  <2>5. \A k \in mbNotErase : k < mpLoopKF'
    BY <2>4 DEF Sequenced
  <2>6. mbNotErase = {}
    BY <2>2, <2>4, <2>5
  <2>. QED  BY <2>1, <2>6 DEF NoLoopYet
<1>3. CASE NotDetected
  <2>1. looper = "detect" /\ mbNotErase' = mbNotErase \ {mpLoopKF} /\ mpLoopKF' = None
    BY <1>3 DEF NotDetected
  <2>2. None \notin mbNotErase
    BY QueuesTyped
  <2>. QED  BY <2>1, <2>2 DEF NoLoopYet
<1>4. CASE Detected
  BY <1>4 DEF Detected, keyFrameVars, NoLoopYet
<1>5. CASE CorrectLoop
  BY <1>5 DEF CorrectLoop, NoLoopYet
<1>6. CASE EndCorrection
  <2>1. looper = "fuse" /\ mbNotErase' = mbNotErase /\ mpLoopKF' = None
    BY <1>6 DEF EndCorrection, keyFrameVars
  <2>2. mpLoopKF \in mbNotErase /\ None \notin mbNotErase
    BY <2>1, QueuesTyped DEF Sequenced
  <2>. QED  BY <2>1, <2>2 DEF NoLoopYet
<1>7. CASE SearchAndFuse \/ ReplaceFused
  BY <1>1, <1>7 DEF SearchAndFuse, ReplaceFused, keyFrameVars
<1>8. CASE Mapping
  BY <1>1, <1>8 DEF Mapping, ProcessNewKeyFrame, MapPointCulling, CreateNewMapPoints, SearchInNeighbors, LocalBundleAdjustment,
                    KeyFrameCulling, NextTask, MappingRest, keyFrameVars, lcVars
<1>9. CASE Tracking
  BY <1>1, <1>9 DEF Tracking, CheckReplacedInLastFrame, TrackLocalMap, EndFrame, CreateNewKeyFrame, TrackRest, keyFrameVars, lcVars
<1>10. ASSUME NEW t \in Threads, RunCall(t)  PROVE UNCHANGED <<mbNotErase, mpLoopKF, looper>>
  <2>1. OnlyPoints \/ MarkKeyFrameBad(t) \/ SetMapPointMatch(t) \/ AssociateMapPoint(t) \/ UpdateMap(t) \/ UnlockMapUpdate(t)
    BY <1>10 DEF RunCall, AddObservation, EraseObservation, SetBadFlag, Replace, MoveOne, EraseMapPointMatch, ForgetMatch
  <2>. QED  BY <2>1 DEF OnlyPoints, SetMapPointMatch, MarkKeyFrameBad, AssociateMapPoint, UpdateMap, UnlockMapUpdate, ButPoints, keyFrameVars, lcVars
<1>11. CASE vars' = vars
  BY <1>1, <1>11 DEF vars, keyFrameVars, lcVars
<1>. QED  BY <1>1, <1>2, <1>3, <1>4, <1>5, <1>6, <1>7, <1>8, <1>9, <1>10, <1>11 DEF Next, Looping

-----------------------------------------------------------------------------
(* Reference keyframes.  Until a loop has been corrected loop closing only erases, and the  *)
(* observations that local mapping is about to add are new ones: nObs counts them exactly,  *)
(* so that a good point that loses its last observation is about to be discarded.           *)

EraserNames == {"Forget", "MarkBad", "EraseObservation", "SetBadFlag", "SetMatch", "EraseFromMap"}

AddsPending(obs, L) ==
  /\ \A c \in CallsIn(L) : c.do = "AddObservation" => c.kf \notin DOMAIN obs[c.mp]
  /\ Apart(L, "AddObservation")
  /\ Before(L, {"AddObservation"}, {"AddObservation", "SetMatch"})

Erasing == \A c \in CallsIn(calls["looping"]) : c.do \in EraserNames

Unmade == \A p \in Points : p > points => DOMAIN mObservations[p] = {}

Weighed == \A p \in Points \ mbBad : nObs[p] = WeightOf(mObservations[p])

\* A good point is about to be discarded, or its reference keyframe observes it or is about to.
Referred(p) ==
  \/ \E t \in Threads : SetBadFlagOf(p) \in CallsIn(calls[t])
  \/ mpRefKF[p] \in Observers(p)
  \/ /\ AddToMap(p) \in CallsIn(calls["mapping"])
     /\ \E i \in Features : AddObservationOf(p, mpRefKF[p], i) \in CallsIn(calls["mapping"])

RefParts ==
  /\ Erasing /\ AddsPending(mObservations, calls["mapping"])
  /\ Unmade /\ Weighed /\ \A p \in Good : Referred(p)

RefInv == NoLoopYet => RefParts

\* A new observation counts in full.
LEMMA ObserveMore ==
  ASSUME NEW nk \in Nat, NEW f \in ObservationsTo(nk), NEW k \in 1..nk, NEW i \in Features, k \notin DOMAIN f
  PROVE  WeightOf(ObservedAt(f, k, i)) = WeightOf(f) + Weight(i)
<1>1. PICK g : g = ObservedAt(f, k, i)
  OBVIOUS
<1>2. g \in ObservationsTo(nk)
  BY <1>1, ObservedTyped, Zenon
<1>3. DOMAIN g = DOMAIN f \cup {k} /\ g[k] = i /\ \A x \in DOMAIN f : g[x] = f[x]
  BY <1>1 DEF ObservedAt
<1>4. [o \in DOMAIN g \ {k} |-> g[o]] = f
  <2>1. PICK S \in SUBSET (1..nk) : f \in [S -> Features]
    BY DEF ObservationsTo
  <2>2. DOMAIN g \ {k} = DOMAIN f
    BY <1>3
  <2>. QED  BY <1>3, <2>1, <2>2
<1>5. k \in DOMAIN g
  BY <1>3
<1>6. WeightOf([o \in DOMAIN g \ {k} |-> g[o]]) = WeightOf(g) - Weight(g[k])
  BY <1>2, <1>5, UnobserveFacts
<1>7. WeightOf(f) = WeightOf(g) - Weight(i)
  BY <1>3, <1>4, <1>6
<1>8. WeightOf(f) \in Nat /\ WeightOf(g) \in Nat /\ Weight(i) \in Nat
  BY <1>2, ObservationsAreFinite, Zenon DEF Weight
<1>. QED  BY <1>1, <1>7, <1>8

LEMMA NothingWeighs ==
  ASSUME NEW f, DOMAIN f = {}
  PROVE  WeightOf(f) = 0
<1>1. {k \in DOMAIN f : f[k] \in DepthFeatures} = {}
  OBVIOUS
<1>. QED  BY <1>1, FS_EmptySet DEF WeightOf

LEMMA AddsLess ==
  ASSUME NEW obs, NEW L, AddsPending(obs, L), NEW obs2,
         \A c \in CallsIn(L) : c.do = "AddObservation" => DOMAIN obs2[c.mp] \subseteq DOMAIN obs[c.mp]
  PROVE  AddsPending(obs2, L)
BY DEF AddsPending

\* A list with one addition, or none.
LEMMA AddsPlainly ==
  ASSUME NEW f, NEW obs, \A c \in CallsIn(f) : c.do # "AddObservation"
  PROVE  AddsPending(obs, f)
<1>1. Apart(f, "AddObservation")
  BY ApartPlainly
<1>2. \A c \in CallsIn(f) : c.do \notin {"AddObservation"}
  OBVIOUS
<1>3. Before(f, {"AddObservation"}, {"AddObservation", "SetMatch"})
  BY <1>2, BeforePlainly
<1>. QED  BY <1>1, <1>3 DEF AddsPending

LEMMA AddsReturn ==
  ASSUME NEW S, NEW L \in Seq(S), L # <<>>, NEW obs, AddsPending(obs, L),
         NEW f \in Seq(S), NEW obs2, AddsPending(obs2, f),
         Head(L).do \in {"AddObservation", "SetMatch"} => f = <<>>,
         \A c \in CallsIn(L) : c.do = "AddObservation" =>
            \A k \in DOMAIN obs2[c.mp] : k \in DOMAIN obs[c.mp] \/ (Head(L).do = "AddObservation" /\ k = Head(L).kf)
  PROVE  AddsPending(obs2, f \o Tail(L))
<1>1. PICK T \in Seq(S) : T = Tail(L)
  BY TailParts
<1>2. CallsIn(L) = {Head(L)} \cup CallsIn(T)
  BY <1>1, CallsOfTail
<1>3. /\ Before(T, {"AddObservation"}, {"AddObservation", "SetMatch"})
      /\ Head(L).do \notin {"AddObservation", "SetMatch"} => \A c \in CallsIn(T) : c.do \notin {"AddObservation"}
  BY <1>1, BeforeTail DEF AddsPending
<1>4. /\ Apart(T, "AddObservation")
      /\ Head(L).do = "AddObservation" => \A c \in CallsIn(T) : c.do = "AddObservation" => c.kf # Head(L).kf
  BY <1>1, ApartTail DEF AddsPending
<1>5. \A c \in CallsIn(T) : c.do = "AddObservation" => c.kf \notin DOMAIN obs2[c.mp]
  BY <1>2, <1>4 DEF AddsPending
<1>6. (\A c \in CallsIn(f) : c.do # "AddObservation") \/ (\A c \in CallsIn(T) : c.do # "AddObservation")
  <2>1. f = <<>> => CallsIn(f) = {}
    BY NothingToCall
  <2>. QED  BY <1>3, <2>1
<1>7. (\A c \in CallsIn(f) : c.do \in {"AddObservation", "SetMatch"}) \/ (\A c \in CallsIn(T) : c.do \notin {"AddObservation"})
  <2>1. f = <<>> => CallsIn(f) = {}
    BY NothingToCall
  <2>. QED  BY <1>3, <2>1
<1>8. Before(f, {"AddObservation"}, {"AddObservation", "SetMatch"}) /\ Apart(f, "AddObservation")
  BY DEF AddsPending
<1>9. Before(f \o T, {"AddObservation"}, {"AddObservation", "SetMatch"})
  BY <1>3, <1>7, <1>8, BeforeJoin
<1>10. Apart(f \o T, "AddObservation")
  BY <1>4, <1>6, <1>8, ApartJoin
<1>11. CallsIn(f \o T) = CallsIn(f) \cup CallsIn(T)
  BY CallsOfJoin
<1>12. \A c \in CallsIn(f \o T) : c.do = "AddObservation" => c.kf \notin DOMAIN obs2[c.mp]
  BY <1>5, <1>11 DEF AddsPending
<1>13. AddsPending(obs2, f \o T)
  BY <1>9, <1>10, <1>12 DEF AddsPending
<1>. QED  BY <1>1, <1>13

\* No addition stands behind a call that is neither.
LEMMA NoAddsBehind ==
  ASSUME NEW S, NEW L \in Seq(S), L # <<>>, NEW obs, AddsPending(obs, L), Head(L).do \notin {"AddObservation", "SetMatch"}
  PROVE  \A c \in CallsIn(L) : c.do # "AddObservation"
<1>1. CallsIn(L) = {Head(L)} \cup CallsIn(Tail(L))
  BY CallsOfTail
<1>2. \A c \in CallsIn(Tail(L)) : c.do \notin {"AddObservation"}
  BY BeforeTail DEF AddsPending
<1>. QED  BY <1>1, <1>2

LEMMA AddsTyped ==
  ASSUME IInv, NEW t \in Threads, NEW c \in CallsIn(calls[t]), c.do = "AddObservation"
  PROVE  c.mp \in 1..points /\ c.mp \in Points /\ c.kf \in 1..keyFrames
<1>1. calls[t] \in Seq(ACalls) /\ points \in Nat /\ keyFrames \in Nat /\ 1..points \subseteq Points
  BY CallsTyped
<1>2. PICK n \in 1..Len(calls[t]) : c = calls[t][n]
  BY DEF CallsIn
<1>3. c \in AllCalls(points, keyFrames, 1..points)
  BY <1>1, <1>2, ElementOfSeq DEF ACalls
<1>. QED  BY <1>1, <1>3, CallFields

LEMMA ReturnCalls ==
  ASSUME IInv, NEW t \in Threads, calls[t] # <<>>, NEW f \in Seq(ACalls), Return(t, f)
  PROVE  /\ CallsIn(calls[t]) = {Head(calls[t])} \cup CallsIn(Tail(calls[t]))
         /\ calls'[t] = f \o Tail(calls[t])
         /\ CallsIn(calls'[t]) = CallsIn(f) \cup CallsIn(Tail(calls[t]))
         /\ \A u \in Threads : u # t => calls'[u] = calls[u]
<1>1. calls[t] \in Seq(ACalls) /\ calls = [u \in Threads |-> calls[u]]
  BY CallsTyped
<1>2. CallsIn(calls[t]) = {Head(calls[t])} \cup CallsIn(Tail(calls[t]))
  BY <1>1, CallsOfTail
<1>3. calls'[t] = f \o Tail(calls[t]) /\ \A u \in Threads : u # t => calls'[u] = calls[u]
  BY <1>1 DEF Return
<1>4. CallsIn(f \o Tail(calls[t])) = CallsIn(f) \cup CallsIn(Tail(calls[t]))
  BY <1>1, CallsOfRest
<1>. QED  BY <1>2, <1>3, <1>4

\* A call, whoever makes it, and what it has to leave true.
LEMMA ReturnKeepsRefs ==
  ASSUME IInv, RefParts, NEW t \in Threads, calls[t] # <<>>, NEW f \in Seq(ACalls), Return(t, f), points' = points,
         t = "looping" => \A c \in CallsIn(f) : c.do \in EraserNames,
         AddsPending(mObservations', f), Head(calls[t]).do \in {"AddObservation", "SetMatch"} => f = <<>>,
         \A p \in Points : \A k \in DOMAIN mObservations'[p] :
            \/ k \in DOMAIN mObservations[p]
            \/ Head(calls[t]).do = "AddObservation" /\ p = Head(calls[t]).mp /\ k = Head(calls[t]).kf,
         mbBad \subseteq mbBad',
         \A p \in Points \ mbBad' : nObs'[p] = WeightOf(mObservations'[p]),
         \A p \in (1..points) \ mbBad' :
            \/ SetBadFlagOf(p) \in CallsIn(f)
            \/ mpRefKF'[p] \in DOMAIN mObservations'[p]
            \/ /\ Head(calls[t]) # SetBadFlagOf(p) /\ mpRefKF'[p] = mpRefKF[p] /\ mpRefKF[p] \notin DOMAIN mObservations[p]
               /\ \A i : Head(calls[t]) # AddObservationOf(p, mpRefKF[p], i)
  PROVE  RefParts'
<1>. DEFINE h == Head(calls[t])
            T == Tail(calls[t])
<1>1. /\ CallsIn(calls[t]) = {h} \cup CallsIn(T) /\ calls'[t] = f \o T /\ CallsIn(calls'[t]) = CallsIn(f) \cup CallsIn(T)
      /\ \A u \in Threads : u # t => calls'[u] = calls[u]
  BY ReturnCalls
<1>2. calls[t] \in Seq(ACalls) /\ 1..points \subseteq Points /\ points \in Nat
  BY CallsTyped
<1>3. t \in {"mapping", "looping"} /\ {"mapping", "looping"} \subseteq Threads
  BY TheThreads
<1>4. h \in CallsIn(calls[t])
  BY <1>1
<1>5. h.do = "AddObservation" => t = "mapping"
  <2>1. t = "looping" => h.do \in EraserNames
    BY <1>4 DEF RefParts, Erasing
  <2>. QED  BY <1>3, <2>1 DEF EraserNames
<1>. HIDE DEF h, T
<1>6. Erasing'
  <2>1. CASE t = "looping"
    <3>1. \A c \in CallsIn(T) : c.do \in EraserNames
      BY <1>1, <2>1 DEF RefParts, Erasing
    <3>. QED  BY <1>1, <2>1, <3>1 DEF Erasing
  <2>2. CASE t # "looping"
    <3>1. calls'["looping"] = calls["looping"]
      BY <1>1, <1>3, <2>2
    <3>. QED  BY <3>1 DEF RefParts, Erasing
  <2>. QED  BY <2>1, <2>2
<1>7. AddsPending(mObservations', calls'["mapping"])
  <2>1. CASE t = "mapping"
    <3>1. AddsPending(mObservations, calls[t])
      BY <2>1 DEF RefParts
    <3>2. \A c \in CallsIn(calls[t]) : c.do = "AddObservation" =>
             \A k \in DOMAIN mObservations'[c.mp] : k \in DOMAIN mObservations[c.mp] \/ (Head(calls[t]).do = "AddObservation" /\ k = Head(calls[t]).kf)
      BY AddsTyped
    <3>3. AddsPending(mObservations', f \o Tail(calls[t]))
      BY <1>2, <3>1, <3>2, AddsReturn
    <3>. QED  BY <1>1, <2>1, <3>3 DEF T
  <2>2. CASE t # "mapping"
    <3>1. calls'["mapping"] = calls["mapping"]
      BY <1>1, <1>3, <2>2
    <3>2. AddsPending(mObservations, calls["mapping"])
      BY DEF RefParts
    <3>3. \A p \in Points : DOMAIN mObservations'[p] \subseteq DOMAIN mObservations[p]
      BY <1>5, <2>2 DEF h
    <3>4. \A c \in CallsIn(calls["mapping"]) : c.do = "AddObservation" => DOMAIN mObservations'[c.mp] \subseteq DOMAIN mObservations[c.mp]
      BY <1>3, <3>3, AddsTyped
    <3>. QED  BY <3>1, <3>2, <3>4, AddsLess
  <2>. QED  BY <2>1, <2>2
<1>8. Unmade'
  <2>. SUFFICES ASSUME NEW p \in Points, p > points, NEW k \in DOMAIN mObservations'[p]  PROVE FALSE
    BY DEF Unmade
  <2>1. k \notin DOMAIN mObservations[p]
    BY DEF RefParts, Unmade
  <2>2. h.do = "AddObservation" /\ p = h.mp
    BY <2>1 DEF h
  <2>3. p \in 1..points
    BY <1>4, <2>2, AddsTyped
  <2>. QED  BY <1>2, <2>3
<1>9. Weighed'
  BY DEF Weighed, WeightOf
<1>10. ASSUME NEW p \in (1..points) \ mbBad'  PROVE Referred(p)'
  <2>1. CASE SetBadFlagOf(p) \in CallsIn(f)
    BY <1>1, <2>1 DEF Referred
  <2>2. CASE mpRefKF'[p] \in DOMAIN mObservations'[p]
    BY <2>2 DEF Referred, Observers
  <2>3. CASE /\ h # SetBadFlagOf(p) /\ mpRefKF'[p] = mpRefKF[p] /\ mpRefKF[p] \notin DOMAIN mObservations[p]
             /\ \A i : h # AddObservationOf(p, mpRefKF[p], i)
    <3>1. Referred(p)
      BY DEF RefParts, Good
    <3>2. CASE \E u \in Threads : SetBadFlagOf(p) \in CallsIn(calls[u])
      <4>1. PICK u \in Threads : SetBadFlagOf(p) \in CallsIn(calls[u])
        BY <3>2
      <4>2. SetBadFlagOf(p) \in CallsIn(calls'[u])
        BY <1>1, <2>3, <4>1
      <4>. QED  BY <4>2 DEF Referred
    <3>3. CASE AddToMap(p) \in CallsIn(calls["mapping"]) /\ \E i \in Features : AddObservationOf(p, mpRefKF[p], i) \in CallsIn(calls["mapping"])
      <4>1. PICK i \in Features : AddObservationOf(p, mpRefKF[p], i) \in CallsIn(calls["mapping"])
        BY <3>3
      <4>2. AddObservationOf(p, mpRefKF[p], i) \in CallsIn(calls'["mapping"])
        BY <1>1, <1>3, <2>3, <4>1
      <4>3. AddToMap(p) \in CallsIn(calls'["mapping"])
        <5>1. CASE t = "mapping" /\ h = AddToMap(p)
          <6>1. h.do \notin {"AddObservation", "SetMatch"} /\ AddObservationOf(p, mpRefKF[p], i).do = "AddObservation"
            BY <5>1, CallParts
          <6>2. AddsPending(mObservations, calls[t])
            BY <5>1 DEF RefParts
          <6>3. \A c \in CallsIn(calls[t]) : c.do # "AddObservation"
            BY <1>2, <6>1, <6>2, NoAddsBehind DEF h
          <6>. QED  BY <4>1, <5>1, <6>1, <6>3
        <5>2. CASE ~(t = "mapping" /\ h = AddToMap(p))
          BY <1>1, <1>3, <3>3, <5>2
        <5>. QED  BY <5>1, <5>2
      <4>. QED  BY <2>3, <4>2, <4>3 DEF Referred
    <3>. QED  BY <2>3, <3>1, <3>2, <3>3 DEF Referred, Observers
  <2>. QED  BY <2>1, <2>2, <2>3 DEF h
<1>. QED  BY <1>6, <1>7, <1>8, <1>9, <1>10 DEF RefParts, Good

\* A call that leaves the points alone.
LEMMA LookingKeepsRefs ==
  ASSUME IInv, RefParts, NEW t \in Threads, calls[t] # <<>>, NEW f \in Seq(ACalls), Return(t, f), UNCHANGED <<pointVars, points>>,
         Head(calls[t]).do \notin {"AddObservation", "SetBadFlag"},
         t = "looping" => \A c \in CallsIn(f) : c.do \in EraserNames,
         AddsPending(mObservations, f), Head(calls[t]).do = "SetMatch" => f = <<>>
  PROVE  RefParts'
<1>1. UNCHANGED <<mObservations, nObs, mpRefKF, mbBad>> /\ points' = points
  BY DEF pointVars
<1>2. AddsPending(mObservations', f)
  BY <1>1
<1>3. \A p : SetBadFlagOf(p).do = "SetBadFlag" /\ \A k, i : AddObservationOf(p, k, i).do = "AddObservation"
  BY CallParts
<1>4. \A p \in Points \ mbBad' : nObs'[p] = WeightOf(mObservations'[p])
  BY <1>1 DEF RefParts, Weighed
<1>5. \A p \in (1..points) \ mbBad' :
            \/ mpRefKF'[p] \in DOMAIN mObservations'[p]
            \/ /\ Head(calls[t]) # SetBadFlagOf(p) /\ mpRefKF'[p] = mpRefKF[p] /\ mpRefKF[p] \notin DOMAIN mObservations[p]
               /\ \A i : Head(calls[t]) # AddObservationOf(p, mpRefKF[p], i)
  BY <1>1, <1>3
<1>. QED  BY <1>1, <1>2, <1>4, <1>5, ReturnKeepsRefs

LEMMA OneAddition ==
  ASSUME NEW obs, NEW a, a.do = "AddObservation", a.kf \notin DOMAIN obs[a.mp], NEW s, s.do = "SetMatch"
  PROVE  AddsPending(obs, <<a>>) /\ AddsPending(obs, <<a, s>>) /\ AddsPending(obs, <<s, a>>)
<1>1. CallsIn(<<a>>) = {a} /\ CallsIn(<<a, s>>) = {a, s} /\ CallsIn(<<s, a>>) = {s, a}
  BY CallsOfList
<1>2. Apart(<<a>>, "AddObservation") /\ Apart(<<a, s>>, "AddObservation") /\ Apart(<<s, a>>, "AddObservation")
  BY DEF Apart
<1>3. \A c \in {a, s} : c.do \in {"AddObservation", "SetMatch"}
  OBVIOUS
<1>4. /\ Before(<<a>>, {"AddObservation"}, {"AddObservation", "SetMatch"})
      /\ Before(<<a, s>>, {"AddObservation"}, {"AddObservation", "SetMatch"})
      /\ Before(<<s, a>>, {"AddObservation"}, {"AddObservation", "SetMatch"})
  BY <1>1, <1>3, BeforePlainly
<1>. QED  BY <1>1, <1>2, <1>4 DEF AddsPending

LEMMA NoAddsFirst == \A obs : AddsPending(obs, <<>>)
BY NothingToCall, AddsPlainly

LEMMA AddObservationKeepsRefs ==
  ASSUME IInv, RefParts, NEW t \in Threads, AddObservation(t)
  PROVE  RefParts'
<1>. DEFINE c == Head(calls[t])
<1>1. calls[t] # <<>> /\ c.do = "AddObservation" /\ OnlyPoints
  BY DEF AddObservation, Calls
<1>2. /\ c.mp \in 1..points /\ c.mp \in Points /\ c.kf \in 1..keyFrames /\ c.idx \in Features
      /\ c = AddObservationOf(c.mp, c.kf, c.idx) /\ calls[t] \in Seq(ACalls)
  BY <1>1, HeadIs
<1>3. c \in CallsIn(calls[t])
  BY <1>1, <1>2, CallsOfTail
<1>4. t = "mapping"
  <2>1. t = "looping" => c.do \in EraserNames
    BY <1>3 DEF RefParts, Erasing
  <2>. QED  BY <1>1, <2>1, TheThreads DEF EraserNames
<1>5. c.kf \notin DOMAIN mObservations[c.mp]
  BY <1>1, <1>3, <1>4 DEF RefParts, AddsPending
<1>6. /\ mObservations' = [mObservations EXCEPT ![c.mp] = ObservedAt(mObservations[c.mp], c.kf, c.idx)]
      /\ nObs' = [nObs EXCEPT ![c.mp] = nObs[c.mp] + Weight(c.idx)]
      /\ Return(t, <<>>) /\ UNCHANGED <<mpRefKF, mbBad>>
  BY DEF AddObservation
<1>7. points' = points /\ keyFrames \in Nat
  BY <1>1, OnlyPointsPlaces, CallsTyped
<1>. HIDE DEF c
<1>8. /\ mObservations'[c.mp] = ObservedAt(mObservations[c.mp], c.kf, c.idx) /\ nObs'[c.mp] = nObs[c.mp] + Weight(c.idx)
      /\ mObservations[c.mp] \in ObservationsTo(keyFrames)
      /\ \A p \in Points : p # c.mp => mObservations'[p] = mObservations[p] /\ nObs'[p] = nObs[p]
  BY <1>2, <1>6 DEF IInv, Types
<1>9. DOMAIN mObservations'[c.mp] = DOMAIN mObservations[c.mp] \cup {c.kf}
  BY <1>8 DEF ObservedAt
<1>10. \A p \in Points : \A k \in DOMAIN mObservations'[p] :
          k \in DOMAIN mObservations[p] \/ (c.do = "AddObservation" /\ p = c.mp /\ k = c.kf)
  BY <1>1, <1>8, <1>9 DEF c
<1>11. ASSUME NEW p \in Points \ mbBad'  PROVE nObs'[p] = WeightOf(mObservations'[p])
  <2>1. nObs[p] = WeightOf(mObservations[p])
    BY <1>6 DEF RefParts, Weighed
  <2>2. CASE p = c.mp
    <3>1. WeightOf(mObservations'[c.mp]) = WeightOf(mObservations[c.mp]) + Weight(c.idx)
      BY <1>2, <1>5, <1>7, <1>8, ObserveMore
    <3>. QED  BY <1>8, <2>1, <2>2, <3>1
  <2>3. CASE p # c.mp
    BY <1>8, <2>1, <2>3
  <2>. QED  BY <2>2, <2>3
<1>12. ASSUME NEW p \in (1..points) \ mbBad'
       PROVE  \/ mpRefKF'[p] \in DOMAIN mObservations'[p]
              \/ /\ c # SetBadFlagOf(p) /\ mpRefKF'[p] = mpRefKF[p] /\ mpRefKF[p] \notin DOMAIN mObservations[p]
                 /\ \A i : c # AddObservationOf(p, mpRefKF[p], i)
  <2>1. p \in Points /\ c # SetBadFlagOf(p)
    BY <1>1, CallsTyped, CallParts DEF c
  <2>2. DOMAIN mObservations[p] \subseteq DOMAIN mObservations'[p]
    BY <1>8, <1>9, <2>1
  <2>3. ASSUME NEW i, c = AddObservationOf(p, mpRefKF[p], i)  PROVE mpRefKF[p] \in DOMAIN mObservations'[p]
    <3>1. p = c.mp /\ mpRefKF[p] = c.kf
      BY <2>3, CallParts
    <3>. QED  BY <1>9, <3>1
  <2>. QED  BY <1>6, <2>1, <2>2, <2>3
<1>13. PICK f \in Seq(ACalls) : f = <<>> /\ CallsIn(f) = {} /\ AddsPending(mObservations', f)
  BY NothingToCall, NoAddsFirst
<1>14. Return(t, f) /\ mbBad \subseteq mbBad'
  BY <1>6, <1>13
<1>. QED  BY <1>1, <1>4, <1>7, <1>10, <1>11, <1>12, <1>13, <1>14, TheThreads, ReturnKeepsRefs DEF c

LEMMA EraseObservationKeepsRefs ==
  ASSUME IInv, RefParts, NEW t \in Threads, EraseObservation(t)
  PROVE  RefParts'
<1>. DEFINE p == Head(calls[t]).mp
            k == Head(calls[t]).kf
            left == Observers(p) \ {k}
<1>1. calls[t] # <<>> /\ Head(calls[t]).do = "EraseObservation" /\ OnlyPoints
  BY DEF EraseObservation, Calls
<1>2. calls[t] \in Seq(ACalls) /\ p \in Points /\ p \in 1..points
  BY <1>1, HeadIs
<1>3. points' = points /\ keyFrames \in Nat /\ 1..points \subseteq Points
  BY <1>1, OnlyPointsPlaces, CallsTyped
<1>4. UNCHANGED <<mbBad, mpReplaced>>
  BY DEF EraseObservation
<1>5. CASE k \notin Observers(p)
  <2>1. Return(t, <<>>) /\ UNCHANGED <<mObservations, nObs, mpRefKF>>
    BY <1>5 DEF EraseObservation
  <2>2. UNCHANGED <<pointVars, points>>
    BY <1>3, <1>4, <2>1 DEF pointVars
  <2>3. PICK f \in Seq(ACalls) : f = <<>> /\ CallsIn(f) = {} /\ AddsPending(mObservations, f)
    BY NothingToCall, NoAddsFirst
  <2>. QED  BY <1>1, <2>1, <2>2, <2>3, LookingKeepsRefs
<1>6. CASE k \in Observers(p)
  <2>1. /\ mObservations' = [mObservations EXCEPT ![p] = [o \in left |-> mObservations[p][o]]]
        /\ nObs' = [nObs EXCEPT ![p] = nObs[p] - Weight(mObservations[p][k])]
        /\ Return(t, IF nObs'[p] <= 2 THEN <<SetBadFlagOf(p)>> ELSE <<>>)
    BY <1>6 DEF EraseObservation
  <2>2. PICK first \in IF left = {} THEN {None} ELSE left :
           mpRefKF' = [mpRefKF EXCEPT ![p] = IF mpRefKF[p] = k THEN first ELSE mpRefKF[p]]
    BY <1>6 DEF EraseObservation
  <2>. HIDE DEF p, k
  <2>3. /\ mObservations'[p] = [o \in left |-> mObservations[p][o]] /\ nObs'[p] = nObs[p] - Weight(mObservations[p][k])
        /\ mpRefKF'[p] = (IF mpRefKF[p] = k THEN first ELSE mpRefKF[p])
        /\ \A q \in Points : q # p => mObservations'[q] = mObservations[q] /\ nObs'[q] = nObs[q] /\ mpRefKF'[q] = mpRefKF[q]
    BY <1>2, <2>1, <2>2 DEF IInv, Types
  <2>4. DOMAIN mObservations'[p] = left
    BY <2>3
  <2>5. p \notin mbBad => nObs'[p] = WeightOf(mObservations'[p])
    <3>1. mObservations[p] \in ObservationsTo(keyFrames) /\ k \in DOMAIN mObservations[p]
      BY <1>2, <1>6 DEF IInv, Types, Observers
    <3>2. WeightOf([o \in DOMAIN mObservations[p] \ {k} |-> mObservations[p][o]]) = WeightOf(mObservations[p]) - Weight(mObservations[p][k])
      BY <1>3, <3>1, UnobserveFacts
    <3>3. [o \in DOMAIN mObservations[p] \ {k} |-> mObservations[p][o]] = mObservations'[p]
      BY <2>3 DEF Observers
    <3>4. WeightOf(mObservations'[p]) = WeightOf(mObservations[p]) - Weight(mObservations[p][k])
      BY <3>2, <3>3
    <3>5. p \notin mbBad => nObs[p] = WeightOf(mObservations[p])
      BY <1>2 DEF RefParts, Weighed
    <3>. QED  BY <2>3, <3>4, <3>5
  <2>6. \A q \in Points \ mbBad' : nObs'[q] = WeightOf(mObservations'[q])
    <3>1. \A q \in Points \ mbBad : nObs[q] = WeightOf(mObservations[q])
      BY DEF RefParts, Weighed
    <3>. QED  BY <1>4, <2>3, <2>5, <3>1
  <2>7. PICK f : f = IF nObs'[p] <= 2 THEN <<SetBadFlagOf(p)>> ELSE <<>>
    OBVIOUS
  <2>8. /\ f \in Seq(ACalls) /\ \A c \in CallsIn(f) : c.do = "SetBadFlag"
        /\ nObs'[p] <= 2 => SetBadFlagOf(p) \in CallsIn(f)
    <3>1. SetBadFlagOf(p) \in ACalls /\ SetBadFlagOf(p).do = "SetBadFlag"
      BY <1>2, MoreCalls, CallParts
    <3>2. <<SetBadFlagOf(p)>> \in Seq(ACalls) /\ CallsIn(<<SetBadFlagOf(p)>>) = {SetBadFlagOf(p)}
      BY <3>1, ListCalls
    <3>. QED  BY <2>7, <3>1, <3>2, NothingToCall
  <2>9. AddsPending(mObservations', f) /\ \A c \in CallsIn(f) : c.do \in EraserNames
    BY <2>8, AddsPlainly DEF EraserNames
  <2>10. ASSUME NEW q \in (1..points) \ mbBad'
         PROVE  \/ SetBadFlagOf(q) \in CallsIn(f)
                \/ mpRefKF'[q] \in DOMAIN mObservations'[q]
                \/ /\ Head(calls[t]) # SetBadFlagOf(q) /\ mpRefKF'[q] = mpRefKF[q] /\ mpRefKF[q] \notin DOMAIN mObservations[q]
                   /\ \A i : Head(calls[t]) # AddObservationOf(q, mpRefKF[q], i)
    <3>1. q \in Points /\ Head(calls[t]) # SetBadFlagOf(q) /\ \A i : Head(calls[t]) # AddObservationOf(q, mpRefKF[q], i)
      BY <1>1, <1>3, CallParts
    <3>2. CASE q # p
      BY <2>3, <3>1, <3>2
    <3>3. CASE q = p /\ left = {}
      <4>1. WeightOf(mObservations'[p]) = 0
        BY <2>4, <3>3, NothingWeighs
      <4>2. nObs'[p] <= 2
        BY <1>4, <2>5, <3>3, <4>1
      <4>. QED  BY <2>8, <3>3, <4>2
    <3>4. CASE q = p /\ left # {}
      <4>1. first \in left
        BY <2>2, <3>4
      <4>2. mpRefKF[p] \in DOMAIN mObservations[p] => mpRefKF'[p] \in left
        BY <2>3, <4>1 DEF Observers
      <4>3. mpRefKF[p] \notin DOMAIN mObservations[p] => mpRefKF'[p] = mpRefKF[p]
        BY <1>6, <2>3 DEF Observers
      <4>. QED  BY <2>4, <3>1, <3>4, <4>2, <4>3
    <3>. QED  BY <3>2, <3>3, <3>4
  <2>11. \A q \in Points : \A o \in DOMAIN mObservations'[q] : o \in DOMAIN mObservations[q]
    BY <2>3, <2>4 DEF Observers
  <2>12. Return(t, f) /\ mbBad \subseteq mbBad'
    BY <1>4, <2>1, <2>7 DEF p
  <2>. QED  BY <1>1, <1>3, <2>6, <2>8, <2>9, <2>10, <2>11, <2>12, ReturnKeepsRefs
<1>. QED  BY <1>5, <1>6

\* SetBadFlag and Replace take the observations; no addition follows.
LEMMA TakingKeepsRefs ==
  ASSUME IInv, RefParts, NEW t \in Threads, calls[t] # <<>>, Head(calls[t]).do \in {"SetBadFlag", "Replace"},
         TakeObservations(Head(calls[t]).mp), UNCHANGED <<nObs, mpRefKF, points>>,
         NEW f \in Seq(ACalls), Return(t, f), \A c \in CallsIn(f) : c.do # "AddObservation",
         t = "looping" => \A c \in CallsIn(f) : c.do \in EraserNames
  PROVE  RefParts'
<1>. DEFINE p == Head(calls[t]).mp
<1>1. p \in 1..points /\ 1..points \subseteq Points
  BY HeadTyped, CallsTyped
<1>2. mbBad' = mbBad \cup {p} /\ \A q \in Points : mObservations'[q] = IF q = p THEN <<>> ELSE mObservations[q]
  BY <1>1 DEF TakeObservations, IInv, Types
<1>3. DOMAIN <<>> = {}
  OBVIOUS
<1>4. \A q \in Points : \A k \in DOMAIN mObservations'[q] : k \in DOMAIN mObservations[q]
  BY <1>2, <1>3
<1>5. \A q \in Points \ mbBad' : nObs'[q] = WeightOf(mObservations'[q])
  BY <1>2 DEF RefParts, Weighed
<1>6. ASSUME NEW q \in (1..points) \ mbBad'
      PROVE  \/ mpRefKF'[q] \in DOMAIN mObservations'[q]
             \/ /\ Head(calls[t]) # SetBadFlagOf(q) /\ mpRefKF'[q] = mpRefKF[q] /\ mpRefKF[q] \notin DOMAIN mObservations[q]
                /\ \A i : Head(calls[t]) # AddObservationOf(q, mpRefKF[q], i)
  <2>1. q # p /\ q \in Points
    BY <1>1, <1>2
  <2>2. Head(calls[t]) # SetBadFlagOf(q)
    BY <2>1, CallParts
  <2>3. \A i : Head(calls[t]) # AddObservationOf(q, mpRefKF[q], i)
    BY CallParts
  <2>. QED  BY <1>2, <2>1, <2>2, <2>3
<1>7. AddsPending(mObservations', f)
  BY AddsPlainly
<1>8. Head(calls[t]).do \notin {"AddObservation", "SetMatch"} /\ mbBad \subseteq mbBad'
  BY <1>2
<1>. QED  BY <1>4, <1>5, <1>6, <1>7, <1>8, ReturnKeepsRefs

LEMMA OneMoreCall ==
  ASSUME NEW S, NEW l \in Seq(S), NEW c \in S
  PROVE  Append(l, c) \in Seq(S) /\ \A d \in CallsIn(Append(l, c)) : d = c \/ \E n \in 1..Len(l) : d = l[n]
<1>1. Append(l, c) = l \o <<c>> /\ Append(l, c) \in Seq(S) /\ CallsIn(Append(l, c)) = CallsIn(l) \cup {c}
  BY CallsOfAppend
<1>. QED  BY <1>1 DEF CallsIn

LEMMA SetBadFlagKeepsRefs ==
  ASSUME IInv, RefParts, NEW t \in Threads, SetBadFlag(t)
  PROVE  RefParts'
<1>. DEFINE p == Head(calls[t]).mp
            list(ks) == [n \in 1..Len(ks) |-> SetMatch(ks[n], mObservations[p][ks[n]], None)]
<1>1. calls[t] # <<>> /\ Head(calls[t]).do = "SetBadFlag"
  BY DEF SetBadFlag, Calls
<1>2. p \in 1..points /\ None \in 0..points
  BY <1>1, HeadTyped DEF None
<1>3. TakeObservations(p) /\ OnlyPoints /\ UNCHANGED <<nObs, mpRefKF>>
      /\ \E ks \in Orders(Observers(p)) : Return(t, Append(list(ks), EraseFromMap(p)))
  BY DEF SetBadFlag
<1>4. PICK ks \in Orders(Observers(p)) : Return(t, Append(list(ks), EraseFromMap(p)))
  BY <1>3
<1>5. UNCHANGED <<nObs, mpRefKF, points>>
  BY <1>3, OnlyPointsPlaces
<1>. HIDE DEF p
<1>6. Len(ks) \in Nat /\ \A n \in 1..Len(ks) : ks[n] \in 1..keyFrames /\ mObservations[p][ks[n]] \in Features
  BY <1>2, TheObservers
<1>7. PICK l : l = list(ks)
  OBVIOUS
<1>8. l \in Seq(ACalls) /\ \A n \in 1..Len(l) : l[n].do = "SetMatch"
  <2>1. \A n \in 1..Len(ks) : SetMatch(ks[n], mObservations[p][ks[n]], None) \in ACalls
    BY <1>2, <1>6, MoreCalls
  <2>2. l \in Seq(ACalls)
    BY <1>6, <1>7, <2>1
  <2>3. l = [n \in 1..Len(ks) |-> l[n]] /\ \A n \in 1..Len(ks) : l[n].do = "SetMatch"
    BY <1>7, CallParts
  <2>4. Len(l) = Len(ks)
    BY <1>6, <2>3, ListLength, Zenon
  <2>. QED  BY <2>2, <2>3, <2>4
<1>9. PICK e \in ACalls : e = EraseFromMap(p) /\ e.do = "EraseFromMap"
  BY <1>2, MoreCalls, CallParts
<1>10. Append(l, e) \in Seq(ACalls) /\ \A d \in CallsIn(Append(l, e)) : d.do = "SetMatch" \/ d = e
  BY <1>8, OneMoreCall
<1>11. PICK f \in Seq(ACalls) : f = Append(l, e) /\ \A d \in CallsIn(f) : d.do \in {"SetMatch", "EraseFromMap"}
  BY <1>9, <1>10
<1>12. Return(t, f)
  BY <1>4, <1>7, <1>9, <1>11
<1>13. \A d \in CallsIn(f) : d.do # "AddObservation" /\ d.do \in EraserNames
  BY <1>11 DEF EraserNames
<1>. QED  BY <1>1, <1>3, <1>5, <1>12, <1>13, TakingKeepsRefs DEF p

\* Loop closing fuses nothing yet.
LEMMA OnlyErasers ==
  ASSUME IInv, RefParts, NEW t \in Threads, calls[t] # <<>>, Head(calls[t]).do \notin EraserNames
  PROVE  t = "mapping"
<1>1. calls[t] \in Seq(ACalls)
  BY CallsTyped
<1>2. Head(calls[t]) \in CallsIn(calls[t])
  BY <1>1, CallsOfTail
<1>3. t = "looping" => Head(calls[t]).do \in EraserNames
  BY <1>2 DEF RefParts, Erasing
<1>. QED  BY <1>3, TheThreads

LEMMA ReplaceKeepsRefs ==
  ASSUME IInv, RefParts, NEW t \in Threads, Replace(t)
  PROVE  RefParts'
<1>. DEFINE p == Head(calls[t]).mp
            q == Head(calls[t]).by
            list(ks) == [n \in 1..Len(ks) |-> MoveObservation(q, ks[n], mObservations[p][ks[n]])]
<1>1. calls[t] # <<>> /\ Head(calls[t]).do = "Replace"
  BY DEF Replace, Calls
<1>2. p \in 1..points /\ q \in 1..points /\ t # "looping"
  <2>1. Head(calls[t]).do \notin EraserNames
    BY <1>1 DEF EraserNames
  <2>. QED  BY <1>1, <2>1, HeadTyped, OnlyErasers, TheThreads
<1>3. /\ OnlyPoints /\ UNCHANGED <<nObs, mpRefKF>>
      /\ \/ Return(t, <<>>) /\ UNCHANGED <<mObservations, mbBad, mpReplaced>>
         \/ TakeObservations(p) /\ \E ks \in Orders(Observers(p)) : Return(t, Append(list(ks), EraseFromMap(p)))
  BY DEF Replace
<1>4. UNCHANGED <<nObs, mpRefKF, points>>
  BY <1>3, OnlyPointsPlaces
<1>5. CASE Return(t, <<>>) /\ UNCHANGED <<mObservations, mbBad, mpReplaced>>
  <2>1. UNCHANGED <<pointVars, points>>
    BY <1>4, <1>5 DEF pointVars
  <2>2. PICK f \in Seq(ACalls) : f = <<>> /\ CallsIn(f) = {} /\ AddsPending(mObservations, f)
    BY NothingToCall, NoAddsFirst
  <2>. QED  BY <1>1, <1>5, <2>1, <2>2, LookingKeepsRefs
<1>6. ASSUME TakeObservations(p), NEW ks \in Orders(Observers(p)), Return(t, Append(list(ks), EraseFromMap(p)))  PROVE RefParts'
  <2>. HIDE DEF p, q
  <2>1. Len(ks) \in Nat /\ \A n \in 1..Len(ks) : ks[n] \in 1..keyFrames /\ mObservations[p][ks[n]] \in Features
    BY <1>2, TheObservers
  <2>2. PICK l : l = list(ks)
    OBVIOUS
  <2>3. l \in Seq(ACalls) /\ \A n \in 1..Len(l) : l[n].do = "MoveObservation"
    <3>1. \A n \in 1..Len(ks) : MoveObservation(q, ks[n], mObservations[p][ks[n]]) \in ACalls
      BY <1>2, <2>1, MoreCalls
    <3>2. l \in Seq(ACalls)
      BY <2>1, <2>2, <3>1
    <3>3. l = [n \in 1..Len(ks) |-> l[n]] /\ \A n \in 1..Len(ks) : l[n].do = "MoveObservation"
      BY <2>2, CallParts
    <3>4. Len(l) = Len(ks)
      BY <2>1, <3>3, ListLength, Zenon
    <3>. QED  BY <3>2, <3>3, <3>4
  <2>4. PICK e \in ACalls : e = EraseFromMap(p) /\ e.do = "EraseFromMap"
    BY <1>2, MoreCalls, CallParts
  <2>5. Append(l, e) \in Seq(ACalls) /\ \A d \in CallsIn(Append(l, e)) : d.do = "MoveObservation" \/ d = e
    BY <2>3, OneMoreCall
  <2>6. PICK f \in Seq(ACalls) : f = Append(l, e) /\ \A d \in CallsIn(f) : d.do \in {"MoveObservation", "EraseFromMap"}
    BY <2>4, <2>5
  <2>7. Return(t, f) /\ \A d \in CallsIn(f) : d.do # "AddObservation"
    BY <1>6, <2>2, <2>4, <2>6
  <2>. QED  BY <1>1, <1>2, <1>4, <1>6, <2>7, TakingKeepsRefs DEF p
<1>. QED  BY <1>3, <1>5, <1>6

LEMMA MoveKeepsRefs ==
  ASSUME IInv, RefParts, NEW t \in Threads, MoveOne(t)
  PROVE  RefParts'
<1>. DEFINE c == Head(calls[t])
<1>1. calls[t] # <<>> /\ c.do = "MoveObservation"
  BY DEF MoveOne, Calls
<1>2. c.mp \in 1..points /\ c.kf \in 1..keyFrames /\ c.idx \in Features /\ t # "looping"
  <2>1. c.do \notin EraserNames
    BY <1>1 DEF EraserNames
  <2>. QED  BY <1>1, <2>1, HeadIs, OnlyErasers, TheThreads
<1>3. /\ UNCHANGED pointVars /\ OnlyPoints
      /\ Return(t, IF c.kf \in Observers(c.mp) THEN <<SetMatch(c.kf, c.idx, None)>>
                   ELSE <<SetMatch(c.kf, c.idx, c.mp), AddObservationOf(c.mp, c.kf, c.idx)>>)
  BY DEF MoveOne
<1>4. UNCHANGED <<pointVars, points>>
  BY <1>3, OnlyPointsPlaces
<1>. HIDE DEF c
<1>5. PICK f : /\ \/ f = <<SetMatch(c.kf, c.idx, None)>>
                  \/ f = <<SetMatch(c.kf, c.idx, c.mp), AddObservationOf(c.mp, c.kf, c.idx)>> /\ c.kf \notin DOMAIN mObservations[c.mp]
               /\ Return(t, f)
  BY <1>3 DEF Observers
<1>6. f \in Seq(ACalls)
  <2>1. None \in 0..points /\ c.mp \in 0..points
    BY <1>2, CallsTyped DEF None
  <2>2. SetMatch(c.kf, c.idx, None) \in ACalls /\ SetMatch(c.kf, c.idx, c.mp) \in ACalls /\ AddObservationOf(c.mp, c.kf, c.idx) \in ACalls
    BY <1>2, <2>1, MoreCalls
  <2>. QED  BY <1>5, <2>2, ListsTyped
<1>7. AddsPending(mObservations, f)
  <2>1. CASE f = <<SetMatch(c.kf, c.idx, None)>>
    <3>1. CallsIn(f) = {SetMatch(c.kf, c.idx, None)}
      BY <2>1, CallsOfList
    <3>2. \A d \in CallsIn(f) : d.do # "AddObservation"
      BY <3>1, CallParts
    <3>. QED  BY <3>2, AddsPlainly
  <2>2. CASE f = <<SetMatch(c.kf, c.idx, c.mp), AddObservationOf(c.mp, c.kf, c.idx)>> /\ c.kf \notin DOMAIN mObservations[c.mp]
    <3>1. PICK a, s : a = AddObservationOf(c.mp, c.kf, c.idx) /\ s = SetMatch(c.kf, c.idx, c.mp)
      OBVIOUS
    <3>2. a.do = "AddObservation" /\ a.kf \notin DOMAIN mObservations[a.mp] /\ s.do = "SetMatch"
      BY <2>2, <3>1, CallParts
    <3>. QED  BY <2>2, <3>1, <3>2, OneAddition
  <2>. QED  BY <1>5, <2>1, <2>2
<1>. QED  BY <1>1, <1>2, <1>4, <1>5, <1>6, <1>7, LookingKeepsRefs DEF c

LEMMA AssociateKeepsRefs ==
  ASSUME IInv, RefParts, NEW t \in Threads, AssociateMapPoint(t)
  PROVE  RefParts'
<1>. DEFINE c == Head(calls[t])
<1>1. calls[t] # <<>> /\ c.do = "Associate"
  BY DEF AssociateMapPoint, Calls
<1>2. c.mp \in 1..points /\ c.kf \in 1..keyFrames /\ c.idx \in Features /\ t # "looping"
  <2>1. c.do \notin EraserNames
    BY <1>1 DEF EraserNames
  <2>. QED  BY <1>1, <2>1, HeadIs, OnlyErasers, TheThreads
<1>3. UNCHANGED <<pointVars, points>>
  BY DEF AssociateMapPoint, ButPoints, madeVars
<1>4. Return(t, IF c.mp \in Good /\ c.kf \notin Observers(c.mp) THEN <<AddObservationOf(c.mp, c.kf, c.idx)>> ELSE <<>>)
  BY DEF AssociateMapPoint
<1>. HIDE DEF c
<1>5. PICK f : /\ \/ f = <<>>
                  \/ f = <<AddObservationOf(c.mp, c.kf, c.idx)>> /\ c.kf \notin DOMAIN mObservations[c.mp]
               /\ Return(t, f)
  BY <1>4 DEF Observers
<1>6. PICK a : a = AddObservationOf(c.mp, c.kf, c.idx)
  OBVIOUS
<1>7. a \in ACalls /\ a.do = "AddObservation" /\ a.mp = c.mp /\ a.kf = c.kf
  BY <1>2, <1>6, MoreCalls, CallParts
<1>8. f \in Seq(ACalls)
  BY <1>5, <1>6, <1>7, ListsTyped, NothingToCall
<1>9. AddsPending(mObservations, f)
  <2>1. CASE f = <<>>
    BY <2>1, NoAddsFirst
  <2>2. CASE f = <<a>> /\ a.kf \notin DOMAIN mObservations[a.mp]
    <3>1. PICK s : s.do = "SetMatch"
      BY CallParts
    <3>. QED  BY <1>7, <2>2, <3>1, OneAddition
  <2>. QED  BY <1>5, <1>6, <1>7, <2>1, <2>2
<1>. QED  BY <1>1, <1>2, <1>3, <1>5, <1>8, <1>9, LookingKeepsRefs DEF c

LEMMA EraseMatchKeepsRefs ==
  ASSUME IInv, RefParts, NEW t \in Threads, EraseMapPointMatch(t)
  PROVE  RefParts'
<1>. DEFINE c == Head(calls[t])
<1>1. calls[t] # <<>> /\ c.do = "EraseMatch"
  BY DEF EraseMapPointMatch, Calls
<1>2. c.mp \in Points /\ c.mp \in 1..points /\ c.kf \in 1..keyFrames /\ t # "looping"
  <2>1. c.do \notin EraserNames
    BY <1>1 DEF EraserNames
  <2>. QED  BY <1>1, <2>1, HeadIs, OnlyErasers, TheThreads
<1>3. UNCHANGED pointVars /\ OnlyPoints
      /\ Return(t, IF c.kf \in Observers(c.mp) THEN <<SetMatch(c.kf, mObservations[c.mp][c.kf], None)>> ELSE <<>>)
  BY DEF EraseMapPointMatch
<1>4. UNCHANGED <<pointVars, points>>
  BY <1>3, OnlyPointsPlaces
<1>. HIDE DEF c
<1>5. PICK f : /\ f = IF c.kf \in Observers(c.mp) THEN <<SetMatch(c.kf, mObservations[c.mp][c.kf], None)>> ELSE <<>>
               /\ Return(t, f)
  BY <1>3
<1>6. f \in Seq(ACalls) /\ \A d \in CallsIn(f) : d.do # "AddObservation"
  <2>1. CASE c.kf \in Observers(c.mp)
    <3>1. PICK i : i = mObservations[c.mp][c.kf]
      OBVIOUS
    <3>2. mObservations[c.mp] \in ObservationsTo(keyFrames) /\ keyFrames \in Nat
      BY <1>2, CallsTyped DEF IInv, Types
    <3>3. i \in Features
      BY <2>1, <3>1, <3>2, ObservationsAreFinite, Zenon DEF Observers
    <3>4. None \in 0..points
      BY CallsTyped DEF None
    <3>5. SetMatch(c.kf, i, None) \in ACalls /\ SetMatch(c.kf, i, None).do = "SetMatch"
      BY <1>2, <3>3, <3>4, MoreCalls, CallParts
    <3>6. f = <<SetMatch(c.kf, i, None)>>
      BY <1>5, <2>1, <3>1
    <3>. QED  BY <3>5, <3>6, ListCalls
  <2>2. CASE c.kf \notin Observers(c.mp)
    BY <1>5, <2>2, NothingToCall
  <2>. QED  BY <2>1, <2>2
<1>7. AddsPending(mObservations, f)
  BY <1>6, AddsPlainly
<1>. QED  BY <1>1, <1>2, <1>4, <1>5, <1>6, <1>7, LookingKeepsRefs DEF c

LEMMA ForgetKeepsRefs ==
  ASSUME IInv, RefParts, NEW t \in Threads, ForgetMatch(t)
  PROVE  RefParts'
<1>. DEFINE k == Head(calls[t]).kf
            p == mvpMapPoints[k][Head(calls[t]).idx]
<1>1. calls[t] # <<>> /\ Head(calls[t]).do = "Forget"
  BY DEF ForgetMatch, Calls
<1>2. k \in 1..keyFrames /\ k \in KeyFrames /\ Head(calls[t]).idx \in Features
  BY <1>1, HeadTyped, CallsTyped
<1>3. UNCHANGED pointVars /\ OnlyPoints /\ Return(t, IF p = None THEN <<>> ELSE <<EraseObservationOf(p, k)>>)
  BY DEF ForgetMatch
<1>4. UNCHANGED <<pointVars, points>>
  BY <1>3, OnlyPointsPlaces
<1>5. p \in 0..points /\ points \in Nat
  BY <1>2, CallsTyped DEF IInv, Types
<1>. HIDE DEF k, p
<1>6. PICK f : f = (IF p = None THEN <<>> ELSE <<EraseObservationOf(p, k)>>) /\ Return(t, f)
  BY <1>3
<1>7. f \in Seq(ACalls) /\ \A d \in CallsIn(f) : d.do = "EraseObservation"
  <2>1. CASE p = None
    BY <1>6, <2>1, NothingToCall
  <2>2. CASE p # None
    <3>1. p \in 1..points
      BY <1>5, <2>2 DEF None
    <3>2. EraseObservationOf(p, k) \in ACalls /\ EraseObservationOf(p, k).do = "EraseObservation"
      BY <1>2, <3>1, MoreCalls, CallParts
    <3>. QED  BY <1>6, <2>2, <3>2, ListCalls
  <2>. QED  BY <2>1, <2>2
<1>8. AddsPending(mObservations, f) /\ \A d \in CallsIn(f) : d.do \in EraserNames
  BY <1>7, AddsPlainly DEF EraserNames
<1>. QED  BY <1>1, <1>4, <1>6, <1>7, <1>8, LookingKeepsRefs

LEMMA OtherCallsKeepRefs ==
  ASSUME IInv, RefParts, NEW t \in Threads, SetMapPointMatch(t) \/ MarkKeyFrameBad(t) \/ UpdateMap(t) \/ UnlockMapUpdate(t)
  PROVE  RefParts'
<1>1. calls[t] # <<>> /\ Return(t, <<>>)
  BY DEF SetMapPointMatch, MarkKeyFrameBad, UpdateMap, UnlockMapUpdate, Calls
<1>2. Head(calls[t]).do \notin {"AddObservation", "SetBadFlag"}
  BY DEF SetMapPointMatch, MarkKeyFrameBad, UpdateMap, UnlockMapUpdate, Calls
<1>3. UNCHANGED <<pointVars, points>>
  BY DEF SetMapPointMatch, MarkKeyFrameBad, UpdateMap, UnlockMapUpdate, ButPoints, madeVars
<1>4. PICK f \in Seq(ACalls) : f = <<>> /\ CallsIn(f) = {} /\ AddsPending(mObservations, f)
  BY NothingToCall, NoAddsFirst
<1>. QED  BY <1>1, <1>2, <1>3, <1>4, LookingKeepsRefs

LEMMA RunCallKeepsRefs ==
  ASSUME IInv, RefParts, NEW t \in Threads, RunCall(t)
  PROVE  RefParts'
BY AddObservationKeepsRefs, EraseObservationKeepsRefs, SetBadFlagKeepsRefs, ReplaceKeepsRefs, MoveKeepsRefs, AssociateKeepsRefs,
   EraseMatchKeepsRefs, ForgetKeepsRefs, OtherCallsKeepRefs DEF RunCall

-----------------------------------------------------------------------------
(* What the threads start. *)
LEMMA RefsKept ==
  ASSUME RefParts, UNCHANGED <<pointVars, points, calls>>
  PROVE  RefParts'
<1>1. UNCHANGED <<mObservations, nObs, mpRefKF, mbBad, points, calls>>
  BY DEF pointVars
<1>2. Erasing' /\ AddsPending(mObservations', calls'["mapping"]) /\ Unmade' /\ Weighed'
  BY <1>1 DEF RefParts, Erasing, Unmade, Weighed, WeightOf
<1>3. \A p \in Good' : Referred(p)'
  BY <1>1 DEF RefParts, Good, Referred, Observers
<1>. QED  BY <1>2, <1>3 DEF RefParts

LEMMA StartKeepsRefs ==
  ASSUME IInv, RefParts, NEW t \in Threads, Idle(t), NEW L, Call(t, L), UNCHANGED <<pointVars, points>>,
         t = "looping" => \A c \in CallsIn(L) : c.do \in EraserNames,
         t = "mapping" => AddsPending(mObservations, L)
  PROVE  RefParts'
<1>1. UNCHANGED <<mObservations, nObs, mpRefKF, mbBad, points>>
  BY DEF pointVars
<1>2. calls'[t] = L /\ \A u \in Threads : u # t => calls'[u] = calls[u]
  BY CallsTyped DEF Call
<1>3. CallsIn(calls[t]) = {} /\ {"mapping", "looping"} \subseteq Threads
  BY NothingToCall, TheThreads DEF Idle
<1>4. Erasing'
  <2>1. CASE t = "looping"
    BY <1>2, <2>1 DEF Erasing
  <2>2. CASE t # "looping"
    <3>1. calls'["looping"] = calls["looping"]
      BY <1>2, <1>3, <2>2
    <3>. QED  BY <3>1 DEF RefParts, Erasing
  <2>. QED  BY <2>1, <2>2
<1>5. AddsPending(mObservations', calls'["mapping"])
  <2>1. CASE t = "mapping"
    BY <1>1, <1>2, <2>1
  <2>2. CASE t # "mapping"
    <3>1. calls'["mapping"] = calls["mapping"]
      BY <1>2, <1>3, <2>2
    <3>. QED  BY <1>1, <3>1 DEF RefParts
  <2>. QED  BY <2>1, <2>2
<1>6. Unmade' /\ Weighed'
  BY <1>1 DEF RefParts, Unmade, Weighed, WeightOf
<1>7. ASSUME NEW p \in Good'  PROVE Referred(p)'
  <2>1. Referred(p)
    BY <1>1 DEF RefParts, Good
  <2>2. \A u \in Threads : CallsIn(calls[u]) \subseteq CallsIn(calls'[u])
    BY <1>2, <1>3
  <2>3. mpRefKF'[p] = mpRefKF[p] /\ mObservations' = mObservations
    BY <1>1
  <2>. QED  BY <1>3, <2>1, <2>2, <2>3 DEF Referred, Observers
<1>. QED  BY <1>4, <1>5, <1>6, <1>7 DEF RefParts

LEMMA ProcessNewKeyFrameKeepsRefs ==
  ASSUME IInv, RefParts, ProcessNewKeyFrame
  PROVE  RefParts'
<1>. DEFINE k == Head(mlNewKeyFrames)
            list(is) == [n \in 1..Len(is) |-> Associate(mvpMapPoints[k][is[n]], k, is[n])]
            Shows == {i \in Features : mvpMapPoints[k][i] # None}
<1>1. mapper = "idle" /\ UNCHANGED <<pointVars, madeVars>>
  BY DEF ProcessNewKeyFrame
<1>2. PICK is \in Ascending(Shows) : Call("mapping", Append(list(is), InsertInMap(k)))
  BY DEF ProcessNewKeyFrame
<1>3. Idle("mapping") /\ UNCHANGED <<pointVars, points>>
  BY <1>1 DEF IInv, Turns, madeVars
<1>4. Len(is) \in Nat
  <2>1. Shows \in SUBSET Features /\ IsFiniteSet(Features)
    BY MapPointsAssumption
  <2>2. IsFiniteSet(Shows)
    BY <2>1, FS_Subset
  <2>3. is \in Orders(Shows)
    BY DEF Ascending
  <2>. QED  BY <2>2, <2>3, OrdersFacts
<1>. HIDE DEF k
<1>5. PICK l : l = list(is)
  OBVIOUS
<1>6. \A n \in 1..Len(l) : l[n].do = "Associate"
  <2>1. l = [n \in 1..Len(is) |-> l[n]] /\ \A n \in 1..Len(is) : l[n].do = "Associate"
    BY <1>5, CallParts
  <2>2. Len(l) = Len(is)
    BY <1>4, <2>1, ListLength, Zenon
  <2>. QED  BY <2>1, <2>2
<1>7. PICK e : e = InsertInMap(k) /\ e.do = "InsertInMap"
  BY CallParts
<1>8. PICK S : l \in Seq(S) /\ e \in S
  <2>1. l \in Seq({l[n] : n \in 1..Len(is)} \cup {e})
    BY <1>4, <1>5
  <2>. QED  BY <2>1
<1>9. \A d \in CallsIn(Append(l, e)) : d = e \/ \E n \in 1..Len(l) : d = l[n]
  BY <1>8, OneMoreCall
<1>10. PICK f : f = Append(l, e)
  OBVIOUS
<1>11. \A d \in CallsIn(f) : d.do # "AddObservation"
  BY <1>6, <1>7, <1>9, <1>10
<1>12. AddsPending(mObservations, f) /\ Call("mapping", f)
  BY <1>2, <1>5, <1>7, <1>10, <1>11, AddsPlainly
<1>. QED  BY <1>3, <1>12, TheThreads, StartKeepsRefs

LEMMA MapPointCullingKeepsRefs ==
  ASSUME IInv, RefParts, MapPointCulling
  PROVE  RefParts'
<1>1. Idle("mapping") /\ UNCHANGED <<pointVars, points>>
  BY DEF MapPointCulling, madeVars
<1>2. PICK p : Call("mapping", <<SetBadFlagOf(p)>>) \/ UNCHANGED calls
  BY DEF MapPointCulling
<1>3. CASE UNCHANGED calls
  BY <1>1, <1>3, RefsKept
<1>4. CASE Call("mapping", <<SetBadFlagOf(p)>>)
  <2>1. PICK f : f = <<SetBadFlagOf(p)>> /\ CallsIn(f) = {SetBadFlagOf(p)}
    BY CallsOfList
  <2>2. \A c \in CallsIn(f) : c.do # "AddObservation"
    BY <2>1, CallParts
  <2>3. AddsPending(mObservations, f) /\ Call("mapping", f)
    BY <1>4, <2>1, <2>2, AddsPlainly
  <2>. QED  BY <1>1, <2>3, TheThreads, StartKeepsRefs
<1>. QED  BY <1>2, <1>3, <1>4

LEMMA SearchInNeighborsKeepsRefs ==
  ASSUME IInv, RefParts, SearchInNeighbors
  PROVE  RefParts'
<1>1. Idle("mapping") /\ UNCHANGED <<pointVars, points>>
  BY DEF SearchInNeighbors, madeVars
<1>2. \E k, i, p : k \notin Observers(p) /\ Call("mapping", FuseCalls(p, k, i))
  BY DEF SearchInNeighbors
<1>3. PICK k, i, p : k \notin Observers(p) /\ Call("mapping", FuseCalls(p, k, i))
  BY <1>2
<1>4. PICK f : f = FuseCalls(p, k, i)
  OBVIOUS
<1>5. \/ f = <<>>
      \/ f = <<AddObservationOf(p, k, i), SetMatch(k, i, p)>>
      \/ \E q, r : f = <<ReplaceBy(q, r)>>
  BY <1>4 DEF FuseCalls, MakeObserved
<1>6. AddsPending(mObservations, f)
  <2>1. CASE f = <<>>
    BY <2>1, NoAddsFirst
  <2>2. CASE f = <<AddObservationOf(p, k, i), SetMatch(k, i, p)>>
    <3>1. PICK a, s : a = AddObservationOf(p, k, i) /\ s = SetMatch(k, i, p)
      OBVIOUS
    <3>2. a.do = "AddObservation" /\ a.kf \notin DOMAIN mObservations[a.mp] /\ s.do = "SetMatch"
      BY <1>3, <3>1, CallParts DEF Observers
    <3>. QED  BY <2>2, <3>1, <3>2, OneAddition
  <2>3. CASE \E q, r : f = <<ReplaceBy(q, r)>>
    <3>1. PICK q, r : f = <<ReplaceBy(q, r)>>
      BY <2>3
    <3>2. CallsIn(f) = {ReplaceBy(q, r)}
      BY <3>1, CallsOfList
    <3>3. \A c \in CallsIn(f) : c.do # "AddObservation"
      BY <3>2, CallParts
    <3>. QED  BY <3>3, AddsPlainly
  <2>. QED  BY <1>5, <2>1, <2>2, <2>3
<1>7. Call("mapping", f)
  BY <1>3, <1>4
<1>. QED  BY <1>1, <1>6, <1>7, TheThreads, StartKeepsRefs

LEMMA LocalBundleAdjustmentKeepsRefs ==
  ASSUME IInv, RefParts, LocalBundleAdjustment
  PROVE  RefParts'
<1>1. Idle("mapping") /\ UNCHANGED <<pointVars, points>>
  BY DEF LocalBundleAdjustment, madeVars
<1>2. \E p, k : Call("mapping", <<EraseMatch(k, p), EraseObservationOf(p, k), Unlock>>)
  BY DEF LocalBundleAdjustment
<1>3. PICK p, k : Call("mapping", <<EraseMatch(k, p), EraseObservationOf(p, k), Unlock>>)
  BY <1>2
<1>4. PICK f : f = <<EraseMatch(k, p), EraseObservationOf(p, k), Unlock>>
  OBVIOUS
<1>5. CallsIn(f) = {EraseMatch(k, p), EraseObservationOf(p, k), Unlock}
  BY <1>4, CallsOfList
<1>6. \A c \in CallsIn(f) : c.do # "AddObservation"
  BY <1>5, CallParts
<1>7. AddsPending(mObservations, f) /\ Call("mapping", f)
  BY <1>3, <1>4, <1>6, AddsPlainly
<1>. QED  BY <1>1, <1>7, TheThreads, StartKeepsRefs

LEMMA EraseKeyFrameErases ==
  ASSUME NEW k, NEW is \in Ascending(Features)
  PROVE  \A c \in CallsIn(EraseKeyFrame(k, is)) : c.do \in EraserNames /\ c.do # "AddObservation"
<1>1. Len(is) \in Nat
  <2>1. is \in Orders(Features) /\ IsFiniteSet(Features)
    BY MapPointsAssumption DEF Ascending
  <2>. QED  BY <2>1, OrdersFacts
<1>2. PICK l : l = [n \in 1..Len(is) |-> Forget(k, is[n])]
  OBVIOUS
<1>3. \A n \in 1..Len(l) : l[n].do = "Forget"
  <2>1. l = [n \in 1..Len(is) |-> l[n]] /\ \A n \in 1..Len(is) : l[n].do = "Forget"
    BY <1>2, CallParts
  <2>2. Len(l) = Len(is)
    BY <1>1, <2>1, ListLength, Zenon
  <2>. QED  BY <2>1, <2>2
<1>4. PICK e : e = MarkBad(k) /\ e.do = "MarkBad"
  BY CallParts
<1>5. PICK S : l \in Seq(S) /\ e \in S
  <2>1. l \in Seq({l[n] : n \in 1..Len(is)} \cup {e})
    BY <1>1, <1>2
  <2>. QED  BY <2>1
<1>6. Append(l, e) = l \o <<e>> /\ CallsIn(Append(l, e)) = CallsIn(l) \cup {e}
  BY <1>5, CallsOfAppend
<1>7. \A c \in CallsIn(l) : c.do = "Forget"
  BY <1>3 DEF CallsIn
<1>8. EraseKeyFrame(k, is) = l \o <<e>>
  BY <1>2, <1>4 DEF EraseKeyFrame
<1>. QED  BY <1>4, <1>6, <1>7, <1>8 DEF EraserNames

LEMMA KeyFrameCullingKeepsRefs ==
  ASSUME IInv, RefParts, KeyFrameCulling
  PROVE  RefParts'
<1>1. Idle("mapping") /\ UNCHANGED <<pointVars, points>>
  BY DEF KeyFrameCulling, madeVars
<1>2. PICK k : UNCHANGED calls \/ \E is \in Ascending(Features) : Call("mapping", EraseKeyFrame(k, is))
  BY DEF KeyFrameCulling
<1>3. CASE UNCHANGED calls
  BY <1>1, <1>3, RefsKept
<1>4. CASE \E is \in Ascending(Features) : Call("mapping", EraseKeyFrame(k, is))
  <2>1. PICK is \in Ascending(Features) : Call("mapping", EraseKeyFrame(k, is))
    BY <1>4
  <2>2. AddsPending(mObservations, EraseKeyFrame(k, is))
    BY EraseKeyFrameErases, AddsPlainly
  <2>. QED  BY <1>1, <2>1, <2>2, TheThreads, StartKeepsRefs
<1>. QED  BY <1>2, <1>3, <1>4

LEMMA LoopingKeepsRefs ==
  ASSUME IInv, RefParts, NoLoopYet, NoLoopYet', Looping
  PROVE  RefParts'
<1>1. CASE TakeKeyFrame \/ Detected
  <2>1. UNCHANGED <<pointVars, points, calls>>
    BY <1>1 DEF TakeKeyFrame, Detected, LoopingRest, madeVars
  <2>. QED  BY <2>1, RefsKept
<1>2. CASE NotDetected
  <2>1. looper = "detect" /\ UNCHANGED <<pointVars, points>>
    BY <1>2 DEF NotDetected, LoopingRest, madeVars
  <2>2. Idle("looping")
    BY <2>1 DEF IInv, Turns
  <2>3. PICK is \in Ascending(Features) : Call("looping", IF mpLoopKF \in mbToBeErased THEN EraseKeyFrame(mpLoopKF, is) ELSE <<>>)
    BY <1>2 DEF NotDetected
  <2>4. PICK f : f = (IF mpLoopKF \in mbToBeErased THEN EraseKeyFrame(mpLoopKF, is) ELSE <<>>) /\ Call("looping", f)
    BY <2>3
  <2>5. \A c \in CallsIn(f) : c.do \in EraserNames
    BY <2>4, EraseKeyFrameErases, NothingToCall
  <2>. QED  BY <2>1, <2>2, <2>4, <2>5, TheThreads, StartKeepsRefs
<1>3. CASE CorrectLoop
  BY <1>3 DEF CorrectLoop, NoLoopYet
<1>4. CASE SearchAndFuse \/ ReplaceFused \/ EndCorrection
  BY <1>4 DEF SearchAndFuse, ReplaceFused, EndCorrection, NoLoopYet
<1>. QED  BY <1>1, <1>2, <1>3, <1>4 DEF Looping

-----------------------------------------------------------------------------
(* What makes points. *)
LEMMA MakingAdds ==
  ASSUME NEW obs, NEW p, DOMAIN obs[p] = {}, NEW k, NEW o, k # o, NEW i, NEW j
  PROVE  LET L == <<AddObservationOf(p, k, i), AddObservationOf(p, o, j), SetMatch(k, i, p), SetMatch(o, j, p), AddToMap(p)>> IN
         /\ AddsPending(obs, L)
         /\ AddToMap(p) \in CallsIn(L) /\ AddObservationOf(p, k, i) \in CallsIn(L)
<1>1. PICK a, b, c, d, e : /\ a = AddObservationOf(p, k, i) /\ b = AddObservationOf(p, o, j) /\ c = SetMatch(k, i, p)
                           /\ d = SetMatch(o, j, p) /\ e = AddToMap(p)
  OBVIOUS
<1>2. PICK S : a \in S /\ b \in S /\ c \in S /\ d \in S /\ e \in S
  <2>1. a \in {a, b, c, d, e} /\ b \in {a, b, c, d, e} /\ c \in {a, b, c, d, e} /\ d \in {a, b, c, d, e} /\ e \in {a, b, c, d, e}
    OBVIOUS
  <2>. QED  BY <2>1
<1>3. PICK f \in Seq(S) : f = <<a, b, c, d>>
  BY <1>2, ListsTyped
<1>4. Len(f) = 4 /\ 1..4 = {1, 2, 3, 4} /\ f[1] = a /\ f[2] = b /\ f[3] = c /\ f[4] = d
  BY <1>3
<1>5. CallsIn(f) = {a, b, c, d}
  <2>1. CallsIn(f) = {f[n] : n \in {1, 2, 3, 4}}
    BY <1>4 DEF CallsIn
  <2>. QED  BY <1>4, <2>1
<1>6. /\ a.do = "AddObservation" /\ a.kf = k /\ a.mp = p /\ b.do = "AddObservation" /\ b.kf = o /\ b.mp = p
      /\ c.do = "SetMatch" /\ d.do = "SetMatch" /\ e.do = "AddToMap"
  BY <1>1, CallParts
<1>7. Apart(f, "AddObservation")
  <2>. SUFFICES ASSUME NEW m \in {1, 2, 3, 4}, NEW n \in {1, 2, 3, 4}, m # n, f[m].do = "AddObservation", f[n].do = "AddObservation"
                PROVE  f[m].kf # f[n].kf
    BY <1>4 DEF Apart
  <2>1. m \in {1, 2} /\ n \in {1, 2}
    BY <1>4, <1>6
  <2>. QED  BY <1>4, <1>6, <2>1
<1>8. Before(f, {"AddObservation"}, {"AddObservation", "SetMatch"})
  <2>1. \A x \in CallsIn(f) : x.do \in {"AddObservation", "SetMatch"}
    BY <1>5, <1>6
  <2>. QED  BY <2>1, BeforePlainly
<1>9. PICK T \in Seq(S) : T = <<e>> /\ CallsIn(T) = {e}
  BY <1>2, ListsTyped, CallsOfList
<1>10. AddsPending(obs, T) /\ \A x \in CallsIn(T) : x.do # "AddObservation" /\ x.do \notin {"AddObservation"}
  <2>1. \A x \in CallsIn(T) : x.do # "AddObservation" /\ x.do \notin {"AddObservation"}
    BY <1>6, <1>9
  <2>. QED  BY <2>1, AddsPlainly
<1>11. Apart(f \o T, "AddObservation")
  BY <1>7, <1>10, ApartJoin DEF AddsPending
<1>12. Before(f \o T, {"AddObservation"}, {"AddObservation", "SetMatch"})
  BY <1>8, <1>10, BeforeJoin DEF AddsPending
<1>13. CallsIn(f \o T) = {a, b, c, d} \cup {e}
  <2>1. CallsIn(f \o T) = CallsIn(f) \cup CallsIn(T)
    BY CallsOfJoin
  <2>. QED  BY <1>5, <1>9, <2>1, Zenon
<1>14. AddsPending(obs, f \o T)
  <2>1. \A x \in CallsIn(f \o T) : x.do = "AddObservation" => x.kf \notin DOMAIN obs[x.mp]
    BY <1>6, <1>13
  <2>. QED  BY <1>11, <1>12, <2>1 DEF AddsPending
<1>15. f \o T = <<a, b, c, d, e>>
  <2>1. Append(f, e) = f \o T
    BY <1>2, <1>3, <1>9, CallsOfAppend
  <2>2. Append(f, e) = <<a, b, c, d, e>>
    BY <1>2, <1>3, FiveCalls
  <2>. QED  BY <2>1, <2>2
<1>16. PICK M : M = <<a, b, c, d, e>> /\ AddsPending(obs, M) /\ e \in CallsIn(M) /\ a \in CallsIn(M)
  BY <1>13, <1>14, <1>15
<1>. QED  BY <1>1, <1>16

LEMMA CreateNewMapPointsKeepsRefs ==
  ASSUME IInv, RefParts, CreateNewMapPoints
  PROVE  RefParts'
<1>0. PICK p : p = points + 1
  OBVIOUS
<1>1. /\ mapper \in {"cull", "create"} /\ Idle("mapping") /\ points < MaxPoints /\ points' = p
      /\ mpRefKF' = [mpRefKF EXCEPT ![p] = mpCurrentKF] /\ UNCHANGED <<mObservations, nObs, mbBad>>
  BY <1>0 DEF CreateNewMapPoints
<1>2. PICK k \in Live \ {mpCurrentKF}, i \in Features, j \in Features :
        Call("mapping", <<AddObservationOf(p, mpCurrentKF, i), AddObservationOf(p, k, j),
                          SetMatch(mpCurrentKF, i, p), SetMatch(k, j, p), AddToMap(p)>>)
  BY <1>0 DEF CreateNewMapPoints
<1>3. points \in Nat /\ p \in Points /\ p > points
  BY <1>0, <1>1, CallsTyped, MapPointsAssumption DEF Points
<1>4. DOMAIN mObservations[p] = {}
  BY <1>3 DEF RefParts, Unmade
<1>5. PICK L : /\ L = <<AddObservationOf(p, mpCurrentKF, i), AddObservationOf(p, k, j),
                        SetMatch(mpCurrentKF, i, p), SetMatch(k, j, p), AddToMap(p)>>
               /\ AddsPending(mObservations, L)
               /\ AddToMap(p) \in CallsIn(L) /\ AddObservationOf(p, mpCurrentKF, i) \in CallsIn(L)
  BY <1>4, MakingAdds
<1>6. calls'["mapping"] = L /\ calls'["looping"] = calls["looping"]
  BY <1>2, <1>5, CallsTyped, TheThreads DEF Call
<1>7. Erasing' /\ AddsPending(mObservations', calls'["mapping"])
  BY <1>1, <1>5, <1>6 DEF RefParts, Erasing
<1>8. Unmade'
  <2>1. \A q \in Points : q > p => q > points
    BY <1>0, <1>3 DEF Points
  <2>. QED  BY <1>1, <2>1 DEF RefParts, Unmade
<1>9. Weighed'
  BY <1>1 DEF RefParts, Weighed, WeightOf
<1>10. ASSUME NEW q \in Good'  PROVE Referred(q)'
  <2>1. CASE q = p
    <3>1. mpRefKF'[p] = mpCurrentKF
      BY <1>1, <1>3 DEF IInv, Types
    <3>. QED  BY <1>2, <1>5, <1>6, <2>1, <3>1 DEF Referred
  <2>2. CASE q # p
    <3>1. q \in Good
      BY <1>0, <1>1, <1>3, <2>2 DEF Good
    <3>2. CallsIn(calls["mapping"]) = {}
      BY <1>1, NothingToCall DEF Idle
    <3>3. SetBadFlagOf(q) \in CallsIn(calls["looping"]) \/ mpRefKF[q] \in Observers(q)
      BY <3>1, <3>2, TheThreads DEF RefParts, Referred
    <3>4. mpRefKF'[q] = mpRefKF[q] /\ mObservations' = mObservations
      <4>1. q \in Points
        BY <3>1, CallsTyped DEF Good
      <4>. QED  BY <1>1, <2>2, <4>1 DEF IInv, Types
    <3>. QED  BY <1>6, <3>3, <3>4, TheThreads DEF Referred, Observers
  <2>. QED  BY <2>1, <2>2
<1>. QED  BY <1>7, <1>8, <1>9, <1>10 DEF RefParts

LEMMA MappingKeepsRefs ==
  ASSUME IInv, RefParts, Mapping
  PROVE  RefParts'
<1>1. CASE NextTask
  <2>1. UNCHANGED <<pointVars, points, calls>>
    BY <1>1 DEF NextTask, madeVars
  <2>. QED  BY <2>1, RefsKept
<1>. QED  BY <1>1, ProcessNewKeyFrameKeepsRefs, MapPointCullingKeepsRefs, CreateNewMapPointsKeepsRefs, SearchInNeighborsKeepsRefs,
             LocalBundleAdjustmentKeepsRefs, KeyFrameCullingKeepsRefs DEF Mapping

\* The points of a new keyframe are observed by it alone.
LEMMA CreateKeyFrameKeepsRefs ==
  ASSUME IInv, RefParts, CreateNewKeyFrame
  PROVE  RefParts'
<1>1. PICK S \in SUBSET {i \in DepthFeatures : frame[i] = None \/ nObs[frame[i]] < 1} : \E is \in Ascending(S) :
        LET k == keyFrames + 1
            new == (points + 1)..(points + Len(is))
            idx(p) == is[p - points]
        IN /\ points + Len(is) <= MaxPoints
           /\ keyFrames' = k /\ points' = points + Len(is)
           /\ mpRefKF' = [p \in Points |-> IF p \in new THEN k ELSE mpRefKF[p]]
           /\ mObservations' = [p \in Points |-> IF p \in new THEN [o \in {k} |-> idx(p)] ELSE mObservations[p]]
           /\ nObs' = [p \in Points |-> IF p \in new THEN Weight(idx(p)) ELSE nObs[p]]
  BY DEF CreateNewKeyFrame
<1>2. PICK is \in Ascending(S) :
        LET k == keyFrames + 1
            new == (points + 1)..(points + Len(is))
            idx(p) == is[p - points]
        IN /\ points + Len(is) <= MaxPoints
           /\ keyFrames' = k /\ points' = points + Len(is)
           /\ mpRefKF' = [p \in Points |-> IF p \in new THEN k ELSE mpRefKF[p]]
           /\ mObservations' = [p \in Points |-> IF p \in new THEN [o \in {k} |-> idx(p)] ELSE mObservations[p]]
           /\ nObs' = [p \in Points |-> IF p \in new THEN Weight(idx(p)) ELSE nObs[p]]
  BY <1>1
<1>. DEFINE k == keyFrames + 1
            new == (points + 1)..(points + Len(is))
            idx(p) == is[p - points]
<1>3. UNCHANGED <<mbBad, calls>>
  BY DEF CreateNewKeyFrame
<1>4. points \in Nat /\ keyFrames \in Nat /\ IsFiniteSet(Features) /\ DepthFeatures \subseteq Features
  BY CallsTyped, MapPointsAssumption
<1>5. Len(is) \in Nat /\ \A n \in 1..Len(is) : is[n] \in Features
  <2>1. S \in SUBSET Features
    BY <1>1, <1>4
  <2>2. IsFiniteSet(S)
    BY <1>4, <2>1, FS_Subset
  <2>3. is \in Orders(S)
    BY DEF Ascending
  <2>4. Len(is) \in Nat /\ \A n \in 1..Len(is) : is[n] \in S
    BY <2>2, <2>3, OrdersFacts
  <2>. QED  BY <2>1, <2>4
<1>6. /\ \A q \in Points : q \in new => /\ mObservations'[q] = [o \in {k} |-> idx(q)] /\ nObs'[q] = Weight(idx(q))
                                         /\ mpRefKF'[q] = k
      /\ \A q \in Points : q \notin new => /\ mObservations'[q] = mObservations[q] /\ nObs'[q] = nObs[q]
                                            /\ mpRefKF'[q] = mpRefKF[q]
      /\ points' = points + Len(is) /\ keyFrames' = k
  BY <1>2
<1>7. \A q \in new : q \notin 1..points /\ idx(q) \in Features
  <2>1. \A q \in new : q - points \in 1..Len(is) /\ q \notin 1..points
    BY <1>4, <1>5
  <2>. QED  BY <1>5, <2>1
<1>8. k \in 1..keyFrames' /\ keyFrames' \in Nat
  BY <1>4, <1>6
<1>9. \A q \in new : WeightOf([o \in {k} |-> idx(q)]) = Weight(idx(q))
  <2>. SUFFICES ASSUME NEW q \in new  PROVE WeightOf([o \in {k} |-> idx(q)]) = Weight(idx(q))
    OBVIOUS
  <2>. DEFINE i == idx(q)
  <2>1. i \in Features
    BY <1>7
  <2>. HIDE DEF i, k
  <2>2. WeightOf([o \in {k} |-> i]) = Weight(i)
    BY <1>8, <2>1, SingleFacts, Zenon
  <2>. QED  BY <2>2 DEF i
<1>10. \A q \in Points : (q > points' => q > points /\ q \notin new) /\ (q \in 1..points' => q \in 1..points \/ q \in new)
  BY <1>4, <1>5, <1>6 DEF Points
<1>11. points' \in Nat /\ MaxPoints \in Nat /\ points' <= MaxPoints
  BY <1>2, <1>4, <1>5, MapPointsAssumption
<1>. HIDE DEF k, new, idx
<1>12. Erasing'
  BY <1>3 DEF RefParts, Erasing
<1>13. AddsPending(mObservations', calls'["mapping"])
  <2>1. \A c \in CallsIn(calls["mapping"]) : c.do = "AddObservation" => DOMAIN mObservations'[c.mp] \subseteq DOMAIN mObservations[c.mp]
    <3>. SUFFICES ASSUME NEW c \in CallsIn(calls["mapping"]), c.do = "AddObservation"
                  PROVE  mObservations'[c.mp] = mObservations[c.mp]
      OBVIOUS
    <3>1. c.mp \in 1..points /\ c.mp \in Points
      BY AddsTyped, TheThreads
    <3>. QED  BY <1>6, <1>7, <3>1
  <2>2. AddsPending(mObservations', calls["mapping"])
    BY <2>1, AddsLess DEF RefParts
  <2>. QED  BY <1>3, <2>2
<1>14. Unmade'
  <2>. SUFFICES ASSUME NEW q \in Points, q > points'  PROVE DOMAIN mObservations'[q] = {}
    BY DEF Unmade
  <2>. QED  BY <1>6, <1>10 DEF RefParts, Unmade
<1>15. ASSUME NEW q \in Points \ mbBad'  PROVE nObs'[q] = WeightOf(mObservations'[q])
  <2>1. CASE q \in new
    BY <1>6, <1>9, <2>1
  <2>2. CASE q \notin new
    BY <1>3, <1>6, <2>2 DEF RefParts, Weighed
  <2>. QED  BY <2>1, <2>2
<1>16. Weighed'
  BY <1>15 DEF Weighed, WeightOf
<1>17. ASSUME NEW q \in Good'  PROVE Referred(q)'
  <2>1. q \in Points /\ q \in 1..points' /\ q \notin mbBad
    <3>1. 1..points' \subseteq Points
      BY <1>11 DEF Points
    <3>. QED  BY <1>3, <3>1 DEF Good
  <2>2. CASE q \in new
    <3>1. k \in DOMAIN mObservations'[q] /\ mpRefKF'[q] = k
      BY <1>6, <2>1, <2>2
    <3>. QED  BY <3>1 DEF Referred, Observers
  <2>3. CASE q \notin new
    <3>1. Referred(q)
      BY <1>10, <2>1, <2>3 DEF RefParts, Good
    <3>2. mObservations'[q] = mObservations[q] /\ mpRefKF'[q] = mpRefKF[q] /\ calls' = calls
      BY <1>3, <1>6, <2>1, <2>3
    <3>. QED  BY <3>1, <3>2 DEF Referred, Observers
  <2>. QED  BY <2>2, <2>3
<1>. QED  BY <1>12, <1>13, <1>14, <1>16, <1>17 DEF RefParts

LEMMA NextKeepsRefs ==
  ASSUME IInv, Sequenced, RefInv, [Next]_vars
  PROVE  RefInv'
<1>. SUFFICES ASSUME NoLoopYet'  PROVE RefParts'
  BY DEF RefInv
<1>1. NoLoopYet /\ RefParts
  BY NoLoopBefore DEF RefInv
<1>2. CASE vars' = vars \/ CheckReplacedInLastFrame \/ TrackLocalMap \/ EndFrame
  <2>1. UNCHANGED <<pointVars, points, calls>>
    BY <1>2 DEF vars, CheckReplacedInLastFrame, TrackLocalMap, EndFrame, madeVars
  <2>. QED  BY <1>1, <2>1, RefsKept
<1>. QED  BY <1>1, <1>2, RunCallKeepsRefs, CreateKeyFrameKeepsRefs, MappingKeepsRefs, LoopingKeepsRefs DEF Next, Tracking

LEMMA InitRefInv == Init => RefInv
<1>. SUFFICES ASSUME Init  PROVE RefParts
  BY DEF RefInv
<1>1. points = 0 /\ calls["mapping"] = <<>> /\ calls["looping"] = <<>>
  BY TheThreads DEF Init
<1>2. \A p \in Points : DOMAIN mObservations[p] = {} /\ nObs[p] = 0
  BY DEF Init
<1>3. Erasing /\ AddsPending(mObservations, calls["mapping"])
  BY <1>1, NothingToCall, NoAddsFirst DEF Erasing
<1>4. Unmade /\ Weighed
  BY <1>2, NothingWeighs DEF Unmade, Weighed
<1>5. Good = {}
  BY <1>1 DEF Good
<1>. QED  BY <1>3, <1>4, <1>5 DEF RefParts

LEMMA RefInvMeans ==
  ASSUME IInv, RefInv
  PROVE  ReferenceObserves
<1>. SUFFICES ASSUME NoLoopYet, NEW p \in Good, ~InHand(p)
              PROVE  mpRefKF[p] \in Observers(p) /\ nObs[p] = ObservedWeight(p)
  BY DEF ReferenceObserves
<1>1. RefParts
  BY DEF RefInv
<1>2. \A t \in Threads : SetBadFlagOf(p) \notin CallsIn(calls[t]) /\ AddToMap(p) \notin CallsIn(calls[t])
  BY DEF InHand, CallsIn
<1>3. mpRefKF[p] \in Observers(p)
  BY <1>1, <1>2, TheThreads DEF RefParts, Referred
<1>4. p \in Points \ mbBad
  BY CallsTyped DEF Good
<1>5. nObs[p] = WeightOf(mObservations[p])
  BY <1>1, <1>4 DEF RefParts, Weighed
<1>. QED  BY <1>3, <1>5 DEF ObservedWeight, WeightOf, Observers

(* Until a loop has been corrected, a good point that nobody is making or  *)
(* about to discard is observed by its reference keyframe, and nObs is the *)
(* weight of its observations: EraseObservation, which gives the reference *)
(* to the first observer left, finds one, for any number of keyframes,     *)
(* points and features and with loop closing erasing what local mapping    *)
(* works on.                                                               *)
THEOREM ReferencesObserve == Spec => []ReferenceObserves
<1>1. Init => Sequenced /\ RefInv
  BY InitSequenced, InitRefInv
<1>2. IInv /\ (Sequenced /\ RefInv) /\ [Next]_vars => (Sequenced /\ RefInv)'
  BY NextKeepsOrder, NextKeepsRefs
<1>3. IInv /\ (Sequenced /\ RefInv) => ReferenceObserves
  BY RefInvMeans
<1>. QED  BY <1>1, <1>2, <1>3, Invariance, PTL DEF Spec
=============================================================================

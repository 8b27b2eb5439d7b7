--------------------------- MODULE Selection_proofs ---------------------------
(***************************************************************************)
(* Induction and definition by recursion over 1 .. n, from the library's   *)
(* theorem that a non-empty set of numbers has a least element, and with   *)
(* them what Keep returns for every list.                                  *)
(***************************************************************************)
EXTENDS Selection, SequenceTheorems, WellFoundedInduction, TLAPS

LEMMA LeastNumber ==
  ASSUME NEW S \in SUBSET Nat, S # {}  PROVE \E n \in S : \A m \in S : n <= m
<1>1. \A m, n \in Nat : m < n => <<m, n>> \in OpToRel(<, Nat)
  BY Zenon DEF OpToRel
<1>2. \E n \in S : \A m \in S : ~ (<<m, n>> \in OpToRel(<, Nat))
  BY WFMin, NatLessThanWellFounded, Zenon
<1>3. \E n \in S : \A m \in S : ~ (m < n)
  BY <1>1, <1>2, Zenon
<1>. QED  BY <1>3

(* A set that contains 1 and, below n, the successor of each of its elements *)
(* contains every number up to n.                                            *)
LEMMA Induction ==
  ASSUME NEW n \in Nat, NEW S, n # 0 => 1 \in S,
         \A i \in 1 .. n - 1 : i \in S => i + 1 \in S
  PROVE  1 .. n \subseteq S
<1>. DEFINE Out == {i \in 1 .. n : i \notin S}
<1>. SUFFICES ASSUME Out # {}  PROVE FALSE
  OBVIOUS
<1>1. PICK m \in Out : \A k \in Out : m <= k
  <2>1. Out \in SUBSET Nat
    OBVIOUS
  <2>. QED  BY <2>1, LeastNumber, Zenon
<1>2. m # 1 /\ m - 1 \in 1 .. n - 1 /\ m - 1 \notin Out
  BY <1>1
<1>. QED  BY <1>1, <1>2

(* The functions that start from base and go on with step. *)
Unfolding(n, V, base, step) ==
  {f \in [1 .. n -> V] : \A i \in 1 .. n : f[i] = step[i][IF i = 1 THEN base ELSE f[i - 1]]}

LEMMA Recursion ==
  ASSUME NEW n \in Nat, NEW V, NEW base \in V, NEW step \in [1 .. n -> [V -> V]]
  PROVE  Unfolding(n, V, base, step) # {}
<1>. DEFINE Upto(m) == \E f \in [1 .. m -> V] :
              \A i \in 1 .. m : f[i] = step[i][IF i = 1 THEN base ELSE f[i - 1]]
            S == {m \in 1 .. n : Upto(m)}
<1>1. CASE n = 0
  <2>. DEFINE f == [i \in 1 .. 0 |-> base]
  <2>1. f \in Unfolding(n, V, base, step)
    BY <1>1 DEF Unfolding
  <2>. QED  BY <2>1
<1>2. n # 0 => 1 \in S
  <2>. SUFFICES ASSUME n # 0  PROVE Upto(1) /\ 1 \in 1 .. n
    OBVIOUS
  <2>. DEFINE f == [i \in 1 .. 1 |-> step[1][base]]
  <2>1. f \in [1 .. 1 -> V] /\ \A i \in 1 .. 1 : f[i] = step[i][IF i = 1 THEN base ELSE f[i - 1]]
    OBVIOUS
  <2>2. 1 \in 1 .. n
    OBVIOUS
  <2>. HIDE DEF f
  <2>. QED  BY <2>1, <2>2
<1>3. ASSUME NEW m \in 1 .. n - 1, m \in S  PROVE m + 1 \in S
  <2>1. PICK f \in [1 .. m -> V] :
          \A i \in 1 .. m : f[i] = step[i][IF i = 1 THEN base ELSE f[i - 1]]
    BY <1>3
  <2>. DEFINE g == [i \in 1 .. m + 1 |-> IF i \in 1 .. m THEN f[i] ELSE step[m + 1][f[m]]]
  <2>2. step[m + 1][f[m]] \in V
    <3>1. m + 1 \in 1 .. n /\ m \in 1 .. m
      OBVIOUS
    <3>. QED  BY <2>1, <3>1
  <2>3. g \in [1 .. m + 1 -> V]
    BY <2>1, <2>2
  <2>4. \A i \in 1 .. m + 1 : g[i] = step[i][IF i = 1 THEN base ELSE g[i - 1]]
    <3>1. /\ \A i \in 1 .. m : g[i] = f[i] /\ (i # 1 => i - 1 \in 1 .. m)
          /\ g[m + 1] = step[m + 1][g[m]]
      OBVIOUS
    <3>2. m + 1 # 1 /\ (m + 1) - 1 = m /\ \A i \in 1 .. m + 1 : i \in 1 .. m \/ i = m + 1
      OBVIOUS
    <3>. HIDE DEF g
    <3>3. ASSUME NEW i \in 1 .. m  PROVE g[i] = step[i][IF i = 1 THEN base ELSE g[i - 1]]
      BY <2>1, <3>1
    <3>. QED  BY <3>1, <3>2, <3>3
  <2>. HIDE DEF g
  <2>5. Upto(m + 1) /\ m + 1 \in 1 .. n
    BY <2>3, <2>4
  <2>. QED  BY <2>5
<1>. HIDE DEF S
<1>4. \A m \in 1 .. n - 1 : m \in S => m + 1 \in S
  BY <1>3
<1>5. 1 .. n \subseteq S
  BY <1>2, <1>4, Induction, Zenon
<1>6. CASE n # 0
  <2>1. Upto(n)
    BY <1>5, <1>6 DEF S
  <2>. QED  BY <2>1 DEF Unfolding
<1>. QED  BY <1>1, <1>6

-----------------------------------------------------------------------------
(* What Keep has collected after each element of q. *)
Collections(T, q, S) ==
  {kept \in [1 .. Len(q) -> Seq(T)] :
     \A i \in 1 .. Len(q) :
       LET before == IF i = 1 THEN << >> ELSE kept[i - 1]
       IN  kept[i] = IF q[i] \in S THEN Append(before, q[i]) ELSE before}

LEMMA KeepUnfolds ==
  ASSUME NEW T, NEW q \in Seq(T), q # << >>, NEW S
  PROVE  \E kept \in Collections(T, q, S) : Keep(q, S) = kept[Len(q)]
<1>. DEFINE n == Len(q)
            prior(g, i) == IF i = 1 THEN << >> ELSE g[i - 1]
            body(g) == [i \in 1 .. n |->
                          IF q[i] \in S THEN Append(prior(g, i), q[i]) ELSE prior(g, i)]
            kept == CHOOSE g : g = body(g)
            step == [i \in 1 .. n |-> [v \in Seq(T) |-> IF q[i] \in S THEN Append(v, q[i]) ELSE v]]
<1>1. n \in Nat /\ n # 0 /\ \A i \in 1 .. n : q[i] \in T
  BY LenProperties, EmptySeq
<1>2. << >> \in Seq(T)
  BY EmptySeq
<1>3. step \in [1 .. n -> [Seq(T) -> Seq(T)]]
  BY <1>1, AppendProperties
<1>4. PICK f \in [1 .. n -> Seq(T)] : \A i \in 1 .. n : f[i] = step[i][prior(f, i)]
  <2>. HIDE DEF n, step
  <2>1. Unfolding(n, Seq(T), << >>, step) # {}
    BY <1>1, <1>2, <1>3, Recursion
  <2>. QED  BY <2>1 DEF Unfolding
<1>5. \A i \in 1 .. n : prior(f, i) \in Seq(T)
  <2>1. \A i \in 1 .. n : i # 1 => i - 1 \in 1 .. n
    BY <1>1
  <2>. QED  BY <1>2, <1>4, <2>1
<1>6. \A i \in 1 .. n : f[i] = IF q[i] \in S THEN Append(prior(f, i), q[i]) ELSE prior(f, i)
  BY <1>4, <1>5
<1>7. f = body(f)
  <2>1. f = [i \in 1 .. n |-> f[i]]
    BY <1>4
  <2>. HIDE DEF prior
  <2>. QED  BY <1>6, <2>1, Zenon
<1>8. kept = body(kept)
  <2>. HIDE DEF body
  <2>. QED  BY <1>7
<1>9. Keep(q, S) = kept[n]
  BY DEF Keep
<1>10. ASSUME NEW g, g = body(g)  PROVE g = f
  <2>. DEFINE Same == {i \in 1 .. n : g[i] = f[i]}
  <2>. HIDE DEF n
  <2>1. \A i \in 1 .. n : g[i] = IF q[i] \in S THEN Append(prior(g, i), q[i]) ELSE prior(g, i)
    BY <1>10, Zenon
  <2>2. n # 0 => 1 \in Same
    <3>1. n # 0 => 1 \in 1 .. n
      BY <1>1
    <3>2. prior(g, 1) = prior(f, 1)
      OBVIOUS
    <3>. HIDE DEF prior
    <3>3. ASSUME 1 \in 1 .. n  PROVE g[1] = f[1]
      <4>1. f[1] = IF q[1] \in S THEN Append(prior(f, 1), q[1]) ELSE prior(f, 1)
        BY <1>6, <3>3, Zenon
      <4>2. g[1] = IF q[1] \in S THEN Append(prior(g, 1), q[1]) ELSE prior(g, 1)
        BY <2>1, <3>3, Zenon
      <4>. QED  BY <3>2, <4>1, <4>2
    <3>. QED  BY <3>1, <3>3
  <2>3. ASSUME NEW i \in 1 .. n - 1, i \in Same  PROVE i + 1 \in Same
    <3>1. i + 1 \in 1 .. n /\ i + 1 # 1 /\ (i + 1) - 1 = i
      BY <1>1
    <3>2. prior(g, i + 1) = prior(f, i + 1)
      BY <2>3, <3>1
    <3>. HIDE DEF prior
    <3>. QED  BY <1>6, <2>1, <3>1, <3>2, Zenon
  <2>. HIDE DEF Same
  <2>4. \A i \in 1 .. n - 1 : i \in Same => i + 1 \in Same
    BY <2>3
  <2>5. 1 .. n \subseteq Same
    BY <1>1, <2>2, <2>4, Induction, Zenon
  <2>6. f = [i \in 1 .. n |-> f[i]] /\ g = [i \in 1 .. n |-> g[i]]
    BY <1>4, <1>10
  <2>. QED  BY <2>5, <2>6, Zenon DEF Same
<1>11. kept = f
  <2>. HIDE DEF body
  <2>. QED  BY <1>8, <1>10
<1>12. f \in Collections(T, q, S)
  BY <1>4, <1>6, Zenon DEF Collections
<1>. QED  BY <1>9, <1>11, <1>12, Zenon

-----------------------------------------------------------------------------
(* An invariant of the loop, as a set of pairs of a number of elements and   *)
(* what was selected of them: it holds at the end when it holds of no        *)
(* element and every further element keeps it.                               *)
LEMMA SelectionInduction ==
  ASSUME NEW T, NEW q \in Seq(T), NEW S, NEW Good,
         <<0, << >> >> \in Good,
         \A i \in 1 .. Len(q) : \A s \in Seq(T) :
           <<i - 1, s>> \in Good =>
             <<i, IF q[i] \in S THEN Append(s, q[i]) ELSE s>> \in Good
  PROVE  <<Len(q), Keep(q, S)>> \in Good /\ Keep(q, S) \in Seq(T)
<1>. DEFINE n == Len(q)
<1>1. CASE q = << >>
  BY <1>1, EmptySeq DEF Keep
<1>2. CASE q # << >>
  <2>1. PICK kept \in Collections(T, q, S) : Keep(q, S) = kept[n]
    BY <1>2, KeepUnfolds
  <2>. DEFINE prior(i) == IF i = 1 THEN << >> ELSE kept[i - 1]
              Fine == {i \in 1 .. n : <<i, kept[i]>> \in Good}
  <2>2. n \in Nat /\ n # 0
    BY <1>2, LenProperties, EmptySeq
  <2>3. /\ kept \in [1 .. n -> Seq(T)]
        /\ \A i \in 1 .. n : kept[i] = IF q[i] \in S THEN Append(prior(i), q[i]) ELSE prior(i)
    BY DEF Collections
  <2>. HIDE DEF n
  <2>4. ASSUME NEW i \in 1 .. n, <<i - 1, prior(i)>> \in Good, prior(i) \in Seq(T)
        PROVE  <<i, kept[i]>> \in Good
    <3>. HIDE DEF prior
    <3>. QED  BY <2>3, <2>4, Zenon DEF n
  <2>5. n # 0 => 1 \in Fine
    <3>1. 1 \in 1 .. n /\ prior(1) = << >> /\ 1 - 1 = 0
      BY <2>2
    <3>2. << >> \in Seq(T)
      BY EmptySeq
    <3>. HIDE DEF prior
    <3>. QED  BY <2>4, <3>1, <3>2, Zenon
  <2>6. ASSUME NEW i \in 1 .. n - 1, i \in Fine  PROVE i + 1 \in Fine
    <3>1. i + 1 \in 1 .. n /\ (i + 1) - 1 = i /\ prior(i + 1) = kept[i]
      BY <2>2
    <3>2. kept[i] \in Seq(T) /\ <<i, kept[i]>> \in Good
      BY <2>3, <2>6
    <3>. HIDE DEF prior
    <3>. QED  BY <2>4, <3>1, <3>2, Zenon
  <2>. HIDE DEF Fine
  <2>7. \A i \in 1 .. n - 1 : i \in Fine => i + 1 \in Fine
    BY <2>6
  <2>8. 1 .. n \subseteq Fine
    BY <2>2, <2>5, <2>7, Induction, Zenon
  <2>9. n \in 1 .. n
    BY <2>2
  <2>10. kept[n] \in Seq(T)
    BY <2>3, <2>9, Zenon
  <2>. QED  BY <2>1, <2>8, <2>9, <2>10, Zenon DEF n, Fine
<1>. QED  BY <1>1, <1>2

(* Keep returns elements of q that are in S, and all of them. *)
LEMMA KeepProperties ==
  ASSUME NEW T, NEW q \in Seq(T), NEW S
  PROVE  /\ Keep(q, S) \in Seq(T)
         /\ \A i \in 1 .. Len(Keep(q, S)) :
              Keep(q, S)[i] \in S /\ \E j \in 1 .. Len(q) : Keep(q, S)[i] = q[j]
         /\ \A j \in 1 .. Len(q) :
              q[j] \in S => \E i \in 1 .. Len(Keep(q, S)) : Keep(q, S)[i] = q[j]
<1>. DEFINE Sound(k, s) == \A i \in 1 .. Len(s) : s[i] \in S /\ \E j \in 1 .. k : s[i] = q[j]
            Full(k, s)  == \A j \in 1 .. k : q[j] \in S => \E i \in 1 .. Len(s) : s[i] = q[j]
            Good == {p \in (0 .. Len(q)) \X Seq(T) : Sound(p[1], p[2]) /\ Full(p[1], p[2])}
<1>1. Len(q) \in Nat /\ \A i \in 1 .. Len(q) : q[i] \in T
  BY LenProperties
<1>2. <<0, << >> >> \in Good
  <2>1. << >> \in Seq(T) /\ Len(<< >>) = 0 /\ 0 \in 0 .. Len(q)
    BY <1>1, EmptySeq
  <2>2. Sound(0, << >>) /\ Full(0, << >>)
    BY <2>1
  <2>. HIDE DEF Sound, Full
  <2>3. \A k \in 0 .. Len(q), s \in Seq(T) : Sound(k, s) /\ Full(k, s) => <<k, s>> \in Good
    OBVIOUS
  <2>. HIDE DEF Good
  <2>. QED  BY <2>1, <2>2, <2>3, Zenon
<1>3. ASSUME NEW k \in 1 .. Len(q), NEW s \in Seq(T), <<k - 1, s>> \in Good
      PROVE  <<k, IF q[k] \in S THEN Append(s, q[k]) ELSE s>> \in Good
  <2>1. Sound(k - 1, s) /\ Full(k - 1, s)
    BY <1>3
  <2>2. /\ k \in 0 .. Len(q) /\ \A j \in 1 .. k : j \in 1 .. k - 1 \/ j = k
        /\ k \in 1 .. k /\ \A j \in 1 .. k - 1 : j \in 1 .. k
    BY <1>1
  <2>. DEFINE l == Len(s)
  <2>3. CASE q[k] \in S
    <3>. DEFINE a == Append(s, q[k])
    <3>1. /\ l \in Nat /\ a \in Seq(T) /\ Len(a) = l + 1
          /\ \A i \in 1 .. l : a[i] = s[i]
          /\ a[l + 1] = q[k]
      BY <1>1, AppendProperties, LenProperties
    <3>2. \A i \in 1 .. l + 1 : i \in 1 .. l \/ i = l + 1
      BY <3>1
    <3>3. l + 1 \in 1 .. l + 1 /\ \A i \in 1 .. l : i \in 1 .. l + 1
      BY <3>1
    <3>. HIDE DEF a
    <3>4. Sound(k, a)
      <4>. SUFFICES ASSUME NEW i \in 1 .. l + 1
                    PROVE  a[i] \in S /\ \E j \in 1 .. k : a[i] = q[j]
        BY <3>1
      <4>1. CASE i \in 1 .. l
        <5>1. PICK j \in 1 .. k - 1 : s[i] = q[j]
          BY <2>1, <4>1, Zenon
        <5>2. s[i] \in S /\ a[i] = s[i] /\ j \in 1 .. k
          BY <2>1, <2>2, <3>1, <4>1, Zenon
        <5>. QED  BY <5>1, <5>2, Zenon
      <4>2. CASE i = l + 1
        BY <2>2, <2>3, <3>1, <4>2, Zenon
      <4>. QED  BY <3>2, <4>1, <4>2
    <3>5. Full(k, a)
      <4>. SUFFICES ASSUME NEW j \in 1 .. k, q[j] \in S
                    PROVE  \E i \in 1 .. l + 1 : a[i] = q[j]
        BY <3>1
      <4>1. CASE j \in 1 .. k - 1
        BY <2>1, <3>1, <3>3, <4>1, Zenon
      <4>2. CASE j = k
        BY <3>1, <3>3, <4>2, Zenon
      <4>. QED  BY <2>2, <4>1, <4>2
    <3>. HIDE DEF Sound, Full
    <3>. QED  BY <2>2, <2>3, <3>1, <3>4, <3>5 DEF a
  <2>4. CASE q[k] \notin S
    <3>1. Sound(k, s)
      BY <2>1, <2>2, Zenon
    <3>2. Full(k, s)
      BY <2>1, <2>2, <2>4, Zenon
    <3>. HIDE DEF Sound, Full
    <3>. QED  BY <2>2, <2>4, <3>1, <3>2
  <2>. QED  BY <2>3, <2>4
<1>. HIDE DEF Good
<1>4. \A k \in 1 .. Len(q) : \A s \in Seq(T) :
        <<k - 1, s>> \in Good => <<k, IF q[k] \in S THEN Append(s, q[k]) ELSE s>> \in Good
  BY <1>3, Zenon
<1>5. <<Len(q), Keep(q, S)>> \in Good /\ Keep(q, S) \in Seq(T)
  BY <1>2, <1>4, SelectionInduction
<1>. QED  BY <1>5 DEF Good

(* What is in S is kept. *)
LEMMA KeepMissesNone ==
  ASSUME NEW T, NEW q \in Seq(T), NEW S, NEW j \in 1 .. Len(q), q[j] \in S
  PROVE  \E i \in 1 .. Len(Keep(q, S)) : Keep(q, S)[i] = q[j]
<1>1. \A k \in 1 .. Len(q) : q[k] \in S => \E i \in 1 .. Len(Keep(q, S)) : Keep(q, S)[i] = q[k]
  BY KeepProperties
<1>. QED  BY <1>1, Zenon

(* Keep does not disturb the order of numbers. *)
LEMMA KeepSorted ==
  ASSUME NEW q \in Seq(Int), NEW S, \A i, j \in 1 .. Len(q) : i < j => q[i] <= q[j]
  PROVE  \A i, j \in 1 .. Len(Keep(q, S)) : i < j => Keep(q, S)[i] <= Keep(q, S)[j]
<1>. DEFINE Ordered(s) == \A i, j \in 1 .. Len(s) : i < j => s[i] <= s[j]
            Below(k, s) == \A i \in 1 .. Len(s) : \A j \in 1 .. Len(q) : j > k => s[i] <= q[j]
            Good == {p \in (0 .. Len(q)) \X Seq(Int) : Ordered(p[2]) /\ Below(p[1], p[2])}
<1>1. Len(q) \in Nat /\ \A i \in 1 .. Len(q) : q[i] \in Int
  BY LenProperties
<1>2. <<0, << >> >> \in Good
  <2>1. << >> \in Seq(Int) /\ Len(<< >>) = 0 /\ 0 \in 0 .. Len(q)
    BY <1>1, EmptySeq
  <2>2. Ordered(<< >>) /\ Below(0, << >>)
    BY <2>1
  <2>. HIDE DEF Ordered, Below
  <2>3. \A k \in 0 .. Len(q), s \in Seq(Int) : Ordered(s) /\ Below(k, s) => <<k, s>> \in Good
    OBVIOUS
  <2>. HIDE DEF Good
  <2>. QED  BY <2>1, <2>2, <2>3, Zenon
<1>3. ASSUME NEW k \in 1 .. Len(q), NEW s \in Seq(Int), <<k - 1, s>> \in Good
      PROVE  <<k, IF q[k] \in S THEN Append(s, q[k]) ELSE s>> \in Good
  <2>1. Ordered(s) /\ Below(k - 1, s)
    BY <1>3
  <2>2. k \in 0 .. Len(q) /\ k > k - 1 /\ \A j \in 1 .. Len(q) : j > k => j > k - 1 /\ q[k] <= q[j]
    BY <1>1
  <2>. DEFINE l == Len(s)
  <2>3. CASE q[k] \in S
    <3>. DEFINE a == Append(s, q[k])
    <3>1. /\ l \in Nat /\ a \in Seq(Int) /\ Len(a) = l + 1
          /\ \A i \in 1 .. l : a[i] = s[i]
          /\ a[l + 1] = q[k]
      BY <1>1, AppendProperties, LenProperties
    <3>2. \A i \in 1 .. l + 1 : i \in 1 .. l \/ i = l + 1
      BY <3>1
    <3>3. \A i, j \in 1 .. l + 1 : i < j => i \in 1 .. l
      BY <3>1
    <3>. HIDE DEF a
    <3>4. Ordered(a)
      <4>. SUFFICES ASSUME NEW i \in 1 .. l + 1, NEW j \in 1 .. l + 1, i < j
                    PROVE  a[i] <= a[j]
        BY <3>1
      <4>1. i \in 1 .. l /\ a[i] = s[i]
        BY <3>1, <3>3
      <4>2. CASE j \in 1 .. l
        BY <2>1, <3>1, <4>1, <4>2, Zenon
      <4>3. CASE j = l + 1
        BY <2>1, <2>2, <3>1, <4>1, <4>3, Zenon
      <4>. QED  BY <3>2, <4>2, <4>3
    <3>5. Below(k, a)
      <4>. SUFFICES ASSUME NEW i \in 1 .. l + 1, NEW j \in 1 .. Len(q), j > k
                    PROVE  a[i] <= q[j]
        BY <3>1
      <4>1. CASE i \in 1 .. l
        BY <2>1, <2>2, <3>1, <4>1, Zenon
      <4>2. CASE i = l + 1
        BY <2>2, <3>1, <4>2, Zenon
      <4>. QED  BY <3>2, <4>1, <4>2
    <3>. HIDE DEF Ordered, Below
    <3>. QED  BY <2>2, <2>3, <3>1, <3>4, <3>5 DEF a
  <2>4. CASE q[k] \notin S
    <3>1. Below(k, s)
      BY <2>1, <2>2, Zenon
    <3>. HIDE DEF Ordered, Below
    <3>. QED  BY <2>1, <2>2, <2>4, <3>1
  <2>. QED  BY <2>3, <2>4
<1>. HIDE DEF Good
<1>4. \A k \in 1 .. Len(q) : \A s \in Seq(Int) :
        <<k - 1, s>> \in Good => <<k, IF q[k] \in S THEN Append(s, q[k]) ELSE s>> \in Good
  BY <1>3, Zenon
<1>5. <<Len(q), Keep(q, S)>> \in Good /\ Keep(q, S) \in Seq(Int)
  BY <1>2, <1>4, SelectionInduction
<1>. QED  BY <1>5 DEF Good
=============================================================================

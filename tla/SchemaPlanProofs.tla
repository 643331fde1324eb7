-------------------------- MODULE SchemaPlanProofs --------------------------
(***************************************************************************)
(* An edge, for every catalog of objects and every change of a schema.     *)
(* Its consistency check: the ops GenerateMigration writes, simulated on   *)
(* the manifest of the old schema, give the manifest of the new one, but   *)
(* for the objects it has no op for.  Its way back: if every op has a      *)
(* down, the downs undo one op after the other, down to the database there *)
(* was, but for defaults and for the views a rename outruns.               *)
(***************************************************************************)
EXTENDS SchemaPlan, Recursion

-----------------------------------------------------------------------------
(***************************************************************************)
(* Among: a part of a sequence, in order.                                  *)
(***************************************************************************)

\* The pieces Among puts together.
Picked(s, S) == [i \in DOMAIN s |-> IF s[i] \in S THEN << s[i] >> ELSE << >>]

LEMMA PickedTyped ==
  ASSUME NEW T, NEW s \in Seq(T), NEW S
  PROVE  /\ Picked(s, S) \in Seq(Seq(T)) /\ Len(Picked(s, S)) = Len(s)
         /\ \A i \in 1..Len(s) :
              /\ s[i] \in S => Picked(s, S)[i] = << s[i] >>
              /\ s[i] \notin S => Picked(s, S)[i] = << >>
<1>1. DOMAIN s = 1..Len(s) /\ Len(s) \in Nat /\ \A i \in 1..Len(s) : s[i] \in T
  OBVIOUS
<1>2. \A x \in T : << x >> \in Seq(T)
  OBVIOUS
<1>3. << >> \in Seq(T)
  OBVIOUS
<1>4. \A i \in 1..Len(s) : (IF s[i] \in S THEN << s[i] >> ELSE << >>) \in Seq(T)
  BY <1>1, <1>2, <1>3
<1>5. Picked(s, S) \in [1..Len(s) -> Seq(T)]
  BY <1>1, <1>4 DEF Picked
<1>6. Picked(s, S) \in Seq(Seq(T)) /\ Len(Picked(s, S)) = Len(s)
  BY <1>1, <1>5
<1> QED
  BY <1>1, <1>6 DEF Picked

\* It keeps the members of s that are in S.
LEMMA AmongSet ==
  ASSUME NEW T, NEW s \in Seq(T), NEW S
  PROVE  Among(s, S) \in Seq(T) /\ ToSet(Among(s, S)) = ToSet(s) \cap S
<1> DEFINE seqs == Picked(s, S)
<1>1. /\ seqs \in Seq(Seq(T)) /\ Len(seqs) = Len(s)
      /\ \A i \in 1..Len(s) : /\ s[i] \in S => seqs[i] = << s[i] >>
                              /\ s[i] \notin S => seqs[i] = << >>
  BY PickedTyped
<1>2. Among(s, S) = FlattenSeq(seqs)
  BY DEF Among, Picked
<1>3. DOMAIN s = 1..Len(s)
  OBVIOUS
<1> HIDE DEF seqs
<1>4. /\ FlattenSeq(seqs) \in Seq(T)
      /\ ToSet(FlattenSeq(seqs)) = UNION {ToSet(seqs[i]) : i \in 1..Len(s)}
  BY <1>1, FlattenElements
<1>5. ToSet(<< >>) = {} /\ \A x \in T : ToSet(<< x >>) = {x}
  BY DEF ToSet
<1>6. \A i \in 1..Len(s) : s[i] \in T /\ ToSet(seqs[i]) = {s[i]} \cap S
  <2>1. ASSUME NEW i \in 1..Len(s) PROVE s[i] \in T /\ ToSet(seqs[i]) = {s[i]} \cap S
    <3>1. s[i] \in T
      BY <1>3
    <3>2. CASE s[i] \in S
      BY ZenonT(40), <1>1, <1>5, <3>1, <3>2
    <3>3. CASE s[i] \notin S
      BY <1>1, <1>5, <3>1, <3>3
    <3> QED
      BY <3>2, <3>3
  <2> QED
    BY <2>1
<1>7. ToSet(s) = {s[i] : i \in 1..Len(s)}
  BY <1>3 DEF ToSet
<1>8. UNION {ToSet(seqs[i]) : i \in 1..Len(s)} = ToSet(s) \cap S
  BY <1>6, <1>7
<1> QED
  BY <1>2, <1>4, <1>8

\* Of a sequence without repetitions it keeps as many as S has of it.
LEMMA AmongLen ==
  ASSUME NEW T, NEW s \in Seq(T), IsInjective(s), NEW S, S \subseteq ToSet(s)
  PROVE  /\ IsFiniteSet(S) /\ Len(Among(s, S)) = Cardinality(S)
<1> DEFINE seqs == Picked(s, S)
           First(n) == {s[i] : i \in 1..n} \cap S
           N == Len(s)
<1>1. /\ seqs \in Seq(Seq(T)) /\ Len(seqs) = N
      /\ \A i \in 1..N : /\ s[i] \in S => seqs[i] = << s[i] >>
                         /\ s[i] \notin S => seqs[i] = << >>
  BY ZenonT(40), PickedTyped
<1>2. Among(s, S) = FlattenSeq(seqs)
  BY DEF Among, Picked
<1>3. /\ DOMAIN s = 1..N /\ N \in Nat /\ \A i \in 1..N : s[i] \in T
      /\ \A i, j \in 1..N : s[i] = s[j] => i = j
  BY DEF IsInjective
<1>4. First(N) = S
  BY <1>3 DEF ToSet
<1> HIDE DEF seqs
<1>5. CASE s = << >>
  <2>1. S = {} /\ seqs = << >>
    BY <1>1, <1>5 DEF ToSet
  <2>2. FlattenSeq(<< >>) = << >>
    BY DEF FlattenSeq
  <2> QED
    BY <1>2, <2>1, <2>2, FS_EmptySet
<1>6. CASE s # << >>
  <2>1. seqs # << >> /\ 1 \in 1..N
    BY <1>1, <1>6
  <2>2. PICK f : Concats(f, seqs, T) /\ FlattenSeq(seqs) = f[N]
    BY <1>1, <2>1, FlattenConcats
  <2> DEFINE M == N - 1
             Fits(n) == IsFiniteSet(First(n)) /\ Len(f[n]) = Cardinality(First(n))
             P == {n \in 0..M : Fits(n + 1)}
  <2>3. /\ M \in Nat /\ M + 1 = N /\ 0 \in 0..M /\ M \in 0..M
        /\ \A i \in 1..N : f[i] \in Seq(T) /\ seqs[i] \in Seq(T)
    <3>1. f \in [1..Len(seqs) -> Seq(T)]
      BY <2>2 DEF Concats
    <3>2. \A i \in 1..N : f[i] \in Seq(T) /\ seqs[i] \in Seq(T)
      <4>1. \A i \in 1..Len(seqs) : f[i] \in Seq(T)
        BY <3>1
      <4>2. \A i \in 1..Len(seqs) : seqs[i] \in Seq(T)
        BY <1>1
      <4> HIDE DEF N
      <4> QED
        BY Zenon, <1>1, <4>1, <4>2
    <3>3. N # 0
      BY <1>6
    <3> QED
      BY <1>3, <3>2, <3>3
  <2>4. \A i \in 1..N : Len(seqs[i]) = Cardinality({s[i]} \cap S)
    <3>1. ASSUME NEW i \in 1..N PROVE Len(seqs[i]) = Cardinality({s[i]} \cap S)
      <4>1. CASE s[i] \in S
        <5>1. {s[i]} \cap S = {s[i]} /\ Len(<< s[i] >>) = 1
          BY <4>1
        <5> QED
          BY <1>1, <4>1, <5>1, FS_Singleton
      <4>2. CASE s[i] \notin S
        <5>1. {s[i]} \cap S = {} /\ Len(<< >>) = 0
          BY <4>2
        <5> QED
          BY <1>1, <4>2, <5>1, FS_EmptySet
      <4> QED
        BY <4>1, <4>2
    <3> QED
      BY <3>1
  <2>5. 0 \in P
    <3>1. 1..1 = {1} /\ f[1] = seqs[1] /\ 0 + 1 = 1
      BY <2>2 DEF Concats
    <3>2. First(1) = {s[1]} \cap S
      BY <3>1
    <3>3. IsFiniteSet({s[1]} \cap S)
      BY FS_Singleton, FS_Intersection
    <3> HIDE DEF First
    <3> QED
      BY <2>1, <2>3, <2>4, <3>1, <3>2, <3>3
  <2>6. ASSUME NEW n \in 1..M, n - 1 \in P PROVE n \in P
    <3>1. PICK k \in 2..N : /\ k = n + 1 /\ k - 1 = n /\ (n - 1) + 1 = n
                            /\ n \in 0..M /\ n \in 1..N /\ k \in 1..N
      <4>1. n + 1 \in 2..N
        BY <2>3
      <4> QED
        BY <2>3, <4>1
    <3> HIDE DEF M
    <3>2. 1..k = 1..n \union {k} /\ k \notin 1..n /\ 1..n \subseteq 1..N
      BY <3>1
    <3> DEFINE one == {s[k]} \cap S
    <3>3. First(k) = First(n) \union one /\ First(n) \cap one = {}
      BY <1>3, <3>1, <3>2
    <3>4. IsFiniteSet(one)
      BY FS_Singleton, FS_Intersection
    <3>5. IsFiniteSet(First(n)) /\ Len(f[n]) = Cardinality(First(n))
      BY Zenon, <2>6, <3>1
    <3>6. f[k] = f[n] \o seqs[k]
      <4>1. f[k] = f[k - 1] \o seqs[k]
        BY <1>1, <2>2 DEF Concats
      <4> QED
        BY Zenon, <3>1, <4>1
    <3>7. Len(seqs[k]) = Cardinality(one) /\ f[n] \in Seq(T) /\ seqs[k] \in Seq(T)
      BY <2>3, <2>4, <3>1
    <3> HIDE DEF First, one
    <3>8. /\ IsFiniteSet(First(k))
          /\ Cardinality(First(k)) = Cardinality(First(n)) + Cardinality(one)
      <4>1. /\ IsFiniteSet(First(n) \union one)
            /\ Cardinality(First(n) \union one)
                 = Cardinality(First(n)) + Cardinality(one) - Cardinality(First(n) \cap one)
        BY <3>4, <3>5, FS_Union
      <4>2. Cardinality(First(n)) \in Nat /\ Cardinality(one) \in Nat
        BY <3>4, <3>5, FS_CardinalityType
      <4>3. Cardinality(First(n) \cap one) = 0
        BY <3>3, FS_EmptySet
      <4> QED
        BY <3>3, <4>1, <4>2, <4>3
    <3>9. Len(f[k]) = Len(f[n]) + Len(seqs[k])
      <4>1. \A a, b \in Seq(T) : Len(a \o b) = Len(a) + Len(b)
        OBVIOUS
      <4> QED
        BY <3>6, <3>7, <4>1
    <3>10. Fits(k)
      BY <3>5, <3>7, <3>8, <3>9
    <3> HIDE DEF Fits
    <3> QED
      BY Zenon, <3>1, <3>10
  <2>7. M \in P
    <3> HIDE DEF P, M
    <3> QED
      BY <2>3, <2>5, <2>6, Induction
  <2>8. Fits(N)
    <3> HIDE DEF Fits, M
    <3> QED
      BY Zenon, <2>3, <2>7
  <2> HIDE DEF First
  <2> QED
    BY <1>2, <1>4, <2>2, <2>8
<1> QED
  BY <1>5, <1>6

-----------------------------------------------------------------------------
(***************************************************************************)
(* Canonical order: every collection, whatever its order, is complete.      *)
(***************************************************************************)
LEMMA ByNameComplete ==
  ASSUME NEW S, S \subseteq Ids
  PROVE  /\ ByName(S) \in Seq(Ids) /\ ToSet(ByName(S)) = S
         /\ IsFiniteSet(S) /\ Len(ByName(S)) = Cardinality(S)
<1>1. Names \in Seq(Ids) /\ IsInjective(Names) /\ ToSet(Names) = Ids
  BY Catalog DEF Ids
<1>2. Among(Names, S) \in Seq(Ids) /\ ToSet(Among(Names, S)) = ToSet(Names) \cap S
  BY Zenon, <1>1, AmongSet
<1>3. IsFiniteSet(S) /\ Len(Among(Names, S)) = Cardinality(S)
  BY Zenon, <1>1, AmongLen
<1>4. ToSet(Names) \cap S = S
  BY <1>1
<1> QED
  BY <1>2, <1>3, <1>4 DEF ByName

\* The rounds of Kahn's algorithm.
Rounds == [out : Seq(Ids), queue : Seq(Ids), waiting : SUBSET Ids]

\* Nothing is lost or counted twice, and a round emits one unless none is left.
Sorting(S, k, n) ==
  /\ ToSet(k.out) \cup ToSet(k.queue) \cup k.waiting = S
  /\ Len(k.out) + Len(k.queue) + Cardinality(k.waiting) = Cardinality(S)
  /\ k.queue = << >> \/ Len(k.out) = n

LEMMA HeadAndTail ==
  ASSUME NEW T, NEW s \in Seq(T), s # << >>
  PROVE  /\ Head(s) \in T /\ Tail(s) \in Seq(T) /\ Len(Tail(s)) = Len(s) - 1
         /\ ToSet(s) = {Head(s)} \cup ToSet(Tail(s))
<1>1. /\ Len(s) \in Nat /\ Len(s) # 0 /\ DOMAIN s = 1..Len(s) /\ Head(s) = s[1]
      /\ \A i \in 1..Len(s) : s[i] \in T
      /\ Tail(s) \in Seq(T) /\ Len(Tail(s)) = Len(s) - 1
      /\ \A i \in 1..(Len(s) - 1) : Tail(s)[i] = s[i + 1]
  OBVIOUS
<1>2. DOMAIN Tail(s) = 1..(Len(s) - 1)
  BY <1>1
<1>3. ASSUME NEW i \in DOMAIN s, i # 1 PROVE \E j \in DOMAIN Tail(s) : Tail(s)[j] = s[i]
  <2>1. i - 1 \in 1..(Len(s) - 1) /\ (i - 1) + 1 = i
    BY <1>1, <1>3
  <2> QED
    BY <1>1, <1>2, <2>1
<1>4. ASSUME NEW j \in DOMAIN Tail(s) PROVE \E i \in DOMAIN s : s[i] = Tail(s)[j]
  <2>1. j + 1 \in DOMAIN s
    BY <1>1, <1>2
  <2> QED
    BY <1>1, <1>2, <2>1
<1>5. ToSet(s) = {Head(s)} \cup ToSet(Tail(s))
  <2>1. 1 \in DOMAIN s
    BY <1>1
  <2> QED
    BY <1>1, <1>3, <1>4, <2>1 DEF ToSet
<1> QED
  BY <1>1, <1>5

LEMMA TwoLists ==
  ASSUME NEW a \in Seq(Ids), NEW b \in Seq(Ids)
  PROVE  /\ a \o b \in Seq(Ids) /\ Len(a \o b) = Len(a) + Len(b)
         /\ ToSet(a \o b) = ToSet(a) \cup ToSet(b)
<1>1. ToSet(a \o b) = ToSet(a) \cup ToSet(b)
  BY ZenonT(40), ConcatSet
<1> QED
  BY <1>1

LEMMA EmitTyped ==
  ASSUME NEW k \in Rounds, k.queue # << >>, NEW inner
  PROVE  Emit(k, inner) \in Rounds
<1> DEFINE emitted == Append(k.out, Head(k.queue))
           freed == {o \in k.waiting : inner[o] \subseteq ToSet(emitted)}
<1>1. k.out \in Seq(Ids) /\ k.queue \in Seq(Ids) /\ k.waiting \subseteq Ids
  BY DEF Rounds
<1>2. freed \subseteq Ids
  BY <1>1
<1>3. Head(k.queue) \in Ids /\ Tail(k.queue) \in Seq(Ids)
  BY <1>1, HeadAndTail
<1>4. emitted \in Seq(Ids)
  BY <1>1, <1>3
<1>5. Emit(k, inner) = [out |-> emitted, queue |-> Tail(k.queue) \o ByName(freed),
                        waiting |-> k.waiting \ freed]
  BY DEF Emit
<1> HIDE DEF emitted, freed
<1>6. ByName(freed) \in Seq(Ids)
  BY <1>2, ByNameComplete
<1>7. Tail(k.queue) \o ByName(freed) \in Seq(Ids)
  BY <1>3, <1>6
<1> QED
  BY <1>1, <1>4, <1>5, <1>7 DEF Rounds

LEMMA Moving ==
  ASSUME NEW a \in Nat, NEW q \in Nat, NEW f \in Nat, NEW d \in Nat
  PROVE  (a + 1) + (q - 1 + f) + d = a + q + (f + d)
OBVIOUS

LEMMA EmitKeeps ==
  ASSUME NEW S, S \subseteq Ids, NEW inner, NEW k \in Rounds, NEW n \in Nat,
         Sorting(S, k, n), k.queue # << >>
  PROVE  /\ Emit(k, inner) \in Rounds
         /\ Sorting(S, Emit(k, inner), n + 1)
<1> DEFINE emitted == Append(k.out, Head(k.queue))
           freed == {o \in k.waiting : inner[o] \subseteq ToSet(emitted)}
           rest == Tail(k.queue) \o ByName(freed)
           next == Emit(k, inner)
<1>1. /\ next.out = emitted /\ next.queue = rest /\ next.waiting = k.waiting \ freed
      /\ next = [out |-> emitted, queue |-> rest, waiting |-> k.waiting \ freed]
  BY DEF Emit
<1> HIDE DEF next
<1>2. /\ k.out \in Seq(Ids) /\ k.queue \in Seq(Ids) /\ k.waiting \subseteq Ids
      /\ k.waiting \subseteq S
  BY DEF Rounds, Sorting
<1>3. freed \subseteq Ids /\ freed \subseteq k.waiting
  BY <1>2
<1> HIDE DEF freed
<1>4. /\ Head(k.queue) \in Ids /\ Tail(k.queue) \in Seq(Ids)
      /\ Len(Tail(k.queue)) = Len(k.queue) - 1
      /\ ToSet(k.queue) = {Head(k.queue)} \cup ToSet(Tail(k.queue))
  BY <1>2, HeadAndTail
<1>5. /\ emitted \in Seq(Ids) /\ Len(emitted) = Len(k.out) + 1
      /\ ToSet(emitted) = ToSet(k.out) \cup {Head(k.queue)}
  <2>1. << Head(k.queue) >> \in Seq(Ids) /\ ToSet(<< Head(k.queue) >>) = {Head(k.queue)}
    BY <1>4 DEF ToSet
  <2>2. emitted = k.out \o << Head(k.queue) >>
    BY SMTT(30), <1>2, <1>4
  <2>3. ToSet(k.out \o << Head(k.queue) >>) = ToSet(k.out) \cup {Head(k.queue)}
    BY <1>2, <2>1, TwoLists
  <2>4. emitted \in Seq(Ids) /\ Len(emitted) = Len(k.out) + 1
    BY <1>2, <1>4
  <2> QED
    BY <2>2, <2>3, <2>4
<1>6. /\ ByName(freed) \in Seq(Ids) /\ ToSet(ByName(freed)) = freed
      /\ IsFiniteSet(freed) /\ Len(ByName(freed)) = Cardinality(freed)
  BY <1>3, ByNameComplete
<1>7. /\ rest \in Seq(Ids) /\ Len(rest) = Len(k.queue) - 1 + Cardinality(freed)
      /\ ToSet(rest) = ToSet(Tail(k.queue)) \cup freed
  <2>1. ToSet(rest) = ToSet(Tail(k.queue)) \cup ToSet(ByName(freed))
    BY <1>4, <1>6, TwoLists
  <2>2. \A a, b \in Seq(Ids) : a \o b \in Seq(Ids) /\ Len(a \o b) = Len(a) + Len(b)
    OBVIOUS
  <2> QED
    BY <1>4, <1>6, <2>1, <2>2
<1>8. /\ Cardinality(k.waiting) = Cardinality(freed) + Cardinality(k.waiting \ freed)
      /\ Cardinality(freed) \in Nat /\ Cardinality(k.waiting \ freed) \in Nat
  <2>1. IsFiniteSet(k.waiting) /\ k.waiting \cap freed = freed
    BY <1>2, <1>3, ByNameComplete
  <2>2. /\ IsFiniteSet(k.waiting \ freed)
        /\ Cardinality(k.waiting \ freed) = Cardinality(k.waiting) - Cardinality(freed)
    BY ZenonT(40), <2>1, FS_Difference
  <2>3. /\ Cardinality(freed) \in Nat /\ Cardinality(k.waiting \ freed) \in Nat
        /\ Cardinality(k.waiting) \in Nat
    BY <1>6, <2>1, <2>2, FS_CardinalityType
  <2> QED
    BY <2>2, <2>3
<1> HIDE DEF emitted, rest
<1>9. next \in Rounds
  BY <1>1, <1>2, <1>5, <1>7 DEF Rounds
<1>10. ToSet(next.out) \cup ToSet(next.queue) \cup next.waiting = S
  <2>1. ToSet(k.out) \cup ToSet(k.queue) \cup k.waiting = S
    BY DEF Sorting
  <2> QED
    BY <1>1, <1>3, <1>4, <1>5, <1>7, <2>1
<1>11. Len(next.out) + Len(next.queue) + Cardinality(next.waiting) = Cardinality(S)
  <2>1. Len(k.out) + Len(k.queue) + Cardinality(k.waiting) = Cardinality(S)
    BY DEF Sorting
  <2>2. Len(k.out) \in Nat /\ Len(k.queue) \in Nat
    BY <1>2
  <2>3. /\ Len(next.out) = Len(k.out) + 1
        /\ Len(next.queue) = Len(k.queue) - 1 + Cardinality(freed)
        /\ Cardinality(next.waiting) = Cardinality(k.waiting \ freed)
    BY Zenon, <1>1, <1>5, <1>7
  <2> DEFINE left == Cardinality(k.waiting \ freed)
             moved == Cardinality(freed)
  <2>4. left \in Nat /\ moved \in Nat /\ Cardinality(k.waiting) = moved + left
    BY <1>8
  <2>5. Len(next.out) + Len(next.queue) + Cardinality(next.waiting)
          = (Len(k.out) + 1) + (Len(k.queue) - 1 + moved) + left
    BY Zenon, <2>3
  <2> HIDE DEF left, moved, next
  <2>6. (Len(k.out) + 1) + (Len(k.queue) - 1 + moved) + left
          = Len(k.out) + Len(k.queue) + (moved + left)
    <3>1. PICK a \in Nat, q \in Nat : a = Len(k.out) /\ q = Len(k.queue)
      BY <2>2
    <3>2. (a + 1) + (q - 1 + moved) + left = a + q + (moved + left)
      BY <2>4, Moving
    <3> QED
      BY Zenon, <3>1, <3>2
  <2> QED
    BY Zenon, <2>1, <2>4, <2>5, <2>6
<1>12. Len(next.out) = n + 1
  BY <1>1, <1>5 DEF Sorting
<1> QED
  BY <1>9, <1>10, <1>11, <1>12 DEF next, Sorting

\* Whatever depends on whatever, cycles included: the sort lists every object
\* it is given and no other, and as many as there are (TopoSort in topo.go).
THEOREM TopoSortComplete ==
  ASSUME NEW S, S \subseteq Ids, NEW deps
  PROVE  /\ TopoSort(S, deps) \in Seq(Ids) /\ ToSet(TopoSort(S, deps)) = S
         /\ Len(TopoSort(S, deps)) = Cardinality(S)
<1> DEFINE inner == [o \in S |-> (deps[o] \cap S) \ {o}]
           free == {o \in S : inner[o] = {}}
           N == Cardinality(S)
           base == [out |-> << >>, queue |-> ByName(free), waiting |-> S \ free]
           Body(f) == [n \in 0..N |->
                         IF n = 0 THEN base
                         ELSE IF f[n - 1].queue = << >> THEN f[n - 1]
                         ELSE Emit(f[n - 1], inner)]
           g == CHOOSE f : f = Body(f)
           last == g[N]
           round == [k \in Rounds |-> IF k.queue = << >> THEN k ELSE Emit(k, inner)]
<1>1. TopoSort(S, deps) = last.out \o ByName(last.waiting)
  BY Zenon DEF TopoSort
<1>2. free \subseteq S /\ IsFiniteSet(S) /\ N \in Nat
  BY ByNameComplete, FS_CardinalityType
<1>3. base \in Rounds /\ Sorting(S, base, 0)
  <2>1. << >> \in Seq(Ids) /\ ToSet(<< >>) = {} /\ Len(<< >>) = 0
    BY DEF ToSet
  <2>2. /\ ByName(free) \in Seq(Ids) /\ ToSet(ByName(free)) = free
        /\ IsFiniteSet(free) /\ Len(ByName(free)) = Cardinality(free)
    <3>1. free \subseteq Ids
      BY <1>2
    <3> HIDE DEF free
    <3> QED
      BY Zenon, <3>1, ByNameComplete
  <2> HIDE DEF free
  <2>3. S \cap free = free
    BY <1>2
  <2>4. /\ IsFiniteSet(S \ free)
        /\ Cardinality(S \ free) = Cardinality(S) - Cardinality(free)
    BY <1>2, <2>3, FS_Difference
  <2>5. Cardinality(free) \in Nat /\ Cardinality(S) \in Nat
    BY <1>2, <2>2, FS_CardinalityType
  <2> QED
    BY <1>2, <2>1, <2>2, <2>4, <2>5 DEF Rounds, Sorting
<1> HIDE DEF inner, free, N, base
<1>4. round \in [Rounds -> Rounds]
  <2>1. ASSUME NEW k \in Rounds, k.queue # << >> PROVE Emit(k, inner) \in Rounds
    <3>1. Emit(k, inner) \in Rounds
      <4>1. k.waiting \subseteq Ids /\ k.out \in Seq(Ids) /\ k.queue \in Seq(Ids)
        BY DEF Rounds
      <4> QED
        BY <2>1, EmitTyped
    <3> QED
      BY <3>1
  <2> QED
    BY <2>1
<1>5. PICK h \in [0..N -> Rounds] : Computes(h, N, base, [n \in 1..N |-> round])
  <2> DEFINE step == [n \in 1..N |-> round]
  <2>1. step \in [1..N -> [Rounds -> Rounds]]
    <3> HIDE DEF round
    <3> QED
      BY <1>4
  <2> HIDE DEF step, round
  <2>2. \E h \in [0..N -> Rounds] : Computes(h, N, base, step)
    BY Zenon, <1>2, <1>3, <2>1, RecursiveFunction
  <2> QED
    BY <2>2 DEF step
<1>6. h = Body(h)
  <2>1. ASSUME NEW n \in 0..N PROVE h[n] = Body(h)[n]
    <3>1. CASE n = 0
      BY <1>5, <3>1 DEF Computes
    <3>2. CASE n # 0
      <4>1. n \in 1..N /\ n - 1 \in 0..N
        BY <1>2, <3>2
      <4>2. h[n] = round[h[n - 1]] /\ h[n - 1] \in Rounds
        BY <1>5, <4>1 DEF Computes
      <4> QED
        BY <3>2, <4>2
    <3> QED
      BY <3>1, <3>2
  <2> QED
    BY <2>1
<1>7. g = Body(g)
  <2> HIDE DEF Body
  <2> QED
    BY <1>6
<1> HIDE DEF g
<1>8. /\ g[0] = base
      /\ \A n \in 1..N : g[n] = IF g[n - 1].queue = << >> THEN g[n - 1]
                                ELSE Emit(g[n - 1], inner)
  <2>1. \A n \in 0..N : g[n] = Body(g)[n]
    <3> HIDE DEF Body
    <3> QED
      BY <1>7
  <2>2. \A n \in 0..N : g[n] = IF n = 0 THEN base
                               ELSE IF g[n - 1].queue = << >> THEN g[n - 1]
                               ELSE Emit(g[n - 1], inner)
    BY <2>1
  <2>3. 0 \in 0..N /\ \A n \in 1..N : n \in 0..N /\ n # 0
    BY <1>2
  <2> HIDE DEF Body
  <2> QED
    BY <2>2, <2>3
<1> DEFINE Fits(n) == g[n] \in Rounds /\ Sorting(S, g[n], n)
           P == {n \in 0..N : Fits(n)}
<1>9. 0 \in P
  BY <1>2, <1>3, <1>8
<1>10. ASSUME NEW n \in 1..N, n - 1 \in P PROVE n \in P
  <2>1. n \in 0..N /\ n - 1 \in Nat /\ (n - 1) + 1 = n
    BY <1>2
  <2>2. g[n - 1] \in Rounds /\ Sorting(S, g[n - 1], n - 1)
    BY <1>10
  <2>3. CASE g[n - 1].queue = << >>
    <3>1. g[n] = g[n - 1]
      BY <1>8, <2>3
    <3>2. Sorting(S, g[n], n)
      BY <2>2, <2>3, <3>1 DEF Sorting
    <3> QED
      BY <2>1, <2>2, <3>1, <3>2
  <2>4. CASE g[n - 1].queue # << >>
    <3>1. g[n] = Emit(g[n - 1], inner)
      BY <1>8, <2>4
    <3>2. /\ Emit(g[n - 1], inner) \in Rounds
          /\ Sorting(S, Emit(g[n - 1], inner), (n - 1) + 1)
      BY Zenon, <2>1, <2>2, <2>4, EmitKeeps
    <3>3. Sorting(S, g[n], n)
      BY Zenon, <2>1, <3>1, <3>2
    <3> QED
      BY <2>1, <3>1, <3>2, <3>3
  <2> QED
    BY <2>3, <2>4
<1>11. N \in P
  <2> HIDE DEF P
  <2>1. \A n \in 0..N : n \in P
    BY <1>2, <1>9, <1>10, Induction
  <2> QED
    BY <1>2, <2>1
<1>12. last \in Rounds /\ Sorting(S, last, N)
  BY <1>11
<1> HIDE DEF last
<1>13. /\ last.out \in Seq(Ids) /\ last.queue \in Seq(Ids)
       /\ last.waiting \subseteq Ids /\ IsFiniteSet(last.waiting)
  <2>1. last.out \in Seq(Ids) /\ last.queue \in Seq(Ids) /\ last.waiting \subseteq Ids
    BY <1>12 DEF Rounds
  <2> QED
    BY <2>1, ByNameComplete
<1>14. last.queue = << >>
  <2>1. CASE Len(last.out) = N
    <3>1. Cardinality(last.waiting) \in Nat /\ Len(last.queue) \in Nat
      BY <1>13, FS_CardinalityType
    <3>2. N + Len(last.queue) + Cardinality(last.waiting) = N
      BY <1>12, <2>1 DEF Sorting, N
    <3>3. Len(last.queue) = 0
      BY <1>2, <3>1, <3>2
    <3> QED
      BY <1>13, <3>3
  <2> QED
    BY <1>12, <2>1 DEF Sorting
<1>15. ToSet(last.out) \cup last.waiting = S
  <2>1. ToSet(<< >>) = {}
    BY DEF ToSet
  <2> QED
    BY <1>12, <1>14, <2>1 DEF Sorting
<1>16. /\ ByName(last.waiting) \in Seq(Ids) /\ ToSet(ByName(last.waiting)) = last.waiting
       /\ Len(ByName(last.waiting)) = Cardinality(last.waiting)
  BY <1>13, ByNameComplete
<1>17. /\ ToSet(last.out \o ByName(last.waiting)) = ToSet(last.out) \cup last.waiting
       /\ Len(last.out \o ByName(last.waiting)) = Len(last.out) + Len(ByName(last.waiting))
  BY ZenonT(40), <1>13, <1>16, TwoLists
<1>18. last.out \o ByName(last.waiting) \in Seq(Ids)
  BY <1>13, <1>16
<1>19. Len(last.out \o ByName(last.waiting)) = Cardinality(S)
  <2>1. Len(last.queue) = 0
    BY <1>14
  <2>2. Cardinality(last.waiting) \in Nat /\ Len(last.out) \in Nat
    BY <1>13, FS_CardinalityType
  <2>3. Len(last.out) + 0 + Cardinality(last.waiting) = Cardinality(S)
    BY <1>12, <2>1 DEF Sorting
  <2> QED
    BY <1>16, <1>17, <2>2, <2>3
<1> QED
  BY <1>1, <1>15, <1>17, <1>18, <1>19

-----------------------------------------------------------------------------
(***************************************************************************)
(* What ops do to the manifest, object by object.  A list of ops settles    *)
(* the objects K if it sets or removes these and no others, whatever it    *)
(* drops that the desired schema has it sets again afterwards, and every   *)
(* drop is keyed by what the desired schema has for the object, or the old *)
(* one if the desired one has nothing.                                     *)
(***************************************************************************)
Versions == 0..2
Dos == {"create", "drop", "alter", "rename", "validate", "backfill", "vacuous",
        "drop_guard"}
Ops == [do : Dos, id : Ids, to : Ids \cup Versions]
Steps == [up : Ops, down : Seq(Ops)]

\* The op sets or removes the object.
Touches(step, k) ==
  LET o == step.up.id
  IN /\ step.up.do \notin {"drop_guard", "backfill"}
     /\ Top(o) = k
     /\ k \in DOMAIN new \/ (step.up.do = "drop" /\ o = k)

Removes(step, k) == step.up.do = "drop" /\ step.up.id = k /\ Top(k) = k

Sets(step, k) == Touches(step, k) /\ ~Removes(step, k)

\* The key the ops on an object go by.
Mark(k) == Key(k, IF k \in DOMAIN new THEN new[k] ELSE old[k])

\* A drop goes by it, too.
Fits(step) ==
  Removes(step, step.up.id) => Key(step.up.id, step.up.to) = Mark(step.up.id)

SetAgain(s) == \A i \in 1..Len(s) : \A k \in DOMAIN new :
                 Removes(s[i], k) => \E j \in (i + 1)..Len(s) : Sets(s[j], k)

Touched(s) == {k \in Ids : \E x \in ToSet(s) : Touches(x, k)}

Settles(s, K) == /\ s \in Seq(Steps) /\ Touched(s) = K /\ SetAgain(s)
                 /\ \A x \in ToSet(s) : Fits(x)

LEMMA NothingSettles == Settles(<< >>, {})
<1>1. << >> \in Seq(Steps) /\ ToSet(<< >>) = {} /\ Len(<< >>) = 0 /\ 1..0 = {}
  BY DEF ToSet
<1> QED
  BY <1>1 DEF Settles, Touched, SetAgain

\* One list after the other.
LEMMA BothSettle ==
  ASSUME NEW a, NEW b, NEW A, NEW B, Settles(a, A), Settles(b, B)
  PROVE  Settles(a \o b, A \cup B)
<1>1. a \in Seq(Steps) /\ b \in Seq(Steps) /\ Touched(a) = A /\ Touched(b) = B
  BY DEF Settles
<1> DEFINE q == a \o b
           m == Len(a)
<1>2. /\ q \in Seq(Steps) /\ Len(q) = m + Len(b) /\ m \in Nat /\ Len(b) \in Nat
      /\ \A i \in 1..m : q[i] = a[i]
      /\ \A i \in 1..Len(b) : q[m + i] = b[i]
  BY <1>1
<1>3. ToSet(q) = ToSet(a) \cup ToSet(b)
  <2> HIDE DEF Steps
  <2> QED
    BY <1>1, ConcatSet
<1> HIDE DEF q
<1>4. Touched(q) = A \cup B
  BY <1>1, <1>3 DEF Touched
<1>5. SetAgain(q)
  <2> SUFFICES ASSUME NEW i \in 1..Len(q), NEW k \in DOMAIN new, Removes(q[i], k)
               PROVE  \E j \in (i + 1)..Len(q) : Sets(q[j], k)
    BY DEF SetAgain
  <2>1. CASE i \in 1..m
    <3>1. Removes(a[i], k)
      BY <1>2, <2>1
    <3>2. PICK j \in (i + 1)..m : Sets(a[j], k)
      BY <2>1, <3>1 DEF Settles, SetAgain
    <3>3. j \in (i + 1)..Len(q) /\ j \in 1..m
      BY <1>2, <2>1
    <3> QED
      BY <1>2, <3>2, <3>3
  <2>2. CASE i \notin 1..m
    <3>1. PICK n \in 1..Len(b) : i = m + n
      <4>1. i - m \in 1..Len(b) /\ i = m + (i - m)
        BY <1>2, <2>2
      <4> QED
        BY <4>1
    <3>2. Removes(b[n], k)
      BY <1>2, <3>1
    <3>3. PICK j \in (n + 1)..Len(b) : Sets(b[j], k)
      BY <3>2 DEF Settles, SetAgain
    <3>4. m + j \in (i + 1)..Len(q) /\ j \in 1..Len(b)
      BY <1>2, <3>1
    <3>5. q[m + j] = b[j]
      BY <1>2, <3>4
    <3> QED
      BY <3>3, <3>4, <3>5
  <2> QED
    BY <2>1, <2>2
<1>6. \A x \in ToSet(q) : Fits(x)
  BY <1>3 DEF Settles
<1> QED
  BY <1>2, <1>4, <1>5, <1>6 DEF q, Settles

\* A list for each of several things.
LEMMA EachSettles ==
  ASSUME NEW T, NEW s \in Seq(T), NEW F, NEW seqs,
         seqs = [i \in DOMAIN s |-> seqs[i]],
         \A i \in DOMAIN s : Settles(seqs[i], F[s[i]])
  PROVE  Settles(FlattenSeq(seqs), UNION {F[x] : x \in ToSet(s)})
<1> DEFINE N == Len(s)
           Upto(n) == UNION {F[s[i]] : i \in 1..n}
<1>1. DOMAIN s = 1..N /\ N \in Nat
  OBVIOUS
<1>2. seqs \in Seq(Seq(Steps)) /\ Len(seqs) = N
  <2>1. \A i \in 1..N : seqs[i] \in Seq(Steps)
    BY <1>1 DEF Settles
  <2>2. seqs \in [1..N -> Seq(Steps)]
    <3> HIDE DEF N, Steps
    <3> QED
      BY <1>1, <2>1
  <2> HIDE DEF Steps, N
  <2> QED
    BY <1>1, <2>2
<1>3. UNION {F[x] : x \in ToSet(s)} = Upto(N)
  BY <1>1 DEF ToSet
<1>4. CASE s = << >>
  <2>1. seqs = << >>
    BY <1>2, <1>4
  <2>2. FlattenSeq(<< >>) = << >> /\ Upto(0) = {} /\ N = 0
    BY <1>4 DEF FlattenSeq
  <2>3. Upto(N) = {}
    BY Zenon, <2>2
  <2> QED
    BY Zenon, <1>3, <2>1, <2>2, <2>3, NothingSettles
<1>5. CASE s # << >>
  <2> HIDE DEF Steps
  <2>1. seqs # << >> /\ N # 0
    BY <1>2, <1>5
  <2>2. PICK f : Concats(f, seqs, Steps) /\ FlattenSeq(seqs) = f[N]
    BY <1>2, <2>1, FlattenConcats
  <2> DEFINE M == N - 1
             P == {n \in 0..M : Settles(f[n + 1], Upto(n + 1))}
  <2>3. M \in Nat /\ M + 1 = N /\ 0 \in 0..M /\ M \in 0..M /\ 1 \in 1..N
    BY <1>1, <2>1
  <2>4. 0 \in P
    <3>1. 1..1 = {1} /\ f[1] = seqs[1] /\ 0 + 1 = 1
      BY <2>2 DEF Concats
    <3>2. Upto(1) = F[s[1]]
      BY <3>1
    <3>3. Settles(seqs[1], F[s[1]])
      BY <1>1, <2>3
    <3>4. Settles(f[1], Upto(1))
      BY Zenon, <3>1, <3>2, <3>3
    <3> HIDE DEF Upto, M
    <3> QED
      BY <2>3, <3>1, <3>4
  <2>5. ASSUME NEW n \in 1..M, n - 1 \in P PROVE n \in P
    <3>1. PICK k \in 2..N : /\ k = n + 1 /\ k - 1 = n /\ (n - 1) + 1 = n
                            /\ n \in 0..M /\ n \in 1..N /\ k \in 1..N
      <4>1. n + 1 \in 2..N
        BY <1>1, <2>3
      <4> QED
        BY <1>1, <2>3, <4>1
    <3> HIDE DEF M
    <3>2. 1..k = 1..n \union {k}
      BY <3>1
    <3>3. Upto(k) = Upto(n) \union F[s[k]]
      BY <3>2
    <3> HIDE DEF Upto
    <3>4. Settles(f[n], Upto(n))
      BY Zenon, <2>5, <3>1
    <3>5. f[k] = f[n] \o seqs[k]
      <4>1. f[k] = f[k - 1] \o seqs[k]
        BY <1>2, <2>2 DEF Concats
      <4> QED
        BY Zenon, <3>1, <4>1
    <3>6. Settles(seqs[k], F[s[k]])
      BY Zenon, <1>1, <3>1
    <3>7. Settles(f[n] \o seqs[k], Upto(n) \cup F[s[k]])
      BY Zenon, <3>4, <3>6, BothSettle
    <3>8. Settles(f[k], Upto(k))
      BY Zenon, <3>3, <3>5, <3>7
    <3> QED
      BY Zenon, <3>1, <3>8
  <2>6. M \in P
    <3> HIDE DEF P, M
    <3>1. \A n \in 0..M : n \in P
      BY <2>3, <2>4, <2>5, Induction
    <3> QED
      BY <2>3, <3>1
  <2> HIDE DEF Upto, M
  <2>7. Settles(f[N], Upto(N))
    BY Zenon, <2>3, <2>6
  <2> QED
    BY Zenon, <1>3, <2>2, <2>7
<1> QED
  BY <1>4, <1>5

-----------------------------------------------------------------------------
(***************************************************************************)
(* Simulating a list of ops.                                               *)
(***************************************************************************)
Contents == {Content(old, k) : k \in Ids} \cup {Content(new, k) : k \in Ids}
Marks == {Key(k, old[k]) : k \in Ids} \cup {Key(k, new[k]) : k \in Ids}
Manifests == UNION {[K -> Contents] : K \in SUBSET Marks}

\* A key is that of one object; its version counts for a signature only.
LEMMA KeyIs ==
  ASSUME NEW o, NEW v, NEW p, NEW w
  PROVE  /\ Key(o, v)[1] = o
         /\ Key(o, v) = Key(p, w) => o = p
         /\ Aspect[o] # "signature" => Key(o, v) = Key(o, w)
         /\ Aspect[o] = "signature" /\ Key(o, v) = Key(o, w) => v = w
BY DEF Key

LEMMA ManifestIs ==
  ASSUME NEW m \in Manifests
  PROVE  DOMAIN m \subseteq Marks /\ m \in [DOMAIN m -> Contents]
<1>1. PICK K \in SUBSET Marks : m \in [K -> Contents]
  BY DEF Manifests
<1>2. DOMAIN m = K
  BY <1>1
<1> QED
  BY <1>1, <1>2

LEMMA PartOrNot ==
  ASSUME NEW o \in Ids
  PROVE  /\ Kind[o] \in Kinds
         /\ Kind[o] \in PartKinds => /\ Owner[o] \in Ids /\ Owner[o] # NoOwner
                                     /\ Top(o) = Owner[o] /\ Top(o) # o
                                     /\ Kind[Top(o)] = "table"
         /\ Kind[o] \notin PartKinds => Owner[o] = NoOwner /\ Top(o) = o
<1>1. /\ IF Kind[o] \in PartKinds
         THEN Owner[o] \in Ids /\ Kind[Owner[o]] = "table"
         ELSE Owner[o] = NoOwner
      /\ NoOwner \notin Ids /\ Kind[o] \in Kinds
  BY Catalog
<1>2. "table" \notin PartKinds
  BY DEF PartKinds
<1> QED
  BY <1>1, <1>2 DEF Top

\* The op sets or removes the key.
Hits(step, x) == \E k \in Ids : x = Mark(k) /\ Touches(step, k)

\* One op: what becomes of a key.
LEMMA ApplyOpKey ==
  ASSUME NEW m \in Manifests, NEW step \in Steps, Fits(step)
  PROVE  /\ ApplyOp(m, step) \in Manifests
         /\ \A x : ~Hits(step, x) =>
              /\ x \in DOMAIN ApplyOp(m, step) <=> x \in DOMAIN m
              /\ x \in DOMAIN m => ApplyOp(m, step)[x] = m[x]
         /\ \A k \in Ids :
              /\ Removes(step, k) => Mark(k) \notin DOMAIN ApplyOp(m, step)
              /\ Sets(step, k) => /\ Mark(k) \in DOMAIN ApplyOp(m, step)
                                  /\ ApplyOp(m, step)[Mark(k)] = Content(new, k)
<1> DEFINE o == step.up.id
           k == Top(o)
           key == Mark(k)
<1>1. o \in Ids
  BY DEF Steps, Ops
<1>2. k \in Ids
  BY <1>1, Catalog DEF Top
<1>3. DOMAIN m \subseteq Marks /\ m \in [DOMAIN m -> Contents]
  BY ManifestIs
<1>4. key \in Marks /\ (k \in DOMAIN new => key = Key(k, new[k]))
  BY <1>2 DEF Marks, Mark
<1>5. \A p \in Ids : (Touches(step, p) \/ Removes(step, p)) => p = k
  BY DEF Touches, Removes
<1>6. CASE step.up.do \in {"drop_guard", "backfill"}
  <2>1. ApplyOp(m, step) = m
    BY <1>6 DEF ApplyOp
  <2>2. \A p \in Ids : ~Touches(step, p) /\ ~Removes(step, p)
    BY <1>6 DEF Touches, Removes
  <2> QED
    BY <2>1, <2>2 DEF Sets
<1>7. CASE step.up.do = "drop" /\ o = k
  <2> DEFINE r == [x \in DOMAIN m \ {key} |-> m[x]]
  <2>1. Removes(step, k) /\ Touches(step, k)
    BY <1>1, <1>7, PartOrNot DEF Touches, Removes
  <2>2. Key(k, step.up.to) = key
    BY <1>7, <2>1 DEF Fits
  <2>3. ApplyOp(m, step) = r
    BY <1>7, <2>2 DEF ApplyOp, Restrict
  <2>4. r \in [DOMAIN m \ {key} -> Contents]
    BY <1>3
  <2>5. r \in Manifests
    BY <1>3, <2>4 DEF Manifests
  <2>6. /\ key \notin DOMAIN r
        /\ \A x : x # key => /\ x \in DOMAIN r <=> x \in DOMAIN m
                             /\ x \in DOMAIN m => r[x] = m[x]
    OBVIOUS
  <2>7. Hits(step, key)
    BY <1>2, <2>1 DEF Hits
  <2>8. \A p \in Ids : ~Sets(step, p)
    BY <1>5, <2>1 DEF Sets
  <2> HIDE DEF r, key
  <2>9. \A x : ~Hits(step, x) => x # key
    BY <2>7
  <2>10. \A p \in Ids : Removes(step, p) => Mark(p) = key
    BY <1>5 DEF key
  <2> QED
    BY <2>3, <2>5, <2>6, <2>8, <2>9, <2>10
<1>8. CASE /\ step.up.do \notin {"drop_guard", "backfill"}
           /\ ~(step.up.do = "drop" /\ o = k)
  <2>1. \A p \in Ids : ~Removes(step, p)
    BY <1>5, <1>8 DEF Removes
  <2>2. CASE k \notin DOMAIN new
    <3>1. ApplyOp(m, step) = m
      BY <1>8, <2>2 DEF ApplyOp
    <3>2. \A p \in Ids : ~Touches(step, p)
      BY <1>8, <2>2 DEF Touches
    <3> QED
      BY <2>1, <3>1, <3>2 DEF Sets
  <2>3. CASE k \in DOMAIN new
    <3> DEFINE c == Content(new, k)
               r == [x \in DOMAIN m \cup {key} |-> IF x = key THEN c ELSE m[x]]
    <3>1. ApplyOp(m, step) = r
      <4>1. key = Key(k, new[k])
        BY <1>4, <2>3
      <4> HIDE DEF key
      <4> QED
        BY <1>8, <2>3, <4>1 DEF ApplyOp
    <3>2. c \in Contents
      BY <1>2 DEF Contents
    <3>3. Hits(step, key)
      BY <1>2, <1>8, <2>3 DEF Hits, Touches
    <3>4. \A p \in Ids : Sets(step, p) => p = k
      BY <1>5 DEF Sets
    <3> HIDE DEF c, key
    <3>5. r \in [DOMAIN m \cup {key} -> Contents]
      BY <1>3, <3>2
    <3>6. r \in Manifests
      BY <1>3, <1>4, <3>5 DEF Manifests
    <3>7. /\ key \in DOMAIN r /\ r[key] = c
          /\ \A x : x # key => /\ x \in DOMAIN r <=> x \in DOMAIN m
                               /\ x \in DOMAIN m => r[x] = m[x]
      OBVIOUS
    <3> HIDE DEF r
    <3>8. \A x : ~Hits(step, x) => x # key
      BY <3>3
    <3>9. \A p \in Ids : Sets(step, p) => Mark(p) = key /\ Content(new, p) = c
      BY <3>4 DEF key, c
    <3> QED
      BY <2>1, <3>1, <3>6, <3>7, <3>8, <3>9
  <2> QED
    BY <2>2, <2>3
<1> QED
  BY <1>6, <1>7, <1>8

\* f lists the manifests the ops of the edge lead through.
Leads(f) == /\ f[0] = Manifest(old)
            /\ \A i \in 0..Len(edge) : f[i] \in Manifests
            /\ \A i \in 1..Len(edge) : f[i] = ApplyOp(f[i - 1], edge[i])

LEMMA ManifestOfOld ==
  ASSUME DOMAIN old \subseteq Ids
  PROVE  Manifest(old) \in Manifests
<1> DEFINE K == Keys(old)
<1>1. K \in SUBSET Marks /\ \A x \in K : Content(old, x[1]) \in Contents
  <2>1. ASSUME NEW x \in K
        PROVE  \E o \in Ids : x = Key(o, old[o]) /\ x[1] = o
    <3>1. PICK o \in {p \in DOMAIN old : Top(p) = p} : x = Key(o, old[o])
      BY Zenon, <2>1 DEF Keys
    <3>2. x[1] = o
      BY Zenon, <3>1, KeyIs
    <3> QED
      BY <3>1, <3>2
  <2> QED
    BY Zenon, <2>1 DEF Contents, Marks
<1>2. Manifest(old) = [x \in K |-> Content(old, x[1])]
  BY DEF Manifest
<1> HIDE DEF K
<1>3. [x \in K |-> Content(old, x[1])] \in [K -> Contents]
  BY <1>1
<1> QED
  BY <1>1, <1>2, <1>3 DEF Manifests

LEMMA SimulateLeads ==
  ASSUME edge \in Seq(Steps), \A x \in ToSet(edge) : Fits(x), DOMAIN old \subseteq Ids
  PROVE  \E f : Leads(f) /\ Simulate = f[Len(edge)]
<1> DEFINE N == Len(edge)
           base == Manifest(old)
           step == [n \in 1..N |-> [m \in Manifests |-> ApplyOp(m, edge[n])]]
           Body(f) == [i \in 0..N |-> IF i = 0 THEN base ELSE ApplyOp(f[i - 1], edge[i])]
           g == CHOOSE f : f = Body(f)
<1>1. N \in Nat /\ \A n \in 1..N : edge[n] \in Steps /\ Fits(edge[n])
  <2>1. N \in Nat /\ \A n \in 1..N : edge[n] \in Steps /\ n \in DOMAIN edge
    OBVIOUS
  <2> QED
    BY <2>1 DEF ToSet
<1>2. base \in Manifests
  BY ManifestOfOld
<1> HIDE DEF base
<1>3. step \in [1..N -> [Manifests -> Manifests]]
  <2>1. ASSUME NEW n \in 1..N, NEW m \in Manifests PROVE ApplyOp(m, edge[n]) \in Manifests
    <3> HIDE DEF N
    <3>1. edge[n] \in Steps /\ Fits(edge[n])
      BY <1>1
    <3> QED
      BY <3>1, ApplyOpKey
  <2> HIDE DEF N
  <2> QED
    BY <2>1
<1>4. Simulate = g[N]
  BY Zenon DEF Simulate, base
<1>5. PICK h \in [0..N -> Manifests] : Computes(h, N, base, step)
  <2> HIDE DEF step, N
  <2> QED
    BY <1>1, <1>2, <1>3, RecursiveFunction
<1>6. h = Body(h)
  <2>1. ASSUME NEW i \in 0..N PROVE h[i] = Body(h)[i]
    <3>1. CASE i = 0
      BY <1>5, <3>1 DEF Computes
    <3>2. CASE i # 0
      <4> HIDE DEF N
      <4>1. i \in 1..N /\ i - 1 \in 0..N
        BY <1>1, <3>2
      <4>2. h[i] = step[i][h[i - 1]] /\ h[i - 1] \in Manifests
        BY <1>5, <4>1 DEF Computes
      <4>3. h[i] = ApplyOp(h[i - 1], edge[i])
        BY <4>1, <4>2
      <4> QED
        BY <3>2, <4>3
    <3> QED
      BY <3>1, <3>2
  <2> HIDE DEF N
  <2> QED
    BY <2>1
<1>7. g = Body(g)
  <2> HIDE DEF Body
  <2> QED
    BY <1>6
<1> HIDE DEF g, N
<1>8. g[0] = base /\ \A i \in 1..N : g[i] = ApplyOp(g[i - 1], edge[i])
  <2>1. \A i \in 0..N : g[i] = Body(g)[i]
    <3> HIDE DEF Body
    <3> QED
      BY <1>7
  <2>2. \A i \in 0..N : g[i] = IF i = 0 THEN base ELSE ApplyOp(g[i - 1], edge[i])
    BY <2>1
  <2>3. 0 \in 0..N /\ \A i \in 1..N : i \in 0..N /\ i # 0
    BY <1>1
  <2> HIDE DEF Body
  <2> QED
    BY <2>2, <2>3
<1> DEFINE P == {i \in 0..N : g[i] \in Manifests}
<1>9. 0 \in P
  BY <1>1, <1>2, <1>8
<1>10. ASSUME NEW n \in 1..N, n - 1 \in P PROVE n \in P
  <2>1. /\ n \in 0..N /\ g[n] = ApplyOp(g[n - 1], edge[n])
        /\ edge[n] \in Steps /\ Fits(edge[n])
    BY <1>1, <1>8
  <2>2. g[n - 1] \in Manifests
    BY <1>10
  <2> QED
    BY <2>1, <2>2, ApplyOpKey
<1>11. \A n \in 0..N : n \in P
  <2> HIDE DEF P
  <2> QED
    BY <1>1, <1>9, <1>10, Induction
<1>12. Leads(g)
  BY <1>8, <1>11 DEF Leads, N, base
<1> QED
  BY <1>4, <1>12 DEF N

\* Ops that do not touch a key leave it alone.
LEMMA Untouched ==
  ASSUME edge \in Seq(Steps), \A y \in ToSet(edge) : Fits(y), NEW f, Leads(f), NEW x,
         NEW a \in 0..Len(edge),
         \A i \in (a + 1)..Len(edge) : ~Hits(edge[i], x)
  PROVE  /\ x \in DOMAIN f[Len(edge)] <=> x \in DOMAIN f[a]
         /\ x \in DOMAIN f[a] => f[Len(edge)][x] = f[a][x]
<1> DEFINE N == Len(edge)
           Same(n) == /\ x \in DOMAIN f[n] <=> x \in DOMAIN f[a]
                      /\ x \in DOMAIN f[a] => f[n][x] = f[a][x]
           M == N - a
           P == {n \in 0..M : Same(a + n)}
<1>1. /\ N \in Nat /\ a \in Nat /\ M \in Nat /\ a + M = N /\ a + 0 = a
      /\ \A i \in 1..N : edge[i] \in Steps /\ Fits(edge[i])
  <2>1. N \in Nat /\ a \in Nat /\ a <= N
    OBVIOUS
  <2>2. \A i \in 1..N : edge[i] \in Steps /\ i \in DOMAIN edge
    OBVIOUS
  <2>3. \A i \in 1..N : Fits(edge[i])
    BY <2>2 DEF ToSet
  <2> QED
    BY <2>1, <2>2, <2>3
<1>2. 0 \in P
  <2>1. 0 \in 0..M
    BY <1>1
  <2> QED
    BY Zenon, <1>1, <2>1
<1>3. ASSUME NEW n \in 1..M, n - 1 \in P PROVE n \in P
  <2>1. PICK i \in (a + 1)..N : /\ i = a + n /\ i - 1 = a + (n - 1)
                                /\ i \in 1..N /\ i - 1 \in 0..N /\ n \in 0..M
    <3>1. a + n \in (a + 1)..N /\ a + n - 1 = a + (n - 1)
      BY <1>1
    <3> QED
      BY <1>1, <3>1
  <2> HIDE DEF N, M
  <2>2. Same(i - 1)
    BY Zenon, <1>3, <2>1
  <2>3. /\ f[i] = ApplyOp(f[i - 1], edge[i]) /\ f[i - 1] \in Manifests
        /\ edge[i] \in Steps /\ Fits(edge[i])
    BY <1>1, <2>1 DEF Leads, N
  <2>4. ~Hits(edge[i], x)
    BY <2>1 DEF N
  <2>5. /\ x \in DOMAIN f[i] <=> x \in DOMAIN f[i - 1]
        /\ x \in DOMAIN f[i - 1] => f[i][x] = f[i - 1][x]
    BY <2>3, <2>4, ApplyOpKey
  <2>6. Same(i)
    BY Zenon, <2>2, <2>5
  <2> HIDE DEF Same
  <2> QED
    BY Zenon, <2>1, <2>6
<1>4. M \in P
  <2> HIDE DEF P, M
  <2>1. \A n \in 0..M : n \in P
    BY <1>1, <1>2, <1>3, Induction
  <2> QED
    BY <1>1, <2>1
<1>5. Same(N)
  <2> HIDE DEF Same, M
  <2> QED
    BY Zenon, <1>1, <1>4
<1> QED
  BY <1>5

\* A list of ops that settles K gives the objects of K what the desired schema
\* has for them, and leaves all other keys alone.
LEMMA SimulateSettles ==
  ASSUME NEW K, Settles(edge, K), DOMAIN old \subseteq Ids
  PROVE  /\ Simulate \in Manifests
         /\ \A x : (\A k \in K : x # Mark(k)) =>
              /\ x \in DOMAIN Simulate <=> x \in DOMAIN Manifest(old)
              /\ x \in DOMAIN Simulate => Simulate[x] = Manifest(old)[x]
         /\ \A k \in K :
              /\ Mark(k) \in DOMAIN Simulate <=> k \in DOMAIN new
              /\ Mark(k) \in DOMAIN Simulate => Simulate[Mark(k)] = Content(new, k)
<1> DEFINE N == Len(edge)
<1>1. /\ edge \in Seq(Steps) /\ Touched(edge) = K /\ SetAgain(edge)
      /\ \A y \in ToSet(edge) : Fits(y)
  BY DEF Settles
<1>2. /\ N \in Nat /\ DOMAIN edge = 1..N /\ 0 \in 0..N /\ N \in 0..N
      /\ \A i \in 1..N : edge[i] \in Steps /\ Fits(edge[i])
  <2>1. /\ N \in Nat /\ DOMAIN edge = 1..N /\ 0 \in 0..N /\ N \in 0..N
        /\ \A i \in 1..N : edge[i] \in Steps
    BY <1>1
  <2> QED
    BY <1>1, <2>1 DEF ToSet
<1>3. PICK f : Leads(f) /\ Simulate = f[N]
  BY <1>1, SimulateLeads
<1>4. Simulate \in Manifests
  BY <1>2, <1>3 DEF Leads
<1>5. \A k \in Ids : k \in K <=> \E i \in 1..N : Touches(edge[i], k)
  BY <1>1, <1>2 DEF Touched, ToSet
<1>6. ASSUME NEW x, \A k \in K : x # Mark(k)
      PROVE  /\ x \in DOMAIN Simulate <=> x \in DOMAIN Manifest(old)
             /\ x \in DOMAIN Simulate => Simulate[x] = Manifest(old)[x]
  <2>1. \A i \in (0 + 1)..N : ~Hits(edge[i], x)
    BY <1>5, <1>6 DEF Hits
  <2>2. f[0] = Manifest(old)
    BY <1>3 DEF Leads
  <2>3. /\ x \in DOMAIN f[N] <=> x \in DOMAIN f[0]
        /\ x \in DOMAIN f[0] => f[N][x] = f[0][x]
    BY <1>1, <1>2, <1>3, <2>1, Untouched
  <2> QED
    BY <1>3, <2>2, <2>3
<1>7. ASSUME NEW k \in K
      PROVE  /\ Mark(k) \in DOMAIN Simulate <=> k \in DOMAIN new
             /\ Mark(k) \in DOMAIN Simulate => Simulate[Mark(k)] = Content(new, k)
  <2>1. k \in Ids
    BY <1>1 DEF Touched
  <2> DEFINE T == {i \in 1..N : Touches(edge[i], k)}
  <2>2. PICK a \in T : \A i \in T : i <= a
    <3>1. T \subseteq Nat /\ T \subseteq 1..N /\ T # {}
      BY <1>2, <1>5, <2>1
    <3>2. IsFiniteSet(T)
      <4>1. IsFiniteSet(1..N)
        BY <1>2, FS_Interval
      <4> HIDE DEF T, N
      <4> QED
        BY <3>1, <4>1, FS_Subset
    <3> HIDE DEF T
    <3> QED
      BY <3>1, <3>2, GreatestNatural
  <2>3. /\ a \in 1..N /\ a \in 0..N /\ a - 1 \in 0..N /\ Touches(edge[a], k)
        /\ \A i \in (a + 1)..N : ~Touches(edge[i], k)
    <3>1. a \in 1..N /\ Touches(edge[a], k)
      OBVIOUS
    <3>2. \A i \in (a + 1)..N : i \in 1..N /\ ~(i <= a)
      BY <1>2, <3>1
    <3> HIDE DEF N
    <3> QED
      BY <1>2, <2>2, <3>1, <3>2
  <2> DEFINE x == Mark(k)
  <2>4. /\ x \in DOMAIN f[N] <=> x \in DOMAIN f[a]
        /\ x \in DOMAIN f[a] => f[N][x] = f[a][x]
    <3>1. \A p \in Ids : Mark(p) = x => p = k
      BY KeyIs DEF Mark
    <3>2. \A i \in (a + 1)..N : ~Hits(edge[i], x)
      <4> HIDE DEF x, N
      <4> QED
        BY <2>3, <3>1 DEF Hits
    <3> HIDE DEF x
    <3> QED
      BY <1>1, <1>3, <2>3, <3>2, Untouched
  <2>5. /\ f[a] = ApplyOp(f[a - 1], edge[a]) /\ f[a - 1] \in Manifests
        /\ edge[a] \in Steps /\ Fits(edge[a])
    BY <1>2, <1>3, <2>3 DEF Leads
  <2>6. CASE k \in DOMAIN new
    <3>1. ~Removes(edge[a], k)
      <4> SUFFICES ASSUME Removes(edge[a], k) PROVE FALSE
        OBVIOUS
      <4>1. PICK j \in (a + 1)..N : Sets(edge[j], k)
        BY <1>1, <2>3, <2>6 DEF SetAgain
      <4> QED
        BY <2>3, <4>1 DEF Sets
    <3>2. Sets(edge[a], k)
      BY <2>3, <3>1 DEF Sets
    <3>3. x \in DOMAIN f[a] /\ f[a][x] = Content(new, k)
      BY <2>1, <2>5, <3>2, ApplyOpKey
    <3> QED
      BY <1>3, <2>4, <2>6, <3>3
  <2>7. CASE k \notin DOMAIN new
    <3>1. Removes(edge[a], k)
      BY <2>3, <2>7 DEF Touches, Removes
    <3>2. x \notin DOMAIN f[a]
      BY <2>1, <2>5, <3>1, ApplyOpKey
    <3> QED
      BY <1>3, <2>4, <2>7, <3>2
  <2> QED
    BY <2>6, <2>7
<1> QED
  BY <1>4, <1>6, <1>7

-----------------------------------------------------------------------------
(***************************************************************************)
(* Single ops, and the few that come in twos.                              *)
(***************************************************************************)
LEMMA StepTyped ==
  ASSUME NEW do \in Dos, NEW o \in Ids, NEW to \in Ids \cup Versions,
         NEW down \in Seq(Ops)
  PROVE  /\ Step(do, o, to, down) \in Steps
         /\ Step(do, o, to, down).up.do = do /\ Step(do, o, to, down).up.id = o
         /\ Step(do, o, to, down).up.to = to
<1>1. Op(do, o, to) \in Ops
  BY DEF Op, Ops
<1> HIDE DEF Ops
<1> QED
  BY <1>1 DEF Step, Steps, Op

LEMMA OneStep ==
  ASSUME NEW x \in Steps
  PROVE  /\ << x >> \in Seq(Steps) /\ Len(<< x >>) = 1 /\ << x >>[1] = x
         /\ ToSet(<< x >>) = {x}
BY DEF ToSet

LEMMA TwoParts ==
  ASSUME NEW a \in Seq(Steps), NEW b \in Seq(Steps)
  PROVE  ToSet(a \o b) = ToSet(a) \cup ToSet(b)
BY ZenonT(40), ConcatSet

\* An op on a key of the desired schema that is not its removal.
LEMMA StepSettles ==
  ASSUME NEW do \in Dos \ {"drop_guard", "backfill"}, NEW o \in Ids,
         NEW to \in Ids \cup Versions, NEW down \in Seq(Ops),
         Top(o) \in DOMAIN new, Top(o) \in Ids, do = "drop" => Top(o) # o
  PROVE  Settles(<< Step(do, o, to, down) >>, {Top(o)})
<1> DEFINE x == Step(do, o, to, down)
<1>1. x \in Steps /\ x.up.do = do /\ x.up.id = o
  BY StepTyped
<1> HIDE DEF x
<1>2. << x >> \in Seq(Steps) /\ Len(<< x >>) = 1 /\ << x >>[1] = x /\ ToSet(<< x >>) = {x}
  BY <1>1, OneStep
<1>3. Touched(<< x >>) = {Top(o)}
  BY <1>1, <1>2 DEF Touched, Touches
<1>4. \A k : ~Removes(x, k)
  BY <1>1 DEF Removes
<1>5. SetAgain(<< x >>)
  <2>1. \A i \in 1..1 : i = 1
    OBVIOUS
  <2> QED
    BY <1>2, <1>4, <2>1 DEF SetAgain
<1>6. \A y \in ToSet(<< x >>) : Fits(y)
  BY <1>2, <1>4 DEF Fits
<1> QED
  BY <1>2, <1>3, <1>5, <1>6 DEF Settles, x

\* The drop of an object the desired schema does not have.
LEMMA GoneSettles ==
  ASSUME NEW o \in Ids, NEW to \in Ids \cup Versions, NEW down \in Seq(Ops),
         Top(o) = o, o \notin DOMAIN new, to = old[o]
  PROVE  Settles(<< Step("drop", o, to, down) >>, {o})
<1> DEFINE x == Step("drop", o, to, down)
<1>1. x \in Steps /\ x.up.do = "drop" /\ x.up.id = o /\ x.up.to = to
  <2>1. "drop" \in Dos
    BY DEF Dos
  <2> QED
    BY <2>1, StepTyped
<1> HIDE DEF x
<1>2. << x >> \in Seq(Steps) /\ Len(<< x >>) = 1 /\ << x >>[1] = x /\ ToSet(<< x >>) = {x}
  BY <1>1, OneStep
<1>3. Touched(<< x >>) = {o}
  BY <1>1, <1>2 DEF Touched, Touches
<1>4. \A k \in DOMAIN new : ~Removes(x, k)
  BY <1>1 DEF Removes
<1>5. SetAgain(<< x >>)
  <2>1. \A i \in 1..1 : i = 1
    OBVIOUS
  <2> QED
    BY <1>2, <1>4, <2>1 DEF SetAgain
<1>6. \A y \in ToSet(<< x >>) : Fits(y)
  BY <1>1, <1>2 DEF Fits, Mark
<1> QED
  BY <1>2, <1>3, <1>5, <1>6 DEF Settles, x

\* An op the simulation passes over.
LEMMA IdleSettles ==
  ASSUME NEW do \in {"drop_guard", "backfill"}, NEW o \in Ids,
         NEW to \in Ids \cup Versions, NEW down \in Seq(Ops)
  PROVE  Settles(<< Step(do, o, to, down) >>, {})
<1> DEFINE x == Step(do, o, to, down)
<1>1. x \in Steps /\ x.up.do = do /\ x.up.id = o
  <2>1. do \in Dos
    BY DEF Dos
  <2> QED
    BY <2>1, StepTyped
<1> HIDE DEF x
<1>2. << x >> \in Seq(Steps) /\ Len(<< x >>) = 1 /\ << x >>[1] = x /\ ToSet(<< x >>) = {x}
  BY <1>1, OneStep
<1>3. Touched(<< x >>) = {}
  BY <1>1, <1>2 DEF Touched, Touches
<1>4. \A k : ~Removes(x, k)
  BY <1>1 DEF Removes
<1>5. SetAgain(<< x >>)
  <2>1. \A i \in 1..1 : i = 1
    OBVIOUS
  <2> QED
    BY <1>2, <1>4, <2>1 DEF SetAgain
<1>6. \A y \in ToSet(<< x >>) : Fits(y)
  BY <1>2, <1>4 DEF Fits
<1> QED
  BY <1>2, <1>3, <1>5, <1>6 DEF Settles, x

\* A drop and an op that sets the object again.
LEMMA DropCreateSettles ==
  ASSUME NEW o \in Ids, NEW to \in Ids \cup Versions, NEW down \in Seq(Ops),
         NEW again \in Ids \cup Versions, NEW back \in Seq(Ops),
         Top(o) \in DOMAIN new, Top(o) \in Ids,
         Top(o) = o => Key(o, to) = Key(o, new[o])
  PROVE  Settles(<< Step("drop", o, to, down) >> \o << Step("create", o, again, back) >>,
                 {Top(o)})
<1> DEFINE x == Step("drop", o, to, down)
           y == Step("create", o, again, back)
           q == << x >> \o << y >>
<1>1. /\ x \in Steps /\ x.up.do = "drop" /\ x.up.id = o /\ x.up.to = to
      /\ y \in Steps /\ y.up.do = "create" /\ y.up.id = o
  <2>1. "drop" \in Dos /\ "create" \in Dos
    BY DEF Dos
  <2> QED
    BY <2>1, StepTyped
<1> HIDE DEF x, y
<1>2. << x >> \in Seq(Steps) /\ ToSet(<< x >>) = {x} /\ << y >> \in Seq(Steps) /\ ToSet(<< y >>) = {y}
  BY <1>1, OneStep
<1> HIDE DEF Steps
<1>3. q \in Seq(Steps) /\ Len(q) = 2 /\ q[1] = x /\ q[2] = y
  BY <1>1, <1>2
<1>4. ToSet(q) = {x, y}
  <2>1. ToSet(q) = ToSet(<< x >>) \cup ToSet(<< y >>)
    <3> HIDE DEF q
    <3>1. q = << x >> \o << y >>
      BY DEF q
    <3> QED
      BY <1>2, <3>1, TwoParts
  <2> QED
    BY <1>2, <2>1
<1>5. Touched(q) = {Top(o)}
  BY <1>1, <1>4 DEF Touched, Touches
<1>6. SetAgain(q)
  <2>1. \A k : Removes(y, k) = FALSE
    BY <1>1 DEF Removes
  <2>2. \A k \in DOMAIN new : Removes(x, k) => Sets(y, k)
    BY <1>1 DEF Removes, Sets, Touches
  <2>3. 2 \in (1 + 1)..2 /\ \A i \in 1..2 : i = 1 \/ i = 2
    OBVIOUS
  <2> HIDE DEF q
  <2> QED
    BY <1>3, <2>1, <2>2, <2>3 DEF SetAgain
<1>7. \A z \in ToSet(q) : Fits(z)
  <2>1. Fits(y)
    BY <1>1 DEF Fits, Removes
  <2>2. Fits(x)
    BY <1>1 DEF Fits, Removes, Mark
  <2> QED
    BY <1>4, <2>1, <2>2
<1> QED
  BY <1>3, <1>5, <1>6, <1>7 DEF Settles, x, y

-----------------------------------------------------------------------------
(***************************************************************************)
(* What GenerateMigration does about one object.                           *)
(***************************************************************************)

\* The change of the schema is one the generator is asked about.
Asked == /\ IsSchema(old) /\ IsSchema(new)
         /\ declared \subseteq Plausible(old, new)

LEMMA InSchema ==
  ASSUME NEW s, IsSchema(s), NEW o \in DOMAIN s
  PROVE  /\ o \in Ids /\ s[o] \in {1, 2} /\ s[o] \in Ids \cup Versions
         /\ Aspect[o] = "none" => s[o] = 1
         /\ Top(o) \in DOMAIN s /\ Top(o) \in Ids
<1>1. /\ DOMAIN s \subseteq Ids
      /\ s[o] \in IF Aspect[o] = "none" THEN {1} ELSE {1, 2}
      /\ Top(o) \in DOMAIN s
  BY DEF IsSchema
<1>2. s[o] \in {1, 2}
  BY <1>1
<1> QED
  BY <1>1, <1>2 DEF Versions

LEMMA OpsTyped ==
  ASSUME NEW do \in Dos, NEW o \in Ids, NEW to \in Ids \cup Versions
  PROVE  << >> \in Seq(Ops) /\ << Op(do, o, to) >> \in Seq(Ops)
<1>1. Op(do, o, to) \in Ops
  BY DEF Op, Ops
<1> HIDE DEF Ops
<1> QED
  BY <1>1

LEMMA RenderedTyped ==
  ASSUME NEW c, NEW v \in Ids \cup Versions
  PROVE  Rendered(c, v) \in Ids \cup Versions
BY DEF Rendered, Versions

LEMMA CreateSettles ==
  ASSUME Asked, NEW o \in DOMAIN new
  PROVE  Settles(Create(o), {Top(o)})
<1>1. o \in Ids /\ new[o] \in Ids \cup Versions /\ Top(o) \in DOMAIN new /\ Top(o) \in Ids
  BY InSchema DEF Asked
<1>2. "create" \in Dos \ {"drop_guard", "backfill"} /\ "create" # "drop" /\ "drop" \in Dos
  BY DEF Dos
<1>3. << Op("drop", o, new[o]) >> \in Seq(Ops) /\ Rendered(o, new[o]) \in Ids \cup Versions
  BY <1>1, <1>2, OpsTyped, RenderedTyped
<1>4. Settles(<< Step("create", o, Rendered(o, new[o]), << Op("drop", o, new[o]) >>) >>,
              {Top(o)})
  BY <1>1, <1>2, <1>3, StepSettles
<1> QED
  BY Zenon, <1>4 DEF Create

LEMMA DropPartSettles ==
  ASSUME Asked, NEW o \in DOMAIN old, Kind[o] \in PartKinds, Top(o) \in DOMAIN new
  PROVE  Settles(Drop(o), {Top(o)})
<1>1. o \in Ids /\ old[o] \in Ids \cup Versions /\ Top(o) \in Ids
  BY InSchema DEF Asked
<1>2. Top(o) # o
  BY <1>1, PartOrNot
<1>3. "drop" \in Dos \ {"drop_guard", "backfill"}
  BY DEF Dos
<1>4. << >> \in Seq(Ops)
  BY <1>1, <1>3, OpsTyped
<1>5. Settles(<< Step("drop", o, old[o], << >>) >>, {Top(o)})
  BY <1>1, <1>2, <1>3, <1>4, StepSettles
<1> QED
  BY Zenon, <1>5 DEF Drop

LEMMA DropGoneSettles ==
  ASSUME Asked, NEW o \in DOMAIN old \ DOMAIN new, Kind[o] \notin PartKinds
  PROVE  Settles(Drop(o), {Top(o)})
<1>1. o \in Ids /\ old[o] \in Ids \cup Versions
  BY InSchema DEF Asked
<1>2. Top(o) = o
  BY <1>1, PartOrNot
<1>3. "drop" \in Dos
  BY DEF Dos
<1>4. << >> \in Seq(Ops)
  BY <1>1, <1>3, OpsTyped
<1>5. Settles(<< Step("drop", o, old[o], << >>) >>, {o})
  BY <1>1, <1>2, <1>4, GoneSettles
<1> QED
  BY Zenon, <1>2, <1>5 DEF Drop

LEMMA AspectIs ==
  ASSUME NEW o \in Ids
  PROVE  Aspect[o] \in AspectsOf(Kind[o])
BY Zenon, Catalog

\* Only a function has a signature.
LEMMA SignatureIsOfFunction ==
  ASSUME NEW o \in Ids, Kind[o] # "function"
  PROVE  Aspect[o] # "signature"
BY AspectIs DEF AspectsOf

LEMMA RecreateSettles ==
  ASSUME Asked, NEW o \in DOMAIN old \cap DOMAIN new, Kind[o] # "function"
  PROVE  Settles(Recreate(o), {Top(o)})
<1>1. /\ o \in Ids /\ old[o] \in Ids \cup Versions /\ new[o] \in Ids \cup Versions
      /\ Top(o) \in DOMAIN new /\ Top(o) \in Ids
  BY InSchema DEF Asked
<1>2. "drop" \in Dos
  BY DEF Dos
<1>3. /\ << >> \in Seq(Ops) /\ << Op("drop", o, new[o]) >> \in Seq(Ops)
      /\ Rendered(o, new[o]) \in Ids \cup Versions
  BY <1>1, <1>2, OpsTyped, RenderedTyped
<1>4. Key(o, old[o]) = Key(o, new[o])
  BY <1>1, SignatureIsOfFunction, KeyIs
<1>5. Settles(<< Step("drop", o, old[o], << >>) >>
              \o << Step("create", o, Rendered(o, new[o]), << Op("drop", o, new[o]) >>) >>,
              {Top(o)})
  BY <1>1, <1>3, <1>4, DropCreateSettles
<1> QED
  BY Zenon, <1>5 DEF Recreate, Drop, Create

LEMMA AlterSettles ==
  ASSUME Asked, NEW o \in DOMAIN new, NEW down \in Seq(Ops)
  PROVE  Settles(Alter(o, down), {Top(o)})
<1>1. o \in Ids /\ new[o] \in Ids \cup Versions /\ Top(o) \in DOMAIN new /\ Top(o) \in Ids
  BY InSchema DEF Asked
<1>2. "alter" \in Dos \ {"drop_guard", "backfill"} /\ "alter" # "drop"
  BY DEF Dos
<1>3. Settles(<< Step("alter", o, new[o], down) >>, {Top(o)})
  BY <1>1, <1>2, StepSettles
<1> QED
  BY Zenon, <1>3 DEF Alter

LEMMA BackTyped ==
  ASSUME Asked, NEW o \in DOMAIN old
  PROVE  Back(o) \in Seq(Ops) /\ << >> \in Seq(Ops)
<1>1. o \in Ids /\ old[o] \in Ids \cup Versions /\ "alter" \in Dos
  BY InSchema DEF Asked, Dos
<1>2. << Op("alter", o, old[o]) >> \in Seq(Ops) /\ << >> \in Seq(Ops)
  BY <1>1, OpsTyped
<1> QED
  BY Zenon, <1>2 DEF Back

LEMMA AddFKSettles ==
  ASSUME Asked, NEW o \in DOMAIN new
  PROVE  Settles(AddFK(o), {Top(o)})
<1>1. o \in Ids /\ new[o] \in Ids \cup Versions /\ Top(o) \in DOMAIN new /\ Top(o) \in Ids
  BY InSchema DEF Asked
<1>2. "validate" \in Dos \ {"drop_guard", "backfill"} /\ "validate" # "drop"
  BY DEF Dos
<1>3. << Op("validate", o, new[o]) >> \in Seq(Ops)
  BY <1>1, <1>2, OpsTyped
<1>4. Settles(<< Step("validate", o, new[o], << Op("validate", o, new[o]) >>) >>, {Top(o)})
  BY <1>1, <1>2, <1>3, StepSettles
<1>5. Settles(Create(o), {Top(o)})
  BY CreateSettles
<1>6. Settles(Create(o) \o << Step("validate", o, new[o], << Op("validate", o, new[o]) >>) >>,
              {Top(o)} \cup {Top(o)})
  BY Zenon, <1>4, <1>5, BothSettle
<1>7. {Top(o)} \cup {Top(o)} = {Top(o)}
  OBVIOUS
<1> QED
  BY Zenon, <1>6, <1>7 DEF AddFK

LEMMA ChangeEnumSettles ==
  ASSUME Asked, NEW o \in DOMAIN new
  PROVE  Settles(ChangeEnum(o), IF new[o] = 2 THEN {Top(o)} ELSE {})
<1>1. o \in Ids /\ "alter" \in Dos /\ 1 \in Ids \cup Versions
  BY InSchema DEF Asked, Dos, Versions
<1>2. << >> \in Seq(Ops)
  BY <1>1, OpsTyped
<1>3. Settles(Alter(o, << >>), {Top(o)})
  BY <1>2, AlterSettles
<1> QED
  BY Zenon, <1>3, NothingSettles DEF ChangeEnum

LEMMA ChangeDomainSettles ==
  ASSUME Asked, NEW o \in DOMAIN old \cap DOMAIN new, Kind[o] # "function"
  PROVE  Settles(ChangeDomain(o), {Top(o)})
<1>1. Back(o) \in Seq(Ops) /\ << >> \in Seq(Ops)
  BY BackTyped
<1>2. (IF new[o] = 2 THEN Back(o) ELSE << >>) \in Seq(Ops)
  BY <1>1
<1>3. Settles(Alter(o, IF new[o] = 2 THEN Back(o) ELSE << >>), {Top(o)})
  BY <1>2, AlterSettles
<1>4. Settles(Recreate(o), {Top(o)})
  BY RecreateSettles
<1> QED
  BY Zenon, <1>3, <1>4 DEF ChangeDomain

LEMMA ChangeFunctionSettles ==
  ASSUME Asked, NEW o \in DOMAIN old \cap DOMAIN new
  PROVE  Settles(ChangeFunction(o), {Top(o)})
<1>1. /\ o \in Ids /\ new[o] \in Ids \cup Versions
      /\ Top(o) \in DOMAIN new /\ Top(o) \in Ids
  BY InSchema DEF Asked
<1>2. "drop" \in Dos
  BY DEF Dos
<1>3. /\ << >> \in Seq(Ops) /\ << Op("drop", o, new[o]) >> \in Seq(Ops)
      /\ Rendered(o, new[o]) \in Ids \cup Versions
  BY <1>1, <1>2, OpsTyped, RenderedTyped
<1>4. Settles(<< Step("drop", o, new[o], << >>) >>
              \o << Step("create", o, Rendered(o, new[o]), << Op("drop", o, new[o]) >>) >>,
              {Top(o)})
  BY <1>1, <1>3, DropCreateSettles
<1>5. Settles(Alter(o, << >>), {Top(o)})
  BY <1>3, AlterSettles
<1> QED
  BY Zenon, <1>4, <1>5 DEF ChangeFunction, Create

LEMMA DropFunctionSettles ==
  ASSUME Asked, NEW o \in DOMAIN old
  PROVE  Settles(DropFunction(o), {})
<1>1. o \in Ids /\ old[o] \in Ids \cup Versions /\ "drop_guard" \in Dos
  BY InSchema DEF Asked, Dos
<1>2. << >> \in Seq(Ops)
  BY <1>1, OpsTyped
<1>3. Settles(<< Step("drop_guard", o, old[o], << >>) >>, {})
  BY <1>1, <1>2, IdleSettles
<1> QED
  BY Zenon, <1>3 DEF DropFunction

LEMMA ShapeSettles ==
  ASSUME Asked, NEW do \in {"create", "alter"}, NEW c \in DOMAIN new,
         NEW to \in Ids \cup Versions, NEW undo \in {"drop", "alter"}, NEW back \in Ids \cup Versions
  PROVE  Settles(<< Step(do, c, to, << Op(undo, c, back) >>) >>, {Top(c)})
<1>1. c \in Ids /\ Top(c) \in DOMAIN new /\ Top(c) \in Ids
  BY InSchema DEF Asked
<1>2. do \in Dos \ {"drop_guard", "backfill"} /\ do # "drop" /\ undo \in Dos
  BY DEF Dos
<1>3. << Op(undo, c, back) >> \in Seq(Ops)
  BY <1>1, <1>2, OpsTyped
<1> QED
  BY <1>1, <1>2, <1>3, StepSettles

\* Of what is altered, what the differ compares.
Shown == {o \in Altered : Aspect[o] # "uniqueness"}

\* A column that changes has an aspect there is an op for.
LEMMA ChangeColumnSettles ==
  ASSUME Asked, NEW c \in Shown, Kind[c] = "column"
  PROVE  Settles(ChangeColumn(c), {Top(c)})
<1> DEFINE former == IF new[c] = 2 THEN 0 ELSE Rendered(c, old[c])
<1>1. c \in DOMAIN new /\ c \in DOMAIN old /\ old[c] # new[c]
  BY DEF Altered, Shown
<1>2. /\ c \in Ids /\ new[c] \in Ids \cup Versions /\ old[c] \in Ids \cup Versions
      /\ Aspect[c] # "none"
  <2>1. /\ new[c] \in Ids \cup Versions /\ c \in Ids
        /\ Aspect[c] = "none" => new[c] = 1
    BY <1>1, InSchema DEF Asked
  <2>2. /\ old[c] \in Ids \cup Versions
        /\ Aspect[c] = "none" => old[c] = 1
    BY <1>1, InSchema DEF Asked
  <2> QED
    BY <1>1, <2>1, <2>2
<1>3. Aspect[c] \in {"type", "collation", "notnull", "default", "expression"}
  BY <1>2, AspectIs DEF AspectsOf
<1>4. Back(c) \in Seq(Ops) /\ << >> \in Seq(Ops)
  BY <1>1, BackTyped
<1>5. Settles(Alter(c, << >>), {Top(c)}) /\ Settles(Alter(c, Back(c)), {Top(c)})
  BY <1>1, <1>4, AlterSettles
<1>6. former \in Ids \cup Versions /\ Rendered(c, new[c]) \in Ids \cup Versions
  <2>1. Rendered(c, new[c]) \in Ids \cup Versions /\ Rendered(c, old[c]) \in Ids \cup Versions
    BY <1>2, RenderedTyped
  <2> QED
    BY <2>1 DEF Versions
<1> HIDE DEF former
<1>7. Settles(<< Step("alter", c, Rendered(c, new[c]), << Op("alter", c, former) >>) >>,
              {Top(c)})
  BY <1>1, <1>6, ShapeSettles
<1>8. CASE Aspect[c] \in {"type", "collation"}
  <2>1. ChangeColumn(c) = Alter(c, << >>)
    BY <1>8 DEF ChangeColumn
  <2> QED
    BY Zenon, <1>5, <2>1
<1>9. CASE Aspect[c] = "notnull"
  <2>1. ChangeColumn(c) = Alter(c, Back(c))
    BY <1>9 DEF ChangeColumn
  <2> QED
    BY Zenon, <1>5, <2>1
<1>10. CASE Aspect[c] \in {"default", "expression"}
  <2>1. ChangeColumn(c) =
          << Step("alter", c, Rendered(c, new[c]), << Op("alter", c, former) >>) >>
    BY <1>10 DEF ChangeColumn, former
  <2> QED
    BY Zenon, <1>7, <2>1
<1> QED
  BY <1>3, <1>8, <1>9, <1>10

LEMMA ChangeIndexSettles ==
  ASSUME Asked, NEW o \in DOMAIN old \cap DOMAIN new, Kind[o] # "function"
  PROVE  Settles(ChangeIndex(o), {Top(o)})
<1>1. Back(o) \in Seq(Ops)
  BY BackTyped
<1>2. Settles(Alter(o, Back(o)), {Top(o)})
  BY <1>1, AlterSettles
<1>3. Settles(Recreate(o), {Top(o)})
  BY RecreateSettles
<1> QED
  BY Zenon, <1>2, <1>3 DEF ChangeIndex

\* A foreign key that changes is dropped and added.
LEMMA ChangeFKSettles ==
  ASSUME Asked, NEW f \in DOMAIN old \cap DOMAIN new, Kind[f] \in PartKinds
  PROVE  Settles(Drop(f) \o AddFK(f), {Top(f)})
<1>1. Top(f) \in DOMAIN new
  BY InSchema DEF Asked
<1>2. Settles(Drop(f), {Top(f)})
  BY <1>1, DropPartSettles
<1>3. Settles(AddFK(f), {Top(f)})
  BY AddFKSettles
<1>4. Settles(Drop(f) \o AddFK(f), {Top(f)} \cup {Top(f)})
  BY Zenon, <1>2, <1>3, BothSettle
<1> QED
  BY <1>4

\* What is declared is a pair of columns of one table of both schemas.
LEMMA DeclaredPair ==
  ASSUME Asked, NEW p \in declared
  PROVE  /\ p \in ToSet(Alike) /\ p \in Ids \X Ids
         /\ p[1] \in DOMAIN old \ DOMAIN new /\ p[2] \in DOMAIN new \ DOMAIN old
         /\ Kind[p[1]] = "column" /\ Kind[p[2]] = "column" /\ Owner[p[1]] = Owner[p[2]]
         /\ Top(p[1]) \in DOMAIN new /\ Top(p[1]) = Owner[p[1]]
<1>1. /\ p \in ToSet(Alike) /\ Top(p[1]) \in DOMAIN new
      /\ p[1] \in DOMAIN old \ DOMAIN new /\ p[2] \in DOMAIN new \ DOMAIN old
  BY DEF Asked, Plausible
<1>2. /\ p \in Ids \X Ids /\ Kind[p[1]] = "column" /\ Kind[p[2]] = "column"
      /\ Owner[p[1]] = Owner[p[2]]
  <2> DEFINE A == {x \in Ids \X Ids : /\ Kind[x[1]] = "column" /\ Kind[x[2]] = "column"
                                      /\ Owner[x[1]] = Owner[x[2]]}
  <2>1. Alike \in Seq(A)
    BY Zenon, Catalog
  <2> HIDE DEF A
  <2>2. p \in A
    BY <1>1, <2>1 DEF ToSet
  <2> QED
    BY <2>2 DEF A
<1>3. p[1] \in Ids /\ "column" \in PartKinds
  BY <1>2 DEF PartKinds
<1>4. Top(p[1]) = Owner[p[1]]
  BY <1>2, <1>3, PartOrNot
<1> QED
  BY <1>1, <1>2, <1>4

LEMMA RenameSettles ==
  ASSUME Asked, NEW p \in declared
  PROVE  Settles(Rename(p), {Top(p[1])})
<1>1. /\ p[1] \in Ids /\ p[2] \in Ids /\ Top(p[1]) \in DOMAIN new /\ Top(p[1]) \in Ids
      /\ p[2] \in Ids \cup Versions /\ p[1] \in Ids \cup Versions
  <2>1. p \in Ids \X Ids /\ Top(p[1]) \in DOMAIN new /\ p[1] \in DOMAIN old
    BY DeclaredPair
  <2>2. Top(p[1]) \in Ids
    BY <2>1, InSchema DEF Asked
  <2> QED
    BY <2>1, <2>2
<1>2. "rename" \in Dos \ {"drop_guard", "backfill"} /\ "rename" # "drop" /\ "rename" \in Dos
  BY DEF Dos
<1>3. << Op("rename", p[2], p[1]) >> \in Seq(Ops)
  BY <1>1, <1>2, OpsTyped
<1>4. Settles(<< Step("rename", p[1], p[2], << Op("rename", p[2], p[1]) >>) >>, {Top(p[1])})
  BY <1>1, <1>2, <1>3, StepSettles
<1> QED
  BY Zenon, <1>4 DEF Rename

LEMMA BackfillSettles ==
  ASSUME Asked, NEW c \in DOMAIN new
  PROVE  Settles(Backfill(c), {})
<1>1. c \in Ids /\ new[c] \in Ids \cup Versions /\ {"backfill", "vacuous"} \subseteq Dos
  BY InSchema DEF Asked, Dos
<1>2. << Op("vacuous", c, new[c]) >> \in Seq(Ops)
  BY <1>1, OpsTyped
<1>3. Settles(<< Step("backfill", c, new[c], << Op("vacuous", c, new[c]) >>) >>, {})
  BY <1>1, <1>2, IdleSettles
<1> QED
  BY Zenon, <1>3 DEF Backfill

-----------------------------------------------------------------------------
(***************************************************************************)
(* The lists of the diff.                                                  *)
(***************************************************************************)
LEMMA InOrderComplete ==
  ASSUME NEW s, DOMAIN s \subseteq Ids, NEW kind
  PROVE  InOrder(s, kind) \in Seq(Ids) /\ ToSet(InOrder(s, kind)) = Of(s, kind)
<1>1. Of(s, kind) \subseteq Ids
  BY DEF Of
<1>2. ByName(Of(s, kind)) \in Seq(Ids) /\ ToSet(ByName(Of(s, kind))) = Of(s, kind)
  BY <1>1, ByNameComplete
<1>3. CASE kind = "table"
  <2>1. InOrder(s, kind) = TopoSort(Of(s, kind), TableDeps(s))
    BY <1>3 DEF InOrder, Tables
  <2> QED
    BY <1>1, <2>1, TopoSortComplete
<1>4. CASE kind \in {"view", "matview", "function"}
  <2> DEFINE deps == [o \in Of(s, kind) |-> Uses[o][s[o]]]
  <2>1. InOrder(s, kind) = TopoSort(Of(s, kind), deps)
    BY <1>4 DEF InOrder
  <2> HIDE DEF deps
  <2> QED
    BY <1>1, <2>1, TopoSortComplete
<1>5. CASE kind \notin {"table", "view", "matview", "function"}
  <2>1. InOrder(s, kind) = ByName(Of(s, kind))
    BY <1>5 DEF InOrder
  <2> QED
    BY <1>2, <2>1
<1> QED
  BY <1>3, <1>4, <1>5

LEMMA DiffComplete ==
  ASSUME Asked, NEW kind
  PROVE  /\ Added(old, new, kind) \in Seq(Ids)
         /\ ToSet(Added(old, new, kind)) = {o \in Fresh : Kind[o] = kind}
         /\ Removed(old, new, kind) \in Seq(Ids)
         /\ ToSet(Removed(old, new, kind)) = {o \in Gone : Kind[o] = kind}
         /\ Changed(old, new, kind) \in Seq(Ids)
         /\ ToSet(Changed(old, new, kind)) = {o \in Shown : Kind[o] = kind}
<1>1. DOMAIN old \subseteq Ids /\ DOMAIN new \subseteq Ids
  BY DEF Asked, IsSchema
<1>2. /\ InOrder(new, kind) \in Seq(Ids) /\ ToSet(InOrder(new, kind)) = Of(new, kind)
      /\ InOrder(old, kind) \in Seq(Ids) /\ ToSet(InOrder(old, kind)) = Of(old, kind)
  BY <1>1, InOrderComplete
<1> DEFINE C == {o \in DOMAIN new : Differs(old, new, o)}
<1>3. /\ Added(old, new, kind) \in Seq(Ids)
      /\ ToSet(Added(old, new, kind)) = Of(new, kind) \cap (DOMAIN new \ DOMAIN old)
  BY <1>2, AmongSet DEF Added
<1>4. /\ Removed(old, new, kind) \in Seq(Ids)
      /\ ToSet(Removed(old, new, kind)) = Of(old, kind) \cap (DOMAIN old \ DOMAIN new)
  BY <1>2, AmongSet DEF Removed
<1>5. /\ Changed(old, new, kind) \in Seq(Ids)
      /\ ToSet(Changed(old, new, kind)) = Of(new, kind) \cap C
  <2>1. Changed(old, new, kind) = Among(InOrder(new, kind), C)
    BY DEF Changed
  <2> HIDE DEF C
  <2> QED
    BY <1>2, <2>1, AmongSet
<1>6. Of(new, kind) \cap (DOMAIN new \ DOMAIN old) = {o \in Fresh : Kind[o] = kind}
  BY DEF Of, Fresh
<1>7. Of(old, kind) \cap (DOMAIN old \ DOMAIN new) = {o \in Gone : Kind[o] = kind}
  BY DEF Of, Gone
<1>8. Of(new, kind) \cap C = {o \in Shown : Kind[o] = kind}
  BY DEF Of, Altered, Shown, Differs
<1> QED
  BY <1>3, <1>4, <1>5, <1>6, <1>7, <1>8

LEMMA PartsComplete ==
  ASSUME Asked, NEW t, NEW kind
  PROVE  /\ Add(t, kind) \in Seq(Ids)
         /\ ToSet(Add(t, kind)) = {o \in Fresh : Kind[o] = kind /\ Owner[o] = t}
         /\ Rem(t, kind) \in Seq(Ids)
         /\ ToSet(Rem(t, kind)) = {o \in Gone : Kind[o] = kind /\ Owner[o] = t}
         /\ Alt(t, kind) \in Seq(Ids)
         /\ ToSet(Alt(t, kind)) = {o \in Shown : Kind[o] = kind /\ Owner[o] = t}
<1>1. /\ Added(old, new, kind) \in Seq(Ids)
      /\ ToSet(Added(old, new, kind)) = {o \in Fresh : Kind[o] = kind}
      /\ Removed(old, new, kind) \in Seq(Ids)
      /\ ToSet(Removed(old, new, kind)) = {o \in Gone : Kind[o] = kind}
      /\ Changed(old, new, kind) \in Seq(Ids)
      /\ ToSet(Changed(old, new, kind)) = {o \in Shown : Kind[o] = kind}
  BY DiffComplete
<1>2. /\ Add(t, kind) \in Seq(Ids)
      /\ ToSet(Add(t, kind)) = {o \in Fresh : Kind[o] = kind} \cap Parts(new, t)
  BY <1>1, AmongSet DEF Add, PartsAdded
<1>3. /\ Rem(t, kind) \in Seq(Ids)
      /\ ToSet(Rem(t, kind)) = {o \in Gone : Kind[o] = kind} \cap Parts(old, t)
  BY <1>1, AmongSet DEF Rem, PartsRemoved
<1>4. /\ Alt(t, kind) \in Seq(Ids)
      /\ ToSet(Alt(t, kind)) = {o \in Shown : Kind[o] = kind} \cap Parts(new, t)
  BY <1>1, AmongSet DEF Alt, PartsChanged
<1> QED
  BY <1>2, <1>3, <1>4 DEF Parts, Fresh, Gone, Altered, Shown

-----------------------------------------------------------------------------
(***************************************************************************)
(* The lists of ops, one for each way an object can change.                *)
(***************************************************************************)
Tops(S) == {Top(o) : o \in S}

\* A list of ops for each of several objects, each on the key of its object.
LEMMA EachTop ==
  ASSUME NEW s \in Seq(Ids), NEW seqs, seqs = [i \in DOMAIN s |-> seqs[i]],
         \A o \in ToSet(s) : \A i \in DOMAIN s : s[i] = o => Settles(seqs[i], {Top(o)})
  PROVE  Settles(FlattenSeq(seqs), Tops(ToSet(s)))
<1> DEFINE F == [o \in Ids |-> {Top(o)}]
<1>1. ToSet(s) \subseteq Ids /\ \A i \in DOMAIN s : s[i] \in ToSet(s) /\ s[i] \in Ids
  BY DEF ToSet
<1>2. \A i \in DOMAIN s : Settles(seqs[i], F[s[i]])
  <2>1. ASSUME NEW i \in DOMAIN s PROVE Settles(seqs[i], F[s[i]])
    <3>1. Settles(seqs[i], {Top(s[i])})
      BY <1>1
    <3>2. F[s[i]] = {Top(s[i])}
      BY <1>1
    <3> QED
      BY Zenon, <3>1, <3>2
  <2> QED
    BY <2>1
<1>3. UNION {F[o] : o \in ToSet(s)} = Tops(ToSet(s))
  BY <1>1 DEF Tops
<1> HIDE DEF F
<1>4. Settles(FlattenSeq(seqs), UNION {F[o] : o \in ToSet(s)})
  BY <1>2, EachSettles
<1> QED
  BY Zenon, <1>3, <1>4

\* The same, with nothing said of any key.
LEMMA EachIdle ==
  ASSUME NEW s \in Seq(Ids), NEW seqs, seqs = [i \in DOMAIN s |-> seqs[i]],
         \A o \in ToSet(s) : \A i \in DOMAIN s : s[i] = o => Settles(seqs[i], {})
  PROVE  Settles(FlattenSeq(seqs), {})
<1> DEFINE F == [o \in Ids |-> {}]
<1>1. ToSet(s) \subseteq Ids /\ \A i \in DOMAIN s : s[i] \in ToSet(s) /\ s[i] \in Ids
  BY DEF ToSet
<1>2. \A i \in DOMAIN s : Settles(seqs[i], F[s[i]])
  <2>1. ASSUME NEW i \in DOMAIN s PROVE Settles(seqs[i], F[s[i]])
    <3>1. Settles(seqs[i], {})
      BY <1>1
    <3>2. F[s[i]] = {}
      BY <1>1
    <3> QED
      BY Zenon, <3>1, <3>2
  <2> QED
    BY <2>1
<1>3. UNION {F[o] : o \in ToSet(s)} = {}
  BY <1>1
<1> HIDE DEF F
<1>4. Settles(FlattenSeq(seqs), UNION {F[o] : o \in ToSet(s)})
  BY <1>2, EachSettles
<1> QED
  BY Zenon, <1>3, <1>4

CreateAll(s) == FlattenSeq([i \in DOMAIN s |-> Create(s[i])])

LEMMA CreateAllSettles ==
  ASSUME Asked, NEW s \in Seq(Ids), ToSet(s) \subseteq DOMAIN new
  PROVE  Settles(CreateAll(s), Tops(ToSet(s)))
<1> DEFINE seqs == [i \in DOMAIN s |-> Create(s[i])]
<1>1. \A o \in ToSet(s) : \A i \in DOMAIN s : s[i] = o => Settles(seqs[i], {Top(o)})
  BY CreateSettles
<1>2. seqs = [i \in DOMAIN s |-> seqs[i]]
  OBVIOUS
<1> HIDE DEF seqs
<1>3. Settles(FlattenSeq(seqs), Tops(ToSet(s)))
  BY <1>1, <1>2, EachTop
<1> QED
  BY Zenon, <1>3 DEF CreateAll, seqs

AddFKAll(s) == FlattenSeq([i \in DOMAIN s |-> AddFK(s[i])])

LEMMA AddFKAllSettles ==
  ASSUME Asked, NEW s \in Seq(Ids), ToSet(s) \subseteq DOMAIN new
  PROVE  Settles(AddFKAll(s), Tops(ToSet(s)))
<1> DEFINE seqs == [i \in DOMAIN s |-> AddFK(s[i])]
<1>1. \A o \in ToSet(s) : \A i \in DOMAIN s : s[i] = o => Settles(seqs[i], {Top(o)})
  <2>1. ASSUME NEW o \in ToSet(s) PROVE Settles(AddFK(o), {Top(o)})
    BY AddFKSettles
  <2> QED
    BY <2>1
<1>2. seqs = [i \in DOMAIN s |-> seqs[i]]
  OBVIOUS
<1> HIDE DEF seqs
<1>3. Settles(FlattenSeq(seqs), Tops(ToSet(s)))
  BY <1>1, <1>2, EachTop
<1> QED
  BY Zenon, <1>3 DEF AddFKAll, seqs

RecreateAll(s) == FlattenSeq([i \in DOMAIN s |-> Recreate(s[i])])

LEMMA RecreateAllSettles ==
  ASSUME Asked, NEW s \in Seq(Ids), ToSet(s) \subseteq DOMAIN old \cap DOMAIN new,
         \A o \in ToSet(s) : Kind[o] # "function"
  PROVE  Settles(RecreateAll(s), Tops(ToSet(s)))
<1> DEFINE seqs == [i \in DOMAIN s |-> Recreate(s[i])]
<1>1. \A o \in ToSet(s) : \A i \in DOMAIN s : s[i] = o => Settles(seqs[i], {Top(o)})
  <2>1. ASSUME NEW o \in ToSet(s) PROVE Settles(Recreate(o), {Top(o)})
    BY RecreateSettles
  <2> QED
    BY <2>1
<1>2. seqs = [i \in DOMAIN s |-> seqs[i]]
  OBVIOUS
<1> HIDE DEF seqs
<1>3. Settles(FlattenSeq(seqs), Tops(ToSet(s)))
  BY <1>1, <1>2, EachTop
<1> QED
  BY Zenon, <1>3 DEF RecreateAll, seqs

AlterAll(s) == FlattenSeq([i \in DOMAIN s |-> Alter(s[i], Back(s[i]))])

LEMMA AlterAllSettles ==
  ASSUME Asked, NEW s \in Seq(Ids), ToSet(s) \subseteq DOMAIN old \cap DOMAIN new
  PROVE  Settles(AlterAll(s), Tops(ToSet(s)))
<1> DEFINE seqs == [i \in DOMAIN s |-> Alter(s[i], Back(s[i]))]
<1>1. \A o \in ToSet(s) : \A i \in DOMAIN s : s[i] = o => Settles(seqs[i], {Top(o)})
  <2>1. ASSUME NEW o \in ToSet(s) PROVE Settles(Alter(o, Back(o)), {Top(o)})
    BY BackTyped, AlterSettles
  <2> QED
    BY <2>1
<1>2. seqs = [i \in DOMAIN s |-> seqs[i]]
  OBVIOUS
<1> HIDE DEF seqs
<1>3. Settles(FlattenSeq(seqs), Tops(ToSet(s)))
  BY <1>1, <1>2, EachTop
<1> QED
  BY Zenon, <1>3 DEF AlterAll, seqs

ReviseAll(s) == FlattenSeq([i \in DOMAIN s |-> Alter(s[i], << >>)])

LEMMA ReviseAllSettles ==
  ASSUME Asked, NEW s \in Seq(Ids), ToSet(s) \subseteq DOMAIN old \cap DOMAIN new
  PROVE  Settles(ReviseAll(s), Tops(ToSet(s)))
<1> DEFINE seqs == [i \in DOMAIN s |-> Alter(s[i], << >>)]
<1>1. \A o \in ToSet(s) : \A i \in DOMAIN s : s[i] = o => Settles(seqs[i], {Top(o)})
  <2>1. ASSUME NEW o \in ToSet(s) PROVE Settles(Alter(o, << >>), {Top(o)})
    BY BackTyped, AlterSettles
  <2> QED
    BY <2>1
<1>2. seqs = [i \in DOMAIN s |-> seqs[i]]
  OBVIOUS
<1> HIDE DEF seqs
<1>3. Settles(FlattenSeq(seqs), Tops(ToSet(s)))
  BY <1>1, <1>2, EachTop
<1> QED
  BY Zenon, <1>3 DEF ReviseAll, seqs

ChangeDomainAll(s) == FlattenSeq([i \in DOMAIN s |-> ChangeDomain(s[i])])

LEMMA ChangeDomainAllSettles ==
  ASSUME Asked, NEW s \in Seq(Ids), ToSet(s) \subseteq DOMAIN old \cap DOMAIN new,
         \A o \in ToSet(s) : Kind[o] # "function"
  PROVE  Settles(ChangeDomainAll(s), Tops(ToSet(s)))
<1> DEFINE seqs == [i \in DOMAIN s |-> ChangeDomain(s[i])]
<1>1. \A o \in ToSet(s) : \A i \in DOMAIN s : s[i] = o => Settles(seqs[i], {Top(o)})
  <2>1. ASSUME NEW o \in ToSet(s) PROVE Settles(ChangeDomain(o), {Top(o)})
    BY ChangeDomainSettles
  <2> QED
    BY <2>1
<1>2. seqs = [i \in DOMAIN s |-> seqs[i]]
  OBVIOUS
<1> HIDE DEF seqs
<1>3. Settles(FlattenSeq(seqs), Tops(ToSet(s)))
  BY <1>1, <1>2, EachTop
<1> QED
  BY Zenon, <1>3 DEF ChangeDomainAll, seqs

ChangeFunctionAll(s) == FlattenSeq([i \in DOMAIN s |-> ChangeFunction(s[i])])

LEMMA ChangeFunctionAllSettles ==
  ASSUME Asked, NEW s \in Seq(Ids), ToSet(s) \subseteq DOMAIN old \cap DOMAIN new
  PROVE  Settles(ChangeFunctionAll(s), Tops(ToSet(s)))
<1> DEFINE seqs == [i \in DOMAIN s |-> ChangeFunction(s[i])]
<1>1. \A o \in ToSet(s) : \A i \in DOMAIN s : s[i] = o => Settles(seqs[i], {Top(o)})
  <2>1. ASSUME NEW o \in ToSet(s) PROVE Settles(ChangeFunction(o), {Top(o)})
    BY ChangeFunctionSettles
  <2> QED
    BY <2>1
<1>2. seqs = [i \in DOMAIN s |-> seqs[i]]
  OBVIOUS
<1> HIDE DEF seqs
<1>3. Settles(FlattenSeq(seqs), Tops(ToSet(s)))
  BY <1>1, <1>2, EachTop
<1> QED
  BY Zenon, <1>3 DEF ChangeFunctionAll, seqs

ChangeIndexAll(s) == FlattenSeq([i \in DOMAIN s |-> ChangeIndex(s[i])])

LEMMA ChangeIndexAllSettles ==
  ASSUME Asked, NEW s \in Seq(Ids), ToSet(s) \subseteq DOMAIN old \cap DOMAIN new,
         \A o \in ToSet(s) : Kind[o] # "function"
  PROVE  Settles(ChangeIndexAll(s), Tops(ToSet(s)))
<1> DEFINE seqs == [i \in DOMAIN s |-> ChangeIndex(s[i])]
<1>1. \A o \in ToSet(s) : \A i \in DOMAIN s : s[i] = o => Settles(seqs[i], {Top(o)})
  <2>1. ASSUME NEW o \in ToSet(s) PROVE Settles(ChangeIndex(o), {Top(o)})
    BY ChangeIndexSettles
  <2> QED
    BY <2>1
<1>2. seqs = [i \in DOMAIN s |-> seqs[i]]
  OBVIOUS
<1> HIDE DEF seqs
<1>3. Settles(FlattenSeq(seqs), Tops(ToSet(s)))
  BY <1>1, <1>2, EachTop
<1> QED
  BY Zenon, <1>3 DEF ChangeIndexAll, seqs

ChangeColumnAll(s) == FlattenSeq([i \in DOMAIN s |-> ChangeColumn(s[i])])

LEMMA ChangeColumnAllSettles ==
  ASSUME Asked, NEW s \in Seq(Ids), ToSet(s) \subseteq {o \in Shown : Kind[o] = "column"}
  PROVE  Settles(ChangeColumnAll(s), Tops(ToSet(s)))
<1> DEFINE seqs == [i \in DOMAIN s |-> ChangeColumn(s[i])]
<1>1. \A o \in ToSet(s) : \A i \in DOMAIN s : s[i] = o => Settles(seqs[i], {Top(o)})
  <2>1. ASSUME NEW o \in ToSet(s) PROVE Settles(ChangeColumn(o), {Top(o)})
    BY ChangeColumnSettles
  <2> QED
    BY <2>1
<1>2. seqs = [i \in DOMAIN s |-> seqs[i]]
  OBVIOUS
<1> HIDE DEF seqs
<1>3. Settles(FlattenSeq(seqs), Tops(ToSet(s)))
  BY <1>1, <1>2, EachTop
<1> QED
  BY Zenon, <1>3 DEF ChangeColumnAll, seqs

ChangeFKAll(s) == FlattenSeq([i \in DOMAIN s |-> (Drop(s[i]) \o AddFK(s[i]))])

LEMMA ChangeFKAllSettles ==
  ASSUME Asked, NEW s \in Seq(Ids), ToSet(s) \subseteq {o \in DOMAIN old \cap DOMAIN new : Kind[o] \in PartKinds}
  PROVE  Settles(ChangeFKAll(s), Tops(ToSet(s)))
<1> DEFINE seqs == [i \in DOMAIN s |-> (Drop(s[i]) \o AddFK(s[i]))]
<1>1. \A o \in ToSet(s) : \A i \in DOMAIN s : s[i] = o => Settles(seqs[i], {Top(o)})
  <2>1. ASSUME NEW o \in ToSet(s) PROVE Settles((Drop(o) \o AddFK(o)), {Top(o)})
    BY ChangeFKSettles
  <2> QED
    BY <2>1
<1>2. seqs = [i \in DOMAIN s |-> seqs[i]]
  OBVIOUS
<1> HIDE DEF seqs
<1>3. Settles(FlattenSeq(seqs), Tops(ToSet(s)))
  BY <1>1, <1>2, EachTop
<1> QED
  BY Zenon, <1>3 DEF ChangeFKAll, seqs

\* Parts of tables that stay, and what goes whole.
Leaving == {o \in DOMAIN old : IF Kind[o] \in PartKinds THEN Top(o) \in DOMAIN new
                                                       ELSE o \notin DOMAIN new}

DropAll(s) == FlattenSeq([i \in DOMAIN s |-> Drop(s[i])])

LEMMA DropAllSettles ==
  ASSUME Asked, NEW s \in Seq(Ids), ToSet(s) \subseteq Leaving
  PROVE  Settles(DropAll(s), Tops(ToSet(s)))
<1> DEFINE seqs == [i \in DOMAIN s |-> Drop(s[i])]
<1>1. \A o \in ToSet(s) : \A i \in DOMAIN s : s[i] = o => Settles(seqs[i], {Top(o)})
  <2>1. ASSUME NEW o \in ToSet(s) PROVE Settles(Drop(o), {Top(o)})
    BY DropPartSettles, DropGoneSettles DEF Leaving
  <2> QED
    BY <2>1
<1>2. seqs = [i \in DOMAIN s |-> seqs[i]]
  OBVIOUS
<1> HIDE DEF seqs
<1>3. Settles(FlattenSeq(seqs), Tops(ToSet(s)))
  BY <1>1, <1>2, EachTop
<1> QED
  BY Zenon, <1>3 DEF DropAll, seqs

DropFunctionAll(s) == FlattenSeq([i \in DOMAIN s |-> DropFunction(s[i])])

LEMMA DropFunctionAllSettles ==
  ASSUME Asked, NEW s \in Seq(Ids), ToSet(s) \subseteq DOMAIN old
  PROVE  Settles(DropFunctionAll(s), {})
<1> DEFINE seqs == [i \in DOMAIN s |-> DropFunction(s[i])]
<1>1. \A o \in ToSet(s) : \A i \in DOMAIN s : s[i] = o => Settles(seqs[i], {})
  <2>1. ASSUME NEW o \in ToSet(s) PROVE Settles(DropFunction(o), {})
    BY DropFunctionSettles
  <2> QED
    BY <2>1
<1>2. seqs = [i \in DOMAIN s |-> seqs[i]]
  OBVIOUS
<1> HIDE DEF seqs
<1>3. Settles(FlattenSeq(seqs), {})
  BY <1>1, <1>2, EachIdle
<1> QED
  BY Zenon, <1>3 DEF DropFunctionAll, seqs

BackfillAll(s) == FlattenSeq([i \in DOMAIN s |-> Backfill(s[i])])

LEMMA BackfillAllSettles ==
  ASSUME Asked, NEW s \in Seq(Ids), ToSet(s) \subseteq DOMAIN new
  PROVE  Settles(BackfillAll(s), {})
<1> DEFINE seqs == [i \in DOMAIN s |-> Backfill(s[i])]
<1>1. \A o \in ToSet(s) : \A i \in DOMAIN s : s[i] = o => Settles(seqs[i], {})
  <2>1. ASSUME NEW o \in ToSet(s) PROVE Settles(Backfill(o), {})
    BY BackfillSettles
  <2> QED
    BY <2>1
<1>2. seqs = [i \in DOMAIN s |-> seqs[i]]
  OBVIOUS
<1> HIDE DEF seqs
<1>3. Settles(FlattenSeq(seqs), {})
  BY <1>1, <1>2, EachIdle
<1> QED
  BY Zenon, <1>3 DEF BackfillAll, seqs

\* Of the enums that change only those that grow.
ChangeEnumAll(s) == FlattenSeq([i \in DOMAIN s |-> ChangeEnum(s[i])])

LEMMA ChangeEnumAllSettles ==
  ASSUME Asked, NEW s \in Seq(Ids), ToSet(s) \subseteq DOMAIN new
  PROVE  Settles(ChangeEnumAll(s), Tops({o \in ToSet(s) : new[o] = 2}))
<1> DEFINE F == [o \in Ids |-> IF new[o] = 2 THEN {Top(o)} ELSE {}]
           seqs == [i \in DOMAIN s |-> ChangeEnum(s[i])]
<1>1. ToSet(s) \subseteq Ids /\ \A i \in DOMAIN s : s[i] \in ToSet(s) /\ s[i] \in Ids
  BY DEF ToSet
<1>2. \A i \in DOMAIN s : Settles(seqs[i], F[s[i]])
  <2>1. ASSUME NEW i \in DOMAIN s PROVE Settles(seqs[i], F[s[i]])
    <3>1. Settles(ChangeEnum(s[i]), IF new[s[i]] = 2 THEN {Top(s[i])} ELSE {})
      BY <1>1, ChangeEnumSettles
    <3>2. F[s[i]] = (IF new[s[i]] = 2 THEN {Top(s[i])} ELSE {})
      BY <1>1
    <3> QED
      BY Zenon, <3>1, <3>2
  <2> QED
    BY <2>1
<1>3. UNION {F[o] : o \in ToSet(s)} = Tops({o \in ToSet(s) : new[o] = 2})
  BY <1>1 DEF Tops
<1>4. seqs = [i \in DOMAIN s |-> seqs[i]]
  OBVIOUS
<1> HIDE DEF F, seqs
<1>5. Settles(FlattenSeq(seqs), UNION {F[o] : o \in ToSet(s)})
  BY <1>2, <1>4, EachSettles
<1> QED
  BY Zenon, <1>3, <1>5 DEF ChangeEnumAll, seqs

RenameAll(s) == FlattenSeq([i \in DOMAIN s |-> Rename(s[i])])

LEMMA RenameAllSettles ==
  ASSUME Asked, NEW T, NEW s \in Seq(T), ToSet(s) \subseteq declared
  PROVE  Settles(RenameAll(s), Tops({p[1] : p \in ToSet(s)}))
<1> DEFINE F == [p \in declared |-> {Top(p[1])}]
           seqs == [i \in DOMAIN s |-> Rename(s[i])]
<1>1. \A i \in DOMAIN s : s[i] \in declared
  BY DEF ToSet
<1>2. \A i \in DOMAIN s : Settles(seqs[i], F[s[i]])
  <2>1. ASSUME NEW i \in DOMAIN s PROVE Settles(seqs[i], F[s[i]])
    <3>1. Settles(Rename(s[i]), {Top(s[i][1])})
      BY <1>1, RenameSettles
    <3>2. F[s[i]] = {Top(s[i][1])}
      BY <1>1
    <3> QED
      BY Zenon, <3>1, <3>2
  <2> QED
    BY <2>1
<1>3. UNION {F[p] : p \in ToSet(s)} = Tops({p[1] : p \in ToSet(s)})
  BY DEF Tops
<1>4. seqs = [i \in DOMAIN s |-> seqs[i]]
  OBVIOUS
<1> HIDE DEF F, seqs
<1>5. Settles(FlattenSeq(seqs), UNION {F[p] : p \in ToSet(s)})
  BY <1>2, <1>4, EachSettles
<1> QED
  BY Zenon, <1>3, <1>5 DEF RenameAll, seqs

-----------------------------------------------------------------------------
(***************************************************************************)
(* A table: its key is touched if there is something to do about any of    *)
(* its parts.                                                              *)
(***************************************************************************)
Hit(t, S) == IF S = {} THEN {} ELSE {t}

In(S, t, kind) == {o \in S : Kind[o] = kind /\ Owner[o] = t}
Stirred == Fresh \cup Gone \cup Shown

LEMMA HitBoth ==
  ASSUME NEW t, NEW a, NEW b, NEW A, NEW B, Settles(a, Hit(t, A)), Settles(b, Hit(t, B))
  PROVE  Settles(a \o b, Hit(t, A \cup B))
<1>1. Settles(a \o b, Hit(t, A) \cup Hit(t, B))
  BY Zenon, BothSettle
<1>2. Hit(t, A) \cup Hit(t, B) = Hit(t, A \cup B)
  BY DEF Hit
<1> QED
  BY Zenon, <1>1, <1>2

LEMMA HitTops ==
  ASSUME NEW t, NEW S, S \subseteq Ids, \A o \in S : Kind[o] \in PartKinds /\ Owner[o] = t
  PROVE  Tops(S) = Hit(t, S)
<1>1. \A o \in S : Top(o) = t
  BY PartOrNot
<1> QED
  BY <1>1 DEF Tops, Hit

\* The lists of a table's parts, as lists of ops take them.
LEMMA PartLists ==
  ASSUME Asked, NEW t \in DOMAIN new, NEW kind \in PartKinds
  PROVE  /\ Add(t, kind) \in Seq(Ids) /\ ToSet(Add(t, kind)) = In(Fresh, t, kind)
         /\ Rem(t, kind) \in Seq(Ids) /\ ToSet(Rem(t, kind)) = In(Gone, t, kind)
         /\ Alt(t, kind) \in Seq(Ids) /\ ToSet(Alt(t, kind)) = In(Shown, t, kind)
         /\ In(Fresh, t, kind) \subseteq DOMAIN new
         /\ In(Gone, t, kind) \subseteq Leaving
         /\ In(Shown, t, kind) \subseteq DOMAIN new
         /\ In(Shown, t, kind) \subseteq DOMAIN old \cap DOMAIN new
         /\ In(Shown, t, kind) \subseteq Leaving
         /\ Tops(In(Fresh, t, kind)) = Hit(t, In(Fresh, t, kind))
         /\ Tops(In(Gone, t, kind)) = Hit(t, In(Gone, t, kind))
         /\ Tops(In(Shown, t, kind)) = Hit(t, In(Shown, t, kind))
<1>1. /\ Add(t, kind) \in Seq(Ids) /\ ToSet(Add(t, kind)) = In(Fresh, t, kind)
      /\ Rem(t, kind) \in Seq(Ids) /\ ToSet(Rem(t, kind)) = In(Gone, t, kind)
      /\ Alt(t, kind) \in Seq(Ids) /\ ToSet(Alt(t, kind)) = In(Shown, t, kind)
  BY PartsComplete DEF In
<1>2. DOMAIN old \subseteq Ids /\ DOMAIN new \subseteq Ids
  BY DEF Asked, IsSchema
<1>3. \A o \in Ids : Kind[o] \in PartKinds /\ Owner[o] = t => Top(o) = t
  BY PartOrNot
<1>4. /\ In(Fresh, t, kind) \subseteq DOMAIN new
      /\ In(Gone, t, kind) \subseteq DOMAIN old
      /\ In(Shown, t, kind) \subseteq DOMAIN old \cap DOMAIN new
  BY DEF In, Fresh, Gone, Altered, Shown
<1>5. /\ \A o \in In(Fresh, t, kind) : Kind[o] \in PartKinds /\ Owner[o] = t
      /\ \A o \in In(Gone, t, kind) : Kind[o] \in PartKinds /\ Owner[o] = t
      /\ \A o \in In(Shown, t, kind) : Kind[o] \in PartKinds /\ Owner[o] = t
  BY DEF In
<1>6. In(Gone, t, kind) \subseteq Leaving
  BY <1>2, <1>3, <1>4, <1>5 DEF Leaving
<1>7. In(Shown, t, kind) \subseteq Leaving
  BY <1>2, <1>3, <1>4, <1>5 DEF Leaving
<1>8. Tops(In(Fresh, t, kind)) = Hit(t, In(Fresh, t, kind))
  BY <1>2, <1>4, <1>5, HitTops
<1>9. Tops(In(Gone, t, kind)) = Hit(t, In(Gone, t, kind))
  BY <1>2, <1>4, <1>5, HitTops
<1>10. Tops(In(Shown, t, kind)) = Hit(t, In(Shown, t, kind))
  BY <1>2, <1>4, <1>5, HitTops
<1> QED
  BY <1>1, <1>4, <1>6, <1>7, <1>8, <1>9, <1>10

LEMMA PartOps ==
  ASSUME Asked, NEW t \in DOMAIN new, NEW kind \in PartKinds
  PROVE  /\ Settles(CreateAll(Add(t, kind)), Hit(t, In(Fresh, t, kind)))
         /\ Settles(AddFKAll(Add(t, kind)), Hit(t, In(Fresh, t, kind)))
         /\ Settles(DropAll(Rem(t, kind)), Hit(t, In(Gone, t, kind)))
         /\ Settles(RecreateAll(Alt(t, kind)), Hit(t, In(Shown, t, kind)))
         /\ Settles(ChangeIndexAll(Alt(t, kind)), Hit(t, In(Shown, t, kind)))
         /\ Settles(ChangeFKAll(Alt(t, kind)), Hit(t, In(Shown, t, kind)))
         /\ kind = "column" =>
              Settles(ChangeColumnAll(Alt(t, kind)), Hit(t, In(Shown, t, kind)))
<1>1. /\ Add(t, kind) \in Seq(Ids) /\ ToSet(Add(t, kind)) = In(Fresh, t, kind)
      /\ Rem(t, kind) \in Seq(Ids) /\ ToSet(Rem(t, kind)) = In(Gone, t, kind)
      /\ Alt(t, kind) \in Seq(Ids) /\ ToSet(Alt(t, kind)) = In(Shown, t, kind)
      /\ In(Fresh, t, kind) \subseteq DOMAIN new
      /\ In(Gone, t, kind) \subseteq Leaving
      /\ In(Shown, t, kind) \subseteq DOMAIN old \cap DOMAIN new
      /\ Tops(In(Fresh, t, kind)) = Hit(t, In(Fresh, t, kind))
      /\ Tops(In(Gone, t, kind)) = Hit(t, In(Gone, t, kind))
      /\ Tops(In(Shown, t, kind)) = Hit(t, In(Shown, t, kind))
  BY PartLists
<1>2. ToSet(Add(t, kind)) \subseteq DOMAIN new
  BY <1>1
<1>3. Settles(CreateAll(Add(t, kind)), Tops(ToSet(Add(t, kind))))
  BY <1>1, <1>2, CreateAllSettles
<1>4. Settles(AddFKAll(Add(t, kind)), Tops(ToSet(Add(t, kind))))
  BY <1>1, <1>2, AddFKAllSettles
<1>5. ToSet(Rem(t, kind)) \subseteq Leaving
  BY <1>1
<1>6. Settles(DropAll(Rem(t, kind)), Tops(ToSet(Rem(t, kind))))
  BY <1>1, <1>5, DropAllSettles
<1>7. ToSet(Alt(t, kind)) \subseteq DOMAIN old \cap DOMAIN new
  BY <1>1
<1>8. \A o \in ToSet(Alt(t, kind)) : Kind[o] # "function"
  BY <1>1 DEF In, PartKinds
<1>9. /\ Settles(RecreateAll(Alt(t, kind)), Tops(ToSet(Alt(t, kind))))
      /\ Settles(ChangeIndexAll(Alt(t, kind)), Tops(ToSet(Alt(t, kind))))
  BY <1>1, <1>7, <1>8, RecreateAllSettles, ChangeIndexAllSettles
<1>10. ToSet(Alt(t, kind)) \subseteq {o \in DOMAIN old \cap DOMAIN new : Kind[o] \in PartKinds}
  BY <1>1, <1>7 DEF In
<1>11. Settles(ChangeFKAll(Alt(t, kind)), Tops(ToSet(Alt(t, kind))))
  BY <1>1, <1>10, ChangeFKAllSettles
<1>12. ASSUME kind = "column"
       PROVE  Settles(ChangeColumnAll(Alt(t, kind)), Tops(ToSet(Alt(t, kind))))
  <2>1. ToSet(Alt(t, kind)) \subseteq {o \in Shown : Kind[o] = "column"}
    BY <1>1, <1>12 DEF In
  <2> QED
    BY <1>1, <2>1, ChangeColumnAllSettles
<1> QED
  BY <1>1, <1>3, <1>4, <1>6, <1>9, <1>11, <1>12

LEMMA HitThree ==
  ASSUME NEW t, NEW a, NEW b, NEW c, NEW A, NEW B, NEW C,
         Settles(a, Hit(t, A)), Settles(b, Hit(t, B)), Settles(c, Hit(t, C))
  PROVE  Settles(a \o b \o c, Hit(t, A \cup B \cup C))
<1>1. Settles(a \o b, Hit(t, A \cup B))
  BY Zenon, HitBoth
<1> QED
  BY Zenon, <1>1, HitBoth

LEMMA StirredParts ==
  ASSUME NEW t, NEW kind
  PROVE  /\ In(Fresh, t, kind) \cup In(Gone, t, kind) \cup In(Shown, t, kind)
              = In(Stirred, t, kind)
         /\ In(Gone, t, kind) \cup In(Fresh, t, kind) \cup In(Shown, t, kind)
              = In(Stirred, t, kind)
BY DEF In, Stirred

LEMMA FKOpsSettle ==
  ASSUME Asked, NEW t \in DOMAIN new
  PROVE  Settles(FKOps(t), Hit(t, In(Stirred, t, "fk")))
<1>1. "fk" \in PartKinds
  BY DEF PartKinds
<1>2. /\ Settles(AddFKAll(Add(t, "fk")), Hit(t, In(Fresh, t, "fk")))
      /\ Settles(DropAll(Rem(t, "fk")), Hit(t, In(Gone, t, "fk")))
      /\ Settles(ChangeFKAll(Alt(t, "fk")), Hit(t, In(Shown, t, "fk")))
  BY <1>1, PartOps
<1>3. Settles(AddFKAll(Add(t, "fk")) \o DropAll(Rem(t, "fk")) \o ChangeFKAll(Alt(t, "fk")),
              Hit(t, In(Fresh, t, "fk") \cup In(Gone, t, "fk") \cup In(Shown, t, "fk")))
  BY Zenon, <1>2, HitThree
<1>4. FKOps(t) = AddFKAll(Add(t, "fk")) \o DropAll(Rem(t, "fk")) \o ChangeFKAll(Alt(t, "fk"))
  BY Zenon DEF FKOps, Each, AddFKAll, DropAll, ChangeFKAll
<1> QED
  BY Zenon, <1>3, <1>4, StirredParts

LEMMA IndexOpsSettle ==
  ASSUME Asked, NEW t \in DOMAIN new
  PROVE  Settles(IndexOps(t), Hit(t, In(Stirred, t, "index")))
<1>1. "index" \in PartKinds
  BY DEF PartKinds
<1>2. /\ Settles(CreateAll(Add(t, "index")), Hit(t, In(Fresh, t, "index")))
      /\ Settles(DropAll(Rem(t, "index")), Hit(t, In(Gone, t, "index")))
      /\ Settles(ChangeIndexAll(Alt(t, "index")), Hit(t, In(Shown, t, "index")))
  BY <1>1, PartOps
<1>3. Settles(CreateAll(Add(t, "index")) \o DropAll(Rem(t, "index"))
                \o ChangeIndexAll(Alt(t, "index")),
              Hit(t, In(Fresh, t, "index") \cup In(Gone, t, "index") \cup In(Shown, t, "index")))
  BY Zenon, <1>2, HitThree
<1>4. IndexOps(t) = CreateAll(Add(t, "index")) \o DropAll(Rem(t, "index"))
                      \o ChangeIndexAll(Alt(t, "index"))
  BY Zenon DEF IndexOps, Each, CreateAll, DropAll, ChangeIndexAll
<1> QED
  BY Zenon, <1>3, <1>4, StirredParts

LEMMA GuardOpsSettle ==
  ASSUME Asked, NEW t \in DOMAIN new, NEW kind \in PartKinds
  PROVE  Settles(GuardOps(t, kind), Hit(t, In(Stirred, t, kind)))
<1>1. /\ Settles(CreateAll(Add(t, kind)), Hit(t, In(Fresh, t, kind)))
      /\ Settles(DropAll(Rem(t, kind)), Hit(t, In(Gone, t, kind)))
      /\ Settles(RecreateAll(Alt(t, kind)), Hit(t, In(Shown, t, kind)))
  BY PartOps
<1>2. Settles(CreateAll(Add(t, kind)) \o DropAll(Rem(t, kind)) \o RecreateAll(Alt(t, kind)),
              Hit(t, In(Fresh, t, kind) \cup In(Gone, t, kind) \cup In(Shown, t, kind)))
  BY Zenon, <1>1, HitThree
<1>3. GuardOps(t, kind) = CreateAll(Add(t, kind)) \o DropAll(Rem(t, kind))
                            \o RecreateAll(Alt(t, kind))
  BY Zenon DEF GuardOps, Each, CreateAll, DropAll, RecreateAll
<1> QED
  BY Zenon, <1>2, <1>3, StirredParts

\* A list and another one, of parts of the table.
LEMMA ListAndList ==
  ASSUME NEW a \in Seq(Ids), NEW b \in Seq(Ids), NEW t, NEW kind \in PartKinds,
         NEW A, NEW B, ToSet(a) = In(A, t, kind), ToSet(b) = In(B, t, kind)
  PROVE  /\ a \o b \in Seq(Ids) /\ ToSet(a \o b) = In(A, t, kind) \cup In(B, t, kind)
         /\ Tops(ToSet(a \o b)) = Hit(t, In(A, t, kind) \cup In(B, t, kind))
<1>1. a \o b \in Seq(Ids) /\ ToSet(a \o b) = In(A, t, kind) \cup In(B, t, kind)
  BY TwoLists
<1>2. ToSet(a \o b) \subseteq Ids
  BY <1>1 DEF ToSet
<1>3. \A o \in ToSet(a \o b) : Kind[o] \in PartKinds /\ Owner[o] = t
  BY <1>1 DEF In
<1>4. Tops(ToSet(a \o b)) = Hit(t, ToSet(a \o b))
  BY <1>2, <1>3, HitTops
<1> QED
  BY Zenon, <1>1, <1>4

\* In particular what there was of one kind of part, and what goes of it.
LEMMA RemAndAlt ==
  ASSUME Asked, NEW t \in DOMAIN new, NEW kind \in PartKinds
  PROVE  /\ Rem(t, kind) \o Alt(t, kind) \in Seq(Ids)
         /\ ToSet(Rem(t, kind) \o Alt(t, kind)) = In(Gone, t, kind) \cup In(Shown, t, kind)
         /\ Tops(ToSet(Rem(t, kind) \o Alt(t, kind)))
              = Hit(t, In(Gone, t, kind) \cup In(Shown, t, kind))
<1>1. /\ Rem(t, kind) \in Seq(Ids) /\ ToSet(Rem(t, kind)) = In(Gone, t, kind)
      /\ Alt(t, kind) \in Seq(Ids) /\ ToSet(Alt(t, kind)) = In(Shown, t, kind)
  BY PartLists
<1> DEFINE a == Rem(t, kind)
           b == Alt(t, kind)
           S == In(Gone, t, kind) \cup In(Shown, t, kind)
<1>2. a \in Seq(Ids) /\ b \in Seq(Ids) /\ ToSet(a) \cup ToSet(b) = S
  BY <1>1
<1>3. \A o \in S : Kind[o] \in PartKinds /\ Owner[o] = t
  BY DEF In
<1> HIDE DEF a, b, S
<1>4. a \o b \in Seq(Ids) /\ ToSet(a \o b) = S
  BY <1>2, TwoLists
<1>5. S \subseteq Ids
  BY <1>4 DEF ToSet
<1>6. Tops(S) = Hit(t, S)
  BY <1>3, <1>5, HitTops
<1> QED
  BY Zenon, <1>4, <1>6 DEF a, b, S

LEMMA ConstraintOpsSettle ==
  ASSUME Asked, NEW t \in DOMAIN new, NEW kind \in PartKinds
  PROVE  Settles(ConstraintOps(t, kind), Hit(t, In(Stirred, t, kind)))
<1> DEFINE F == In(Fresh, t, kind)
           G == In(Gone, t, kind)
           A == In(Shown, t, kind)
           x == Add(t, kind) \o Alt(t, kind)
           y == Rem(t, kind) \o Alt(t, kind)
<1>1. /\ Add(t, kind) \in Seq(Ids) /\ ToSet(Add(t, kind)) = In(Fresh, t, kind)
      /\ Rem(t, kind) \in Seq(Ids) /\ ToSet(Rem(t, kind)) = In(Gone, t, kind)
      /\ Alt(t, kind) \in Seq(Ids) /\ ToSet(Alt(t, kind)) = In(Shown, t, kind)
      /\ F \subseteq DOMAIN new /\ G \subseteq Leaving
      /\ A \subseteq DOMAIN new /\ A \subseteq Leaving
  BY PartLists
<1>2. x \in Seq(Ids) /\ ToSet(x) = F \cup A /\ Tops(ToSet(x)) = Hit(t, F \cup A)
  BY SMTT(30), <1>1, ListAndList
<1>3. y \in Seq(Ids) /\ ToSet(y) = G \cup A /\ Tops(ToSet(y)) = Hit(t, G \cup A)
  BY Zenon, RemAndAlt
<1>4. ConstraintOps(t, kind) = CreateAll(x) \o DropAll(y)
  BY Zenon DEF ConstraintOps, Each, CreateAll, DropAll
<1>5. (F \cup A) \cup (G \cup A) = In(Stirred, t, kind)
  BY DEF In, Stirred
<1> HIDE DEF x, y, F, G, A
<1>6. ToSet(x) \subseteq DOMAIN new /\ ToSet(y) \subseteq Leaving
  BY <1>1, <1>2, <1>3
<1>7. Settles(CreateAll(x), Tops(ToSet(x)))
  BY <1>2, <1>6, CreateAllSettles
<1>8. Settles(DropAll(y), Tops(ToSet(y)))
  BY <1>3, <1>6, DropAllSettles
<1>9. Settles(CreateAll(x), Hit(t, F \cup A)) /\ Settles(DropAll(y), Hit(t, G \cup A))
  BY Zenon, <1>2, <1>3, <1>7, <1>8
<1>10. Settles(CreateAll(x) \o DropAll(y), Hit(t, (F \cup A) \cup (G \cup A)))
  BY Zenon, <1>9, HitBoth
<1> QED
  BY Zenon, <1>4, <1>5, <1>10

\* Row security is the one thing about a table itself there is an op for.
Secured(t) == IF t \in Shown /\ Aspect[t] = "rls" THEN {t} ELSE {}

LEMMA SecurityOpsSettle ==
  ASSUME Asked, NEW t \in DOMAIN new, Kind[t] = "table"
  PROVE  Settles(SecurityOps(t), Hit(t, Secured(t)))
<1>1. t \in Ids /\ Top(t) = t
  <2>1. t \in Ids /\ "table" \notin PartKinds
    BY InSchema DEF Asked, PartKinds
  <2> QED
    BY <2>1, PartOrNot
<1>2. Differs(old, new, t) <=> t \in Shown
  BY DEF Differs, Altered, Shown
<1>3. CASE t \in Shown /\ Aspect[t] = "rls"
  <2>1. Back(t) \in Seq(Ops)
    BY <1>3, BackTyped DEF Altered, Shown
  <2>2. Settles(Alter(t, Back(t)), {Top(t)})
    BY <2>1, AlterSettles
  <2>3. SecurityOps(t) = Alter(t, Back(t))
    BY Zenon, <1>2, <1>3 DEF SecurityOps
  <2>4. Hit(t, Secured(t)) = {Top(t)}
    BY <1>1, <1>3 DEF Hit, Secured
  <2> QED
    BY Zenon, <2>2, <2>3, <2>4
<1>4. CASE ~(t \in Shown /\ Aspect[t] = "rls")
  <2>1. SecurityOps(t) = << >>
    BY Zenon, <1>2, <1>4 DEF SecurityOps
  <2>2. Hit(t, Secured(t)) = {}
    BY <1>4 DEF Hit, Secured
  <2> QED
    BY Zenon, <2>1, <2>2, NothingSettles
<1> QED
  BY <1>3, <1>4

\* The columns of a table that are renamed, by their old name.
Outgoing(t) == {p[1] : p \in {q \in declared : Owner[q[1]] = t}}

LEMMA RenameOpsSettle ==
  ASSUME Asked, NEW t \in DOMAIN new
  PROVE  Settles(RenameOps(t), Hit(t, Outgoing(t)))
<1> DEFINE D == {p \in declared : Owner[p[1]] = t}
           s == Among(Alike, D)
<1>1. Alike \in Seq({p \in Ids \X Ids : /\ Kind[p[1]] = "column" /\ Kind[p[2]] = "column"
                                      /\ Owner[p[1]] = Owner[p[2]]})
  BY Zenon, Catalog
<1>2. PICK T : Alike \in Seq(T)
  BY Zenon, <1>1
<1>3. D \subseteq declared /\ D \subseteq ToSet(Alike)
  BY DeclaredPair
<1>4. RenameOps(t) = RenameAll(s)
  BY Zenon DEF RenameOps, Each, RenameAll
<1> HIDE DEF D
<1>5. s \in Seq(T) /\ ToSet(s) = ToSet(Alike) \cap D
  BY <1>2, AmongSet
<1>6. ToSet(s) = D
  BY <1>3, <1>5
<1> HIDE DEF s
<1>7. Settles(RenameAll(s), Tops({p[1] : p \in ToSet(s)}))
  BY <1>3, <1>5, <1>6, RenameAllSettles
<1>8. {p[1] : p \in ToSet(s)} = Outgoing(t)
  BY <1>6 DEF D, Outgoing
<1>9. Tops(Outgoing(t)) = Hit(t, Outgoing(t))
  <2>1. \A o \in Outgoing(t) : o \in Ids /\ Kind[o] \in PartKinds /\ Owner[o] = t
    BY DeclaredPair DEF Outgoing, PartKinds
  <2> QED
    BY <2>1, HitTops
<1> QED
  BY Zenon, <1>4, <1>7, <1>8, <1>9

(***************************************************************************)
(* The columns: what a declaration pairs is renamed, and not added or      *)
(* removed any more.                                                       *)
(***************************************************************************)
LEMMA UnpairedIs ==
  ASSUME NEW s \in Seq(Ids)
  PROVE  Unpaired(s) \in Seq(Ids) /\ ToSet(Unpaired(s)) = ToSet(s) \ Paired
<1>1. Among(s, Ids \ Paired) \in Seq(Ids)
        /\ ToSet(Among(s, Ids \ Paired)) = ToSet(s) \cap (Ids \ Paired)
  BY AmongSet
<1>2. ToSet(s) \subseteq Ids
  BY DEF ToSet
<1> QED
  BY <1>1, <1>2 DEF Unpaired

LEMMA ColumnOpsSettle ==
  ASSUME Asked, NEW t \in DOMAIN new
  PROVE  /\ Settles(ColumnOps(t),
                    Hit(t, Outgoing(t) \cup (In(Fresh, t, "column") \ Paired)
                             \cup In(Shown, t, "column")))
         /\ Settles(Each(Drop, Unpaired(Rem(t, "column"))),
                    Hit(t, In(Gone, t, "column") \ Paired))
<1> DEFINE a == Unpaired(Add(t, "column"))
           r == Unpaired(Rem(t, "column"))
           A == In(Fresh, t, "column") \ Paired
           R == In(Gone, t, "column") \ Paired
<1>1. "column" \in PartKinds
  BY DEF PartKinds
<1>2. /\ Add(t, "column") \in Seq(Ids) /\ ToSet(Add(t, "column")) = In(Fresh, t, "column")
      /\ Rem(t, "column") \in Seq(Ids) /\ ToSet(Rem(t, "column")) = In(Gone, t, "column")
      /\ In(Fresh, t, "column") \subseteq DOMAIN new
      /\ In(Gone, t, "column") \subseteq Leaving
  BY <1>1, PartLists
<1>3. /\ a \in Seq(Ids) /\ ToSet(a) = A /\ A \subseteq DOMAIN new
      /\ r \in Seq(Ids) /\ ToSet(r) = R /\ R \subseteq Leaving
  BY <1>2, UnpairedIs
<1>4. \A o \in A \cup R : Kind[o] \in PartKinds /\ Owner[o] = t
  BY <1>1 DEF In
<1>5. ColumnOps(t) = RenameOps(t) \o CreateAll(a) \o ChangeColumnAll(Alt(t, "column"))
  BY Zenon DEF ColumnOps, Each, CreateAll, ChangeColumnAll
<1>6. Each(Drop, Unpaired(Rem(t, "column"))) = DropAll(r)
  BY Zenon DEF Each, DropAll
<1> HIDE DEF a, r, A, R
<1>7. A \subseteq Ids /\ R \subseteq Ids
  BY <1>3 DEF ToSet
<1>8. Tops(A) = Hit(t, A) /\ Tops(R) = Hit(t, R)
  BY <1>4, <1>7, HitTops
<1>9. Settles(CreateAll(a), Hit(t, A))
  BY <1>3, <1>8, CreateAllSettles
<1>10. Settles(DropAll(r), Hit(t, R))
  BY <1>3, <1>8, DropAllSettles
<1>11. Settles(ChangeColumnAll(Alt(t, "column")), Hit(t, In(Shown, t, "column")))
  BY <1>1, PartOps
<1>12. Settles(RenameOps(t), Hit(t, Outgoing(t)))
  BY RenameOpsSettle
<1>13. Settles(RenameOps(t) \o CreateAll(a) \o ChangeColumnAll(Alt(t, "column")),
               Hit(t, Outgoing(t) \cup A \cup In(Shown, t, "column")))
  BY Zenon, <1>9, <1>11, <1>12, HitThree
<1>14. Settles(ColumnOps(t), Hit(t, Outgoing(t) \cup A \cup In(Shown, t, "column")))
  BY Zenon, <1>5, <1>13
<1>15. Settles(Each(Drop, Unpaired(Rem(t, "column"))), Hit(t, R))
  BY Zenon, <1>6, <1>10
<1> QED
  BY Zenon, <1>14, <1>15 DEF A, R

\* Both ends of a declared pair are of the same table: one of its columns is
\* renamed, added, changed or dropped when one comes, goes or changes.
LEMMA ColumnsStirred ==
  ASSUME Asked, NEW t
  PROVE  /\ Outgoing(t) \subseteq In(Stirred, t, "column")
         /\ In(Stirred, t, "column") # {} =>
              Outgoing(t) \cup (In(Fresh, t, "column") \ Paired)
                \cup In(Shown, t, "column") \cup (In(Gone, t, "column") \ Paired) # {}
<1>1. \A p \in declared : /\ p[1] \in Gone /\ Kind[p[1]] = "column"
                          /\ Owner[p[1]] = Owner[p[2]] /\ ToSet(p) = {p[1], p[2]}
  <2>1. ASSUME NEW p \in declared
        PROVE  /\ p[1] \in Gone /\ Kind[p[1]] = "column"
               /\ Owner[p[1]] = Owner[p[2]] /\ ToSet(p) = {p[1], p[2]}
    <3>1. /\ p \in Ids \X Ids /\ p[1] \in DOMAIN old \ DOMAIN new
          /\ Kind[p[1]] = "column" /\ Owner[p[1]] = Owner[p[2]]
      BY DeclaredPair
    <3>2. ToSet(p) = {p[1], p[2]}
      BY <3>1 DEF ToSet
    <3> QED
      BY <3>1, <3>2 DEF Gone
  <2> QED
    BY <2>1
<1>2. Outgoing(t) \subseteq In(Stirred, t, "column")
  BY <1>1 DEF Outgoing, In, Stirred
<1>3. ASSUME NEW o \in In(Stirred, t, "column") \cap Paired
      PROVE  Outgoing(t) # {}
  <2>1. PICK p \in declared : o \in ToSet(p)
    BY <1>3 DEF Paired
  <2>2. Owner[o] = t
    BY <1>3 DEF In
  <2>3. Owner[p[1]] = t
    BY <1>1, <2>1, <2>2
  <2> QED
    BY <2>3 DEF Outgoing
<1>4. ASSUME NEW o \in In(Stirred, t, "column") \ Paired
      PROVE  o \in (In(Fresh, t, "column") \ Paired)
                \cup In(Shown, t, "column") \cup (In(Gone, t, "column") \ Paired)
  BY <1>4 DEF In, Stirred
<1> QED
  BY <1>2, <1>3, <1>4

(***************************************************************************)
(* Tables.                                                                 *)
(***************************************************************************)
\* What there are ops for in a table of both schemas: its parts and its row
\* security.
Reworks(t) == Secured(t) \cup {o \in Stirred : Kind[o] \in PartKinds /\ Owner[o] = t}

LEMMA ChangeTableSettles ==
  ASSUME Asked, NEW t \in DOMAIN new, Kind[t] = "table"
  PROVE  Settles(ChangeTable(t), Hit(t, Reworks(t)))
<1> DEFINE C == Outgoing(t) \cup (In(Fresh, t, "column") \ Paired)
                  \cup In(Shown, t, "column")
           D == In(Gone, t, "column") \ Paired
           S(kind) == In(Stirred, t, kind)
           s1 == ColumnOps(t) \o FKOps(t) \o IndexOps(t)
           s2 == s1 \o ConstraintOps(t, "unique") \o ConstraintOps(t, "check")
           s3 == s2 \o Each(Drop, Unpaired(Rem(t, "column"))) \o GuardOps(t, "trigger")
           S1 == C \cup S("fk") \cup S("index")
           S2 == S1 \cup S("unique") \cup S("check")
           S3 == S2 \cup D \cup S("trigger")
           S4 == S3 \cup Secured(t) \cup S("policy")
<1>1. {"unique", "check", "trigger", "policy"} \subseteq PartKinds
  BY DEF PartKinds
<1>2. Settles(ColumnOps(t), Hit(t, C))
        /\ Settles(Each(Drop, Unpaired(Rem(t, "column"))), Hit(t, D))
  BY ColumnOpsSettle
<1>3. Settles(FKOps(t), Hit(t, S("fk"))) /\ Settles(IndexOps(t), Hit(t, S("index")))
  BY FKOpsSettle, IndexOpsSettle
<1>4. /\ Settles(ConstraintOps(t, "unique"), Hit(t, S("unique")))
      /\ Settles(ConstraintOps(t, "check"), Hit(t, S("check")))
  BY <1>1, ConstraintOpsSettle
<1>5. /\ Settles(GuardOps(t, "trigger"), Hit(t, S("trigger")))
      /\ Settles(GuardOps(t, "policy"), Hit(t, S("policy")))
  BY <1>1, GuardOpsSettle
<1>6. Settles(SecurityOps(t), Hit(t, Secured(t)))
  BY SecurityOpsSettle
<1> HIDE DEF C, D, S
<1>7. Settles(s1, Hit(t, S1))
  BY Zenon, <1>2, <1>3, HitThree
<1> HIDE DEF s1, S1
<1>8. Settles(s2, Hit(t, S2))
  BY Zenon, <1>7, <1>4, HitThree
<1> HIDE DEF s2, S2
<1>9. Settles(s3, Hit(t, S3))
  BY Zenon, <1>8, <1>2, <1>5, HitThree
<1> HIDE DEF s3, S3
<1>10. Settles(s3 \o SecurityOps(t) \o GuardOps(t, "policy"), Hit(t, S4))
  BY Zenon, <1>9, <1>6, <1>5, HitThree
<1>11. ChangeTable(t) = s3 \o SecurityOps(t) \o GuardOps(t, "policy")
  BY Zenon DEF ChangeTable, s3, s2, s1
<1>12. S4 = {} <=> Reworks(t) = {}
  <2>1. S4 \subseteq Reworks(t)
    <3>1. C \cup D \subseteq S("column")
      BY ColumnsStirred DEF C, D, S, In, Stirred
    <3>2. S("column") \cup S("fk") \cup S("index") \cup S("unique") \cup S("check")
            \cup S("trigger") \cup S("policy") \subseteq Reworks(t)
      BY DEF S, In, Reworks, PartKinds
    <3> QED
      BY <3>1, <3>2 DEF S1, S2, S3, Reworks
  <2>2. ASSUME S4 = {} PROVE Reworks(t) = {}
    <3>1. C \cup D = {} /\ Secured(t) = {}
      BY <2>2 DEF S1, S2, S3
    <3>2. S("column") = {}
      BY <3>1, ColumnsStirred DEF C, D, S
    <3>3. \A kind \in PartKinds : S(kind) = {}
      BY <3>2, <2>2 DEF S1, S2, S3, PartKinds
    <3> QED
      BY <3>1, <3>3 DEF S, In, Reworks
  <2> QED
    BY <2>1, <2>2
<1>13. Hit(t, S4) = Hit(t, Reworks(t))
  BY Zenon, <1>12 DEF Hit
<1> QED
  BY Zenon, <1>10, <1>11, <1>13

\* A list of ops on the parts of a table that may be empty.
LEMMA AlsoSettles ==
  ASSUME NEW t, NEW a, NEW b, NEW S, Settles(a, {t}), Settles(b, Hit(t, S))
  PROVE  Settles(a \o b, {t})
<1>1. Settles(a \o b, {t} \cup Hit(t, S))
  BY Zenon, BothSettle
<1>2. {t} \cup Hit(t, S) = {t}
  BY DEF Hit
<1> QED
  BY Zenon, <1>1, <1>2

\* A new table comes with all its parts.
LEMMA NewTableSettles ==
  ASSUME Asked, NEW t \in DOMAIN new, Kind[t] = "table"
  PROVE  Settles(NewTable(t), {t})
<1> DEFINE secured == Aspect[t] = "rls" /\ new[t] = 2
           made == << Step("create", t, IF secured THEN 1 ELSE new[t],
                           << Op("drop", t, new[t]) >>) >>
           guard == IF secured THEN Alter(t, << Op("alter", t, 1) >>) ELSE << >>
           P(kind) == CreateAll(Add(t, kind))
           S(kind) == In(Fresh, t, kind)
           s1 == made \o AddFKAll(Add(t, "fk"))
           s2 == s1 \o P("index")
           s3 == s2 \o P("unique")
           s4 == s3 \o P("check")
           s5 == s4 \o P("trigger")
           s6 == s5 \o guard
           s7 == s6 \o P("policy")
<1>1. t \in Ids /\ Top(t) = t /\ new[t] \in Ids \cup Versions /\ 1 \in Ids \cup Versions
  <2>1. t \in Ids /\ "table" \notin PartKinds /\ new[t] \in Ids \cup Versions
    BY InSchema DEF Asked, PartKinds
  <2> QED
    BY <2>1, PartOrNot DEF Versions
<1>2. {"create", "drop", "alter"} \subseteq Dos
  BY DEF Dos
<1>3. << Op("drop", t, new[t]) >> \in Seq(Ops) /\ << Op("alter", t, 1) >> \in Seq(Ops)
  BY <1>1, <1>2, OpsTyped
<1>4. Settles(made, {t})
  <2>1. (IF secured THEN 1 ELSE new[t]) \in Ids \cup Versions
    BY <1>1
  <2>2. "create" \in Dos \ {"drop_guard", "backfill"} /\ "create" # "drop"
    BY <1>2
  <2> QED
    BY <1>1, <1>3, <2>1, <2>2, StepSettles
<1>5. Settles(guard, Hit(t, IF secured THEN {t} ELSE {}))
  <2>1. CASE secured
    <3>1. Settles(Alter(t, << Op("alter", t, 1) >>), {Top(t)})
      BY <1>3, AlterSettles
    <3>2. guard = Alter(t, << Op("alter", t, 1) >>)
      BY Zenon, <2>1
    <3>3. Hit(t, IF secured THEN {t} ELSE {}) = {Top(t)}
      BY <1>1, <2>1 DEF Hit
    <3> QED
      BY Zenon, <3>1, <3>2, <3>3
  <2>2. CASE ~secured
    <3>1. guard = << >>
      BY Zenon, <2>2
    <3>2. Hit(t, IF secured THEN {t} ELSE {}) = {}
      BY <2>2 DEF Hit
    <3> QED
      BY Zenon, <3>1, <3>2, NothingSettles
  <2> QED
    BY Zenon, <2>1, <2>2
<1>6. {"fk", "index", "unique", "check", "trigger", "policy"} \subseteq PartKinds
  BY DEF PartKinds
<1>7. Settles(AddFKAll(Add(t, "fk")), Hit(t, S("fk")))
  BY <1>6, PartOps
<1>8. /\ Settles(P("index"), Hit(t, S("index")))
      /\ Settles(P("unique"), Hit(t, S("unique")))
      /\ Settles(P("check"), Hit(t, S("check")))
      /\ Settles(P("trigger"), Hit(t, S("trigger")))
      /\ Settles(P("policy"), Hit(t, S("policy")))
  BY <1>6, PartOps
<1>9. NewTable(t) = s7
  BY Zenon DEF NewTable, Each, CreateAll, AddFKAll
<1> HIDE DEF made, guard, P, S
<1>10. Settles(s1, {t})
  BY Zenon, <1>4, <1>7, AlsoSettles
<1> HIDE DEF s1
<1>11. Settles(s2, {t})
  BY Zenon, <1>8, <1>10, AlsoSettles
<1> HIDE DEF s2
<1>12. Settles(s3, {t})
  BY Zenon, <1>8, <1>11, AlsoSettles
<1> HIDE DEF s3
<1>13. Settles(s4, {t})
  BY Zenon, <1>8, <1>12, AlsoSettles
<1> HIDE DEF s4
<1>14. Settles(s5, {t})
  BY Zenon, <1>8, <1>13, AlsoSettles
<1> HIDE DEF s5
<1>15. Settles(s6, {t})
  BY Zenon, <1>5, <1>14, AlsoSettles
<1> HIDE DEF s6
<1>16. Settles(s7, {t})
  BY Zenon, <1>8, <1>15, AlsoSettles
<1> QED
  BY Zenon, <1>9, <1>16

-----------------------------------------------------------------------------
(***************************************************************************)
(* The edge: the objects that are no parts, kind by kind.                  *)
(***************************************************************************)
NewOf(kind) == {o \in Fresh : Kind[o] = kind}
GoneOf(kind) == {o \in Gone : Kind[o] = kind}
OtherOf(kind) == {o \in Shown : Kind[o] = kind}

LEMMA OwnTop ==
  ASSUME Asked, NEW kind, kind \notin PartKinds
  PROVE  /\ Tops(NewOf(kind)) = NewOf(kind)
         /\ Tops(GoneOf(kind)) = GoneOf(kind)
         /\ Tops(OtherOf(kind)) = OtherOf(kind)
         /\ Tops({o \in OtherOf(kind) : new[o] = 2}) = {o \in OtherOf(kind) : new[o] = 2}
<1>1. ASSUME NEW S, S \subseteq DOMAIN old \cup DOMAIN new, \A o \in S : Kind[o] = kind
      PROVE  Tops(S) = S
  <2>1. \A o \in S : Top(o) = o
    BY <1>1, InSchema, PartOrNot DEF Asked
  <2> QED
    BY <2>1 DEF Tops
<1>2. /\ NewOf(kind) \subseteq DOMAIN new /\ GoneOf(kind) \subseteq DOMAIN old
      /\ OtherOf(kind) \subseteq DOMAIN new
      /\ \A o \in NewOf(kind) \cup GoneOf(kind) \cup OtherOf(kind) : Kind[o] = kind
  BY DEF NewOf, GoneOf, OtherOf, Fresh, Gone, Altered, Shown
<1> DEFINE B == {o \in OtherOf(kind) : new[o] = 2}
<1>3. B \subseteq OtherOf(kind)
  OBVIOUS
<1> HIDE DEF B
<1> QED
  BY <1>1, <1>2, <1>3 DEF B

\* What there are ops for, of one kind that is no table and no part.
LEMMA KindOps ==
  ASSUME Asked, NEW kind, kind \notin PartKinds
  PROVE  /\ Settles(All(Create, Added, kind), NewOf(kind))
         /\ Settles(All(Drop, Removed, kind), GoneOf(kind))
         /\ kind # "function" =>
              /\ Settles(All(Recreate, Changed, kind), OtherOf(kind))
              /\ Settles(All(ChangeDomain, Changed, kind), OtherOf(kind))
         /\ Settles(All(ChangeFunction, Changed, kind), OtherOf(kind))
         /\ Settles(All(LAMBDA o : Alter(o, Back(o)), Changed, kind), OtherOf(kind))
         /\ Settles(All(LAMBDA o : Alter(o, << >>), Changed, kind), OtherOf(kind))
         /\ Settles(All(ChangeEnum, Changed, kind), {o \in OtherOf(kind) : new[o] = 2})
         /\ Settles(All(DropFunction, Removed, kind), {})
<1> DEFINE a == Added(old, new, kind)
           r == Removed(old, new, kind)
           c == Changed(old, new, kind)
           E == {o \in OtherOf(kind) : new[o] = 2}
<1>1. /\ All(Create, Added, kind) = CreateAll(a)
      /\ All(Drop, Removed, kind) = DropAll(r)
      /\ All(Recreate, Changed, kind) = RecreateAll(c)
      /\ All(ChangeDomain, Changed, kind) = ChangeDomainAll(c)
      /\ All(ChangeFunction, Changed, kind) = ChangeFunctionAll(c)
      /\ All(LAMBDA o : Alter(o, Back(o)), Changed, kind) = AlterAll(c)
      /\ All(LAMBDA o : Alter(o, << >>), Changed, kind) = ReviseAll(c)
      /\ All(ChangeEnum, Changed, kind) = ChangeEnumAll(c)
      /\ All(DropFunction, Removed, kind) = DropFunctionAll(r)
  BY Zenon DEF All, Each, CreateAll, DropAll, RecreateAll, ChangeDomainAll,
               ChangeFunctionAll, AlterAll, ReviseAll, ChangeEnumAll, DropFunctionAll
<1>2. /\ a \in Seq(Ids) /\ ToSet(a) = NewOf(kind)
      /\ r \in Seq(Ids) /\ ToSet(r) = GoneOf(kind)
      /\ c \in Seq(Ids) /\ ToSet(c) = OtherOf(kind)
  BY DiffComplete DEF NewOf, GoneOf, OtherOf
<1>3. /\ NewOf(kind) \subseteq DOMAIN new
      /\ OtherOf(kind) \subseteq DOMAIN old \cap DOMAIN new
      /\ GoneOf(kind) \subseteq Leaving /\ GoneOf(kind) \subseteq DOMAIN old
  BY DEF NewOf, GoneOf, OtherOf, Fresh, Gone, Altered, Shown, Leaving
<1>4. {o \in ToSet(c) : new[o] = 2} = E
  BY <1>2
<1>5. /\ Tops(NewOf(kind)) = NewOf(kind) /\ Tops(GoneOf(kind)) = GoneOf(kind)
      /\ Tops(OtherOf(kind)) = OtherOf(kind) /\ Tops(E) = E
  BY OwnTop
<1> HIDE DEF a, r, c, E
<1>6. Settles(CreateAll(a), NewOf(kind))
  BY <1>2, <1>3, <1>5, CreateAllSettles
<1>7. Settles(DropAll(r), GoneOf(kind))
  BY <1>2, <1>3, <1>5, DropAllSettles
<1>8. kind # "function" => \A o \in ToSet(c) : Kind[o] # "function"
  BY <1>2 DEF OtherOf
<1>9. kind # "function" => /\ Settles(RecreateAll(c), OtherOf(kind))
                           /\ Settles(ChangeDomainAll(c), OtherOf(kind))
  BY <1>2, <1>3, <1>5, <1>8, RecreateAllSettles, ChangeDomainAllSettles
<1>10. Settles(ChangeFunctionAll(c), OtherOf(kind))
  BY <1>2, <1>3, <1>5, ChangeFunctionAllSettles
<1>11. Settles(AlterAll(c), OtherOf(kind))
  BY <1>2, <1>3, <1>5, AlterAllSettles
<1>12. Settles(ReviseAll(c), OtherOf(kind))
  BY <1>2, <1>3, <1>5, ReviseAllSettles
<1>13. Settles(ChangeEnumAll(c), E)
  <2>1. ToSet(c) \subseteq DOMAIN new
    BY <1>2, <1>3
  <2>2. Settles(ChangeEnumAll(c), Tops({o \in ToSet(c) : new[o] = 2}))
    BY <1>2, <2>1, ChangeEnumAllSettles
  <2> QED
    BY Zenon, <1>4, <1>5, <2>2
<1>14. Settles(DropFunctionAll(r), {})
  BY <1>2, <1>3, DropFunctionAllSettles
<1> QED
  BY Zenon, <1>1, <1>6, <1>7, <1>9, <1>10, <1>11, <1>12, <1>13, <1>14 DEF E

LEMMA ThreeSettle ==
  ASSUME NEW a, NEW b, NEW c, NEW A, NEW B, NEW C,
         Settles(a, A), Settles(b, B), Settles(c, C)
  PROVE  Settles(a \o b \o c, A \cup B \cup C)
<1>1. Settles(a \o b, A \cup B)
  BY Zenon, BothSettle
<1> QED
  BY Zenon, <1>1, BothSettle

LEMMA TypeOpsSettle ==
  ASSUME Asked
  PROVE  Settles(TypeOps, NewOf("enum") \cup {o \in OtherOf("enum") : new[o] = 2}
                            \cup NewOf("composite") \cup OtherOf("composite")
                            \cup NewOf("domain") \cup OtherOf("domain"))
<1> DEFINE s1 == All(Create, Added, "enum") \o All(ChangeEnum, Changed, "enum")
                   \o All(Create, Added, "composite")
           s2 == s1 \o All(Recreate, Changed, "composite") \o All(Create, Added, "domain")
           E == {o \in OtherOf("enum") : new[o] = 2}
           S1 == NewOf("enum") \cup E \cup NewOf("composite")
           S2 == S1 \cup OtherOf("composite") \cup NewOf("domain")
<1>1. {"enum", "composite", "domain"} \cap PartKinds = {}
  BY DEF PartKinds
<1>2. /\ Settles(All(Create, Added, "enum"), NewOf("enum"))
      /\ Settles(All(ChangeEnum, Changed, "enum"), E)
      /\ Settles(All(Create, Added, "composite"), NewOf("composite"))
      /\ Settles(All(Recreate, Changed, "composite"), OtherOf("composite"))
      /\ Settles(All(Create, Added, "domain"), NewOf("domain"))
      /\ Settles(All(ChangeDomain, Changed, "domain"), OtherOf("domain"))
  BY <1>1, KindOps
<1> HIDE DEF E
<1>3. Settles(s1, S1)
  BY Zenon, <1>2, ThreeSettle
<1> HIDE DEF s1, S1
<1>4. Settles(s2, S2)
  BY Zenon, <1>2, <1>3, ThreeSettle
<1> HIDE DEF s2, S2
<1>5. Settles(s2 \o All(ChangeDomain, Changed, "domain"), S2 \cup OtherOf("domain"))
  BY Zenon, <1>2, <1>4, BothSettle
<1> QED
  BY Zenon, <1>5 DEF TypeOps, s2, s1, S2, S1, E

\* All new tables, and all tables that change.
NewTableAll(s) == FlattenSeq([i \in DOMAIN s |-> NewTable(s[i])])

LEMMA NewTableAllSettles ==
  ASSUME Asked, NEW s \in Seq(Ids), ToSet(s) \subseteq NewOf("table")
  PROVE  Settles(NewTableAll(s), Tops(ToSet(s)))
<1> DEFINE seqs == [i \in DOMAIN s |-> NewTable(s[i])]
<1>1. \A o \in ToSet(s) : \A i \in DOMAIN s : s[i] = o => Settles(seqs[i], {Top(o)})
  <2>1. ASSUME NEW o \in ToSet(s) PROVE Settles(NewTable(o), {Top(o)})
    <3>1. o \in DOMAIN new /\ Kind[o] = "table" /\ "table" \notin PartKinds
      BY DEF NewOf, Fresh, PartKinds
    <3>2. Top(o) = o
      BY <3>1, InSchema, PartOrNot DEF Asked
    <3>3. Settles(NewTable(o), {o})
      BY <3>1, NewTableSettles
    <3> QED
      BY Zenon, <3>2, <3>3
  <2> QED
    BY <2>1
<1>2. seqs = [i \in DOMAIN s |-> seqs[i]]
  OBVIOUS
<1> HIDE DEF seqs
<1>3. Settles(FlattenSeq(seqs), Tops(ToSet(s)))
  BY <1>1, <1>2, EachTop
<1> QED
  BY Zenon, <1>3 DEF NewTableAll, seqs

ChangeTableAll(s) == FlattenSeq([i \in DOMAIN s |-> ChangeTable(s[i])])

LEMMA ChangeTableAllSettles ==
  ASSUME Asked, NEW s \in Seq(Ids), ToSet(s) \subseteq Of(new, "table")
  PROVE  Settles(ChangeTableAll(s), {t \in ToSet(s) : Reworks(t) # {}})
<1> DEFINE F == [t \in Ids |-> Hit(t, Reworks(t))]
           seqs == [i \in DOMAIN s |-> ChangeTable(s[i])]
<1>1. ToSet(s) \subseteq Ids /\ \A i \in DOMAIN s : s[i] \in ToSet(s) /\ s[i] \in Ids
  BY DEF ToSet
<1>2. \A i \in DOMAIN s : Settles(seqs[i], F[s[i]])
  <2>1. ASSUME NEW i \in DOMAIN s PROVE Settles(seqs[i], F[s[i]])
    <3>1. s[i] \in DOMAIN new /\ Kind[s[i]] = "table"
      BY <1>1 DEF Of
    <3>2. Settles(ChangeTable(s[i]), Hit(s[i], Reworks(s[i])))
      BY <3>1, ChangeTableSettles
    <3>3. F[s[i]] = Hit(s[i], Reworks(s[i]))
      BY <1>1
    <3> QED
      BY Zenon, <3>2, <3>3
  <2> QED
    BY <2>1
<1>3. UNION {F[t] : t \in ToSet(s)} = {t \in ToSet(s) : Reworks(t) # {}}
  BY <1>1 DEF Hit
<1>4. seqs = [i \in DOMAIN s |-> seqs[i]]
  OBVIOUS
<1> HIDE DEF F, seqs
<1>5. Settles(FlattenSeq(seqs), UNION {F[t] : t \in ToSet(s)})
  BY <1>2, <1>4, EachSettles
<1> QED
  BY Zenon, <1>3, <1>5 DEF ChangeTableAll, seqs

\* The tables of both schemas there is an op for.
Reworked == {t \in DOMAIN old \cap DOMAIN new : Kind[t] = "table" /\ Reworks(t) # {}}

\* The differ reports every one of them, and only tables of both schemas.
LEMMA ChangedTablesComplete ==
  ASSUME Asked
  PROVE  /\ ChangedTables(old, new) \in Seq(Ids)
         /\ ToSet(ChangedTables(old, new)) \subseteq DOMAIN old \cap Of(new, "table")
         /\ {t \in ToSet(ChangedTables(old, new)) : Reworks(t) # {}} = Reworked
<1> DEFINE C == {t \in DOMAIN old : \/ Differs(old, new, t)
                                    \/ Parts(old, t) # Parts(new, t)
                                    \/ \E o \in Parts(new, t) : Differs(old, new, o)}
<1>1. Of(new, "table") \subseteq Ids /\ DOMAIN new \subseteq Ids
  BY DEF Asked, IsSchema, Of
<1>2. Tables(new) \in Seq(Ids) /\ ToSet(Tables(new)) = Of(new, "table")
  BY <1>1, TopoSortComplete DEF Tables
<1>3. ChangedTables(old, new) = Among(Tables(new), C)
  BY DEF ChangedTables
<1>4. C \subseteq DOMAIN old
  OBVIOUS
<1>5. ASSUME NEW t \in DOMAIN old \cap DOMAIN new, Reworks(t) # {}
      PROVE  t \in C
  <2>1. CASE Secured(t) # {}
    BY <2>1 DEF Secured, Altered, Shown, Differs
  <2>2. CASE Secured(t) = {}
    <3>1. PICK o \in Stirred : Owner[o] = t
      BY <1>5, <2>2 DEF Reworks
    <3>2. CASE o \in Shown
      <4>1. o \in Parts(new, t) /\ Differs(old, new, o)
        BY <3>1, <3>2 DEF Altered, Shown, Parts, Differs
      <4> QED
        BY <4>1
    <3>3. CASE o \in Fresh \cup Gone
      <4>1. Parts(old, t) # Parts(new, t)
        BY <3>1, <3>3 DEF Fresh, Gone, Parts
      <4> QED
        BY <4>1
    <3> QED
      BY <3>2, <3>3 DEF Stirred
  <2> QED
    BY <2>1, <2>2
<1> HIDE DEF C
<1>6. /\ ChangedTables(old, new) \in Seq(Ids)
      /\ ToSet(ChangedTables(old, new)) = Of(new, "table") \cap C
  BY <1>2, <1>3, AmongSet
<1> QED
  BY <1>4, <1>5, <1>6 DEF Reworked, Of

LEMMA CreateOpsSettle ==
  ASSUME Asked
  PROVE  Settles(CreateOps, NewOf("table") \cup NewOf("view") \cup NewOf("matview")
                              \cup NewOf("sequence") \cup NewOf("function"))
<1> DEFINE a == Added(old, new, "table")
           s1 == NewTableAll(a) \o All(Create, Added, "view") \o All(Create, Added, "matview")
           S1 == NewOf("table") \cup NewOf("view") \cup NewOf("matview")
<1>1. {"table", "view", "matview", "sequence", "function"} \cap PartKinds = {}
  BY DEF PartKinds
<1>2. a \in Seq(Ids) /\ ToSet(a) = NewOf("table")
  BY DiffComplete DEF NewOf
<1>3. Tops(NewOf("table")) = NewOf("table")
  BY <1>1, OwnTop
<1>4. All(NewTable, Added, "table") = NewTableAll(a)
  BY Zenon DEF All, Each, NewTableAll
<1> HIDE DEF a
<1>5. Settles(NewTableAll(a), NewOf("table"))
  BY <1>2, <1>3, NewTableAllSettles
<1>6. /\ Settles(All(Create, Added, "view"), NewOf("view"))
      /\ Settles(All(Create, Added, "matview"), NewOf("matview"))
      /\ Settles(All(Create, Added, "sequence"), NewOf("sequence"))
      /\ Settles(All(Create, Added, "function"), NewOf("function"))
  BY <1>1, KindOps
<1>7. Settles(s1, S1)
  BY Zenon, <1>5, <1>6, ThreeSettle
<1> HIDE DEF s1, S1
<1>8. Settles(s1 \o All(Create, Added, "sequence") \o All(Create, Added, "function"),
              S1 \cup NewOf("sequence") \cup NewOf("function"))
  BY Zenon, <1>6, <1>7, ThreeSettle
<1> QED
  BY Zenon, <1>4, <1>8 DEF CreateOps, s1, S1

LEMMA ChangeOpsSettle ==
  ASSUME Asked
  PROVE  Settles(ChangeOps, Reworked \cup OtherOf("view") \cup OtherOf("matview")
                              \cup OtherOf("sequence") \cup OtherOf("function"))
<1> DEFINE c == ChangedTables(old, new)
           views == All(LAMBDA o : Alter(o, Back(o)), Changed, "view")
           sequences == All(LAMBDA o : Alter(o, << >>), Changed, "sequence")
           s1 == ChangeTableAll(c) \o views \o All(Recreate, Changed, "matview")
           S1 == Reworked \cup OtherOf("view") \cup OtherOf("matview")
<1>1. {"view", "matview", "sequence", "function"} \cap PartKinds = {}
  BY DEF PartKinds
<1>2. /\ c \in Seq(Ids) /\ ToSet(c) \subseteq Of(new, "table")
      /\ {t \in ToSet(c) : Reworks(t) # {}} = Reworked
  BY ChangedTablesComplete
<1>3. Each(ChangeTable, ChangedTables(old, new)) = ChangeTableAll(c)
  BY Zenon DEF Each, ChangeTableAll
<1> HIDE DEF c
<1>4. Settles(ChangeTableAll(c), Reworked)
  <2>1. Settles(ChangeTableAll(c), {t \in ToSet(c) : Reworks(t) # {}})
    BY <1>2, ChangeTableAllSettles
  <2> QED
    BY Zenon, <1>2, <2>1
<1>5. /\ Settles(views, OtherOf("view"))
      /\ Settles(All(Recreate, Changed, "matview"), OtherOf("matview"))
      /\ Settles(sequences, OtherOf("sequence"))
      /\ Settles(All(ChangeFunction, Changed, "function"), OtherOf("function"))
  BY <1>1, KindOps
<1>6. ChangeOps = s1 \o sequences \o All(ChangeFunction, Changed, "function")
  BY Zenon, <1>3 DEF ChangeOps
<1> HIDE DEF views, sequences
<1>7. Settles(s1, S1)
  BY Zenon, <1>4, <1>5, ThreeSettle
<1> HIDE DEF s1, S1
<1>8. Settles(s1 \o sequences \o All(ChangeFunction, Changed, "function"),
              S1 \cup OtherOf("sequence") \cup OtherOf("function"))
  BY Zenon, <1>5, <1>7, ThreeSettle
<1> QED
  BY Zenon, <1>6, <1>8 DEF S1

LEMMA DropOpsSettle ==
  ASSUME Asked
  PROVE  Settles(DropOps, GoneOf("table") \cup GoneOf("view") \cup GoneOf("matview")
                            \cup GoneOf("sequence") \cup GoneOf("enum")
                            \cup GoneOf("composite") \cup GoneOf("domain"))
<1> DEFINE G(kind) == All(Drop, Removed, kind)
           s1 == G("table") \o G("view") \o G("matview")
           s2 == s1 \o G("sequence") \o G("enum")
           s3 == s2 \o G("composite") \o G("domain")
           S1 == GoneOf("table") \cup GoneOf("view") \cup GoneOf("matview")
           S2 == S1 \cup GoneOf("sequence") \cup GoneOf("enum")
           S3 == S2 \cup GoneOf("composite") \cup GoneOf("domain")
<1>1. {"table", "view", "matview", "sequence", "enum", "composite", "domain", "function"}
        \cap PartKinds = {}
  BY DEF PartKinds
<1>2. /\ Settles(G("table"), GoneOf("table"))
      /\ Settles(G("view"), GoneOf("view"))
      /\ Settles(G("matview"), GoneOf("matview"))
      /\ Settles(G("sequence"), GoneOf("sequence"))
      /\ Settles(G("enum"), GoneOf("enum"))
      /\ Settles(G("composite"), GoneOf("composite"))
      /\ Settles(G("domain"), GoneOf("domain"))
      /\ Settles(All(DropFunction, Removed, "function"), {})
  BY <1>1, KindOps
<1>3. DropOps = s3 \o All(DropFunction, Removed, "function")
  BY Zenon DEF DropOps
<1> HIDE DEF G
<1>4. Settles(s1, S1)
  BY Zenon, <1>2, ThreeSettle
<1> HIDE DEF s1, S1
<1>5. Settles(s2, S2)
  BY Zenon, <1>2, <1>4, ThreeSettle
<1> HIDE DEF s2, S2
<1>6. Settles(s3, S3)
  BY Zenon, <1>2, <1>5, ThreeSettle
<1> HIDE DEF s3, S3
<1>7. Settles(s3 \o All(DropFunction, Removed, "function"), S3 \cup {})
  BY Zenon, <1>2, <1>6, BothSettle
<1>8. S3 \cup {} = S3
  OBVIOUS
<1> QED
  BY Zenon, <1>3, <1>7, <1>8 DEF S3, S2, S1

LEMMA DMLOpsSettle ==
  ASSUME Asked
  PROVE  Settles(DMLOps, {})
<1> DEFINE D == {c \in DOMAIN new : Becoming(c)}
           s == Among(Changed(old, new, "column"), D)
<1>1. /\ Changed(old, new, "column") \in Seq(Ids)
      /\ ToSet(Changed(old, new, "column")) = {o \in Shown : Kind[o] = "column"}
  BY DiffComplete
<1>2. D \subseteq DOMAIN new
  OBVIOUS
<1>3. DMLOps = BackfillAll(s)
  BY Zenon DEF DMLOps, Each, BackfillAll
<1> HIDE DEF D
<1>4. s \in Seq(Ids) /\ ToSet(s) \subseteq DOMAIN new
  BY <1>1, <1>2, AmongSet
<1> HIDE DEF s
<1>5. Settles(BackfillAll(s), {})
  BY <1>4, BackfillAllSettles
<1> QED
  BY Zenon, <1>3, <1>5

(***************************************************************************)
(* The whole edge: the keys it leaves as they are in the desired schema.   *)
(***************************************************************************)
Settled == {o \in Fresh : Kind[o] \notin PartKinds}
             \cup {o \in Gone : Kind[o] \notin PartKinds /\ Kind[o] # "function"}
             \cup {o \in Shown : /\ Kind[o] \notin PartKinds /\ Kind[o] # "table"
                                 /\ Kind[o] = "enum" => new[o] = 2}
             \cup Reworked

\* Kind by kind, what EdgeOps puts together.
TypesOf == NewOf("enum") \cup {o \in OtherOf("enum") : new[o] = 2}
             \cup NewOf("composite") \cup OtherOf("composite")
             \cup NewOf("domain") \cup OtherOf("domain")
CreatesOf == NewOf("table") \cup NewOf("view") \cup NewOf("matview")
               \cup NewOf("sequence") \cup NewOf("function")
ChangesOf == Reworked \cup OtherOf("view") \cup OtherOf("matview")
               \cup OtherOf("sequence") \cup OtherOf("function")
DropsOf == GoneOf("table") \cup GoneOf("view") \cup GoneOf("matview")
             \cup GoneOf("sequence") \cup GoneOf("enum")
             \cup GoneOf("composite") \cup GoneOf("domain")

LEMMA SettledIs ==
  ASSUME Asked
  PROVE  Settled = TypesOf \cup CreatesOf \cup ChangesOf \cup DropsOf
<1>1. \A o \in Ids : Kind[o] \in PartKinds \cup
        {"enum", "composite", "domain", "table", "view", "matview", "sequence", "function"}
  BY PartOrNot DEF Kinds, PartKinds
<1>2. \A kind \in {"enum", "composite", "domain", "table", "view", "matview",
                   "sequence", "function"} : kind \notin PartKinds
  BY DEF PartKinds
<1>3. Fresh \cup Gone \cup Shown \subseteq Ids
  BY DEF Asked, IsSchema, Fresh, Gone, Altered, Shown
<1>4. Reworked \subseteq Ids
  BY DEF Asked, IsSchema, Reworked
<1>5. \A o \in Ids : o \in Settled =>
                       o \in TypesOf \cup CreatesOf \cup ChangesOf \cup DropsOf
  BY <1>1 DEF Settled, TypesOf, CreatesOf, ChangesOf, DropsOf, NewOf, GoneOf, OtherOf
<1>6. \A o \in TypesOf \cup CreatesOf \cup ChangesOf \cup DropsOf : o \in Settled
  BY <1>2 DEF Settled, TypesOf, CreatesOf, ChangesOf, DropsOf, NewOf, GoneOf, OtherOf
<1>7. Settled \subseteq Ids
  BY <1>3, <1>4 DEF Settled
<1> QED
  BY <1>5, <1>6, <1>7

LEMMA EdgeOpsSettle ==
  ASSUME Asked
  PROVE  Settles(EdgeOps, Settled)
<1>1. /\ Settles(TypeOps, TypesOf) /\ Settles(CreateOps, CreatesOf)
      /\ Settles(ChangeOps, ChangesOf) /\ Settles(DropOps, DropsOf)
  BY Zenon, TypeOpsSettle, CreateOpsSettle, ChangeOpsSettle, DropOpsSettle
     DEF TypesOf, CreatesOf, ChangesOf, DropsOf
<1>2. Settles(TypeOps \o CreateOps \o ChangeOps, TypesOf \cup CreatesOf \cup ChangesOf)
  BY Zenon, <1>1, ThreeSettle
<1>3. Settles(DDLOps, TypesOf \cup CreatesOf \cup ChangesOf \cup DropsOf)
  BY Zenon, <1>1, <1>2, BothSettle DEF DDLOps
<1>4. Settles(DMLOps, {})
  BY DMLOpsSettle
<1>5. Settles(EdgeOps, (TypesOf \cup CreatesOf \cup ChangesOf \cup DropsOf) \cup {})
  BY Zenon, <1>3, <1>4, BothSettle DEF EdgeOps
<1>6. (TypesOf \cup CreatesOf \cup ChangesOf \cup DropsOf) \cup {} = Settled
  BY SettledIs
<1> QED
  BY Zenon, <1>5, <1>6

\* What is stirred of an object are its parts and what they have for versions,
\* but for what the differ does not compare.
LEMMA SameParts ==
  ASSUME Asked, NEW k \in DOMAIN old \cap DOMAIN new,
         \A o \in Stirred : ~(Kind[o] \in PartKinds /\ Owner[o] = k)
  PROVE  /\ Parts(old, k) = Parts(new, k)
         /\ \A o \in Parts(new, k) : old[o] # new[o] => Aspect[o] = "uniqueness"
<1>1. k \in Ids /\ k # NoOwner
  BY Catalog DEF Asked, IsSchema
<1>2. \A o \in Parts(old, k) \cup Parts(new, k) : Kind[o] \in PartKinds /\ Owner[o] = k
  <2>1. ASSUME NEW o \in Parts(old, k) \cup Parts(new, k)
        PROVE  Kind[o] \in PartKinds /\ Owner[o] = k
    <3>1. o \in Ids /\ Owner[o] = k
      BY DEF Parts, Asked, IsSchema
    <3> QED
      BY <1>1, <3>1, PartOrNot
  <2> QED
    BY <2>1
<1>3. Parts(old, k) = Parts(new, k)
  BY <1>2 DEF Parts, Stirred, Fresh, Gone
<1>4. \A o \in Parts(new, k) : old[o] # new[o] => Aspect[o] = "uniqueness"
  BY <1>2, <1>3 DEF Parts, Stirred, Altered, Shown
<1> QED
  BY <1>3, <1>4

\* The parts of an object and its versions are its contents.
LEMMA SameContent ==
  ASSUME NEW k, Parts(old, k) = Parts(new, k),
         \A o \in {k} \cup Parts(new, k) : old[o] = new[o]
  PROVE  Content(old, k) = Content(new, k)
BY DEF Content

\* Parts belong to tables; what has no part is its own contents.
LEMMA NoParts ==
  ASSUME Asked, NEW k \in Ids, Kind[k] # "table"
  PROVE  Parts(old, k) = {} /\ Parts(new, k) = {}
<1>1. ASSUME NEW o \in DOMAIN old \cup DOMAIN new, Owner[o] = k PROVE FALSE
  <2>1. o \in Ids /\ k # NoOwner
    BY Catalog DEF Asked, IsSchema
  <2>2. Top(o) = k /\ Kind[Top(o)] = "table"
    BY <1>1, <2>1, PartOrNot
  <2> QED
    BY <2>2
<1> QED
  BY <1>1 DEF Parts

\* Only tables have a primary key to change, only indexes can be unique.
LEMMA PkIsOfTable ==
  ASSUME NEW o \in Ids
  PROVE  /\ Aspect[o] = "pk" => Kind[o] = "table"
         /\ Aspect[o] = "uniqueness" => Kind[o] = "index"
BY AspectIs DEF AspectsOf

\* There is an op for every object an edge settles,
LEMMA SettledIsPlanned ==
  ASSUME Asked, NEW k \in Settled
  PROVE  k \in Ids /\ Top(k) = k /\ ~Unplanned(k)
<1>1. k \in Ids /\ Kind[k] \notin PartKinds
  <2>1. k \in Ids
    BY DEF Settled, Reworked, Fresh, Gone, Altered, Shown, Asked, IsSchema
  <2>2. "table" \notin PartKinds
    BY DEF PartKinds
  <2> QED
    BY <2>1, <2>2 DEF Settled, Reworked
<1>2. Top(k) = k
  BY <1>1, PartOrNot
<1>3. ~(Kind[k] = "function" /\ k \in DOMAIN old \ DOMAIN new)
  BY DEF Settled, Fresh, Gone, Altered, Shown, Reworked
<1>4. ~(Kind[k] = "enum" /\ Differs(old, new, k) /\ new[k] = 1)
  <2>1. ASSUME Kind[k] = "enum", Differs(old, new, k), new[k] = 1 PROVE FALSE
    <3>1. k \in DOMAIN old /\ k \in DOMAIN new
      BY <2>1 DEF Differs
    <3>2. k \notin Fresh /\ k \notin Gone /\ k \notin Reworked
      BY <2>1, <3>1 DEF Fresh, Gone, Reworked
    <3> QED
      BY <2>1, <3>2 DEF Settled
  <2> QED
    BY <2>1
<1>5. ASSUME Kind[k] = "table", k \in DOMAIN old \cap DOMAIN new,
             Parts(old, k) = Parts(new, k),
             \A p \in DOMAIN Content(new, k) :
               old[p] # new[p] => Aspect[p] \in {"pk", "uniqueness"}
      PROVE  FALSE
  <2>1. Reworks(k) # {}
    BY <1>5 DEF Settled, Reworked, Fresh, Gone
  <2>2. DOMAIN Content(new, k) = {k} \cup Parts(new, k)
    BY DEF Content
  <2>3. Secured(k) = {}
    BY <1>5, <2>2 DEF Secured, Shown, Altered
  <2>4. PICK o \in Stirred : Kind[o] \in PartKinds /\ Owner[o] = k
    BY <2>1, <2>3 DEF Reworks
  <2>5. o \in Shown
    BY <1>5, <2>4 DEF Stirred, Fresh, Gone, Parts
  <2>6. o \in Ids /\ o \in Parts(new, k) /\ old[o] # new[o] /\ Aspect[o] # "uniqueness"
    BY <2>4, <2>5 DEF Shown, Altered, Parts, Asked, IsSchema
  <2>7. Aspect[o] = "pk"
    BY <1>5, <2>2, <2>6
  <2> QED
    BY <2>4, <2>6, <2>7, PkIsOfTable DEF PartKinds
<1> QED
  BY <1>1, <1>2, <1>3, <1>4, <1>5 DEF Unplanned

\* and every other object stays the way it is, if there is an op for it.
LEMMA OthersStay ==
  ASSUME Asked, NEW k \in Ids \ Settled, Top(k) = k
  PROVE  /\ k \in DOMAIN new => k \in DOMAIN old
         /\ k \in DOMAIN old \ DOMAIN new => Unplanned(k)
         /\ k \in DOMAIN old \cap DOMAIN new /\ ~Unplanned(k)
              => Content(old, k) = Content(new, k)
<1>1. Kind[k] \notin PartKinds /\ k # NoOwner
  BY PartOrNot, Catalog
<1>2. k \in DOMAIN new => k \in DOMAIN old
  BY <1>1 DEF Settled, Fresh
<1>3. k \in DOMAIN old \ DOMAIN new => Unplanned(k)
  BY <1>1 DEF Settled, Gone, Unplanned
<1>4. ASSUME k \in DOMAIN old \cap DOMAIN new, ~Unplanned(k), Kind[k] # "table"
      PROVE  Content(old, k) = Content(new, k)
  <2>1. Parts(old, k) = {} /\ Parts(new, k) = {}
    BY <1>4, NoParts
  <2>2. ASSUME old[k] # new[k] PROVE FALSE
    <3>1. Aspect[k] # "uniqueness"
      BY <1>1, PkIsOfTable DEF PartKinds
    <3>2. k \in Shown /\ Differs(old, new, k)
      BY <1>4, <2>2, <3>1 DEF Altered, Shown, Differs
    <3>3. Kind[k] = "enum" /\ new[k] # 2
      BY <1>1, <1>4, <3>2 DEF Settled
    <3>4. new[k] \in {1, 2}
      BY <1>4, InSchema DEF Asked
    <3> QED
      BY <1>4, <3>2, <3>3, <3>4 DEF Unplanned
  <2> QED
    BY <2>1, <2>2, SameContent
<1>5. ASSUME k \in DOMAIN old \cap DOMAIN new, ~Unplanned(k), Kind[k] = "table"
      PROVE  Content(old, k) = Content(new, k)
  <2>1. Reworks(k) = {}
    BY <1>5 DEF Settled, Reworked
  <2>2. \A o \in Stirred : ~(Kind[o] \in PartKinds /\ Owner[o] = k)
    BY <2>1 DEF Reworks
  <2>3. /\ Parts(old, k) = Parts(new, k)
        /\ \A o \in Parts(new, k) : old[o] # new[o] => Aspect[o] = "uniqueness"
    BY <1>5, <2>2, SameParts
  <2>4. old[k] # new[k] => Aspect[k] = "pk"
    <3>1. Aspect[k] \in {"none", "rls", "pk"}
      BY <1>5, AspectIs DEF AspectsOf
    <3>2. Aspect[k] = "none" => old[k] = 1 /\ new[k] = 1
      BY <1>5, InSchema DEF Asked
    <3>3. Aspect[k] = "rls" => k \notin Shown
      BY <2>1 DEF Reworks, Secured
    <3>4. Aspect[k] = "rls" => old[k] = new[k]
      BY <1>5, <3>3 DEF Shown, Altered
    <3> QED
      BY <3>1, <3>2, <3>4
  <2>5. \A p \in DOMAIN Content(new, k) :
          old[p] # new[p] => Aspect[p] \in {"pk", "uniqueness"}
    BY <2>3, <2>4 DEF Content
  <2> QED
    BY Zenon, <1>5, <2>3, <2>5 DEF Unplanned
<1> QED
  BY <1>2, <1>3, <1>4, <1>5

\* The manifest the simulation has to end at.
Left == {o \in DOMAIN old : /\ Top(o) = o
                            /\ Unplanned(o) \/ (o \in Altered /\ Aspect[o] = "signature")}
Kept == {Key(o, old[o]) : o \in Left}
Due == [key \in Keys(new) \cup Kept |->
          IF key \in Kept THEN Manifest(old)[key] ELSE Manifest(new)[key]]

\* The keys of a schema and what its manifest holds.
LEMMA ManifestAt ==
  ASSUME NEW s
  PROVE  /\ DOMAIN Manifest(s) = Keys(s)
         /\ \A x \in Keys(s) : \E o \in DOMAIN s : Top(o) = o /\ x = Key(o, s[o])
         /\ \A o \in DOMAIN s : Top(o) = o => /\ Key(o, s[o]) \in Keys(s)
                                             /\ Manifest(s)[Key(o, s[o])] = Content(s, o)
<1>1. ASSUME NEW o \in DOMAIN s, Top(o) = o
      PROVE  Key(o, s[o]) \in Keys(s) /\ Manifest(s)[Key(o, s[o])] = Content(s, o)
  <2>1. Key(o, s[o]) \in Keys(s)
    BY Zenon, <1>1 DEF Keys
  <2>2. Key(o, s[o])[1] = o
    BY Zenon, KeyIs
  <2> QED
    BY <2>1, <2>2 DEF Manifest
<1>2. ASSUME NEW x \in Keys(s)
      PROVE  \E o \in DOMAIN s : Top(o) = o /\ x = Key(o, s[o])
  BY Zenon, <1>2 DEF Keys
<1>3. DOMAIN Manifest(s) = Keys(s)
  BY DEF Manifest
<1> QED
  BY <1>1, <1>2, <1>3

\* A key that is kept is that of one object only.
LEMMA KeptIs ==
  ASSUME NEW o, NEW v, Key(o, v) \in Kept
  PROVE  o \in Left /\ Key(o, v) = Key(o, old[o])
<1>1. PICK p \in Left : Key(o, v) = Key(p, old[p])
  BY Zenon DEF Kept
<1>2. p = o
  BY <1>1 DEF Key
<1> QED
  BY Zenon, <1>1, <1>2

\* A key that counts for an op is the key of what the desired schema has, and
\* is not one that is kept.
LEMMA SettledKey ==
  ASSUME Asked, NEW k \in Settled
  PROVE  /\ Mark(k) \notin Kept
         /\ Mark(k) \in Keys(new) <=> k \in DOMAIN new
         /\ k \in DOMAIN new => Manifest(new)[Mark(k)] = Content(new, k)
<1>1. Top(k) = k /\ ~Unplanned(k)
  BY SettledIsPlanned
<1>2. k \in DOMAIN new => Mark(k) = Key(k, new[k])
  BY DEF Mark
<1>3. \E v : Mark(k) = Key(k, v)
  BY Zenon DEF Mark
<1>4. ASSUME Mark(k) \in Kept PROVE FALSE
  <2>1. k \in Left /\ Mark(k) = Key(k, old[k])
    BY Zenon, <1>3, <1>4, KeptIs
  <2>2. k \in Altered /\ Aspect[k] = "signature"
    BY <1>1, <2>1 DEF Left
  <2>3. k \in DOMAIN new /\ old[k] # new[k]
    BY <2>2 DEF Altered
  <2>4. Key(k, new[k]) = Key(k, old[k])
    BY <1>2, <2>1, <2>3
  <2>5. new[k] = old[k]
    BY <2>2, <2>4 DEF Key
  <2> QED
    BY <2>3, <2>5
<1>5. ASSUME k \in DOMAIN new
      PROVE  Mark(k) \in Keys(new) /\ Manifest(new)[Mark(k)] = Content(new, k)
  BY <1>1, <1>2, <1>5, ManifestAt
<1>6. ASSUME Mark(k) \in Keys(new) PROVE k \in DOMAIN new
  <2>1. PICK o \in DOMAIN new : Mark(k) = Key(o, new[o])
    BY Zenon, <1>6, ManifestAt
  <2>2. o = k
    BY <2>1 DEF Mark, Key
  <2> QED
    BY <2>2
<1> QED
  BY <1>4, <1>5, <1>6

\* Where the signature is not what changes, the key is the same as before.
LEMMA SameKey ==
  ASSUME NEW o \in DOMAIN old \cap DOMAIN new, ~(o \in Altered /\ Aspect[o] = "signature")
  PROVE  Key(o, old[o]) = Key(o, new[o])
<1>1. CASE Aspect[o] # "signature"
  BY <1>1 DEF Key
<1>2. CASE Aspect[o] = "signature"
  <2>1. old[o] = new[o]
    BY <1>2 DEF Altered
  <2> QED
    BY Zenon, <2>1
<1> QED
  BY <1>1, <1>2

\* A key no op touches is there if it was, with what it had.
LEMMA OtherKey ==
  ASSUME Asked, NEW x, \A k \in Settled : x # Mark(k)
  PROVE  /\ x \in Keys(old) <=> x \in Keys(new) \cup Kept
         /\ x \in Keys(old) =>
              Manifest(old)[x] = IF x \in Kept THEN Manifest(old)[x] ELSE Manifest(new)[x]
<1>1. DOMAIN old \subseteq Ids /\ DOMAIN new \subseteq Ids
  BY DEF Asked, IsSchema
<1>2. x \in Kept => x \in Keys(old)
  <2>1. ASSUME x \in Kept PROVE x \in Keys(old)
    <3>1. PICK o \in Left : x = Key(o, old[o])
      BY Zenon, <2>1 DEF Kept
    <3>2. o \in DOMAIN old /\ Top(o) = o
      BY <3>1 DEF Left
    <3> QED
      BY Zenon, <3>1, <3>2, ManifestAt
  <2> QED
    BY <2>1
<1>3. ASSUME x \in Keys(old) \ Kept
      PROVE  x \in Keys(new) /\ Manifest(old)[x] = Manifest(new)[x]
  <2>1. PICK o \in DOMAIN old : Top(o) = o /\ x = Key(o, old[o])
    BY Zenon, <1>3, ManifestAt
  <2>2. o \notin Left
    BY Zenon, <1>3, <2>1 DEF Kept
  <2>3. ~Unplanned(o) /\ ~(o \in Altered /\ Aspect[o] = "signature")
    BY Zenon, <2>1, <2>2 DEF Left
  <2>4. o \notin Settled
    <3>1. o \in DOMAIN new => Mark(o) = Key(o, new[o]) /\ Key(o, old[o]) = Key(o, new[o])
      BY <2>1, <2>3, SameKey DEF Mark
    <3>2. o \notin DOMAIN new => Mark(o) = Key(o, old[o])
      BY DEF Mark
    <3> QED
      BY <2>1, <3>1, <3>2
  <2>5. o \in DOMAIN new /\ Content(old, o) = Content(new, o)
    BY <1>1, <2>1, <2>3, <2>4, OthersStay
  <2>6. x = Key(o, new[o])
    BY <2>1, <2>3, <2>5, SameKey
  <2>7. Manifest(old)[x] = Content(old, o)
    BY Zenon, <2>1, ManifestAt
  <2>8. x \in Keys(new) /\ Manifest(new)[x] = Content(new, o)
    BY Zenon, <2>1, <2>5, <2>6, ManifestAt
  <2> QED
    BY Zenon, <2>5, <2>7, <2>8
<1>4. ASSUME x \in Keys(new) PROVE x \in Keys(old)
  <2>1. PICK o \in DOMAIN new : Top(o) = o /\ x = Key(o, new[o])
    BY Zenon, <1>4, ManifestAt
  <2>2. o \notin Settled
    BY <2>1 DEF Mark
  <2>3. o \in DOMAIN old
    BY <1>1, <2>1, <2>2, OthersStay
  <2>4. ~(o \in Altered /\ Aspect[o] = "signature")
    <3>1. ASSUME o \in Altered, Aspect[o] = "signature" PROVE FALSE
      <4>1. Kind[o] = "function"
        BY <1>1, <2>1, <3>1, SignatureIsOfFunction
      <4>2. o \in Shown
        BY <3>1 DEF Shown
      <4> QED
        BY <2>2, <4>1, <4>2 DEF Settled, PartKinds
    <3> QED
      BY <3>1
  <2>5. x = Key(o, old[o])
    BY <2>1, <2>3, <2>4, SameKey
  <2> QED
    BY <2>1, <2>3, <2>5, ManifestAt
<1> QED
  BY Zenon, <1>2, <1>3, <1>4

LEMMA EdgeOpsSimulate ==
  ASSUME Asked, edge = EdgeOps
  PROVE  Simulate = Due
<1>1. DOMAIN old \subseteq Ids
  BY DEF Asked, IsSchema
<1>2. Settles(edge, Settled)
  BY Zenon, EdgeOpsSettle
<1>3. /\ Simulate \in Manifests
      /\ \A x : (\A k \in Settled : x # Mark(k)) =>
           /\ x \in DOMAIN Simulate <=> x \in Keys(old)
           /\ x \in DOMAIN Simulate => Simulate[x] = Manifest(old)[x]
      /\ \A k \in Settled :
           /\ Mark(k) \in DOMAIN Simulate <=> k \in DOMAIN new
           /\ Mark(k) \in DOMAIN Simulate => Simulate[Mark(k)] = Content(new, k)
  BY Zenon, <1>1, <1>2, SimulateSettles, ManifestAt
<1> DEFINE K == Keys(new) \cup Kept
           due(x) == IF x \in Kept THEN Manifest(old)[x] ELSE Manifest(new)[x]
<1>4. ASSUME NEW x
      PROVE  /\ x \in DOMAIN Simulate <=> x \in K
             /\ x \in DOMAIN Simulate => Simulate[x] = due(x)
  <2>1. CASE \E k \in Settled : x = Mark(k)
    <3>1. PICK k \in Settled : x = Mark(k)
      BY Zenon, <2>1
    <3>2. /\ x \notin Kept /\ (x \in Keys(new) <=> k \in DOMAIN new)
          /\ k \in DOMAIN new => Manifest(new)[x] = Content(new, k)
      BY Zenon, <3>1, SettledKey
    <3>3. /\ x \in DOMAIN Simulate <=> k \in DOMAIN new
          /\ x \in DOMAIN Simulate => Simulate[x] = Content(new, k)
      BY Zenon, <1>3, <3>1
    <3> QED
      BY <3>2, <3>3
  <2>2. CASE \A k \in Settled : x # Mark(k)
    <3>1. /\ x \in Keys(old) <=> x \in K
          /\ x \in Keys(old) => Manifest(old)[x] = due(x)
      BY Zenon, <2>2, OtherKey
    <3>2. /\ x \in DOMAIN Simulate <=> x \in Keys(old)
          /\ x \in DOMAIN Simulate => Simulate[x] = Manifest(old)[x]
      BY Zenon, <1>3, <2>2
    <3> QED
      BY Zenon, <3>1, <3>2
  <2> QED
    BY Zenon, <2>1, <2>2
<1>5. Simulate = [x \in DOMAIN Simulate |-> Simulate[x]]
  BY <1>3, ManifestIs
<1>6. Due = [x \in K |-> due(x)]
  BY Zenon DEF Due
<1> HIDE DEF K, due
<1>7. DOMAIN Simulate = K
  BY <1>4
<1> QED
  BY <1>4, <1>5, <1>6, <1>7

(***************************************************************************)
(* The invariant: the two schemas stay as they are, and an edge is what    *)
(* the generator made of renames that passed the gate.                     *)
(***************************************************************************)
LEMMA EdgeOpsUnchanged ==
  ASSUME UNCHANGED <<old, new, declared>>
  PROVE  EdgeOps' = EdgeOps
BY DEF EdgeOps, DDLOps, DMLOps, TypeOps, CreateOps, ChangeOps, DropOps, All, Each,
  Create, ChangeEnum, Recreate, ChangeDomain, NewTable, Drop, Alter, Back, ChangeFunction,
  ChangeTable, DropFunction, ColumnOps, FKOps, IndexOps, ConstraintOps, GuardOps, SecurityOps,
  RenameOps, Unpaired, Paired, Add, Rem, Alt, AddFK, ChangeColumn, ChangeIndex, Rename,
  Backfill, Becoming, Rendered

PlanInv ==
  /\ IsSchema(old) /\ IsSchema(new)
  /\ phase \notin {"diff", "refused"} => GatePasses(old, new, declared)
  /\ phase \notin {"diff", "generate", "refused"} => edge = EdgeOps

\* The invariant is inductive.
THEOREM PlanInvariant == Spec => []PlanInv
<1>1. Init => PlanInv
  BY PairsAreSchemas DEF Init, PlanInv
<1>2. PlanInv /\ [Next]_vars => PlanInv'
  <2> SUFFICES ASSUME PlanInv, [Next]_vars PROVE PlanInv'
    OBVIOUS
  <2>1. ASSUME NEW renames \in SUBSET ToSet(Alike), ResolveRenames(renames)
        PROVE  PlanInv'
    <3>1. old' = old /\ new' = new /\ declared' = renames
      BY <2>1 DEF ResolveRenames
    <3>2. phase' \notin {"diff", "refused"} => GatePasses(old, new, renames)
      BY <2>1 DEF ResolveRenames
    <3>3. phase' \in {"generate", "refused"}
      BY <2>1 DEF ResolveRenames
    <3> QED
      BY <3>1, <3>2, <3>3 DEF PlanInv
  <2>2. ASSUME Generate PROVE PlanInv'
    <3>1. UNCHANGED <<old, new, declared>> /\ phase = "generate" /\ edge' = EdgeOps
      BY <2>2 DEF Generate
    <3>2. EdgeOps' = EdgeOps
      BY <3>1, EdgeOpsUnchanged
    <3> QED
      BY <3>1, <3>2 DEF PlanInv
  <2>3. ASSUME UNCHANGED <<old, new, declared, edge>>,
               phase' = phase \/ phase \notin {"diff", "generate", "refused"}
        PROVE  PlanInv'
    <3>1. EdgeOps' = EdgeOps
      BY <2>3, EdgeOpsUnchanged
    <3> QED
      BY <2>3, <3>1 DEF PlanInv
  <2>4. CASE ApplyNext
    BY <2>3, <2>4 DEF ApplyNext
  <2>5. CASE Land
    BY <2>3, <2>5 DEF Land
  <2>6. CASE Rollback
    BY <2>3, <2>6 DEF Rollback
  <2>7. CASE UndoNext
    BY <2>3, <2>7 DEF UndoNext
  <2>8. CASE Revert
    BY <2>3, <2>8 DEF Revert
  <2>9. CASE UNCHANGED vars
    BY <2>3, <2>9 DEF vars
  <2> QED
    BY <2>1, <2>2, <2>4, <2>5, <2>6, <2>7, <2>8, <2>9 DEF Next
<1> QED
  BY <1>1, <1>2, PTL DEF Spec

\* The ops of an edge, simulated on the manifest of the schema it starts from,
\* give the manifest of the desired schema, but for the objects without an op,
\* which stay as they were, and for a function whose signature changes, which
\* stays under its former key beside the new one: for every catalog, every pair of schemas and every
\* set of renames the gate lets pass (GenerateMigration against
\* verifyEdgeConsistency in consistency.go).
THEOREM EdgeTheorem == Spec => []EdgeSimulates
<1>1. PlanInv => EdgeSimulates
  <2> SUFFICES ASSUME PlanInv, phase = "up", pos = 0
               PROVE  Simulate = Due
    BY Zenon DEF EdgeSimulates, Due, Kept, Left
  <2>1. GatePasses(old, new, declared) /\ edge = EdgeOps
    BY DEF PlanInv
  <2>2. Asked
    BY <2>1 DEF PlanInv, Asked, GatePasses, Stale
  <2> QED
    BY <2>1, <2>2, EdgeOpsSimulate
<1> QED
  BY <1>1, PlanInvariant, PTL

-----------------------------------------------------------------------------
(***************************************************************************)
(* Backwards: an edge all of whose ops have a down is made of five kinds   *)
(* of steps, and each of their downs undoes what its op did.               *)
(***************************************************************************)
\* What the down of an alteration sets.
Former(o) == IF o \in Fresh THEN 1 ELSE IF o \in Defaulted THEN 0 ELSE old[o]

\* The objects an op with a down alters: a table that is new or changes its row
\* security, columns, indexes, domains and views.  Only the query of a view may
\* have named a column that is renamed.
Restorable == {o \in Fresh \cup Altered :
                 /\ Aspect[o] \notin {"type", "collation"}
                 /\ o \in Fresh => Kind[o] = "table"
                 /\ Kind[o] # "view" =>
                      \A p \in declared : p[1] \notin VersionUses(o, Former(o))}

\* The steps with a down, one definition for each kind.
Creates(x) == /\ x.up.do = "create" /\ x.up.id \in Fresh /\ x.up.to \in Versions
              /\ Aspect[x.up.id] = "signature" => x.up.to = new[x.up.id]
              /\ x.down = << Op("drop", x.up.id, new[x.up.id]) >>
Alters(x) == /\ x.up.do = "alter" /\ x.up.id \in Restorable /\ x.up.to \in Versions
             /\ x.down = << Op("alter", x.up.id, Former(x.up.id)) >>
Renames(x) == /\ x.up.do = "rename" /\ << x.up.id, x.up.to >> \in declared
              /\ x.down = << Op("rename", x.up.to, x.up.id) >>
Validates(x) == /\ x.up.do = "validate" /\ x.up.id \in Ids
                /\ \E v : x.down = << Op("validate", x.up.id, v) >>
Backfills(x) == /\ x.up.do = "backfill" /\ x.up.id \in Ids
                /\ \E v : x.down = << Op("vacuous", x.up.id, v) >>

Undone(x) == \/ Creates(x) \/ Alters(x) \/ Renames(x)
             \/ Validates(x) \/ Backfills(x)

\* Every step of a list is undone by its down, unless one has none.
Undoes(s) == /\ s \in Seq(Steps)
             /\ \/ \E x \in ToSet(s) : x.down = << >>
                \/ \A x \in ToSet(s) : Undone(x)

LEMMA DosOfSteps == {"create", "drop", "alter", "validate", "rename", "backfill",
                     "vacuous"} \subseteq Dos
BY DEF Dos

LEMMA NothingUndoes == Undoes(<< >>)
<1>1. << >> \in Seq(Steps) /\ ToSet(<< >>) = {}
  BY DEF ToSet
<1> QED
  BY Zenon, <1>1 DEF Undoes

LEMMA BothUndo ==
  ASSUME NEW a, NEW b, Undoes(a), Undoes(b)
  PROVE  Undoes(a \o b)
<1>1. a \in Seq(Steps) /\ b \in Seq(Steps)
  BY Zenon DEF Undoes
<1>2. a \o b \in Seq(Steps)
  <2> HIDE DEF Steps
  <2> QED
    BY <1>1
<1>3. ToSet(a \o b) = ToSet(a) \cup ToSet(b)
  BY <1>1, TwoParts
<1>4. \/ \E x \in ToSet(a \o b) : x.down = << >>
      \/ \A x \in ToSet(a \o b) : Undone(x)
  BY Zenon, <1>3 DEF Undoes
<1> QED
  BY Zenon, <1>2, <1>4 DEF Undoes

\* A list with a step without a down, and whatever goes with it.
Final(s) == s \in Seq(Steps) /\ \E x \in ToSet(s) : x.down = << >>

LEMMA FinalUndoes ==
  ASSUME NEW a, Final(a), NEW b, b \in Seq(Steps)
  PROVE  /\ Undoes(a)
         /\ Final(a \o b) /\ Undoes(a \o b)
         /\ Final(b \o a) /\ Undoes(b \o a)
<1>1. a \in Seq(Steps) /\ \E x \in ToSet(a) : x.down = << >>
  BY Zenon DEF Final
<1>2. a \o b \in Seq(Steps) /\ b \o a \in Seq(Steps)
  <2> HIDE DEF Steps
  <2> QED
    BY <1>1
<1>3. ToSet(a \o b) = ToSet(a) \cup ToSet(b) /\ ToSet(b \o a) = ToSet(b) \cup ToSet(a)
  BY <1>1, TwoParts
<1>4. /\ \E x \in ToSet(a \o b) : x.down = << >>
      /\ \E x \in ToSet(b \o a) : x.down = << >>
  BY Zenon, <1>1, <1>3
<1> QED
  BY Zenon, <1>1, <1>2, <1>4 DEF Final, Undoes

\* A list for each of several things.
LEMMA EachUndoes ==
  ASSUME NEW s \in Seq(Ids), NEW seqs, seqs = [i \in DOMAIN s |-> seqs[i]],
         \A o \in ToSet(s) : \A i \in DOMAIN s : s[i] = o => Undoes(seqs[i])
  PROVE  Undoes(FlattenSeq(seqs))
<1> DEFINE N == Len(s)
<1>1. DOMAIN s = 1..N /\ N \in Nat /\ \A i \in 1..N : s[i] \in ToSet(s)
  BY DEF ToSet
<1>2. \A i \in 1..N : Undoes(seqs[i])
  BY Zenon, <1>1
<1>3. seqs \in Seq(Seq(Steps)) /\ Len(seqs) = N
  <2>1. \A i \in 1..N : seqs[i] \in Seq(Steps)
    BY Zenon, <1>2 DEF Undoes
  <2> HIDE DEF Steps, N
  <2>2. seqs \in [1..N -> Seq(Steps)]
    BY <1>1, <2>1
  <2> QED
    BY <1>1, <2>2
<1> HIDE DEF N
<1>4. /\ FlattenSeq(seqs) \in Seq(Steps)
      /\ ToSet(FlattenSeq(seqs)) = UNION {ToSet(seqs[i]) : i \in 1..N}
  BY Zenon, <1>3, FlattenElements
<1>5. \/ \E x \in ToSet(FlattenSeq(seqs)) : x.down = << >>
      \/ \A x \in ToSet(FlattenSeq(seqs)) : Undone(x)
  BY Zenon, <1>2, <1>4 DEF Undoes
<1> QED
  BY Zenon, <1>4, <1>5 DEF Undoes

LEMMA StepUndoes ==
  ASSUME NEW x \in Steps, Undone(x) \/ x.down = << >>
  PROVE  Undoes(<< x >>)
<1>1. << x >> \in Seq(Steps) /\ ToSet(<< x >>) = {x}
  BY OneStep
<1> QED
  BY Zenon, <1>1 DEF Undoes

LEMMA CreateUndoes ==
  ASSUME Asked, NEW o \in Fresh
  PROVE  Undoes(Create(o))
<1>1. o \in DOMAIN new
  BY DEF Fresh
<1>2. new[o] \in {1, 2} /\ new[o] \in Ids \cup Versions /\ o \in Ids
  BY <1>1, InSchema DEF Asked
<1>3. << Op("drop", o, new[o]) >> \in Seq(Ops)
  BY <1>2, OpsTyped DEF Dos
<1>4. Rendered(o, new[o]) \in Versions
  BY <1>2 DEF Rendered, Versions
<1> DEFINE x == Step("create", o, Rendered(o, new[o]), << Op("drop", o, new[o]) >>)
<1>5. x \in Steps
  <2>1. Rendered(o, new[o]) \in Ids \cup Versions /\ o \in Ids
    BY <1>2, <1>4
  <2> QED
    BY Zenon, <1>3, <2>1, DosOfSteps, StepTyped
<1>6. /\ x.up.do = "create" /\ x.up.id = o /\ x.up.to = Rendered(o, new[o])
      /\ x.down = << Op("drop", o, new[o]) >>
  BY DEF Step, Op
<1> HIDE DEF x
<1>7. Aspect[o] = "signature" => Rendered(o, new[o]) = new[o]
  BY DEF Rendered
<1>8. Creates(x)
  BY Zenon, <1>4, <1>6, <1>7 DEF Creates
<1>9. Undoes(<< x >>)
  BY Zenon, <1>5, <1>8, StepUndoes DEF Undone
<1> QED
  BY Zenon, <1>9 DEF Create, x

\* A drop has no down.
LEMMA DropFinal ==
  ASSUME Asked, NEW o \in DOMAIN old
  PROVE  Final(Drop(o))
<1>1. old[o] \in Ids \cup Versions /\ o \in Ids
  BY InSchema DEF Asked
<1>2. << >> \in Seq(Ops)
  BY <1>1, OpsTyped DEF Dos
<1> DEFINE x == Step("drop", o, old[o], << >>)
<1>3. x \in Steps
  BY <1>1, <1>2, StepTyped DEF Dos
<1>4. x.down = << >>
  BY DEF Step, Op
<1> HIDE DEF x
<1>5. << x >> \in Seq(Steps) /\ ToSet(<< x >>) = {x}
  BY Zenon, <1>3, OneStep
<1>6. Final(<< x >>)
  BY Zenon, <1>4, <1>5 DEF Final
<1> QED
  BY Zenon, <1>6 DEF Drop, x

LEMMA RecreateUndoes ==
  ASSUME Asked, NEW o \in DOMAIN old \cap DOMAIN new
  PROVE  Undoes(Recreate(o))
<1>1. Final(Drop(o))
  BY Zenon, DropFinal
<1>2. Create(o) \in Seq(Steps)
  BY Zenon, CreateSettles DEF Settles
<1> QED
  BY Zenon, <1>1, <1>2, FinalUndoes DEF Recreate

\* An alteration without a down.
LEMMA ReviseUndoes ==
  ASSUME Asked, NEW o \in DOMAIN new
  PROVE  Undoes(Alter(o, << >>))
<1>1. new[o] \in Ids \cup Versions /\ o \in Ids
  BY InSchema DEF Asked
<1>2. << >> \in Seq(Ops)
  BY <1>1, OpsTyped DEF Dos
<1> DEFINE x == Step("alter", o, new[o], << >>)
<1>3. x \in Steps
  BY <1>1, <1>2, StepTyped DEF Dos
<1>4. x.down = << >>
  BY DEF Step, Op
<1> HIDE DEF x
<1>5. Undoes(<< x >>)
  BY Zenon, <1>3, <1>4, StepUndoes
<1> QED
  BY Zenon, <1>5 DEF Alter, x

\* An alteration whose down sets what was there before.
LEMMA AlterUndoes ==
  ASSUME Asked, NEW o \in Restorable, NEW to \in Versions, Former(o) \in Versions
  PROVE  Undoes(<< Step("alter", o, to, << Op("alter", o, Former(o)) >>) >>)
<1>1. o \in DOMAIN new
  BY DEF Restorable, Fresh, Altered
<1>2. to \in Ids \cup Versions /\ o \in Ids /\ Former(o) \in Ids \cup Versions
  BY <1>1, InSchema DEF Asked
<1>3. << Op("alter", o, Former(o)) >> \in Seq(Ops)
  BY <1>2, OpsTyped DEF Dos
<1> DEFINE x == Step("alter", o, to, << Op("alter", o, Former(o)) >>)
<1>4. x \in Steps
  BY Zenon, <1>2, <1>3, DosOfSteps, StepTyped
<1>5. /\ x.up.do = "alter" /\ x.up.id = o /\ x.up.to = to
      /\ x.down = << Op("alter", o, Former(o)) >>
  BY DEF Step, Op
<1> HIDE DEF x
<1>6. Alters(x)
  BY Zenon, <1>5 DEF Alters
<1>7. Undoes(<< x >>)
  BY Zenon, <1>4, <1>6, StepUndoes DEF Undone
<1> QED
  BY Zenon, <1>7 DEF x

\* What an object had before the change.
LEMMA FormerIs ==
  ASSUME Asked, NEW o \in Fresh \cup Altered
  PROVE  /\ Former(o) \in Versions
         /\ o \in Fresh => Former(o) = 1
         /\ o \in Altered => /\ o \in DOMAIN old /\ o \in DOMAIN new /\ o \notin Fresh
                             /\ Former(o) = IF o \in Defaulted THEN 0 ELSE old[o]
                             /\ old[o] \in {1, 2} /\ new[o] \in {1, 2} /\ old[o] # new[o]
<1>1. CASE o \in Fresh
  <2>1. o \notin Altered /\ Former(o) = 1
    BY <1>1 DEF Fresh, Altered, Former
  <2> QED
    BY <2>1 DEF Versions
<1>2. CASE o \in Altered
  <2>1. o \in DOMAIN old /\ o \in DOMAIN new /\ o \notin Fresh /\ old[o] # new[o]
    BY <1>2 DEF Fresh, Altered
  <2>2. old[o] \in {1, 2} /\ new[o] \in {1, 2}
    BY <2>1, InSchema DEF Asked
  <2>3. Former(o) = IF o \in Defaulted THEN 0 ELSE old[o]
    BY <2>1 DEF Former
  <2> QED
    BY <2>1, <2>2, <2>3 DEF Versions
<1> QED
  BY <1>1, <1>2

\* Who has an aspect that an op with a down restores.
LEMMA AspectKinds ==
  ASSUME NEW o \in Ids
  PROVE  /\ Aspect[o] \in {"type", "collation", "default", "expression", "notnull"} =>
              Kind[o] = "column"
         /\ Aspect[o] = "rls" => Kind[o] = "table"
         /\ Kind[o] = "table" => Aspect[o] \in {"none", "rls", "pk"}
<1>1. Aspect[o] \in AspectsOf(Kind[o])
  BY AspectIs
<1>2. CASE Kind[o] = "table"
  BY <1>1, <1>2 DEF AspectsOf
<1>3. CASE Kind[o] = "column"
  BY <1>1, <1>3 DEF AspectsOf
<1>4. CASE Kind[o] \notin {"table", "column"}
  BY <1>1, <1>4 DEF AspectsOf
<1> QED
  BY <1>2, <1>3, <1>4

LEMMA UsesIs ==
  ASSUME Asked, NEW o \in Altered
  PROVE  /\ Uses[o][old[o]] \subseteq DOMAIN old /\ Uses[o][new[o]] \subseteq DOMAIN new
         /\ Kind[o] = "table" => Uses[o][old[o]] = {}
         /\ Kind[o] = "domain" => \A u \in Uses[o][old[o]] : Kind[u] # "column"
         /\ Aspect[o] \in {"collation", "notnull", "default", "with", "uniqueness"} =>
              Uses[o][old[o]] = Uses[o][new[o]]
<1>1. /\ o \in DOMAIN old /\ o \in DOMAIN new
      /\ old[o] \in {1, 2} /\ new[o] \in {1, 2}
  BY Zenon, FormerIs
<1>2. o \in Ids
  BY <1>1, InSchema DEF Asked
<1>3. Uses[o][old[o]] \subseteq DOMAIN old /\ Uses[o][new[o]] \subseteq DOMAIN new
  BY <1>1 DEF Asked, IsSchema
<1>4. /\ Kind[o] = "table" => Uses[o][1] \cup Uses[o][2] = {}
      /\ Kind[o] = "domain" => \A u \in Uses[o][1] \cup Uses[o][2] : Kind[u] # "column"
      /\ Aspect[o] \in {"collation", "notnull", "default", "with", "uniqueness"} =>
           Uses[o][1] = Uses[o][2]
  BY Zenon, <1>2, Catalog
<1>5. CASE old[o] = 1
  BY <1>1, <1>3, <1>4, <1>5
<1>6. CASE old[o] = 2
  BY <1>1, <1>3, <1>4, <1>6
<1> QED
  BY <1>1, <1>5, <1>6

\* What was there before names no column that is renamed, but for a view.
LEMMA AlteredRestorable ==
  ASSUME Asked, NEW o \in Altered, Aspect[o] \notin {"type", "collation"},
         \/ Aspect[o] \in {"notnull", "default", "expression", "with"}
         \/ Kind[o] \in {"domain", "view", "table"}
  PROVE  o \in Restorable
<1>1. /\ o \notin Fresh /\ Former(o) = IF o \in Defaulted THEN 0 ELSE old[o]
      /\ old[o] # 0
  <2>1. /\ o \notin Fresh /\ Former(o) = IF o \in Defaulted THEN 0 ELSE old[o]
        /\ old[o] \in {1, 2}
    BY Zenon, FormerIs
  <2> QED
    BY <2>1
<1>2. ASSUME NEW p \in declared, p[1] \in VersionUses(o, Former(o)), Kind[o] # "view"
      PROVE  FALSE
  <2>1. p[1] \notin DOMAIN new /\ Kind[p[1]] = "column"
    BY <1>2, DeclaredPair
  <2>2. o \notin Defaulted /\ p[1] \in Uses[o][old[o]]
    BY <1>1, <1>2 DEF VersionUses
  <2>3. Aspect[o] # "expression"
    BY Zenon, <2>2 DEF Defaulted
  <2>4. Aspect[o] \notin {"notnull", "default", "with"}
    BY Zenon, <2>1, <2>2, UsesIs
  <2>5. Kind[o] # "domain" /\ Kind[o] # "table"
    BY <2>1, <2>2, UsesIs
  <2> QED
    BY <1>2, <2>3, <2>4, <2>5
<1> QED
  BY Zenon, <1>1, <1>2 DEF Restorable

\* The down Back(o) is the one.
LEMMA BackUndoes ==
  ASSUME Asked, NEW o \in Altered, o \notin Defaulted,
         Aspect[o] \notin {"type", "collation"},
         \/ Aspect[o] \in {"notnull", "default", "expression", "with"}
         \/ Kind[o] \in {"domain", "view", "table"}
  PROVE  Undoes(Alter(o, Back(o)))
<1>1. o \in Restorable
  BY Zenon, AlteredRestorable
<1>2. Former(o) = old[o] /\ Former(o) \in Versions /\ new[o] \in Versions
  <2>1. Former(o) \in Versions /\ Former(o) = old[o] /\ new[o] \in {1, 2}
    BY Zenon, FormerIs
  <2> QED
    BY <2>1 DEF Versions
<1>3. Undoes(<< Step("alter", o, new[o], << Op("alter", o, Former(o)) >>) >>)
  BY Zenon, <1>1, <1>2, AlterUndoes
<1> QED
  BY Zenon, <1>2, <1>3 DEF Alter, Back

LEMMA DefaultedColumn ==
  ASSUME Asked, NEW o \in Defaulted
  PROVE  /\ o \in Altered /\ Kind[o] = "column" /\ Aspect[o] \in {"default", "expression"}
<1>1. o \in Altered /\ Aspect[o] \in {"default", "expression"}
  BY DEF Defaulted
<1>2. o \in DOMAIN old
  BY Zenon, <1>1, FormerIs
<1>3. o \in Ids
  BY Zenon, <1>2, InSchema DEF Asked
<1> QED
  BY <1>1, <1>3, AspectKinds

LEMMA ChangeColumnUndoes ==
  ASSUME Asked, NEW c \in Altered, Kind[c] = "column"
  PROVE  Undoes(ChangeColumn(c))
<1>1. /\ c \in DOMAIN old /\ c \in DOMAIN new /\ old[c] \in {1, 2} /\ new[c] \in {1, 2}
      /\ old[c] # new[c] /\ Former(c) = IF c \in Defaulted THEN 0 ELSE old[c]
      /\ Former(c) \in Versions
  BY Zenon, FormerIs
<1>2. c \in Ids /\ Aspect[c] # "none"
  <2>1. c \in Ids /\ (Aspect[c] = "none" => new[c] = 1)
    BY Zenon, <1>1, InSchema DEF Asked
  <2>2. Aspect[c] = "none" => old[c] = 1
    BY Zenon, <1>1, InSchema DEF Asked
  <2> QED
    BY Zenon, <1>1, <2>1, <2>2
<1>3. Aspect[c] \in {"type", "collation", "notnull", "default", "expression"}
  <2>1. Aspect[c] \in AspectsOf(Kind[c])
    BY <1>2, AspectIs
  <2> QED
    BY <1>2, <2>1 DEF AspectsOf
<1>4. CASE Aspect[c] \in {"type", "collation"}
  <2>1. ChangeColumn(c) = Alter(c, << >>)
    BY <1>4 DEF ChangeColumn
  <2>2. Undoes(Alter(c, << >>))
    BY Zenon, <1>1, ReviseUndoes
  <2> QED
    BY Zenon, <2>1, <2>2
<1>5. CASE Aspect[c] = "notnull"
  <2>1. ChangeColumn(c) = Alter(c, Back(c))
    BY <1>5 DEF ChangeColumn
  <2>2. c \notin Defaulted /\ Aspect[c] \notin {"type", "collation"}
    BY <1>5 DEF Defaulted
  <2>3. Undoes(Alter(c, Back(c)))
    BY <1>5, <2>2, BackUndoes
  <2> QED
    BY Zenon, <2>1, <2>3
<1>6. CASE Aspect[c] \in {"default", "expression"}
  <2> DEFINE former == IF new[c] = 2 THEN 0 ELSE Rendered(c, old[c])
  <2>1. ChangeColumn(c) =
          << Step("alter", c, Rendered(c, new[c]), << Op("alter", c, former) >>) >>
    BY <1>6 DEF ChangeColumn
  <2>2. former = Former(c)
    <3>1. CASE Aspect[c] = "expression"
      BY <1>1, <3>1 DEF Defaulted, Rendered
    <3>2. CASE Aspect[c] = "default"
      BY <1>1, <3>2 DEF Defaulted, Rendered
    <3> QED
      BY <1>6, <3>1, <3>2
  <2> HIDE DEF former
  <2>3. Rendered(c, new[c]) \in Versions
    BY <1>1 DEF Rendered, Versions
  <2>4. c \in Restorable
    BY <1>6, AlteredRestorable
  <2>5. Undoes(<< Step("alter", c, Rendered(c, new[c]), << Op("alter", c, Former(c)) >>) >>)
    BY Zenon, <1>1, <2>3, <2>4, AlterUndoes
  <2> QED
    BY Zenon, <2>1, <2>2, <2>5
<1> QED
  BY <1>3, <1>4, <1>5, <1>6

LEMMA NotDefaulted ==
  ASSUME Asked, NEW o, Kind[o] # "column"
  PROVE  o \notin Defaulted
BY Zenon, DefaultedColumn

LEMMA ChangeIndexUndoes ==
  ASSUME Asked, NEW o \in Altered, Kind[o] # "column"
  PROVE  Undoes(ChangeIndex(o))
<1>1. o \in DOMAIN old \cap DOMAIN new
  BY DEF Altered
<1>2. Aspect[o] = "with" => Undoes(Alter(o, Back(o)))
  BY NotDefaulted, BackUndoes
<1>3. Undoes(Recreate(o))
  BY Zenon, <1>1, RecreateUndoes
<1> QED
  BY Zenon, <1>2, <1>3 DEF ChangeIndex

LEMMA ViewUndoes ==
  ASSUME Asked, NEW o \in Altered, Kind[o] \in {"view", "domain"}
  PROVE  Undoes(Alter(o, Back(o)))
<1>1. o \in Ids
  <2>1. o \in DOMAIN old
    BY DEF Altered
  <2> QED
    BY Zenon, <2>1, InSchema DEF Asked
<1>2. Aspect[o] \notin {"type", "collation"} /\ Kind[o] # "column"
  BY <1>1, AspectKinds
<1> QED
  BY <1>2, NotDefaulted, BackUndoes

LEMMA ChangeDomainUndoes ==
  ASSUME Asked, NEW o \in Altered, Kind[o] = "domain"
  PROVE  Undoes(ChangeDomain(o))
<1>1. o \in DOMAIN old \cap DOMAIN new
  BY DEF Altered
<1>2. Undoes(Alter(o, Back(o)))
  BY ViewUndoes
<1>3. Undoes(Recreate(o)) /\ Undoes(Alter(o, << >>))
  BY Zenon, <1>1, RecreateUndoes, ReviseUndoes
<1> QED
  BY Zenon, <1>2, <1>3 DEF ChangeDomain

LEMMA SecurityOpsUndo ==
  ASSUME Asked, NEW t \in DOMAIN new, Kind[t] = "table"
  PROVE  Undoes(SecurityOps(t))
<1>1. ASSUME Differs(old, new, t), Aspect[t] = "rls"
      PROVE  Undoes(Alter(t, Back(t)))
  <2>1. t \in Altered
    BY <1>1 DEF Differs, Altered
  <2> QED
    BY <1>1, <2>1, NotDefaulted, BackUndoes
<1> QED
  BY Zenon, <1>1, NothingUndoes DEF SecurityOps

LEMMA AddFKUndoes ==
  ASSUME Asked, NEW f \in Fresh
  PROVE  Undoes(AddFK(f))
<1>1. f \in DOMAIN new
  BY DEF Fresh
<1>2. new[f] \in Ids \cup Versions /\ f \in Ids
  BY <1>1, InSchema DEF Asked
<1>3. << Op("validate", f, new[f]) >> \in Seq(Ops)
  BY <1>2, OpsTyped DEF Dos
<1> DEFINE x == Step("validate", f, new[f], << Op("validate", f, new[f]) >>)
<1>4. x \in Steps
  BY Zenon, <1>2, <1>3, DosOfSteps, StepTyped
<1>5. /\ x.up.do = "validate" /\ x.up.id = f
      /\ x.down = << Op("validate", f, new[f]) >>
  BY DEF Step, Op
<1> HIDE DEF x
<1>6. Validates(x)
  BY Zenon, <1>2, <1>5 DEF Validates
<1>7. Undoes(<< x >>)
  BY Zenon, <1>4, <1>6, StepUndoes DEF Undone
<1>8. Undoes(Create(f))
  BY Zenon, CreateUndoes
<1> QED
  BY Zenon, <1>7, <1>8, BothUndo DEF AddFK, x

LEMMA RenameUndoes ==
  ASSUME Asked, NEW p \in declared
  PROVE  Undoes(Rename(p))
<1>1. p \in Ids \X Ids
  BY DeclaredPair
<1>2. << Op("rename", p[2], p[1]) >> \in Seq(Ops)
  BY <1>1, OpsTyped DEF Dos
<1> DEFINE x == Step("rename", p[1], p[2], << Op("rename", p[2], p[1]) >>)
<1>3. x \in Steps
  <2>1. p[1] \in Ids /\ p[2] \in Ids /\ p[2] \in Ids \cup Versions
    BY <1>1
  <2> QED
    BY Zenon, <1>2, <2>1, DosOfSteps, StepTyped
<1>4. /\ x.up.do = "rename" /\ x.up.id = p[1] /\ x.up.to = p[2]
      /\ x.down = << Op("rename", p[2], p[1]) >>
  BY DEF Step, Op
<1> HIDE DEF x
<1>5. << p[1], p[2] >> = p
  BY <1>1
<1>6. Renames(x)
  BY Zenon, <1>4, <1>5 DEF Renames
<1>7. Undoes(<< x >>)
  BY Zenon, <1>3, <1>6, StepUndoes DEF Undone
<1> QED
  BY Zenon, <1>7 DEF Rename, x

\* What begins with a drop is not undone.
LEMMA ChangeFKUndoes ==
  ASSUME Asked, NEW f \in DOMAIN old \cap DOMAIN new
  PROVE  Undoes(Drop(f) \o AddFK(f))
<1>1. Final(Drop(f))
  BY Zenon, DropFinal
<1>2. AddFK(f) \in Seq(Steps)
  BY Zenon, AddFKSettles DEF Settles
<1> QED
  BY Zenon, <1>1, <1>2, FinalUndoes

LEMMA DropUndoes ==
  ASSUME Asked, NEW o \in DOMAIN old
  PROVE  Undoes(Drop(o))
BY Zenon, DropFinal, FinalUndoes, NothingUndoes DEF Undoes

\* Steps that have no down, whatever they do.
LEMMA OneWay ==
  ASSUME NEW do \in Dos, NEW o \in Ids, NEW to \in Ids \cup Versions
  PROVE  Undoes(<< Step(do, o, to, << >>) >>) /\ Final(<< Step(do, o, to, << >>) >>)
<1>1. << >> \in Seq(Ops)
  BY OpsTyped DEF Dos
<1> DEFINE x == Step(do, o, to, << >>)
<1>2. x \in Steps
  BY <1>1, StepTyped
<1>3. x.down = << >>
  BY DEF Step, Op
<1> HIDE DEF x
<1>4. << x >> \in Seq(Steps) /\ ToSet(<< x >>) = {x}
  BY Zenon, <1>2, OneStep
<1>5. Undoes(<< x >>) /\ Final(<< x >>)
  BY Zenon, <1>3, <1>4 DEF Final, Undoes
<1> QED
  BY Zenon, <1>5 DEF x

LEMMA ChangeFunctionUndoes ==
  ASSUME Asked, NEW o \in DOMAIN old \cap DOMAIN new
  PROVE  Undoes(ChangeFunction(o))
<1>1. new[o] \in Ids \cup Versions /\ o \in Ids /\ "drop" \in Dos
  BY InSchema DEF Asked, Dos
<1>2. Final(<< Step("drop", o, new[o], << >>) >>)
  BY Zenon, <1>1, OneWay
<1>3. Create(o) \in Seq(Steps)
  BY Zenon, CreateSettles DEF Settles
<1>4. Undoes(<< Step("drop", o, new[o], << >>) >> \o Create(o))
  BY Zenon, <1>2, <1>3, FinalUndoes
<1>5. Undoes(Alter(o, << >>))
  BY Zenon, ReviseUndoes
<1> QED
  BY Zenon, <1>4, <1>5 DEF ChangeFunction

LEMMA ChangeEnumUndoes ==
  ASSUME Asked, NEW o \in DOMAIN new
  PROVE  Undoes(ChangeEnum(o))
<1>1. Undoes(Alter(o, << >>))
  BY Zenon, ReviseUndoes
<1> QED
  BY Zenon, <1>1, NothingUndoes DEF ChangeEnum

LEMMA DropFunctionUndoes ==
  ASSUME Asked, NEW o \in DOMAIN old
  PROVE  Undoes(DropFunction(o))
<1>1. old[o] \in Ids \cup Versions /\ o \in Ids /\ "drop_guard" \in Dos
  BY InSchema DEF Asked, Dos
<1> QED
  BY Zenon, <1>1, OneWay DEF DropFunction

LEMMA BackfillUndoes ==
  ASSUME Asked, NEW c \in DOMAIN new
  PROVE  Undoes(Backfill(c))
<1>1. new[c] \in Ids \cup Versions /\ c \in Ids
  BY InSchema DEF Asked
<1>2. << Op("vacuous", c, new[c]) >> \in Seq(Ops)
  BY <1>1, OpsTyped DEF Dos
<1> DEFINE x == Step("backfill", c, new[c], << Op("vacuous", c, new[c]) >>)
<1>3. x \in Steps
  BY Zenon, <1>1, <1>2, DosOfSteps, StepTyped
<1>4. x.up.do = "backfill" /\ x.up.id = c /\ x.down = << Op("vacuous", c, new[c]) >>
  BY DEF Step, Op
<1> HIDE DEF x
<1>5. Backfills(x)
  BY Zenon, <1>1, <1>4 DEF Backfills
<1>6. Undoes(<< x >>)
  BY Zenon, <1>3, <1>5, StepUndoes DEF Undone
<1> QED
  BY Zenon, <1>6 DEF Backfill, x

LEMMA CreateAllUndoes ==
  ASSUME Asked, NEW s \in Seq(Ids), ToSet(s) \subseteq Fresh
  PROVE  Undoes(CreateAll(s))
<1> DEFINE seqs == [i \in DOMAIN s |-> Create(s[i])]
<1>1. \A o \in ToSet(s) : \A i \in DOMAIN s : s[i] = o => Undoes(seqs[i])
  <2>1. ASSUME NEW o \in ToSet(s) PROVE Undoes(Create(o))
    BY CreateUndoes
  <2> QED
    BY <2>1
<1>2. seqs = [i \in DOMAIN s |-> seqs[i]]
  OBVIOUS
<1> HIDE DEF seqs
<1>3. Undoes(FlattenSeq(seqs))
  BY Zenon, <1>1, <1>2, EachUndoes
<1> QED
  BY Zenon, <1>3 DEF CreateAll, seqs

LEMMA AddFKAllUndoes ==
  ASSUME Asked, NEW s \in Seq(Ids), ToSet(s) \subseteq Fresh
  PROVE  Undoes(AddFKAll(s))
<1> DEFINE seqs == [i \in DOMAIN s |-> AddFK(s[i])]
<1>1. \A o \in ToSet(s) : \A i \in DOMAIN s : s[i] = o => Undoes(seqs[i])
  <2>1. ASSUME NEW o \in ToSet(s) PROVE Undoes(AddFK(o))
    BY AddFKUndoes
  <2> QED
    BY <2>1
<1>2. seqs = [i \in DOMAIN s |-> seqs[i]]
  OBVIOUS
<1> HIDE DEF seqs
<1>3. Undoes(FlattenSeq(seqs))
  BY Zenon, <1>1, <1>2, EachUndoes
<1> QED
  BY Zenon, <1>3 DEF AddFKAll, seqs

LEMMA RecreateAllUndoes ==
  ASSUME Asked, NEW s \in Seq(Ids), ToSet(s) \subseteq DOMAIN old \cap DOMAIN new
  PROVE  Undoes(RecreateAll(s))
<1> DEFINE seqs == [i \in DOMAIN s |-> Recreate(s[i])]
<1>1. \A o \in ToSet(s) : \A i \in DOMAIN s : s[i] = o => Undoes(seqs[i])
  <2>1. ASSUME NEW o \in ToSet(s) PROVE Undoes(Recreate(o))
    BY RecreateUndoes
  <2> QED
    BY <2>1
<1>2. seqs = [i \in DOMAIN s |-> seqs[i]]
  OBVIOUS
<1> HIDE DEF seqs
<1>3. Undoes(FlattenSeq(seqs))
  BY Zenon, <1>1, <1>2, EachUndoes
<1> QED
  BY Zenon, <1>3 DEF RecreateAll, seqs

LEMMA AlterAllUndoes ==
  ASSUME Asked, NEW s \in Seq(Ids), ToSet(s) \subseteq {o \in Altered : Kind[o] \in {"view", "domain"}}
  PROVE  Undoes(AlterAll(s))
<1> DEFINE seqs == [i \in DOMAIN s |-> Alter(s[i], Back(s[i]))]
<1>1. \A o \in ToSet(s) : \A i \in DOMAIN s : s[i] = o => Undoes(seqs[i])
  <2>1. ASSUME NEW o \in ToSet(s) PROVE Undoes(Alter(o, Back(o)))
    BY ViewUndoes
  <2> QED
    BY <2>1
<1>2. seqs = [i \in DOMAIN s |-> seqs[i]]
  OBVIOUS
<1> HIDE DEF seqs
<1>3. Undoes(FlattenSeq(seqs))
  BY Zenon, <1>1, <1>2, EachUndoes
<1> QED
  BY Zenon, <1>3 DEF AlterAll, seqs

LEMMA ReviseAllUndoes ==
  ASSUME Asked, NEW s \in Seq(Ids), ToSet(s) \subseteq DOMAIN new
  PROVE  Undoes(ReviseAll(s))
<1> DEFINE seqs == [i \in DOMAIN s |-> Alter(s[i], << >>)]
<1>1. \A o \in ToSet(s) : \A i \in DOMAIN s : s[i] = o => Undoes(seqs[i])
  <2>1. ASSUME NEW o \in ToSet(s) PROVE Undoes(Alter(o, << >>))
    BY ReviseUndoes
  <2> QED
    BY <2>1
<1>2. seqs = [i \in DOMAIN s |-> seqs[i]]
  OBVIOUS
<1> HIDE DEF seqs
<1>3. Undoes(FlattenSeq(seqs))
  BY Zenon, <1>1, <1>2, EachUndoes
<1> QED
  BY Zenon, <1>3 DEF ReviseAll, seqs

LEMMA ChangeDomainAllUndoes ==
  ASSUME Asked, NEW s \in Seq(Ids), ToSet(s) \subseteq {o \in Altered : Kind[o] = "domain"}
  PROVE  Undoes(ChangeDomainAll(s))
<1> DEFINE seqs == [i \in DOMAIN s |-> ChangeDomain(s[i])]
<1>1. \A o \in ToSet(s) : \A i \in DOMAIN s : s[i] = o => Undoes(seqs[i])
  <2>1. ASSUME NEW o \in ToSet(s) PROVE Undoes(ChangeDomain(o))
    BY ChangeDomainUndoes
  <2> QED
    BY <2>1
<1>2. seqs = [i \in DOMAIN s |-> seqs[i]]
  OBVIOUS
<1> HIDE DEF seqs
<1>3. Undoes(FlattenSeq(seqs))
  BY Zenon, <1>1, <1>2, EachUndoes
<1> QED
  BY Zenon, <1>3 DEF ChangeDomainAll, seqs

LEMMA ChangeFunctionAllUndoes ==
  ASSUME Asked, NEW s \in Seq(Ids), ToSet(s) \subseteq DOMAIN old \cap DOMAIN new
  PROVE  Undoes(ChangeFunctionAll(s))
<1> DEFINE seqs == [i \in DOMAIN s |-> ChangeFunction(s[i])]
<1>1. \A o \in ToSet(s) : \A i \in DOMAIN s : s[i] = o => Undoes(seqs[i])
  <2>1. ASSUME NEW o \in ToSet(s) PROVE Undoes(ChangeFunction(o))
    BY ChangeFunctionUndoes
  <2> QED
    BY <2>1
<1>2. seqs = [i \in DOMAIN s |-> seqs[i]]
  OBVIOUS
<1> HIDE DEF seqs
<1>3. Undoes(FlattenSeq(seqs))
  BY Zenon, <1>1, <1>2, EachUndoes
<1> QED
  BY Zenon, <1>3 DEF ChangeFunctionAll, seqs

LEMMA ChangeIndexAllUndoes ==
  ASSUME Asked, NEW s \in Seq(Ids), ToSet(s) \subseteq {o \in Altered : Kind[o] # "column"}
  PROVE  Undoes(ChangeIndexAll(s))
<1> DEFINE seqs == [i \in DOMAIN s |-> ChangeIndex(s[i])]
<1>1. \A o \in ToSet(s) : \A i \in DOMAIN s : s[i] = o => Undoes(seqs[i])
  <2>1. ASSUME NEW o \in ToSet(s) PROVE Undoes(ChangeIndex(o))
    BY ChangeIndexUndoes
  <2> QED
    BY <2>1
<1>2. seqs = [i \in DOMAIN s |-> seqs[i]]
  OBVIOUS
<1> HIDE DEF seqs
<1>3. Undoes(FlattenSeq(seqs))
  BY Zenon, <1>1, <1>2, EachUndoes
<1> QED
  BY Zenon, <1>3 DEF ChangeIndexAll, seqs

LEMMA ChangeColumnAllUndoes ==
  ASSUME Asked, NEW s \in Seq(Ids), ToSet(s) \subseteq {o \in Altered : Kind[o] = "column"}
  PROVE  Undoes(ChangeColumnAll(s))
<1> DEFINE seqs == [i \in DOMAIN s |-> ChangeColumn(s[i])]
<1>1. \A o \in ToSet(s) : \A i \in DOMAIN s : s[i] = o => Undoes(seqs[i])
  <2>1. ASSUME NEW o \in ToSet(s) PROVE Undoes(ChangeColumn(o))
    BY ChangeColumnUndoes
  <2> QED
    BY <2>1
<1>2. seqs = [i \in DOMAIN s |-> seqs[i]]
  OBVIOUS
<1> HIDE DEF seqs
<1>3. Undoes(FlattenSeq(seqs))
  BY Zenon, <1>1, <1>2, EachUndoes
<1> QED
  BY Zenon, <1>3 DEF ChangeColumnAll, seqs

LEMMA ChangeFKAllUndoes ==
  ASSUME Asked, NEW s \in Seq(Ids), ToSet(s) \subseteq DOMAIN old \cap DOMAIN new
  PROVE  Undoes(ChangeFKAll(s))
<1> DEFINE seqs == [i \in DOMAIN s |-> (Drop(s[i]) \o AddFK(s[i]))]
<1>1. \A o \in ToSet(s) : \A i \in DOMAIN s : s[i] = o => Undoes(seqs[i])
  <2>1. ASSUME NEW o \in ToSet(s) PROVE Undoes((Drop(o) \o AddFK(o)))
    BY ChangeFKUndoes
  <2> QED
    BY <2>1
<1>2. seqs = [i \in DOMAIN s |-> seqs[i]]
  OBVIOUS
<1> HIDE DEF seqs
<1>3. Undoes(FlattenSeq(seqs))
  BY Zenon, <1>1, <1>2, EachUndoes
<1> QED
  BY Zenon, <1>3 DEF ChangeFKAll, seqs

LEMMA DropAllUndoes ==
  ASSUME Asked, NEW s \in Seq(Ids), ToSet(s) \subseteq DOMAIN old
  PROVE  Undoes(DropAll(s))
<1> DEFINE seqs == [i \in DOMAIN s |-> Drop(s[i])]
<1>1. \A o \in ToSet(s) : \A i \in DOMAIN s : s[i] = o => Undoes(seqs[i])
  <2>1. ASSUME NEW o \in ToSet(s) PROVE Undoes(Drop(o))
    BY DropUndoes
  <2> QED
    BY <2>1
<1>2. seqs = [i \in DOMAIN s |-> seqs[i]]
  OBVIOUS
<1> HIDE DEF seqs
<1>3. Undoes(FlattenSeq(seqs))
  BY Zenon, <1>1, <1>2, EachUndoes
<1> QED
  BY Zenon, <1>3 DEF DropAll, seqs

LEMMA DropFunctionAllUndoes ==
  ASSUME Asked, NEW s \in Seq(Ids), ToSet(s) \subseteq DOMAIN old
  PROVE  Undoes(DropFunctionAll(s))
<1> DEFINE seqs == [i \in DOMAIN s |-> DropFunction(s[i])]
<1>1. \A o \in ToSet(s) : \A i \in DOMAIN s : s[i] = o => Undoes(seqs[i])
  <2>1. ASSUME NEW o \in ToSet(s) PROVE Undoes(DropFunction(o))
    BY DropFunctionUndoes
  <2> QED
    BY <2>1
<1>2. seqs = [i \in DOMAIN s |-> seqs[i]]
  OBVIOUS
<1> HIDE DEF seqs
<1>3. Undoes(FlattenSeq(seqs))
  BY Zenon, <1>1, <1>2, EachUndoes
<1> QED
  BY Zenon, <1>3 DEF DropFunctionAll, seqs

LEMMA BackfillAllUndoes ==
  ASSUME Asked, NEW s \in Seq(Ids), ToSet(s) \subseteq DOMAIN new
  PROVE  Undoes(BackfillAll(s))
<1> DEFINE seqs == [i \in DOMAIN s |-> Backfill(s[i])]
<1>1. \A o \in ToSet(s) : \A i \in DOMAIN s : s[i] = o => Undoes(seqs[i])
  <2>1. ASSUME NEW o \in ToSet(s) PROVE Undoes(Backfill(o))
    BY BackfillUndoes
  <2> QED
    BY <2>1
<1>2. seqs = [i \in DOMAIN s |-> seqs[i]]
  OBVIOUS
<1> HIDE DEF seqs
<1>3. Undoes(FlattenSeq(seqs))
  BY Zenon, <1>1, <1>2, EachUndoes
<1> QED
  BY Zenon, <1>3 DEF BackfillAll, seqs

LEMMA ChangeEnumAllUndoes ==
  ASSUME Asked, NEW s \in Seq(Ids), ToSet(s) \subseteq DOMAIN new
  PROVE  Undoes(ChangeEnumAll(s))
<1> DEFINE seqs == [i \in DOMAIN s |-> ChangeEnum(s[i])]
<1>1. \A o \in ToSet(s) : \A i \in DOMAIN s : s[i] = o => Undoes(seqs[i])
  <2>1. ASSUME NEW o \in ToSet(s) PROVE Undoes(ChangeEnum(o))
    BY ChangeEnumUndoes
  <2> QED
    BY <2>1
<1>2. seqs = [i \in DOMAIN s |-> seqs[i]]
  OBVIOUS
<1> HIDE DEF seqs
<1>3. Undoes(FlattenSeq(seqs))
  BY Zenon, <1>1, <1>2, EachUndoes
<1> QED
  BY Zenon, <1>3 DEF ChangeEnumAll, seqs

\* Anything that is dropped makes a list final.
LEMMA DropAllFinal ==
  ASSUME Asked, NEW s \in Seq(Ids), ToSet(s) \subseteq Leaving, ToSet(s) # {}
  PROVE  Final(DropAll(s))
<1> DEFINE seqs == [i \in DOMAIN s |-> Drop(s[i])]
           N == Len(s)
<1>1. DOMAIN s = 1..N /\ N \in Nat /\ \A i \in 1..N : s[i] \in DOMAIN old
  BY DEF ToSet, Leaving
<1>2. PICK n \in 1..N : TRUE
  BY <1>1 DEF ToSet
<1>3. \A i \in 1..N : Final(Drop(s[i]))
  BY Zenon, <1>1, DropFinal
<1>4. \A i \in 1..N : seqs[i] = Drop(s[i])
  BY <1>1
<1>5. seqs \in Seq(Seq(Steps)) /\ Len(seqs) = N
  <2>1. \A i \in 1..N : Drop(s[i]) \in Seq(Steps)
    BY Zenon, <1>3 DEF Final
  <2> HIDE DEF Steps, N
  <2>2. seqs \in [1..N -> Seq(Steps)]
    BY <1>1, <2>1
  <2> QED
    BY <1>1, <2>2
<1> HIDE DEF N, seqs
<1>6. /\ FlattenSeq(seqs) \in Seq(Steps)
      /\ ToSet(FlattenSeq(seqs)) = UNION {ToSet(seqs[i]) : i \in 1..N}
  BY Zenon, <1>5, FlattenElements
<1>7. PICK x \in ToSet(seqs[n]) : x.down = << >>
  BY Zenon, <1>2, <1>3, <1>4 DEF Final
<1>8. x \in ToSet(FlattenSeq(seqs))
  BY Zenon, <1>2, <1>6, <1>7
<1>9. Final(FlattenSeq(seqs))
  BY Zenon, <1>6, <1>7, <1>8 DEF Final
<1> QED
  BY Zenon, <1>9 DEF DropAll, seqs

LEMMA ThreeUndo ==
  ASSUME NEW a, NEW b, NEW c, Undoes(a), Undoes(b), Undoes(c)
  PROVE  Undoes(a \o b \o c)
<1>1. Undoes(a \o b)
  BY Zenon, BothUndo
<1> QED
  BY Zenon, <1>1, BothUndo

LEMMA PartsUndo ==
  ASSUME Asked, NEW t \in DOMAIN new, NEW kind \in PartKinds
  PROVE  /\ Undoes(CreateAll(Add(t, kind))) /\ Undoes(AddFKAll(Add(t, kind)))
         /\ Undoes(DropAll(Rem(t, kind))) /\ Undoes(RecreateAll(Alt(t, kind)))
         /\ Undoes(ChangeFKAll(Alt(t, kind)))
         /\ kind # "column" => Undoes(ChangeIndexAll(Alt(t, kind)))
         /\ kind = "column" => Undoes(ChangeColumnAll(Alt(t, kind)))
<1>1. /\ Add(t, kind) \in Seq(Ids) /\ ToSet(Add(t, kind)) = In(Fresh, t, kind)
      /\ Rem(t, kind) \in Seq(Ids) /\ ToSet(Rem(t, kind)) = In(Gone, t, kind)
      /\ Alt(t, kind) \in Seq(Ids) /\ ToSet(Alt(t, kind)) = In(Shown, t, kind)
  BY PartLists
<1>2. /\ In(Fresh, t, kind) \subseteq Fresh /\ In(Gone, t, kind) \subseteq DOMAIN old
      /\ In(Shown, t, kind) \subseteq DOMAIN old \cap DOMAIN new
      /\ In(Shown, t, kind) \subseteq {o \in Altered : Kind[o] = kind}
  BY DEF In, Gone, Altered, Shown
<1>3. /\ ToSet(Add(t, kind)) \subseteq Fresh /\ ToSet(Rem(t, kind)) \subseteq DOMAIN old
      /\ ToSet(Alt(t, kind)) \subseteq DOMAIN old \cap DOMAIN new
      /\ ToSet(Alt(t, kind)) \subseteq {o \in Altered : Kind[o] = kind}
  BY Zenon, <1>1, <1>2
<1>4. Undoes(CreateAll(Add(t, kind))) /\ Undoes(AddFKAll(Add(t, kind)))
  BY Zenon, <1>1, <1>3, CreateAllUndoes, AddFKAllUndoes
<1>5. /\ Undoes(DropAll(Rem(t, kind))) /\ Undoes(RecreateAll(Alt(t, kind)))
      /\ Undoes(ChangeFKAll(Alt(t, kind)))
  BY Zenon, <1>1, <1>3, DropAllUndoes, RecreateAllUndoes, ChangeFKAllUndoes
<1>6. ASSUME kind # "column" PROVE Undoes(ChangeIndexAll(Alt(t, kind)))
  <2>1. ToSet(Alt(t, kind)) \subseteq {o \in Altered : Kind[o] # "column"}
    BY Zenon, <1>3, <1>6
  <2> QED
    BY Zenon, <1>1, <2>1, ChangeIndexAllUndoes
<1>7. ASSUME kind = "column" PROVE Undoes(ChangeColumnAll(Alt(t, kind)))
  <2>1. ToSet(Alt(t, kind)) \subseteq {o \in Altered : Kind[o] = "column"}
    BY Zenon, <1>3, <1>7
  <2> QED
    BY Zenon, <1>1, <2>1, ChangeColumnAllUndoes
<1> QED
  BY Zenon, <1>4, <1>5, <1>6, <1>7

\* What replaces a constraint is created first, and only then is it dropped:
\* there is a drop whenever one is created that was there before.
LEMMA ConstraintsUndo ==
  ASSUME Asked, NEW t \in DOMAIN new, NEW kind \in PartKinds
  PROVE  Undoes(ConstraintOps(t, kind))
<1> DEFINE x == Add(t, kind) \o Alt(t, kind)
           y == Rem(t, kind) \o Alt(t, kind)
<1>1. /\ Add(t, kind) \in Seq(Ids) /\ ToSet(Add(t, kind)) = In(Fresh, t, kind)
      /\ Alt(t, kind) \in Seq(Ids) /\ ToSet(Alt(t, kind)) = In(Shown, t, kind)
      /\ In(Fresh, t, kind) \subseteq DOMAIN new /\ In(Gone, t, kind) \subseteq Leaving
      /\ In(Shown, t, kind) \subseteq DOMAIN new /\ In(Shown, t, kind) \subseteq Leaving
  BY PartLists
<1>2. x \in Seq(Ids) /\ ToSet(x) = In(Fresh, t, kind) \cup In(Shown, t, kind)
  <2>1. ToSet(x) = ToSet(Add(t, kind)) \cup ToSet(Alt(t, kind))
    BY Zenon, <1>1, TwoLists
  <2> QED
    BY Zenon, <1>1, <2>1, TwoLists
<1>3. y \in Seq(Ids) /\ ToSet(y) = In(Gone, t, kind) \cup In(Shown, t, kind)
  BY Zenon, RemAndAlt
<1>4. ConstraintOps(t, kind) = CreateAll(x) \o DropAll(y)
  BY Zenon DEF ConstraintOps, Each, CreateAll, DropAll
<1> HIDE DEF x, y
<1>5. ToSet(x) \subseteq DOMAIN new /\ ToSet(y) \subseteq Leaving
  BY Zenon, <1>1, <1>2, <1>3
<1>6. CreateAll(x) \in Seq(Steps)
  BY Zenon, <1>2, <1>5, CreateAllSettles DEF Settles
<1>7. CASE ToSet(y) # {}
  <2>1. Final(DropAll(y))
    BY Zenon, <1>3, <1>5, <1>7, DropAllFinal
  <2> QED
    BY Zenon, <1>4, <1>6, <2>1, FinalUndoes
<1>8. CASE ToSet(y) = {}
  <2>1. ToSet(x) \subseteq Fresh /\ ToSet(y) \subseteq DOMAIN old
    BY Zenon, <1>2, <1>3, <1>8 DEF In
  <2>2. Undoes(CreateAll(x)) /\ Undoes(DropAll(y))
    BY Zenon, <1>2, <1>3, <2>1, CreateAllUndoes, DropAllUndoes
  <2> QED
    BY Zenon, <1>4, <2>2, BothUndo
<1> QED
  BY <1>7, <1>8

LEMMA RenamesUndo ==
  ASSUME Asked, NEW t \in DOMAIN new
  PROVE  Undoes(RenameOps(t))
<1> DEFINE D == {p \in declared : Owner[p[1]] = t}
           s == Among(Alike, D)
           seqs == [i \in DOMAIN s |-> Rename(s[i])]
           N == Len(s)
<1>1. PICK T : Alike \in Seq(T)
  BY Zenon, Catalog
<1>2. RenameOps(t) = FlattenSeq(seqs)
  BY Zenon DEF RenameOps, Each
<1> HIDE DEF D
<1>3. s \in Seq(T) /\ ToSet(s) = ToSet(Alike) \cap D
  BY <1>1, AmongSet
<1>4. ToSet(s) \subseteq declared
  BY <1>3 DEF D
<1> HIDE DEF s
<1>5. DOMAIN s = 1..N /\ N \in Nat /\ \A i \in 1..N : s[i] \in declared
  BY <1>3, <1>4 DEF ToSet
<1>6. \A i \in 1..N : seqs[i] = Rename(s[i])
  BY <1>5
<1>7. \A i \in 1..N : Undoes(seqs[i])
  BY Zenon, <1>5, <1>6, RenameUndoes
<1>8. seqs \in Seq(Seq(Steps)) /\ Len(seqs) = N
  <2>1. \A i \in 1..N : Rename(s[i]) \in Seq(Steps)
    BY Zenon, <1>6, <1>7 DEF Undoes
  <2> HIDE DEF Steps, N
  <2>2. seqs \in [1..N -> Seq(Steps)]
    BY <1>5, <2>1
  <2> QED
    BY <1>5, <2>2
<1> HIDE DEF N, seqs
<1>9. /\ FlattenSeq(seqs) \in Seq(Steps)
      /\ ToSet(FlattenSeq(seqs)) = UNION {ToSet(seqs[i]) : i \in 1..N}
  BY Zenon, <1>8, FlattenElements
<1>10. \/ \E x \in ToSet(FlattenSeq(seqs)) : x.down = << >>
       \/ \A x \in ToSet(FlattenSeq(seqs)) : Undone(x)
  BY Zenon, <1>7, <1>9 DEF Undoes
<1>11. Undoes(FlattenSeq(seqs))
  BY Zenon, <1>9, <1>10 DEF Undoes
<1> QED
  BY Zenon, <1>2, <1>11

LEMMA ChangeTableUndoes ==
  ASSUME Asked, NEW t \in DOMAIN new, Kind[t] = "table"
  PROVE  Undoes(ChangeTable(t))
<1> DEFINE a == Unpaired(Add(t, "column"))
           r == Unpaired(Rem(t, "column"))
           s1 == ColumnOps(t) \o FKOps(t) \o IndexOps(t)
           s2 == s1 \o ConstraintOps(t, "unique") \o ConstraintOps(t, "check")
           s3 == s2 \o Each(Drop, Unpaired(Rem(t, "column"))) \o GuardOps(t, "trigger")
<1>1. {"column", "fk", "index", "unique", "check", "trigger", "policy"} \subseteq PartKinds
  BY DEF PartKinds
<1>2. Undoes(ColumnOps(t)) /\ Undoes(Each(Drop, Unpaired(Rem(t, "column"))))
  <2>1. /\ Add(t, "column") \in Seq(Ids) /\ ToSet(Add(t, "column")) = In(Fresh, t, "column")
        /\ Rem(t, "column") \in Seq(Ids) /\ ToSet(Rem(t, "column")) = In(Gone, t, "column")
    BY <1>1, PartLists
  <2>2. /\ a \in Seq(Ids) /\ ToSet(a) = In(Fresh, t, "column") \ Paired
        /\ r \in Seq(Ids) /\ ToSet(r) = In(Gone, t, "column") \ Paired
    BY <2>1, UnpairedIs
  <2>3. ColumnOps(t) = RenameOps(t) \o CreateAll(a) \o ChangeColumnAll(Alt(t, "column"))
    BY Zenon DEF ColumnOps, Each, CreateAll, ChangeColumnAll
  <2>4. Each(Drop, Unpaired(Rem(t, "column"))) = DropAll(r)
    BY Zenon DEF Each, DropAll
  <2> HIDE DEF a, r
  <2>5. ToSet(a) \subseteq Fresh /\ ToSet(r) \subseteq DOMAIN old
    BY <2>2 DEF In, Gone
  <2>6. Undoes(CreateAll(a)) /\ Undoes(DropAll(r))
    BY Zenon, <2>2, <2>5, CreateAllUndoes, DropAllUndoes
  <2>7. Undoes(ChangeColumnAll(Alt(t, "column")))
    BY <1>1, PartsUndo
  <2>8. Undoes(RenameOps(t))
    BY Zenon, RenamesUndo
  <2> QED
    BY Zenon, <2>3, <2>4, <2>6, <2>7, <2>8, ThreeUndo
<1>3. Undoes(FKOps(t))
  <2>1. FKOps(t) = AddFKAll(Add(t, "fk")) \o DropAll(Rem(t, "fk")) \o ChangeFKAll(Alt(t, "fk"))
    BY Zenon DEF FKOps, Each, AddFKAll, DropAll, ChangeFKAll
  <2>2. /\ Undoes(AddFKAll(Add(t, "fk"))) /\ Undoes(DropAll(Rem(t, "fk")))
        /\ Undoes(ChangeFKAll(Alt(t, "fk")))
    BY <1>1, PartsUndo
  <2> QED
    BY Zenon, <2>1, <2>2, ThreeUndo
<1>4. Undoes(IndexOps(t))
  <2>1. IndexOps(t) = CreateAll(Add(t, "index")) \o DropAll(Rem(t, "index"))
                        \o ChangeIndexAll(Alt(t, "index"))
    BY Zenon DEF IndexOps, Each, CreateAll, DropAll, ChangeIndexAll
  <2>2. /\ Undoes(CreateAll(Add(t, "index"))) /\ Undoes(DropAll(Rem(t, "index")))
        /\ Undoes(ChangeIndexAll(Alt(t, "index")))
    BY <1>1, PartsUndo
  <2> QED
    BY Zenon, <2>1, <2>2, ThreeUndo
<1>5. Undoes(ConstraintOps(t, "unique")) /\ Undoes(ConstraintOps(t, "check"))
  BY <1>1, ConstraintsUndo
<1>6. ASSUME NEW kind \in {"trigger", "policy"} PROVE Undoes(GuardOps(t, kind))
  <2>1. GuardOps(t, kind) = CreateAll(Add(t, kind)) \o DropAll(Rem(t, kind))
                              \o RecreateAll(Alt(t, kind))
    BY Zenon DEF GuardOps, Each, CreateAll, DropAll, RecreateAll
  <2>2. /\ Undoes(CreateAll(Add(t, kind))) /\ Undoes(DropAll(Rem(t, kind)))
        /\ Undoes(RecreateAll(Alt(t, kind)))
    BY <1>1, PartsUndo
  <2> QED
    BY Zenon, <2>1, <2>2, ThreeUndo
<1>7. Undoes(GuardOps(t, "trigger")) /\ Undoes(GuardOps(t, "policy"))
  BY <1>6
<1>8. Undoes(SecurityOps(t))
  BY Zenon, SecurityOpsUndo
<1>9. Undoes(s1)
  BY Zenon, <1>2, <1>3, <1>4, ThreeUndo
<1> HIDE DEF s1
<1>10. Undoes(s2)
  BY Zenon, <1>5, <1>9, ThreeUndo
<1> HIDE DEF s2
<1>11. Undoes(s3)
  BY Zenon, <1>2, <1>7, <1>10, ThreeUndo
<1> HIDE DEF s3
<1>12. ChangeTable(t) = s3 \o SecurityOps(t) \o GuardOps(t, "policy")
  BY Zenon DEF ChangeTable, s3, s2, s1
<1> QED
  BY Zenon, <1>7, <1>8, <1>11, <1>12, ThreeUndo

LEMMA NewTableUndoes ==
  ASSUME Asked, NEW t \in NewOf("table")
  PROVE  Undoes(NewTable(t))
<1> DEFINE secured == Aspect[t] = "rls" /\ new[t] = 2
           made == Step("create", t, IF secured THEN 1 ELSE new[t],
                        << Op("drop", t, new[t]) >>)
           guard == IF secured THEN Alter(t, << Op("alter", t, 1) >>) ELSE << >>
           P(kind) == CreateAll(Add(t, kind))
           s1 == << made >> \o AddFKAll(Add(t, "fk")) \o P("index")
           s2 == s1 \o P("unique") \o P("check")
           s3 == s2 \o P("trigger") \o guard
<1>1. t \in Fresh /\ t \in DOMAIN new /\ Kind[t] = "table"
  BY DEF NewOf, Fresh
<1>2. t \in Ids /\ new[t] \in {1, 2} /\ new[t] \in Ids \cup Versions /\ 1 \in Versions
  BY <1>1, InSchema DEF Asked, Versions
<1>3. Aspect[t] \in {"none", "rls", "pk"}
  BY Zenon, <1>1, <1>2, AspectKinds
<1>4. Undoes(<< made >>)
  <2>1. << Op("drop", t, new[t]) >> \in Seq(Ops)
    BY <1>2, OpsTyped DEF Dos
  <2>2. /\ (IF secured THEN 1 ELSE new[t]) \in Ids \cup Versions
        /\ (IF secured THEN 1 ELSE new[t]) \in Versions
    BY <1>2 DEF Versions
  <2>3. made \in Steps
    <3> HIDE DEF secured
    <3> QED
      BY ZenonT(40), <1>2, <2>1, <2>2, DosOfSteps, StepTyped
  <2>4. /\ made.up.do = "create" /\ made.up.id = t
        /\ made.up.to = IF secured THEN 1 ELSE new[t]
        /\ made.down = << Op("drop", t, new[t]) >>
    BY DEF Step, Op
  <2> HIDE DEF made
  <2>5. made.up.to \in Versions
    BY Zenon, <2>2, <2>4
  <2>6. Aspect[t] # "signature"
    BY <1>3
  <2>7. Creates(made)
    BY Zenon, <1>1, <2>4, <2>5, <2>6 DEF Creates
  <2> QED
    BY Zenon, <2>3, <2>7, StepUndoes DEF Undone
<1>5. Undoes(guard)
  <2>1. ASSUME secured PROVE Undoes(Alter(t, << Op("alter", t, 1) >>))
    <3>1. Former(t) = 1 /\ Former(t) \in Versions /\ new[t] \in Versions
      BY <1>1, <1>2, FormerIs DEF Versions
    <3>2. t \in Restorable
      <4>1. VersionUses(t, 1) = {}
        <5>1. Uses[t][1] \cup Uses[t][2] = {}
          BY Zenon, <1>1, <1>2, Catalog
        <5> QED
          BY <5>1 DEF VersionUses
      <4>2. Aspect[t] \notin {"type", "collation"}
        BY <1>3
      <4> QED
        BY Zenon, <1>1, <3>1, <4>1, <4>2 DEF Restorable
    <3>3. Undoes(<< Step("alter", t, new[t], << Op("alter", t, Former(t)) >>) >>)
      BY Zenon, <3>1, <3>2, AlterUndoes
    <3> QED
      BY Zenon, <3>1, <3>3 DEF Alter
  <2> QED
    BY Zenon, <2>1, NothingUndoes
<1>6. {"fk", "index", "unique", "check", "trigger", "policy"} \subseteq PartKinds
  BY DEF PartKinds
<1>7. /\ Undoes(AddFKAll(Add(t, "fk"))) /\ Undoes(P("index")) /\ Undoes(P("unique"))
      /\ Undoes(P("check")) /\ Undoes(P("trigger")) /\ Undoes(P("policy"))
  BY <1>1, <1>6, PartsUndo
<1>8. NewTable(t) = s3 \o P("policy")
  BY Zenon DEF NewTable, Each, CreateAll, AddFKAll
<1> HIDE DEF made, guard, P
<1>9. Undoes(s1)
  BY Zenon, <1>4, <1>7, ThreeUndo
<1> HIDE DEF s1
<1>10. Undoes(s2)
  BY Zenon, <1>7, <1>9, ThreeUndo
<1> HIDE DEF s2
<1>11. Undoes(s3)
  BY Zenon, <1>5, <1>7, <1>10, ThreeUndo
<1> HIDE DEF s3
<1> QED
  BY Zenon, <1>7, <1>8, <1>11, BothUndo

LEMMA NewTableAllUndoes ==
  ASSUME Asked, NEW s \in Seq(Ids), ToSet(s) \subseteq NewOf("table")
  PROVE  Undoes(NewTableAll(s))
<1> DEFINE seqs == [i \in DOMAIN s |-> NewTable(s[i])]
<1>1. \A o \in ToSet(s) : \A i \in DOMAIN s : s[i] = o => Undoes(seqs[i])
  <2>1. ASSUME NEW o \in ToSet(s) PROVE Undoes(NewTable(o))
    BY NewTableUndoes
  <2> QED
    BY <2>1
<1>2. seqs = [i \in DOMAIN s |-> seqs[i]]
  OBVIOUS
<1> HIDE DEF seqs
<1>3. Undoes(FlattenSeq(seqs))
  BY Zenon, <1>1, <1>2, EachUndoes
<1> QED
  BY Zenon, <1>3 DEF NewTableAll, seqs

LEMMA ChangeTableAllUndoes ==
  ASSUME Asked, NEW s \in Seq(Ids), ToSet(s) \subseteq Of(new, "table")
  PROVE  Undoes(ChangeTableAll(s))
<1> DEFINE seqs == [i \in DOMAIN s |-> ChangeTable(s[i])]
<1>1. \A o \in ToSet(s) : \A i \in DOMAIN s : s[i] = o => Undoes(seqs[i])
  <2>1. ASSUME NEW o \in ToSet(s) PROVE Undoes(ChangeTable(o))
    BY ChangeTableUndoes DEF Of
  <2> QED
    BY <2>1
<1>2. seqs = [i \in DOMAIN s |-> seqs[i]]
  OBVIOUS
<1> HIDE DEF seqs
<1>3. Undoes(FlattenSeq(seqs))
  BY Zenon, <1>1, <1>2, EachUndoes
<1> QED
  BY Zenon, <1>3 DEF ChangeTableAll, seqs

LEMMA KindsUndo ==
  ASSUME Asked, NEW kind
  PROVE  /\ Undoes(All(Create, Added, kind)) /\ Undoes(All(Drop, Removed, kind))
         /\ Undoes(All(Recreate, Changed, kind))
         /\ kind = "domain" => Undoes(All(ChangeDomain, Changed, kind))
         /\ kind = "view" => Undoes(All(LAMBDA o : Alter(o, Back(o)), Changed, kind))
         /\ Undoes(All(ChangeFunction, Changed, kind))
         /\ Undoes(All(LAMBDA o : Alter(o, << >>), Changed, kind))
         /\ Undoes(All(ChangeEnum, Changed, kind))
         /\ Undoes(All(DropFunction, Removed, kind))
<1> DEFINE a == Added(old, new, kind)
           r == Removed(old, new, kind)
           c == Changed(old, new, kind)
<1>1. /\ All(Create, Added, kind) = CreateAll(a)
      /\ All(Drop, Removed, kind) = DropAll(r)
      /\ All(Recreate, Changed, kind) = RecreateAll(c)
      /\ All(ChangeDomain, Changed, kind) = ChangeDomainAll(c)
      /\ All(ChangeFunction, Changed, kind) = ChangeFunctionAll(c)
      /\ All(LAMBDA o : Alter(o, Back(o)), Changed, kind) = AlterAll(c)
      /\ All(LAMBDA o : Alter(o, << >>), Changed, kind) = ReviseAll(c)
      /\ All(ChangeEnum, Changed, kind) = ChangeEnumAll(c)
      /\ All(DropFunction, Removed, kind) = DropFunctionAll(r)
  BY Zenon DEF All, Each, CreateAll, DropAll, RecreateAll, ChangeDomainAll,
               ChangeFunctionAll, AlterAll, ReviseAll, ChangeEnumAll, DropFunctionAll
<1>2. /\ a \in Seq(Ids) /\ ToSet(a) = {o \in Fresh : Kind[o] = kind}
      /\ r \in Seq(Ids) /\ ToSet(r) = {o \in Gone : Kind[o] = kind}
      /\ c \in Seq(Ids) /\ ToSet(c) = {o \in Shown : Kind[o] = kind}
  BY DiffComplete
<1> HIDE DEF a, r, c
<1>3. /\ ToSet(a) \subseteq Fresh /\ ToSet(r) \subseteq DOMAIN old
      /\ ToSet(c) \subseteq DOMAIN old \cap DOMAIN new /\ ToSet(c) \subseteq DOMAIN new
  BY <1>2 DEF Gone, Altered, Shown
<1>4. Undoes(CreateAll(a)) /\ Undoes(DropAll(r)) /\ Undoes(DropFunctionAll(r))
  BY Zenon, <1>2, <1>3, CreateAllUndoes, DropAllUndoes, DropFunctionAllUndoes
<1>5. /\ Undoes(RecreateAll(c)) /\ Undoes(ChangeFunctionAll(c)) /\ Undoes(ReviseAll(c))
      /\ Undoes(ChangeEnumAll(c))
  BY Zenon, <1>2, <1>3, RecreateAllUndoes, ChangeFunctionAllUndoes, ReviseAllUndoes,
     ChangeEnumAllUndoes
<1>6. ASSUME kind = "domain" PROVE Undoes(ChangeDomainAll(c))
  <2>1. ToSet(c) \subseteq {o \in Altered : Kind[o] = "domain"}
    BY <1>2, <1>6 DEF Shown
  <2> QED
    BY Zenon, <1>2, <2>1, ChangeDomainAllUndoes
<1>7. ASSUME kind = "view" PROVE Undoes(AlterAll(c))
  <2>1. ToSet(c) \subseteq {o \in Altered : Kind[o] \in {"view", "domain"}}
    BY <1>2, <1>7 DEF Shown
  <2> QED
    BY Zenon, <1>2, <2>1, AlterAllUndoes
<1> QED
  BY Zenon, <1>1, <1>4, <1>5, <1>6, <1>7

\* An edge all of whose ops have a down is made of steps that are undone.
LEMMA EdgeOpsUndo ==
  ASSUME Asked
  PROVE  Undoes(EdgeOps)
<1>1. Undoes(TypeOps)
  <2> DEFINE s1 == All(Create, Added, "enum") \o All(ChangeEnum, Changed, "enum")
                     \o All(Create, Added, "composite")
             s2 == s1 \o All(Recreate, Changed, "composite") \o All(Create, Added, "domain")
  <2>1. Undoes(s1)
    BY Zenon, KindsUndo, ThreeUndo
  <2> HIDE DEF s1
  <2>2. Undoes(s2)
    BY Zenon, <2>1, KindsUndo, ThreeUndo
  <2> HIDE DEF s2
  <2>3. Undoes(s2 \o All(ChangeDomain, Changed, "domain"))
    BY Zenon, <2>2, KindsUndo, BothUndo
  <2> QED
    BY Zenon, <2>3 DEF TypeOps, s2, s1
<1>2. Undoes(CreateOps)
  <2> DEFINE a == Added(old, new, "table")
             s1 == NewTableAll(a) \o All(Create, Added, "view")
                     \o All(Create, Added, "matview")
  <2>1. a \in Seq(Ids) /\ ToSet(a) = NewOf("table")
    BY DiffComplete DEF NewOf
  <2>2. All(NewTable, Added, "table") = NewTableAll(a)
    BY Zenon DEF All, Each, NewTableAll
  <2> HIDE DEF a
  <2>3. Undoes(NewTableAll(a))
    BY Zenon, <2>1, NewTableAllUndoes
  <2>4. Undoes(s1)
    BY Zenon, <2>3, KindsUndo, ThreeUndo
  <2> HIDE DEF s1
  <2>5. Undoes(s1 \o All(Create, Added, "sequence") \o All(Create, Added, "function"))
    BY Zenon, <2>4, KindsUndo, ThreeUndo
  <2> QED
    BY Zenon, <2>2, <2>5 DEF CreateOps, s1
<1>3. Undoes(ChangeOps)
  <2> DEFINE c == ChangedTables(old, new)
             views == All(LAMBDA o : Alter(o, Back(o)), Changed, "view")
             sequences == All(LAMBDA o : Alter(o, << >>), Changed, "sequence")
             s1 == ChangeTableAll(c) \o views \o All(Recreate, Changed, "matview")
  <2>1. c \in Seq(Ids) /\ ToSet(c) \subseteq Of(new, "table")
    BY ChangedTablesComplete
  <2>2. Each(ChangeTable, ChangedTables(old, new)) = ChangeTableAll(c)
    BY Zenon DEF Each, ChangeTableAll
  <2> HIDE DEF c
  <2>3. Undoes(ChangeTableAll(c))
    BY Zenon, <2>1, ChangeTableAllUndoes
  <2>4. /\ Undoes(views) /\ Undoes(All(Recreate, Changed, "matview"))
        /\ Undoes(sequences) /\ Undoes(All(ChangeFunction, Changed, "function"))
    BY Zenon, KindsUndo
  <2>5. ChangeOps = s1 \o sequences \o All(ChangeFunction, Changed, "function")
    BY Zenon, <2>2 DEF ChangeOps
  <2> HIDE DEF views, sequences
  <2>6. Undoes(s1)
    BY Zenon, <2>3, <2>4, ThreeUndo
  <2> HIDE DEF s1
  <2> QED
    BY Zenon, <2>4, <2>5, <2>6, ThreeUndo
<1>4. Undoes(DropOps)
  <2> DEFINE G(kind) == All(Drop, Removed, kind)
             s1 == G("table") \o G("view") \o G("matview")
             s2 == s1 \o G("sequence") \o G("enum")
             s3 == s2 \o G("composite") \o G("domain")
  <2>1. \A kind : Undoes(G(kind))
    BY Zenon, KindsUndo
  <2>2. DropOps = s3 \o All(DropFunction, Removed, "function")
    BY Zenon DEF DropOps
  <2> HIDE DEF G
  <2>3. Undoes(s1)
    BY Zenon, <2>1, ThreeUndo
  <2> HIDE DEF s1
  <2>4. Undoes(s2)
    BY Zenon, <2>1, <2>3, ThreeUndo
  <2> HIDE DEF s2
  <2>5. Undoes(s3)
    BY Zenon, <2>1, <2>4, ThreeUndo
  <2> HIDE DEF s3
  <2>6. Undoes(All(DropFunction, Removed, "function"))
    BY Zenon, KindsUndo
  <2> QED
    BY Zenon, <2>2, <2>5, <2>6, BothUndo
<1>5. Undoes(DMLOps)
  <2> DEFINE D == {c \in DOMAIN new : Becoming(c)}
             s == Among(Changed(old, new, "column"), D)
  <2>1. Changed(old, new, "column") \in Seq(Ids)
    BY DiffComplete
  <2>2. D \subseteq DOMAIN new
    OBVIOUS
  <2>3. DMLOps = BackfillAll(s)
    BY Zenon DEF DMLOps, Each, BackfillAll
  <2> HIDE DEF D
  <2>4. s \in Seq(Ids) /\ ToSet(s) \subseteq DOMAIN new
    BY <2>1, <2>2, AmongSet
  <2> HIDE DEF s
  <2> QED
    BY Zenon, <2>3, <2>4, BackfillAllUndoes
<1>6. Undoes(TypeOps \o CreateOps \o ChangeOps)
  BY Zenon, <1>1, <1>2, <1>3, ThreeUndo
<1>7. Undoes(DDLOps)
  BY Zenon, <1>4, <1>6, BothUndo DEF DDLOps
<1> QED
  BY Zenon, <1>5, <1>7, BothUndo DEF EdgeOps

(***************************************************************************)
(* The defaults: every one that is not restored is of a column that some   *)
(* op of the edge alters.                                                  *)
(***************************************************************************)
Holds(s, x) == s \in Seq(Steps) /\ x \in ToSet(s)

LEMMA OneHolds ==
  ASSUME NEW a, NEW b, NEW x, Holds(a, x), b \in Seq(Steps)
  PROVE  Holds(a \o b, x) /\ Holds(b \o a, x)
<1>1. a \in Seq(Steps) /\ x \in ToSet(a)
  BY Zenon DEF Holds
<1>2. a \o b \in Seq(Steps) /\ b \o a \in Seq(Steps)
  <2> HIDE DEF Steps
  <2> QED
    BY <1>1
<1>3. ToSet(a \o b) = ToSet(a) \cup ToSet(b) /\ ToSet(b \o a) = ToSet(b) \cup ToSet(a)
  BY <1>1, TwoParts
<1> QED
  BY Zenon, <1>1, <1>2, <1>3 DEF Holds

LEMMA EachHolds ==
  ASSUME NEW s \in Seq(Ids), NEW o \in ToSet(s), NEW x, NEW seqs,
         seqs = [i \in DOMAIN s |-> seqs[i]],
         \A i \in DOMAIN s : seqs[i] \in Seq(Steps) /\ (s[i] = o => x \in ToSet(seqs[i]))
  PROVE  Holds(FlattenSeq(seqs), x)
<1> DEFINE N == Len(s)
<1>1. DOMAIN s = 1..N /\ N \in Nat
  OBVIOUS
<1>2. PICK n \in 1..N : s[n] = o
  BY <1>1 DEF ToSet
<1>3. seqs \in Seq(Seq(Steps)) /\ Len(seqs) = N
  <2> HIDE DEF Steps, N
  <2>1. seqs \in [1..N -> Seq(Steps)]
    BY <1>1
  <2> QED
    BY <1>1, <2>1
<1> HIDE DEF N
<1>4. /\ FlattenSeq(seqs) \in Seq(Steps)
      /\ ToSet(FlattenSeq(seqs)) = UNION {ToSet(seqs[i]) : i \in 1..N}
  BY Zenon, <1>3, FlattenElements
<1>5. x \in ToSet(seqs[n])
  BY Zenon, <1>1, <1>2
<1> QED
  BY Zenon, <1>2, <1>4, <1>5 DEF Holds

LEMMA ChangeColumnAlters ==
  ASSUME Asked, NEW c \in Defaulted
  PROVE  \E x : Holds(ChangeColumn(c), x) /\ x.up.do = "alter" /\ x.up.id = c
<1>1. c \in Altered /\ Kind[c] = "column" /\ Aspect[c] \in {"default", "expression"}
  BY Zenon, DefaultedColumn
<1>2. ChangeColumn(c) \in Seq(Steps)
  BY Zenon, <1>1, ChangeColumnUndoes DEF Undoes
<1> DEFINE former == IF new[c] = 2 THEN 0 ELSE Rendered(c, old[c])
           x == Step("alter", c, Rendered(c, new[c]), << Op("alter", c, former) >>)
<1>3. ChangeColumn(c) = << x >>
  BY <1>1 DEF ChangeColumn
<1>4. x.up.do = "alter" /\ x.up.id = c
  BY DEF Step, Op
<1> HIDE DEF x
<1>5. x \in ToSet(<< x >>)
  BY DEF ToSet
<1> QED
  BY Zenon, <1>2, <1>3, <1>4, <1>5 DEF Holds

LEMMA ChangeTableAlters ==
  ASSUME Asked, NEW t \in DOMAIN new, Kind[t] = "table", NEW c \in In(Shown, t, "column"),
         NEW x, Holds(ChangeColumn(c), x)
  PROVE  Holds(ChangeTable(t), x)
<1> DEFINE s == Alt(t, "column")
           seqs == [i \in DOMAIN s |-> ChangeColumn(s[i])]
           a == Unpaired(Add(t, "column"))
           s1 == ColumnOps(t) \o FKOps(t) \o IndexOps(t)
           s2 == s1 \o ConstraintOps(t, "unique") \o ConstraintOps(t, "check")
           s3 == s2 \o Each(Drop, Unpaired(Rem(t, "column"))) \o GuardOps(t, "trigger")
<1>1. {"column", "unique", "check", "trigger", "policy"} \subseteq PartKinds
  BY DEF PartKinds
<1>2. s \in Seq(Ids) /\ ToSet(s) = In(Shown, t, "column")
  BY <1>1, PartLists
<1>3. Holds(ChangeColumnAll(s), x)
  <2>1. seqs = [i \in DOMAIN s |-> seqs[i]]
    OBVIOUS
  <2>2. ASSUME NEW i \in DOMAIN s PROVE ChangeColumn(s[i]) \in Seq(Steps)
    <3>1. s[i] \in Altered /\ Kind[s[i]] = "column"
      BY <1>2 DEF ToSet, In, Shown
    <3> QED
      BY Zenon, <3>1, ChangeColumnUndoes DEF Undoes
  <2>3. \A i \in DOMAIN s : seqs[i] = ChangeColumn(s[i])
    OBVIOUS
  <2>4. ChangeColumnAll(s) = FlattenSeq(seqs)
    BY Zenon DEF ChangeColumnAll
  <2> HIDE DEF s, seqs
  <2>5. \A i \in DOMAIN s : seqs[i] \in Seq(Steps) /\ (s[i] = c => x \in ToSet(seqs[i]))
    BY Zenon, <2>2, <2>3 DEF Holds
  <2>6. s \in Seq(Ids) /\ c \in ToSet(s)
    BY Zenon, <1>2
  <2>7. Holds(FlattenSeq(seqs), x)
    BY <2>1, <2>5, <2>6, EachHolds
  <2> QED
    BY Zenon, <2>4, <2>7
<1>4. Holds(ColumnOps(t), x)
  <2>1. ColumnOps(t) = RenameOps(t) \o CreateAll(a) \o ChangeColumnAll(s)
    BY Zenon DEF ColumnOps, Each, CreateAll, ChangeColumnAll
  <2>2. Add(t, "column") \in Seq(Ids) /\ ToSet(Add(t, "column")) = In(Fresh, t, "column")
    BY <1>1, PartLists
  <2>3. a \in Seq(Ids) /\ ToSet(a) = In(Fresh, t, "column") \ Paired
    BY <2>2, UnpairedIs
  <2> HIDE DEF a, s
  <2>4. ToSet(a) \subseteq Fresh
    BY <2>3 DEF In
  <2>5. Undoes(RenameOps(t)) /\ Undoes(CreateAll(a))
    BY Zenon, <2>3, <2>4, RenamesUndo, CreateAllUndoes
  <2>6. RenameOps(t) \o CreateAll(a) \in Seq(Steps)
    BY Zenon, <2>5, BothUndo DEF Undoes
  <2> QED
    BY Zenon, <1>3, <2>1, <2>6, OneHolds
<1>5. FKOps(t) \in Seq(Steps) /\ IndexOps(t) \in Seq(Steps)
  BY Zenon, FKOpsSettle, IndexOpsSettle DEF Settles
<1>6. ConstraintOps(t, "unique") \in Seq(Steps) /\ ConstraintOps(t, "check") \in Seq(Steps)
  <2>1. "unique" \in PartKinds /\ "check" \in PartKinds
    BY <1>1
  <2> QED
    BY Zenon, <2>1, ConstraintsUndo DEF Undoes
<1>7. GuardOps(t, "trigger") \in Seq(Steps) /\ GuardOps(t, "policy") \in Seq(Steps)
  <2>1. "trigger" \in PartKinds /\ "policy" \in PartKinds
    BY <1>1
  <2> QED
    BY Zenon, <2>1, GuardOpsSettle DEF Settles
<1>8. /\ Each(Drop, Unpaired(Rem(t, "column"))) \in Seq(Steps)
      /\ SecurityOps(t) \in Seq(Steps)
  BY Zenon, ColumnOpsSettle, SecurityOpsUndo DEF Settles, Undoes
<1>9. Holds(s1, x)
  BY Zenon, <1>4, <1>5, OneHolds
<1> HIDE DEF s1
<1>10. Holds(s2, x)
  BY Zenon, <1>6, <1>9, OneHolds
<1> HIDE DEF s2
<1>11. Holds(s3, x)
  BY Zenon, <1>7, <1>8, <1>10, OneHolds
<1> HIDE DEF s3
<1>12. ChangeTable(t) = s3 \o SecurityOps(t) \o GuardOps(t, "policy")
  BY Zenon DEF ChangeTable, s3, s2, s1
<1> QED
  BY Zenon, <1>7, <1>8, <1>11, <1>12, OneHolds

\* The tables of both schemas whose columns change are among those that do.
LEMMA EdgeAlters ==
  ASSUME Asked, NEW c \in Defaulted
  PROVE  \E x \in ToSet(EdgeOps) : x.up.do = "alter" /\ x.up.id = c
<1> DEFINE t == Owner[c]
           s == ChangedTables(old, new)
           seqs == [i \in DOMAIN s |-> ChangeTable(s[i])]
<1>1. c \in Altered /\ Kind[c] = "column" /\ "column" \in PartKinds
  BY DefaultedColumn DEF PartKinds
<1>2. c \in Ids /\ Top(c) \in DOMAIN old /\ Top(c) \in DOMAIN new
  <2>1. c \in DOMAIN old /\ c \in DOMAIN new
    BY Zenon, <1>1, FormerIs
  <2> QED
    BY Zenon, <2>1, InSchema DEF Asked
<1>3. t \in DOMAIN old /\ t \in DOMAIN new /\ Kind[t] = "table" /\ t \in Ids
  BY Zenon, <1>1, <1>2, PartOrNot
<1>4. c \in Shown /\ c \in In(Shown, t, "column")
  BY <1>1, DefaultedColumn DEF In, Shown
<1>5. s \in Seq(Ids) /\ ToSet(s) \subseteq Of(new, "table") /\ t \in ToSet(s)
  <2>1. c \in Reworks(t)
    BY <1>1, <1>4 DEF Reworks, Stirred
  <2>2. t \in Reworked
    BY <1>3, <2>1 DEF Reworked
  <2> QED
    BY <2>2, ChangedTablesComplete
<1>6. PICK x : Holds(ChangeColumn(c), x) /\ x.up.do = "alter" /\ x.up.id = c
  BY Zenon, ChangeColumnAlters
<1> HIDE DEF t
<1>7. Holds(ChangeTable(t), x)
  BY Zenon, <1>3, <1>4, <1>6, ChangeTableAlters
<1>8. Holds(ChangeTableAll(s), x)
  <2>1. seqs = [i \in DOMAIN s |-> seqs[i]] /\ \A i \in DOMAIN s : seqs[i] = ChangeTable(s[i])
    OBVIOUS
  <2>2. ChangeTableAll(s) = FlattenSeq(seqs)
    BY Zenon DEF ChangeTableAll
  <2>3. Each(ChangeTable, ChangedTables(old, new)) = ChangeTableAll(s)
    BY Zenon DEF Each, ChangeTableAll
  <2> HIDE DEF s, seqs
  <2>4. ASSUME NEW i \in DOMAIN s PROVE ChangeTable(s[i]) \in Seq(Steps)
    <3>1. s[i] \in DOMAIN new /\ Kind[s[i]] = "table"
      BY <1>5 DEF ToSet, Of
    <3> QED
      BY Zenon, <3>1, ChangeTableUndoes DEF Undoes
  <2>5. \A i \in DOMAIN s : seqs[i] \in Seq(Steps) /\ (s[i] = t => x \in ToSet(seqs[i]))
    BY Zenon, <1>7, <2>1, <2>4 DEF Holds
  <2>6. Holds(FlattenSeq(seqs), x)
    BY <1>5, <2>1, <2>5, EachHolds
  <2> QED
    BY Zenon, <2>2, <2>6
<1>9. Holds(ChangeOps, x)
  <2> DEFINE views == All(LAMBDA o : Alter(o, Back(o)), Changed, "view")
             sequences == All(LAMBDA o : Alter(o, << >>), Changed, "sequence")
             s1 == ChangeTableAll(s) \o views \o All(Recreate, Changed, "matview")
  <2>1. Each(ChangeTable, ChangedTables(old, new)) = ChangeTableAll(s)
    BY Zenon DEF Each, ChangeTableAll
  <2> HIDE DEF s
  <2>2. /\ views \in Seq(Steps) /\ All(Recreate, Changed, "matview") \in Seq(Steps)
        /\ sequences \in Seq(Steps) /\ All(ChangeFunction, Changed, "function") \in Seq(Steps)
    BY Zenon, KindsUndo DEF Undoes
  <2>3. ChangeOps = s1 \o sequences \o All(ChangeFunction, Changed, "function")
    BY Zenon, <2>1 DEF ChangeOps
  <2> HIDE DEF views, sequences
  <2>4. Holds(s1, x)
    BY Zenon, <1>8, <2>2, OneHolds
  <2> HIDE DEF s1
  <2> QED
    BY Zenon, <2>2, <2>3, <2>4, OneHolds
<1>10. /\ TypeOps \in Seq(Steps) /\ CreateOps \in Seq(Steps) /\ DropOps \in Seq(Steps)
       /\ DMLOps \in Seq(Steps)
  BY Zenon, TypeOpsSettle, CreateOpsSettle, DropOpsSettle, DMLOpsSettle DEF Settles
<1>11. Holds(TypeOps \o CreateOps \o ChangeOps, x)
  <2>1. TypeOps \o CreateOps \in Seq(Steps)
    <3>1. Settles(TypeOps, TypesOf) /\ Settles(CreateOps, CreatesOf)
      BY Zenon, TypeOpsSettle, CreateOpsSettle DEF TypesOf, CreatesOf
    <3>2. Settles(TypeOps \o CreateOps, TypesOf \cup CreatesOf)
      BY Zenon, <3>1, BothSettle
    <3> QED
      BY Zenon, <3>2 DEF Settles
  <2> QED
    BY Zenon, <1>9, <2>1, OneHolds
<1>12. Holds(EdgeOps, x)
  BY Zenon, <1>10, <1>11, OneHolds DEF EdgeOps, DDLOps
<1> QED
  BY Zenon, <1>6, <1>12 DEF Holds

-----------------------------------------------------------------------------
(***************************************************************************)
(* The database: no reference dangles while an edge all of whose ops have  *)
(* a down is applied, and nothing goes but the old names of columns.       *)
(***************************************************************************)
Entries == [ver : Versions, uses : SUBSET Ids, from : Ids \cup {NoOwner}]

Sound(s) == /\ s \in [DOMAIN s -> Entries] /\ DOMAIN s \subseteq Ids
            /\ \A p \in DOMAIN s : s[p].uses \subseteq DOMAIN s /\ Top(p) \in DOMAIN s
            /\ DOMAIN old \ {p[1] : p \in declared} \subseteq DOMAIN s

LEMMA StoredIs ==
  ASSUME NEW o \in Ids, NEW v \in Versions, NEW from \in Ids \cup {NoOwner}
  PROVE  /\ Stored(o, v, from) \in Entries /\ VersionUses(o, v) \subseteq Ids
         /\ Stored(o, v, from).ver = v /\ Stored(o, v, from).uses = VersionUses(o, v)
         /\ Stored(o, v, from).from = from
<1>1. Uses[o][1] \cup Uses[o][2] \subseteq Ids
  BY Zenon, Catalog
<1>2. v = 0 \/ v = 1 \/ v = 2
  BY DEF Versions
<1>3. VersionUses(o, v) \subseteq Ids
  BY <1>1, <1>2 DEF VersionUses
<1> QED
  BY <1>3 DEF Stored, Entries

LEMMA SoundOld ==
  ASSUME Asked
  PROVE  Sound(Database(old))
<1> DEFINE s == Database(old)
<1>1. DOMAIN s = DOMAIN old /\ \A o \in DOMAIN old : s[o] = Stored(o, old[o], o)
  BY DEF Database
<1>2. s = [o \in DOMAIN s |-> s[o]]
  BY DEF Database
<1> HIDE DEF s
<1>3. ASSUME NEW o \in DOMAIN old
      PROVE  /\ o \in Ids /\ s[o] \in Entries /\ s[o].uses \subseteq DOMAIN old
             /\ Top(o) \in DOMAIN old
  <2>1. o \in Ids /\ old[o] \in {1, 2} /\ Top(o) \in DOMAIN old
    BY InSchema DEF Asked
  <2>2. old[o] \in Versions /\ VersionUses(o, old[o]) = Uses[o][old[o]]
    BY <2>1 DEF Versions, VersionUses
  <2>3. Uses[o][old[o]] \subseteq DOMAIN old
    BY DEF Asked, IsSchema
  <2>4. s[o] \in Entries /\ s[o].uses = VersionUses(o, old[o])
    BY <1>1, <2>1, <2>2, StoredIs
  <2> QED
    BY <2>1, <2>2, <2>3, <2>4
<1>4. s \in [DOMAIN s -> Entries]
  BY <1>1, <1>2, <1>3
<1>5. Sound(s)
  BY <1>1, <1>3, <1>4 DEF Sound
<1> QED
  BY Zenon, <1>5 DEF s

\* A new table brings columns that are new.
LEMMA NewColumns ==
  ASSUME Asked, NEW o \in Fresh
  PROVE  \A p \in Columns(new, o) : /\ p \in Fresh /\ p \in Ids /\ new[p] \in Versions
                                    /\ Owner[p] = o /\ Top(p) = o /\ Kind[o] = "table"
<1> SUFFICES ASSUME NEW p \in Columns(new, o)
             PROVE  /\ p \in Fresh /\ p \in Ids /\ new[p] \in Versions
                    /\ Owner[p] = o /\ Top(p) = o /\ Kind[o] = "table"
  BY Zenon
<1>1. p \in DOMAIN new /\ Kind[p] = "column" /\ Owner[p] = o /\ Kind[o] = "table"
  BY DEF Columns, PartsOf, Parts, Of
<1>2. p \in Ids /\ new[p] \in Versions
  <2>1. p \in Ids /\ new[p] \in {1, 2}
    BY <1>1, InSchema DEF Asked
  <2> QED
    BY <2>1 DEF Versions
<1>3. Top(p) = o
  BY <1>1, <1>2, PartOrNot DEF PartKinds
<1>4. p \notin DOMAIN old
  <2>1. ASSUME p \in DOMAIN old PROVE o \in DOMAIN old
    BY <1>3, <2>1, InSchema DEF Asked
  <2> QED
    BY <2>1 DEF Fresh
<1> QED
  BY <1>1, <1>2, <1>3, <1>4 DEF Fresh

\* What the database holds once an object is created.
Created(s, o, v) == [p \in DOMAIN s \cup {o} \cup Columns(new, o) |->
                       IF p \in DOMAIN s THEN s[p]
                       ELSE Stored(p, IF p = o THEN v ELSE new[p], NoOwner)]

LEMMA CreatedIs ==
  ASSUME Asked, NEW s, Sound(s), NEW o \in Fresh, NEW v \in Versions,
         CanCreate(s, new, Gaps, o, v)
  PROVE  /\ Sound(Created(s, o, v))
         /\ DOMAIN Created(s, o, v) = DOMAIN s \cup {o} \cup Columns(new, o)
         /\ o \notin DOMAIN s /\ Columns(new, o) \cap DOMAIN s = {}
         /\ \A p \in DOMAIN s : Created(s, o, v)[p] = s[p]
         /\ Created(s, o, v)[o].ver = v
         /\ \A p \in {o} \cup Columns(new, o) : Created(s, o, v)[p].uses \subseteq DOMAIN s
<1> DEFINE t == Created(s, o, v)
           C == Columns(new, o)
           N == {o} \cup C
           ver(p) == IF p = o THEN v ELSE new[p]
<1>1. /\ o \notin DOMAIN s /\ Top(o) \in DOMAIN s \cup {o}
      /\ UNION {VersionUses(p, ver(p)) : p \in N} \subseteq DOMAIN s
  BY DEF CanCreate
<1>2. o \in Ids
  <2>1. o \in DOMAIN new
    BY DEF Fresh
  <2> QED
    BY <2>1, InSchema DEF Asked
<1>3. \A p \in C : p \in Ids /\ new[p] \in Versions /\ Top(p) = o /\ p \in Fresh
  BY Zenon, NewColumns
<1>4. /\ DOMAIN s \subseteq Ids /\ s \in [DOMAIN s -> Entries]
      /\ \A p \in DOMAIN s : s[p].uses \subseteq DOMAIN s /\ Top(p) \in DOMAIN s
      /\ DOMAIN old \ {p[1] : p \in declared} \subseteq DOMAIN s
  BY Zenon DEF Sound
<1>5. C \cap DOMAIN s = {} /\ N \cap DOMAIN s = {} /\ N \subseteq Ids
  BY <1>1, <1>2, <1>3, <1>4
<1>6. /\ DOMAIN t = DOMAIN s \cup {o} \cup C /\ t = [p \in DOMAIN t |-> t[p]]
      /\ \A p \in DOMAIN s : t[p] = s[p]
  BY DEF Created
<1>7. \A p \in N : t[p] = Stored(p, ver(p), NoOwner)
  BY <1>5 DEF Created
<1>8. \A p \in N : ver(p) \in Versions /\ ver(o) = v
  BY <1>3
<1> HIDE DEF t, N, C, ver
<1>9. ASSUME NEW p \in N
      PROVE  t[p] \in Entries /\ t[p].uses \subseteq DOMAIN s /\ t[p].ver = ver(p)
  <2>1. t[p] \in Entries /\ t[p].uses = VersionUses(p, ver(p)) /\ t[p].ver = ver(p)
    BY <1>5, <1>7, <1>8, StoredIs
  <2>2. VersionUses(p, ver(p)) \subseteq DOMAIN s
    BY Zenon, <1>1
  <2> QED
    BY Zenon, <2>1, <2>2
<1>10. \A p \in DOMAIN t : t[p] \in Entries /\ t[p].uses \subseteq DOMAIN t
  BY <1>4, <1>6, <1>9 DEF N
<1>11. \A p \in DOMAIN t : Top(p) \in DOMAIN t
  BY <1>1, <1>3, <1>4, <1>6
<1>12. Sound(t)
  <2>1. t \in [DOMAIN t -> Entries]
    BY <1>6, <1>10
  <2>2. DOMAIN t \subseteq Ids
    BY <1>4, <1>5, <1>6 DEF N
  <2>3. DOMAIN old \ {p[1] : p \in declared} \subseteq DOMAIN t
    BY Zenon, <1>4, <1>6
  <2> QED
    BY Zenon, <1>10, <1>11, <2>1, <2>2, <2>3 DEF Sound
<1>13. t[o].ver = v
  BY <1>8, <1>9 DEF N
<1> QED
  BY Zenon, <1>1, <1>5, <1>6, <1>9, <1>12, <1>13 DEF t, C, N

\* What a down sets, and what that uses.
LEMMA RestorableIs ==
  ASSUME Asked, NEW o \in Restorable
  PROVE  /\ o \in Ids /\ Former(o) \in Versions /\ o \in DOMAIN new
         /\ VersionUses(o, Former(o)) \subseteq DOMAIN old
         /\ Aspect[o] \notin {"type", "collation"} /\ ~RowsRefuse(Gaps, o, Former(o))
         /\ o \notin Outrun =>
              \A p \in declared : p[1] \notin VersionUses(o, Former(o))
<1>1. /\ o \in Fresh \cup Altered /\ Aspect[o] \notin {"type", "collation"}
      /\ o \in Fresh => Kind[o] = "table"
      /\ Kind[o] # "view" => \A p \in declared : p[1] \notin VersionUses(o, Former(o))
  BY Zenon DEF Restorable
<1>2. o \in DOMAIN new
  BY <1>1 DEF Fresh, Altered
<1>3. o \in Ids
  BY <1>2, InSchema DEF Asked
<1>4. /\ Former(o) \in Versions /\ (o \in Fresh => Former(o) = 1)
      /\ o \in Altered => /\ o \in DOMAIN old
                          /\ Former(o) = IF o \in Defaulted THEN 0 ELSE old[o]
                          /\ old[o] \in {1, 2}
  BY Zenon, <1>1, FormerIs
<1>5. CASE o \in Fresh
  <2>1. Uses[o][1] \cup Uses[o][2] = {}
    BY Zenon, <1>1, <1>3, <1>5, Catalog
  <2>2. VersionUses(o, Former(o)) = {}
    BY <1>4, <1>5, <2>1 DEF VersionUses
  <2>3. ~RowsRefuse(Gaps, o, Former(o))
    BY <1>4, <1>5 DEF RowsRefuse, NotNull
  <2> QED
    BY <1>1, <1>2, <1>3, <1>4, <2>2, <2>3
<1>6. CASE o \in Altered
  <2>1. Former(o) = 0 \/ (Former(o) = old[o] /\ o \notin Defaulted /\ old[o] # 0)
    BY <1>4, <1>6
  <2>2. Uses[o][old[o]] \subseteq DOMAIN old
    BY <1>6, UsesIs
  <2>3. VersionUses(o, Former(o)) \subseteq DOMAIN old
    BY <2>1, <2>2 DEF VersionUses
  <2>4. ~RowsRefuse(Gaps, o, Former(o))
    BY <1>4, <1>6, <2>1 DEF RowsRefuse, NotNull, Gaps
  <2>5. ASSUME NEW p \in declared, p[1] \in VersionUses(o, Former(o))
        PROVE  o \in Outrun
    <3>1. Kind[o] = "view"
      BY Zenon, <1>1, <2>5
    <3>2. p[1] \in VersionUses(o, old[o])
      BY <2>1, <2>5 DEF VersionUses
    <3> QED
      BY <1>6, <3>1, <3>2 DEF Outrun
  <2> QED
    BY Zenon, <1>1, <1>2, <1>3, <1>4, <2>3, <2>4, <2>5
<1> QED
  BY <1>1, <1>5, <1>6

\* A database on the way back: what the ops after this one altered has what it
\* had before the change.
Restored(t, L) == [o \in DOMAIN t |-> IF o \in L THEN Stored(o, Former(o), t[o].from)
                                                 ELSE t[o]]

LEMMA RestoredIs ==
  ASSUME Asked, NEW t, Sound(t), NEW L, L \subseteq Restorable
  PROVE  /\ DOMAIN Restored(t, L) = DOMAIN t
         /\ \A p \in DOMAIN t :
              /\ Restored(t, L)[p].from = t[p].from
              /\ Restored(t, L)[p].uses \subseteq t[p].uses \cup DOMAIN old
              /\ p \notin L => Restored(t, L)[p] = t[p]
              /\ p \in L => /\ Restored(t, L)[p] = Stored(p, Former(p), t[p].from)
                            /\ Restored(t, L)[p].uses \subseteq DOMAIN old
              /\ t[p].from \in Ids \cup {NoOwner}
<1>1. /\ DOMAIN Restored(t, L) = DOMAIN t
      /\ \A p \in DOMAIN t :
           Restored(t, L)[p] = IF p \in L THEN Stored(p, Former(p), t[p].from) ELSE t[p]
  BY DEF Restored
<1>2. \A p \in DOMAIN t : t[p].from \in Ids \cup {NoOwner}
  BY DEF Sound, Entries
<1>3. ASSUME NEW p \in DOMAIN t, p \in L
      PROVE  /\ Stored(p, Former(p), t[p].from).from = t[p].from
             /\ Stored(p, Former(p), t[p].from).uses \subseteq DOMAIN old
  <2>1. p \in Ids /\ Former(p) \in Versions /\ VersionUses(p, Former(p)) \subseteq DOMAIN old
    BY <1>3, RestorableIs
  <2>2. ASSUME NEW f \in Ids \cup {NoOwner}
        PROVE  /\ Stored(p, Former(p), f).uses = VersionUses(p, Former(p))
               /\ Stored(p, Former(p), f).from = f
    BY <2>1, StoredIs
  <2> QED
    BY <1>2, <2>1, <2>2
<1> QED
  BY <1>1, <1>2, <1>3

\* CASCADE takes nothing along where nothing is in the way.
LEMMA CascadeAlone ==
  ASSUME NEW s, DOMAIN s \subseteq Ids, NEW o \in Ids,
         Users(s, {o}) = {}, \A p \in DOMAIN s : Owner[p] # o
  PROVE  Cascade(s, {o}) = {o}
<1> DEFINE more(T) == Users(s, T) \cup {p \in DOMAIN s \ T : Owner[p] \in T}
           Body(f) == [T \in SUBSET Ids |-> IF more(T) = {} THEN T ELSE f[T \cup more(T)]]
           Closed == {U \in SUBSET Ids : more(U) = {}}
           closure == [T \in SUBSET Ids |->
                         {x \in Ids : \A U \in Closed : T \subseteq U => x \in U}]
           taken == CHOOSE f : f = Body(f)
<1>1. Cascade(s, {o}) = taken[{o}]
  BY DEF Cascade
<1>2. \A T \in SUBSET Ids : T \cup more(T) \in SUBSET Ids
  BY DEF Users
<1>3. ASSUME NEW T \in SUBSET Ids, NEW U \in Closed, T \subseteq U
      PROVE  T \cup more(T) \subseteq U
  BY <1>3 DEF Users
<1>4. closure = Body(closure)
  <2>1. ASSUME NEW T \in SUBSET Ids
        PROVE  closure[T] = IF more(T) = {} THEN T ELSE closure[T \cup more(T)]
    <3>1. CASE more(T) = {}
      <4>1. T \in Closed
        BY <3>1
      <4> HIDE DEF Closed, more
      <4>2. closure[T] = T
        BY <4>1
      <4> QED
        BY Zenon, <3>1, <4>2
    <3>2. CASE more(T) # {}
      <4>1. \A U \in Closed : T \subseteq U <=> T \cup more(T) \subseteq U
        BY <1>3
      <4>2. T \cup more(T) \in SUBSET Ids
        BY <1>2
      <4> HIDE DEF Closed, more
      <4>3. closure[T] = closure[T \cup more(T)]
        BY <4>1, <4>2
      <4> QED
        BY Zenon, <3>2, <4>3
    <3> QED
      BY <3>1, <3>2
  <2> HIDE DEF more, Closed
  <2>2. closure = [T \in SUBSET Ids |-> closure[T]]
    OBVIOUS
  <2> HIDE DEF closure
  <2> QED
    BY <2>1, <2>2
<1>5. taken = Body(taken)
  <2> HIDE DEF Body, closure
  <2> QED
    BY Zenon, <1>4
<1>6. more({o}) = {}
  <2>1. {p \in DOMAIN s \ {o} : Owner[p] \in {o}} = {}
    OBVIOUS
  <2> QED
    BY <2>1
<1> HIDE DEF more, taken
<1>7. taken[{o}] = {o}
  BY <1>5, <1>6
<1> QED
  BY Zenon, <1>1, <1>7

\* Dropping what was created, and has not been used since, leaves what was
\* there before.
LEMMA CreateUndone ==
  ASSUME Asked, NEW s, Sound(s), NEW o \in Fresh, NEW v \in Versions,
         CanCreate(s, new, Gaps, o, v), Aspect[o] = "signature" => v = new[o],
         NEW L, L \subseteq Restorable
  PROVE  LET db1 == Restored(Created(s, o, v), L)
         IN /\ CanDrop(db1, o, new[o])
            /\ Restrict(db1, DOMAIN db1 \ Dropped(db1, o)) = Restored(s, L)
<1> DEFINE t == Created(s, o, v)
           C == Columns(new, o)
           d == Restored(t, L)
<1>1. /\ Sound(t) /\ DOMAIN t = DOMAIN s \cup {o} \cup C
      /\ o \notin DOMAIN s /\ C \cap DOMAIN s = {}
      /\ \A p \in DOMAIN s : t[p] = s[p]
      /\ t[o].ver = v
      /\ \A p \in {o} \cup C : t[p].uses \subseteq DOMAIN s
  BY SMTT(30), CreatedIs
<1>2. o \in Ids
  <2>1. o \in DOMAIN new
    BY DEF Fresh
  <2> QED
    BY <2>1, InSchema DEF Asked
<1>3. \A p \in C : p \in Fresh /\ Owner[p] = o /\ Kind[o] = "table"
  BY Zenon, NewColumns
<1>4. \A p \in DOMAIN s : s[p].uses \subseteq DOMAIN s /\ Top(p) \in DOMAIN s
  BY Zenon DEF Sound
<1>5. \A p \in {o} \cup C : p \notin DOMAIN old
  BY <1>3 DEF Fresh
<1>6. /\ DOMAIN d = DOMAIN t
      /\ \A p \in DOMAIN t : /\ d[p].uses \subseteq t[p].uses \cup DOMAIN old
                             /\ p \notin L => d[p] = t[p]
                             /\ p \in L => d[p] = Stored(p, Former(p), t[p].from)
  <2> HIDE DEF t
  <2> QED
    BY <1>1, RestoredIs
<1> HIDE DEF t, C, d
<1>7. \A p \in DOMAIN d : d[p].uses \cap ({o} \cup C) = {}
  <2>1. ASSUME NEW p \in DOMAIN d PROVE d[p].uses \cap ({o} \cup C) = {}
    <3>1. t[p].uses \subseteq DOMAIN s
      BY <1>1, <1>4, <1>6
    <3>2. d[p].uses \subseteq DOMAIN s \cup DOMAIN old
      BY Zenon, <1>6, <3>1
    <3> QED
      BY <1>1, <1>5, <3>2
  <2> QED
    BY Zenon, <2>1
<1>8. \A p \in DOMAIN s : Owner[p] # o
  <2>1. ASSUME NEW p \in DOMAIN s, Owner[p] = o PROVE FALSE
    <3>1. o # NoOwner
      BY <1>2, Catalog
    <3>2. Top(p) = o
      BY <2>1, <3>1 DEF Top
    <3> QED
      BY <1>1, <1>4, <3>2
  <2> QED
    BY <2>1
<1>9. \A S \in SUBSET ({o} \cup C) : Users(d, S) = {}
  BY <1>7 DEF Users
<1>10. Takes(d, o) \subseteq {o} \cup C /\ o \in Takes(d, o) /\ Takes(d, o) \cap DOMAIN s = {}
  <2>1. Users(d, {o}) = {}
    BY <1>9
  <2>2. Parts(d, o) \subseteq {o} \cup C
    BY <1>1, <1>6, <1>8 DEF Parts
  <2>3. Takes(d, o) \subseteq {o} \cup C /\ o \in Takes(d, o)
    <3>1. CASE Kind[o] = "table"
      BY <2>2, <3>1 DEF Takes
    <3>2. CASE Kind[o] = "column"
      BY <2>1, <3>2 DEF Takes
    <3>3. CASE Kind[o] \notin {"table", "column"}
      BY <3>3 DEF Takes
    <3> QED
      BY <3>1, <3>2, <3>3
  <2> QED
    BY <1>1, <2>3
<1>11. Users(d, Takes(d, o)) = {}
  BY <1>9, <1>10
<1>12. CanDrop(d, o, new[o])
  <2>1. o \in DOMAIN d
    BY <1>1, <1>6
  <2>2. ASSUME Aspect[o] = "signature" PROVE d[o].ver = new[o]
    <3>1. Kind[o] # "table"
      BY <1>2, <2>2, AspectKinds
    <3>2. o \notin L
      BY <3>1 DEF Restorable, Fresh, Altered
    <3> QED
      BY <1>1, <1>6, <2>1, <2>2, <3>2
  <2> QED
    BY Zenon, <1>11, <2>1, <2>2 DEF CanDrop
<1>13. DOMAIN d \ Dropped(d, o) = DOMAIN s
  <2>1. CASE Cascades(o)
    <3>1. Kind[o] # "table"
      BY <2>1 DEF Cascades
    <3>2. C = {}
      BY <3>1, <1>3
    <3>3. \A p \in DOMAIN d : Owner[p] # o
      <4>1. Owner[o] # o
        BY <1>2, <3>1, Catalog
      <4> QED
        BY <1>1, <1>6, <1>8, <3>2, <4>1
    <3>4. Users(d, {o}) = {} /\ DOMAIN d \subseteq Ids
      <4>1. DOMAIN t \subseteq Ids
        BY Zenon, <1>1 DEF Sound
      <4> QED
        BY <1>6, <1>9, <4>1
    <3>5. Cascade(d, {o}) = {o}
      BY <1>2, <3>3, <3>4, CascadeAlone
    <3>6. Dropped(d, o) = {o}
      BY Zenon, <2>1, <3>5 DEF Dropped
    <3> QED
      BY <1>1, <1>6, <3>2, <3>6
  <2>2. CASE ~Cascades(o)
    <3>1. Dropped(d, o) = Takes(d, o)
      BY Zenon, <2>2 DEF Dropped
    <3>2. C \subseteq Takes(d, o)
      BY <1>1, <1>3, <1>6 DEF Takes, Parts
    <3> QED
      BY <1>1, <1>6, <1>10, <3>1, <3>2
  <2> QED
    BY <2>1, <2>2
<1>14. Restrict(d, DOMAIN d \ Dropped(d, o)) = Restored(s, L)
  <2>1. \A p \in DOMAIN s : d[p] = IF p \in L THEN Stored(p, Former(p), s[p].from) ELSE s[p]
    BY Zenon, <1>1, <1>6
  <2>2. Restrict(d, DOMAIN s) = [p \in DOMAIN s |-> d[p]]
    BY DEF Restrict
  <2>3. [p \in DOMAIN s |-> d[p]] = Restored(s, L)
    BY <2>1 DEF Restored
  <2> QED
    BY Zenon, <1>13, <2>2, <2>3
<1> QED
  BY Zenon, <1>12, <1>14 DEF d, t

\* What the database holds once an object is altered.
AlteredTo(s, o, v) == [s EXCEPT ![o] = Stored(o, v, @.from)]

\* Altering back what was altered, unless a view is to name a column that has
\* its new name still.
LEMMA AlterUndone ==
  ASSUME Asked, NEW s, Sound(s), NEW o \in Restorable, NEW v \in Versions,
         CanAlter(s, Gaps, o, v), NEW L, L \subseteq Restorable
  PROVE  LET t == AlteredTo(s, o, v)
             db1 == Restored(t, L)
         IN /\ Sound(t)
            /\ o \notin Outrun => CanAlter(db1, Gaps, o, Former(o))
            /\ AlteredTo(db1, o, Former(o)) = Restored(s, L \cup {o})
<1> DEFINE t == AlteredTo(s, o, v)
           d == Restored(t, L)
           back == AlteredTo(d, o, Former(o))
<1>1. o \in DOMAIN s /\ VersionUses(o, v) \subseteq DOMAIN s
  BY DEF CanAlter
<1>2. /\ o \in Ids /\ Former(o) \in Versions
      /\ VersionUses(o, Former(o)) \subseteq DOMAIN old
      /\ Aspect[o] \notin {"type", "collation"} /\ ~RowsRefuse(Gaps, o, Former(o))
      /\ o \notin Outrun => \A p \in declared : p[1] \notin VersionUses(o, Former(o))
  BY Zenon, RestorableIs
<1>3. /\ s \in [DOMAIN s -> Entries] /\ DOMAIN s \subseteq Ids
      /\ \A p \in DOMAIN s : s[p].uses \subseteq DOMAIN s /\ Top(p) \in DOMAIN s
      /\ DOMAIN old \ {p[1] : p \in declared} \subseteq DOMAIN s
  BY Zenon DEF Sound
<1>4. s[o].from \in Ids \cup {NoOwner}
  BY <1>1, <1>3 DEF Entries
<1>5. /\ Stored(o, v, s[o].from) \in Entries
      /\ Stored(o, v, s[o].from).uses = VersionUses(o, v)
      /\ Stored(o, v, s[o].from).from = s[o].from
  BY <1>2, <1>4, StoredIs
<1>6. /\ DOMAIN t = DOMAIN s /\ t[o] = Stored(o, v, s[o].from)
      /\ \A p \in DOMAIN s : p # o => t[p] = s[p]
      /\ t \in [DOMAIN s -> Entries]
  BY <1>1, <1>3, <1>5 DEF AlteredTo
<1> HIDE DEF t
<1>7. \A p \in DOMAIN s : t[p].uses \subseteq DOMAIN s
  <2>1. t[o].uses \subseteq DOMAIN s
    BY Zenon, <1>1, <1>5, <1>6
  <2> QED
    BY Zenon, <1>3, <1>6, <2>1
<1>8. Sound(t)
  BY <1>3, <1>6, <1>7 DEF Sound
<1>9. /\ DOMAIN d = DOMAIN s /\ d = [p \in DOMAIN s |-> d[p]]
      /\ \A p \in DOMAIN s :
           d[p] = IF p \in L THEN Stored(p, Former(p), t[p].from) ELSE t[p]
  BY <1>6 DEF Restored
<1>10. \A p \in DOMAIN s : d[p].from = t[p].from
  BY <1>6, <1>8, RestoredIs
<1> HIDE DEF d
<1>11. ASSUME o \notin Outrun PROVE CanAlter(d, Gaps, o, Former(o))
  <2>1. VersionUses(o, Former(o)) \subseteq DOMAIN s
    BY <1>2, <1>3, <1>11
  <2> QED
    BY Zenon, <1>1, <1>2, <1>9, <2>1 DEF CanAlter
<1>12. d[o].from = s[o].from
  BY Zenon, <1>1, <1>5, <1>6, <1>10
<1>13. /\ DOMAIN back = DOMAIN s /\ back[o] = Stored(o, Former(o), s[o].from)
       /\ back = [p \in DOMAIN s |-> back[p]]
       /\ \A p \in DOMAIN s : p # o => back[p] = d[p]
  BY <1>1, <1>9, <1>12 DEF AlteredTo
<1> HIDE DEF back
<1>14. \A p \in DOMAIN s :
         back[p] = IF p \in L \cup {o} THEN Stored(p, Former(p), s[p].from) ELSE s[p]
  <2>1. ASSUME NEW p \in DOMAIN s
        PROVE  back[p] = IF p \in L \cup {o} THEN Stored(p, Former(p), s[p].from) ELSE s[p]
    <3>1. CASE p = o
      BY Zenon, <1>13, <3>1
    <3>2. CASE p # o
      <4>1. back[p] = d[p] /\ t[p] = s[p]
        BY Zenon, <1>6, <1>13, <3>2
      <4>2. p \in L \cup {o} <=> p \in L
        BY <3>2
      <4> QED
        BY Zenon, <1>9, <4>1, <4>2
    <3> QED
      BY <3>1, <3>2
  <2> QED
    BY Zenon, <2>1
<1>15. back = Restored(s, L \cup {o})
  BY <1>13, <1>14 DEF Restored
<1> QED
  BY Zenon, <1>8, <1>11, <1>15 DEF back, d, t

\* A renamed column by its name before; the users after; an entry with others.
NameOf(a, b, p) == IF p = b THEN a ELSE p
Subst(a, b, S) == IF a \in S THEN (S \ {a}) \cup {b} ELSE S
Using(e, S) == [e EXCEPT !.uses = S]

LEMMA UsingIs ==
  ASSUME NEW e \in Entries, NEW S \in SUBSET Ids
  PROVE  /\ Using(e, S) \in Entries /\ Using(e, S).uses = S /\ Using(e, S).from = e.from
         /\ Using(e, e.uses) = e /\ Using(Using(e, S), e.uses) = e
<1>1. /\ Using(e, S) \in Entries /\ Using(e, S).uses = S /\ Using(e, S).from = e.from
      /\ Using(e, S).ver = e.ver
  BY DEF Entries, Using
<1>2. Using(e, e.uses) = e
  BY DEF Entries, Using
<1>3. Using(Using(e, S), e.uses) = e
  BY DEF Entries, Using
<1> QED
  BY Zenon, <1>1, <1>2, <1>3

\* Renaming back what was renamed.
LEMMA RenameUndone ==
  ASSUME Asked, NEW s, Sound(s), NEW a, NEW b, << a, b >> \in declared,
         a \in DOMAIN s, b \notin DOMAIN s, NEW L, L \subseteq Restorable
  PROVE  LET t == Renamed(s, a, b)
         IN /\ Sound(t) /\ b \in DOMAIN t /\ a \notin DOMAIN t
            /\ Renamed(Restored(t, L), b, a) = Restored(s, L)
<1> DEFINE t == Renamed(s, a, b)
           d == Restored(t, L)
           back == Renamed(d, b, a)
           T == (DOMAIN s \ {a}) \cup {b}
           name(p) == NameOf(a, b, p)
           subst(S) == Subst(a, b, S)
           return(S) == Subst(b, a, S)
<1>1. /\ a \in DOMAIN old \ DOMAIN new /\ b \in DOMAIN new \ DOMAIN old
      /\ Kind[a] = "column" /\ Kind[b] = "column" /\ Owner[a] = Owner[b]
      /\ a \in Ids /\ b \in Ids /\ a # b
  BY DeclaredPair
<1>2. /\ s \in [DOMAIN s -> Entries] /\ DOMAIN s \subseteq Ids
      /\ \A p \in DOMAIN s : s[p].uses \subseteq DOMAIN s /\ Top(p) \in DOMAIN s
      /\ DOMAIN old \ {p[1] : p \in declared} \subseteq DOMAIN s
  BY Zenon DEF Sound
<1>3. a \in {p[1] : p \in declared}
  <2>1. << a, b >>[1] = a
    OBVIOUS
  <2> QED
    BY <2>1
<1>4. \A p \in DOMAIN s \cup {b} : Top(p) # a
  <2>1. ASSUME NEW p \in DOMAIN s \cup {b}, Top(p) = a PROVE FALSE
    <3>1. p \in Ids
      BY <1>1, <1>2
    <3>2. p = a
      BY <1>1, <2>1, <3>1, PartOrNot
    <3>3. Top(a) # a
      BY <1>1, PartOrNot DEF PartKinds
    <3> QED
      BY <2>1, <3>2, <3>3
  <2> QED
    BY <2>1
<1>5. Top(b) \in DOMAIN s
  <2>1. Top(a) = Owner[a] /\ Top(b) = Owner[b]
    BY <1>1, PartOrNot DEF PartKinds
  <2> QED
    BY Zenon, <1>1, <1>2, <2>1
<1>6. /\ DOMAIN t = T /\ t = [p \in T |-> t[p]]
      /\ \A p \in T : t[p] = Using(s[name(p)], subst(s[name(p)].uses))
  <2>1. DOMAIN t = T
    BY DEF Renamed
  <2>2. t = [p \in T |-> t[p]]
    BY DEF Renamed
  <2>3. \A p \in T : t[p] = Using(s[name(p)], subst(s[name(p)].uses))
    BY DEF Renamed, NameOf, Subst, Using
  <2> QED
    BY <2>1, <2>2, <2>3
<1> HIDE DEF t
<1>7. \A p \in T : name(p) \in DOMAIN s
  BY DEF NameOf
<1>8. ASSUME NEW p \in T
      PROVE  /\ t[p] \in Entries /\ t[p].uses = subst(s[name(p)].uses)
             /\ t[p].uses \subseteq T /\ t[p].from = s[name(p)].from
             /\ Using(t[p], return(t[p].uses)) = s[name(p)]
  <2> DEFINE e == s[name(p)]
  <2>1. e \in Entries /\ e.uses \subseteq DOMAIN s
    BY Zenon, <1>2, <1>7
  <2>2. subst(e.uses) \subseteq T /\ subst(e.uses) \in SUBSET Ids
    BY <1>1, <1>2, <2>1 DEF Subst
  <2>3. return(subst(e.uses)) = e.uses
    BY <2>1 DEF Subst
  <2>4. t[p] = Using(e, subst(e.uses))
    BY Zenon, <1>6
  <2> HIDE DEF e, subst, return, T
  <2>5. /\ t[p] \in Entries /\ t[p].uses = subst(e.uses) /\ t[p].from = e.from
        /\ Using(t[p], e.uses) = e
    BY <2>1, <2>2, <2>4, UsingIs
  <2>6. Using(t[p], return(t[p].uses)) = e
    BY Zenon, <2>3, <2>5
  <2> QED
    BY Zenon, <2>2, <2>5, <2>6 DEF e
<1>9. Sound(t)
  <2>1. t \in [DOMAIN t -> Entries]
    <3> HIDE DEF T, subst, return, name
    <3> QED
      BY <1>6, <1>8
  <2>2. DOMAIN t \subseteq Ids
    BY <1>1, <1>2, <1>6
  <2>3. \A p \in DOMAIN t : t[p].uses \subseteq DOMAIN t
    BY Zenon, <1>6, <1>8
  <2>4. \A p \in DOMAIN t : Top(p) \in DOMAIN t
    BY <1>2, <1>4, <1>5, <1>6
  <2>5. DOMAIN old \ {p[1] : p \in declared} \subseteq DOMAIN t
    BY <1>2, <1>3, <1>6
  <2> QED
    BY Zenon, <2>1, <2>2, <2>3, <2>4, <2>5 DEF Sound
<1>10. b \in DOMAIN t /\ a \notin DOMAIN t /\ (T \ {b}) \cup {a} = DOMAIN s
  BY <1>1, <1>6
<1>11. a \notin L /\ b \notin L
  <2>1. a \notin Restorable
    BY <1>1 DEF Restorable, Fresh, Altered
  <2>2. b \notin Restorable
    BY <1>1 DEF Restorable, Fresh, Altered
  <2> QED
    BY <2>1, <2>2
<1>12. /\ DOMAIN d = T
       /\ \A p \in T : /\ p \notin L => d[p] = t[p]
                       /\ p \in L => /\ d[p] = Stored(p, Former(p), t[p].from)
                                     /\ d[p].uses \subseteq DOMAIN old
                       /\ t[p].from \in Ids \cup {NoOwner}
  <2> HIDE DEF T
  <2> QED
    BY <1>6, <1>9, RestoredIs
<1> HIDE DEF d
<1>13. /\ DOMAIN back = DOMAIN s /\ back = [p \in DOMAIN s |-> back[p]]
       /\ \A p \in DOMAIN s :
            back[p] = Using(d[NameOf(b, a, p)], return(d[NameOf(b, a, p)].uses))
  <2>1. (DOMAIN d \ {b}) \cup {a} = DOMAIN s
    BY Zenon, <1>10, <1>12
  <2>2. DOMAIN back = DOMAIN s
    BY <2>1 DEF Renamed
  <2>3. back = [p \in DOMAIN back |-> back[p]]
    BY DEF Renamed
  <2>4. \A p \in (DOMAIN d \ {b}) \cup {a} :
          back[p] = Using(d[NameOf(b, a, p)], return(d[NameOf(b, a, p)].uses))
    BY DEF Renamed, NameOf, Subst, Using
  <2> HIDE DEF back
  <2> QED
    BY Zenon, <2>1, <2>2, <2>3, <2>4
<1> HIDE DEF back
<1>14. \A p \in DOMAIN s :
         back[p] = IF p \in L THEN Stored(p, Former(p), s[p].from) ELSE s[p]
  <2>1. ASSUME NEW p \in DOMAIN s
        PROVE  back[p] = IF p \in L THEN Stored(p, Former(p), s[p].from) ELSE s[p]
    <3> DEFINE q == NameOf(b, a, p)
    <3>1. q \in T /\ name(q) = p
      BY <1>10, <1>1 DEF NameOf
    <3>2. back[p] = Using(d[q], return(d[q].uses))
      BY Zenon, <1>13
    <3>3. Using(t[q], return(t[q].uses)) = s[p] /\ t[q].from = s[p].from
      BY Zenon, <1>8, <3>1
    <3>4. CASE p \in L
      <4>1. p # a /\ q = p
        BY Zenon, <1>11, <3>4 DEF NameOf
      <4>2. d[p] = Stored(p, Former(p), s[p].from) /\ b \notin d[p].uses
        BY <1>1, <1>12, <3>1, <3>3, <3>4, <4>1
      <4>3. d[p] \in Entries
        <5>1. p \in Ids /\ Former(p) \in Versions
          BY Zenon, <3>4, RestorableIs
        <5>2. s[p].from \in Ids \cup {NoOwner}
          BY Zenon, <1>12, <3>1, <3>3
        <5> QED
          BY <4>2, <5>1, <5>2, StoredIs
      <4>4. back[p] = Using(d[p], d[p].uses)
        BY <3>2, <4>1, <4>2 DEF Subst
      <4>5. back[p] = d[p]
        <5>1. d[p].uses \in SUBSET Ids
          BY <4>3 DEF Entries
        <5> QED
          BY Zenon, <4>3, <4>4, <5>1, UsingIs
      <4> QED
        BY Zenon, <3>4, <4>2, <4>5
    <3>5. CASE p \notin L
      <4>1. q \notin L
        BY Zenon, <1>11, <3>5 DEF NameOf
      <4>2. d[q] = t[q]
        BY Zenon, <1>12, <3>1, <4>1
      <4>3. back[p] = s[p]
        BY Zenon, <3>2, <3>3, <4>2
      <4> QED
        BY Zenon, <3>5, <4>3
    <3> QED
      BY <3>4, <3>5
  <2> QED
    BY Zenon, <2>1
<1>15. back = Restored(s, L)
  <2>1. [p \in DOMAIN s |-> back[p]] = Restored(s, L)
    BY <1>14 DEF Restored
  <2> QED
    BY Zenon, <1>13, <2>1
<1> QED
  BY Zenon, <1>9, <1>10, <1>15 DEF back, d, t


-----------------------------------------------------------------------------
(***************************************************************************)
(* The edge as a whole: the databases it goes through, and the way back.   *)
(***************************************************************************)
\* What the ops of an edge with downs are accepted for, and what they do.
LEMMA CreateOpIs ==
  ASSUME NEW t, NEW op, op.do = "create"
  PROVE  /\ Accepts(t, new, Gaps, op) <=> CanCreate(t, new, Gaps, op.id, op.to)
         /\ Effect(t, new, op) = Created(t, op.id, op.to)
BY DEF Accepts, Effect, Created

LEMMA DropOpIs ==
  ASSUME NEW t, NEW op, op.do = "drop"
  PROVE  /\ Accepts(t, new, Gaps, op) <=> CanDrop(t, op.id, op.to)
         /\ Effect(t, new, op) = Restrict(t, DOMAIN t \ Dropped(t, op.id))
BY DEF Accepts, Effect

LEMMA AlterOpIs ==
  ASSUME NEW t, NEW op, op.do = "alter"
  PROVE  /\ Accepts(t, new, Gaps, op) <=> CanAlter(t, Gaps, op.id, op.to)
         /\ Effect(t, new, op) = AlteredTo(t, op.id, op.to)
BY DEF Accepts, Effect, AlteredTo

LEMMA RenameOpIs ==
  ASSUME NEW t, NEW op, op.do = "rename"
  PROVE  /\ Accepts(t, new, Gaps, op) <=> op.id \in DOMAIN t /\ op.to \notin DOMAIN t
         /\ Effect(t, new, op) = Renamed(t, op.id, op.to)
BY DEF Accepts, Effect

LEMMA ValidateOpIs ==
  ASSUME NEW t, NEW op, op.do = "validate"
  PROVE  /\ Accepts(t, new, Gaps, op) <=> op.id \in DOMAIN t
         /\ Effect(t, new, op) = t
BY DEF Accepts, Effect

\* Neither a backfill nor the inverse it is declared with changes an object.
LEMMA BackfillOpIs ==
  ASSUME NEW t, NEW op, op.do \in {"backfill", "vacuous"}
  PROVE  /\ op.do = "vacuous" => Accepts(t, new, Gaps, op)
         /\ Effect(t, new, op) = t
BY DEF Accepts, Effect

\* The object an alteration changes.
AlteredBy(x) == IF x.up.do = "alter" THEN {x.up.id} ELSE {}

\* Whatever has been altered since, the down of a step undoes its op, unless it
\* restores a view outrun by a rename.
LEMMA StepUndone ==
  ASSUME Asked, NEW s, Sound(s), NEW x, Undone(x), Accepts(s, new, Gaps, x.up),
         NEW L, L \subseteq Restorable
  PROVE  LET t == Effect(s, new, x.up)
             op == x.down[1]
         IN /\ Sound(t) /\ L \cup AlteredBy(x) \subseteq Restorable
            /\ x.up.id \notin Outrun => Accepts(Restored(t, L), new, Gaps, op)
            /\ Effect(Restored(t, L), new, op) = Restored(s, L \cup AlteredBy(x))
<1> DEFINE o == x.up.id
           v == x.up.to
           t == Effect(s, new, x.up)
           op == x.down[1]
           d == Restored(t, L)
<1>1. CASE Creates(x)
  <2>1. /\ x.up.do = "create" /\ o \in Fresh /\ v \in Versions
        /\ Aspect[o] = "signature" => v = new[o]
        /\ op = Op("drop", o, new[o])
    BY <1>1 DEF Creates
  <2>2. op.do = "drop" /\ op.id = o /\ op.to = new[o]
    BY <2>1 DEF Op
  <2>3. CanCreate(s, new, Gaps, o, v) /\ t = Created(s, o, v)
    BY <2>1, CreateOpIs
  <2>4. AlteredBy(x) = {}
    BY <2>1 DEF AlteredBy
  <2> HIDE DEF o, v, t, op
  <2>5. Sound(t)
    BY Zenon, <2>1, <2>3, CreatedIs
  <2>6. CanDrop(d, o, new[o]) /\ Restrict(d, DOMAIN d \ Dropped(d, o)) = Restored(s, L)
    BY Zenon, <2>1, <2>3, CreateUndone
  <2> HIDE DEF d
  <2>7. Accepts(d, new, Gaps, op) /\ Effect(d, new, op) = Restored(s, L)
    BY Zenon, <2>2, <2>6, DropOpIs
  <2>8. L \cup AlteredBy(x) = L
    BY <2>4
  <2> QED
    BY Zenon, <2>5, <2>7, <2>8 DEF o, t, op, d
<1>2. CASE Alters(x)
  <2>1. /\ x.up.do = "alter" /\ o \in Restorable /\ v \in Versions
        /\ op = Op("alter", o, Former(o))
    BY <1>2 DEF Alters
  <2>2. op.do = "alter" /\ op.id = o /\ op.to = Former(o)
    BY <2>1 DEF Op
  <2>3. CanAlter(s, Gaps, o, v) /\ t = AlteredTo(s, o, v)
    BY <2>1, AlterOpIs
  <2>4. AlteredBy(x) = {o}
    BY <2>1 DEF AlteredBy
  <2> HIDE DEF o, v, t, op
  <2>5. /\ Sound(t)
        /\ o \notin Outrun => CanAlter(d, Gaps, o, Former(o))
        /\ AlteredTo(d, o, Former(o)) = Restored(s, L \cup {o})
    BY Zenon, <2>1, <2>3, AlterUndone
  <2> HIDE DEF d
  <2>6. /\ o \notin Outrun => Accepts(d, new, Gaps, op)
        /\ Effect(d, new, op) = Restored(s, L \cup {o})
    BY Zenon, <2>2, <2>5, AlterOpIs
  <2>7. L \cup {o} \subseteq Restorable
    BY <2>1
  <2> QED
    BY Zenon, <2>4, <2>5, <2>6, <2>7 DEF o, t, op, d
<1>3. CASE Renames(x)
  <2>1. /\ x.up.do = "rename" /\ << o, v >> \in declared /\ op = Op("rename", v, o)
    BY <1>3 DEF Renames
  <2>2. op.do = "rename" /\ op.id = v /\ op.to = o
    BY <2>1 DEF Op
  <2>3. o \in DOMAIN s /\ v \notin DOMAIN s /\ t = Renamed(s, o, v)
    BY <2>1, RenameOpIs
  <2>4. AlteredBy(x) = {}
    BY <2>1 DEF AlteredBy
  <2> HIDE DEF o, v, t, op
  <2>5. /\ Sound(t) /\ v \in DOMAIN t /\ o \notin DOMAIN t
        /\ Renamed(d, v, o) = Restored(s, L)
    BY <2>1, <2>3, RenameUndone
  <2>6. DOMAIN d = DOMAIN t
    BY DEF Restored
  <2> HIDE DEF d
  <2>7. Accepts(d, new, Gaps, op) /\ Effect(d, new, op) = Restored(s, L)
    BY Zenon, <2>2, <2>5, <2>6, RenameOpIs
  <2>8. L \cup AlteredBy(x) = L
    BY <2>4
  <2> QED
    BY Zenon, <2>5, <2>7, <2>8 DEF o, t, op, d
<1>4. CASE Validates(x)
  <2>1. PICK w : x.up.do = "validate" /\ x.down = << Op("validate", o, w) >>
    BY Zenon, <1>4 DEF Validates
  <2>2. op.do = "validate" /\ op.id = o
    BY <2>1 DEF Op
  <2>3. o \in DOMAIN s /\ t = s
    BY <2>1, ValidateOpIs
  <2>4. AlteredBy(x) = {}
    BY <2>1 DEF AlteredBy
  <2> HIDE DEF o, v, t, op
  <2>5. DOMAIN d = DOMAIN t
    BY DEF Restored
  <2>6. d = Restored(s, L)
    BY Zenon, <2>3
  <2> HIDE DEF d
  <2>7. Accepts(d, new, Gaps, op) /\ Effect(d, new, op) = Restored(s, L)
    BY Zenon, <2>2, <2>3, <2>5, <2>6, ValidateOpIs
  <2>8. L \cup AlteredBy(x) = L
    BY <2>4
  <2> QED
    BY Zenon, <2>3, <2>7, <2>8 DEF o, t, op, d
<1>5. CASE Backfills(x)
  <2>1. PICK w : x.up.do = "backfill" /\ x.down = << Op("vacuous", o, w) >>
    BY Zenon, <1>5 DEF Backfills
  <2>2. op.do = "vacuous" /\ op.do \in {"backfill", "vacuous"}
    BY <2>1 DEF Op
  <2>3. t = s
    BY <2>1, BackfillOpIs
  <2>4. L \cup AlteredBy(x) = L
    BY <2>1 DEF AlteredBy
  <2> HIDE DEF o, v, t, op
  <2>5. d = Restored(s, L)
    BY Zenon, <2>3
  <2> HIDE DEF d
  <2>6. Accepts(d, new, Gaps, op)
    BY <2>2, BackfillOpIs
  <2>7. Effect(d, new, op) = d
    BY <2>2, BackfillOpIs
  <2>8. Effect(d, new, op) = Restored(s, L)
    BY Zenon, <2>5, <2>7
  <2> QED
    BY Zenon, <2>3, <2>4, <2>6, <2>8 DEF o, t, op, d
<1> QED
  BY Zenon, <1>1, <1>2, <1>3, <1>4, <1>5 DEF Undone


\* What is altered after the n-th op; a database with all of it undone.
Later(n) == UNION {AlteredBy(edge[i]) : i \in {j \in DOMAIN edge : j > n}}
Rewound(t, n) == Restored(t, Later(n))

\* D holds the databases the first n ops lead through.
Passes(D, n) ==
  /\ D[0] = Database(old)
  /\ \A i \in 1..n : /\ Accepts(D[i - 1], new, Gaps, edge[i].up)
                     /\ D[i] = Effect(D[i - 1], new, edge[i].up)
  /\ Invertible => \A i \in 0..n : Sound(D[i])

\* An edge all of whose ops have a down: every step is undone by its down.
LEMMA InvertibleUndone ==
  ASSUME Asked, edge = EdgeOps, Invertible, NEW i \in DOMAIN edge
  PROVE  Undone(edge[i])
<1>1. edge \in Seq(Steps)
  BY Zenon, EdgeOpsUndo DEF Undoes
<1>2. edge[i] \in ToSet(edge)
  BY <1>1 DEF ToSet
<1>3. ~\E x \in ToSet(edge) : x.down = << >>
  BY DEF ToSet, Invertible
<1> QED
  BY Zenon, <1>2, <1>3, EdgeOpsUndo DEF Undoes

LEMMA LaterIs ==
  ASSUME Asked, edge = EdgeOps, Invertible, NEW n \in Nat
  PROVE  /\ Later(n) \subseteq Restorable
         /\ n + 1 \in DOMAIN edge => Later(n) = Later(n + 1) \cup AlteredBy(edge[n + 1])
         /\ Later(Len(edge)) = {}
<1>1. DOMAIN edge = 1..Len(edge) /\ Len(edge) \in Nat
  <2>1. edge \in Seq(Steps)
    BY Zenon, EdgeOpsUndo DEF Undoes
  <2> QED
    BY <2>1
<1>2. ASSUME NEW i \in DOMAIN edge PROVE AlteredBy(edge[i]) \subseteq Restorable
  <2>1. Undone(edge[i])
    BY Zenon, InvertibleUndone
  <2>2. edge[i].up.do = "alter" => edge[i].up.id \in Restorable
    BY <2>1 DEF Undone, Creates, Alters, Renames, Validates, Backfills
  <2> QED
    BY <2>2 DEF AlteredBy
<1>3. Later(n) \subseteq Restorable
  BY <1>2 DEF Later
<1>4. ASSUME n + 1 \in DOMAIN edge
      PROVE  Later(n) = Later(n + 1) \cup AlteredBy(edge[n + 1])
  <2>1. {j \in DOMAIN edge : j > n} = {j \in DOMAIN edge : j > n + 1} \cup {n + 1}
    BY <1>1, <1>4
  <2> QED
    BY <2>1 DEF Later
<1>5. Later(Len(edge)) = {}
  <2>1. {j \in DOMAIN edge : j > Len(edge)} = {}
    BY <1>1
  <2> QED
    BY <2>1 DEF Later
<1> QED
  BY <1>3, <1>4, <1>5

\* One op further.
LEMMA OneFurther ==
  ASSUME Asked, edge = EdgeOps, NEW n \in Nat, n + 1 \in DOMAIN edge, NEW D, Passes(D, n),
         Accepts(D[n], new, Gaps, edge[n + 1].up), NEW t, t = Effect(D[n], new, edge[n + 1].up)
  PROVE  \E E : Passes(E, n + 1) /\ E[n + 1] = t
<1> DEFINE E == [i \in 0..(n + 1) |-> IF i = n + 1 THEN t ELSE D[i]]
<1>1. E[n + 1] = t /\ \A i \in 0..n : E[i] = D[i]
  OBVIOUS
<1>2. /\ D[0] = Database(old)
      /\ \A i \in 1..n : /\ Accepts(D[i - 1], new, Gaps, edge[i].up)
                         /\ D[i] = Effect(D[i - 1], new, edge[i].up)
      /\ Invertible => \A i \in 0..n : Sound(D[i])
  BY Zenon DEF Passes
<1> HIDE DEF E
<1>3. E[0] = Database(old) /\ E[n] = D[n]
  BY <1>1, <1>2
<1>4. ASSUME NEW i \in 1..(n + 1)
      PROVE  /\ Accepts(E[i - 1], new, Gaps, edge[i].up)
             /\ E[i] = Effect(E[i - 1], new, edge[i].up)
  <2>1. CASE i \in 1..n
    <3>1. i - 1 \in 0..n /\ i \in 0..n
      BY <2>1
    <3>2. E[i - 1] = D[i - 1] /\ E[i] = D[i]
      BY Zenon, <1>1, <3>1
    <3> QED
      BY Zenon, <1>2, <2>1, <3>2
  <2>2. CASE i = n + 1
    <3>1. i - 1 = n
      BY <2>2
    <3> QED
      BY Zenon, <1>1, <1>3, <2>2, <3>1
  <2> QED
    BY <2>1, <2>2
<1>5. ASSUME Invertible PROVE \A i \in 0..(n + 1) : Sound(E[i])
  <2>1. Undone(edge[n + 1])
    BY Zenon, <1>5, InvertibleUndone
  <2>2. n \in 0..n
    OBVIOUS
  <2>3. Sound(D[n]) /\ {} \subseteq Restorable
    BY Zenon, <1>2, <1>5, <2>2
  <2>4. Sound(t)
    BY Zenon, <2>1, <2>3, StepUndone
  <2>5. \A i \in 0..n : Sound(E[i])
    BY Zenon, <1>1, <1>2, <1>5
  <2>6. \A i \in 0..(n + 1) : i \in 0..n \/ i = n + 1
    OBVIOUS
  <2> QED
    BY Zenon, <1>1, <2>4, <2>5, <2>6
<1>6. Passes(E, n + 1)
  BY Zenon, <1>3, <1>4, <1>5 DEF Passes
<1> QED
  BY Zenon, <1>1, <1>6

\* One op back.
LEMMA OneBack ==
  ASSUME Asked, edge = EdgeOps, Invertible, NEW n \in Nat, n + 1 \in DOMAIN edge,
         NEW D, Passes(D, Len(edge))
  PROVE  LET x == edge[n + 1]
             t == Rewound(D[n + 1], n + 1)
         IN /\ x.up.id \notin Outrun => Accepts(t, new, Gaps, x.down[1])
            /\ Effect(t, new, x.down[1]) = Rewound(D[n], n)
<1> DEFINE x == edge[n + 1]
           N == Len(edge)
<1>1. N \in Nat /\ n + 1 \in 1..N /\ n \in 0..N /\ (n + 1) - 1 = n /\ n + 1 \in Nat
  <2>1. edge \in Seq(Steps)
    BY Zenon, EdgeOpsUndo DEF Undoes
  <2> QED
    BY <2>1
<1>2. Accepts(D[n], new, Gaps, x.up) /\ D[n + 1] = Effect(D[n], new, x.up) /\ Sound(D[n])
  <2>1. /\ Accepts(D[(n + 1) - 1], new, Gaps, x.up)
        /\ D[n + 1] = Effect(D[(n + 1) - 1], new, x.up)
    BY Zenon, <1>1 DEF Passes
  <2>2. Sound(D[n])
    BY Zenon, <1>1 DEF Passes
  <2> QED
    BY Zenon, <1>1, <2>1, <2>2
<1>3. Undone(x)
  BY Zenon, InvertibleUndone
<1>4. Later(n + 1) \subseteq Restorable
  BY Zenon, <1>1, LaterIs
<1>5. Later(n) = Later(n + 1) \cup AlteredBy(x)
  BY Zenon, LaterIs
<1> HIDE DEF x
<1>6. /\ x.up.id \notin Outrun =>
           Accepts(Restored(D[n + 1], Later(n + 1)), new, Gaps, x.down[1])
      /\ Effect(Restored(D[n + 1], Later(n + 1)), new, x.down[1])
           = Restored(D[n], Later(n + 1) \cup AlteredBy(x))
  BY ZenonT(40), <1>2, <1>3, <1>4, StepUndone
<1> QED
  BY Zenon, <1>5, <1>6 DEF Rewound, x


\* Where the ops have led, and with which of them undone.  The databases in
\* between are given by D: what was there at each op decides how it is undone.
UndoInv ==
  /\ phase \in {"diff", "generate"} => pos = 0 /\ db = Database(old)
  /\ phase \in {"up", "landed"} =>
       \E m, n, D : /\ m = Len(edge) /\ n \in 0..m /\ pos = n
                    /\ Passes(D, n) /\ db = D[n]
                    /\ phase = "landed" => n = m
  /\ phase \in {"down", "stuck", "reverted"} =>
       /\ Invertible
       /\ \E m, n, D : /\ m = Len(edge) /\ n \in 0..m /\ pos = n
                       /\ Passes(D, m) /\ db = Rewound(D[n], n)
                       /\ phase = "stuck" => n > 0 /\ edge[n].up.id \in Outrun
                       /\ phase = "reverted" => n = 0

\* What an action leaves alone that neither changes the schemas nor the edge.
LEMMA SameEdge ==
  ASSUME UNCHANGED <<old, new, declared, filled, edge>>
  PROVE  Gaps' = Gaps /\ Outrun' = Outrun /\ (Invertible' <=> Invertible)
         /\ Len(edge)' = Len(edge) /\ Database(old)' = Database(old)
<1>1. Gaps' = Gaps
  BY DEF Gaps
<1>2. Outrun' = Outrun
  BY DEF Outrun, Altered
<1>3. Invertible' <=> Invertible
  BY DEF Invertible
<1>4. Len(edge)' = Len(edge) /\ Database(old)' = Database(old)
  OBVIOUS
<1> QED
  BY <1>1, <1>2, <1>3, <1>4

LEMMA SamePasses ==
  ASSUME UNCHANGED <<old, new, declared, filled, edge>>, NEW D, NEW n
  PROVE  Passes(D, n)' <=> Passes(D, n)
<1>1. Gaps' = Gaps /\ (Invertible' <=> Invertible)
  BY Zenon, SameEdge
<1>2. \A i \in 0..n : Sound(D[i])' <=> Sound(D[i])
  BY DEF Sound
<1> QED
  BY <1>1, <1>2 DEF Passes

LEMMA SameRewound ==
  ASSUME UNCHANGED <<old, new, declared, filled, edge>>, NEW t, NEW n
  PROVE  Rewound(t, n)' = Rewound(t, n)
<1>1. Later(n)' = Later(n)
  BY DEF Later, AlteredBy
<1>2. Defaulted' = Defaulted /\ Fresh' = Fresh
  BY DEF Fresh, Defaulted, Altered
<1> QED
  BY <1>1, <1>2 DEF Rewound, Restored, Former


\* Past the generator the renames are those of the gate, the ops those of the diff.
LEMMA AskedFor ==
  ASSUME PlanInv, phase \notin {"diff", "generate", "refused"}
  PROVE  Asked /\ edge = EdgeOps
<1>1. GatePasses(old, new, declared) /\ edge = EdgeOps
  BY DEF PlanInv
<1> QED
  BY <1>1 DEF PlanInv, Asked, GatePasses, Stale

\* The databases an edge is applied and undone through: on the way up what the
\* ops so far make of the old one, with no reference that dangles; on the way
\* back the same databases, with what was altered later as it was before
\* (ApplyNext and UndoNext).
THEOREM UndoInvariant == Spec => []UndoInv
<1>1. Init => UndoInv
  BY DEF Init, UndoInv
<1>2. PlanInv /\ UndoInv /\ [Next]_vars => UndoInv'
  <2> SUFFICES ASSUME PlanInv, UndoInv, [Next]_vars PROVE UndoInv'
    OBVIOUS
  <2>1. ASSUME NEW renames \in SUBSET ToSet(Alike), ResolveRenames(renames)
        PROVE  UndoInv'
    <3>1. /\ old' = old /\ pos' = pos /\ db' = db /\ phase = "diff"
          /\ phase' \in {"generate", "refused"}
      BY <2>1 DEF ResolveRenames
    <3>2. pos' = 0 /\ db' = Database(old)'
      BY <3>1 DEF UndoInv
    <3> QED
      BY <3>1, <3>2 DEF UndoInv
  <2>2. ASSUME Generate PROVE UndoInv'
    <3>1. /\ UNCHANGED <<old, new, declared, filled, pos, db>> /\ phase = "generate"
          /\ edge' = EdgeOps /\ phase' \in {"refused", "up"}
      BY <2>2 DEF Generate
    <3>2. pos = 0 /\ db = Database(old)
      BY <3>1 DEF UndoInv
    <3>3. CASE phase' = "refused"
      BY <3>3 DEF UndoInv
    <3>4. CASE phase' = "up"
      <4>1. Asked
        BY <3>1 DEF PlanInv, Asked, GatePasses, Stale
      <4>2. Len(edge)' \in Nat
        <5>1. edge' \in Seq(Steps)
          BY Zenon, <3>1, <4>1, EdgeOpsUndo DEF Undoes
        <5> QED
          BY <5>1
      <4>3. PICK D : D = [i \in {0} |-> db]
        OBVIOUS
      <4>4. Sound(Database(old))
        BY Zenon, <4>1, SoundOld
      <4>5. Passes(D, 0)'
        <5>1. D[0] = Database(old)' /\ 1..0 = {} /\ 0..0 = {0}
          BY <3>1, <3>2, <4>3
        <5>2. Sound(D[0])'
          BY <3>1, <3>2, <4>3, <4>4 DEF Sound, Database
        <5> QED
          BY <5>1, <5>2 DEF Passes
      <4>6. pos' = 0 /\ db' = D[0] /\ 0 \in 0..Len(edge)'
        BY <3>1, <3>2, <4>2, <4>3
      <4> QED
        BY <3>4, <4>5, <4>6 DEF UndoInv
    <3> QED
      BY <3>1, <3>3, <3>4
  <2>3. CASE ApplyNext
    <3> DEFINE op == edge[pos + 1].up
    <3>1. /\ UNCHANGED <<old, new, declared, filled, edge>> /\ phase = "up" /\ pos < Len(edge)
          /\ phase' = IF Accepts(db, new, Gaps, op) THEN "up" ELSE "failed"
      BY <2>3 DEF ApplyNext
    <3>2. CASE ~Accepts(db, new, Gaps, op)
      <4>1. phase' = "failed"
        BY <3>1, <3>2
      <4> QED
        BY <4>1 DEF UndoInv
    <3>3. CASE Accepts(db, new, Gaps, op)
      <4>1. phase' = "up" /\ pos' = pos + 1 /\ db' = Effect(db, new, op)
        BY <2>3, <3>3 DEF ApplyNext, Run
      <4>2. PICK n, D : n \in 0..Len(edge) /\ pos = n /\ Passes(D, n) /\ db = D[n]
        BY <3>1 DEF UndoInv
      <4>3. Asked /\ edge = EdgeOps
        BY <3>1, AskedFor
      <4>4. Len(edge) \in Nat /\ DOMAIN edge = 1..Len(edge)
        <5>1. edge \in Seq(Steps)
          BY Zenon, <4>3, EdgeOpsUndo DEF Undoes
        <5> QED
          BY <5>1
      <4>5. n \in Nat /\ n + 1 \in DOMAIN edge /\ n + 1 \in 0..Len(edge)
        BY <3>1, <4>2, <4>4
      <4>6. PICK E : Passes(E, n + 1) /\ E[n + 1] = db'
        BY Zenon, <3>3, <4>1, <4>2, <4>3, <4>5, OneFurther
      <4>7. PICK k : k = n + 1
        OBVIOUS
      <4>8. Passes(E, k)'
        BY <3>1, <4>6, <4>7, SamePasses
      <4>9. /\ k \in 0..Len(edge)' /\ pos' = k /\ db' = E[k]
        BY <3>1, <4>1, <4>2, <4>5, <4>6, <4>7
      <4> QED
        BY <4>1, <4>8, <4>9 DEF UndoInv
    <3> QED
      BY <3>2, <3>3
  <2>4. CASE Land
    <3>1. /\ UNCHANGED <<old, new, declared, filled, edge, pos, db>>
          /\ phase = "up" /\ pos = Len(edge) /\ phase' = "landed"
      BY <2>4 DEF Land
    <3>2. PICK n, D : n \in 0..Len(edge) /\ pos = n /\ Passes(D, n) /\ db = D[n]
      BY <3>1 DEF UndoInv
    <3>3. Passes(D, n)'
      BY <3>1, <3>2, SamePasses
    <3>4. n = Len(edge)' /\ n \in 0..Len(edge)' /\ pos' = n /\ db' = D[n]
      BY <3>1, <3>2
    <3> QED
      BY <3>1, <3>3, <3>4 DEF UndoInv
  <2>5. CASE Rollback
    <3>1. /\ UNCHANGED <<old, new, declared, filled, edge, pos, db>>
          /\ phase = "landed" /\ Invertible /\ phase' = "down"
      BY <2>5 DEF Rollback
    <3>2. PICK n, D : n \in 0..Len(edge) /\ n = Len(edge) /\ pos = n /\ Passes(D, n) /\ db = D[n]
      BY <3>1 DEF UndoInv
    <3>3. Asked /\ edge = EdgeOps
      BY <3>1, AskedFor
    <3>4. D[n] = Rewound(D[n], n)
      <4>1. n \in Nat
        BY <3>2
      <4>2. Later(n) = {}
        BY Zenon, <3>1, <3>2, <3>3, <4>1, LaterIs
      <4>3. D[n] = [o \in DOMAIN D[n] |-> D[n][o]]
        <5>1. n \in 0..n
          BY <4>1
        <5>2. Sound(D[n])
          BY Zenon, <3>1, <3>2, <5>1 DEF Passes
        <5> QED
          BY <5>2 DEF Sound
      <4> QED
        BY <4>2, <4>3 DEF Rewound, Restored
    <3>5. Passes(D, n)' /\ Rewound(D[n], n)' = Rewound(D[n], n) /\ Invertible'
      <4>1. PICK t : t = D[n]
        OBVIOUS
      <4>2. Rewound(t, n)' = Rewound(t, n)
        BY <3>1, SameRewound
      <4> QED
        BY <3>1, <3>2, <4>1, <4>2, SamePasses, SameEdge
    <3>6. n = Len(edge)' /\ n \in 0..Len(edge)' /\ pos' = n /\ db' = Rewound(D[n], n)'
      BY <3>1, <3>2, <3>4, <3>5
    <3> QED
      BY <3>1, <3>5, <3>6 DEF UndoInv
  <2>6. CASE UndoNext
    <3> DEFINE x == edge[pos]
               ok == Accepts(db, new, Gaps, x.down[1])
    <3>1. /\ UNCHANGED <<old, new, declared, filled, edge>> /\ phase = "down" /\ pos > 0
          /\ phase' = IF ok THEN "down" ELSE "stuck"
          /\ pos' = IF ok THEN pos - 1 ELSE pos
          /\ db' = IF ok THEN Effect(db, new, x.down[1]) ELSE db
      BY <2>6 DEF UndoNext, Run
    <3>2. /\ Invertible
          /\ \E n, D : /\ n \in 0..Len(edge) /\ pos = n
                       /\ Passes(D, Len(edge)) /\ db = Rewound(D[n], n)
      BY <3>1 DEF UndoInv
    <3>3. PICK n, D : /\ n \in 0..Len(edge) /\ pos = n
                      /\ Passes(D, Len(edge)) /\ db = Rewound(D[n], n)
      BY Zenon, <3>2
    <3>4. Asked /\ edge = EdgeOps
      BY <3>1, AskedFor
    <3>5. Len(edge) \in Nat /\ DOMAIN edge = 1..Len(edge)
      <4>1. edge \in Seq(Steps)
        BY Zenon, <3>4, EdgeOpsUndo DEF Undoes
      <4> QED
        BY <4>1
    <3>6. PICK k : k \in Nat /\ n = k + 1 /\ k = n - 1 /\ k + 1 \in DOMAIN edge /\ k \in 0..Len(edge)
      BY <3>1, <3>3, <3>5
    <3>7. /\ x.up.id \notin Outrun => ok
          /\ Effect(db, new, x.down[1]) = Rewound(D[k], k)
      BY Zenon, <3>2, <3>3, <3>4, <3>6, OneBack
    <3>8. PICK m : m = Len(edge)
      OBVIOUS
    <3>9. Passes(D, m)' /\ Invertible' /\ m = Len(edge)'
      BY <3>1, <3>2, <3>3, <3>8, SamePasses, SameEdge
    <3>10. CASE ok
      <4>1. PICK t : t = D[k]
        OBVIOUS
      <4>2. Rewound(t, k)' = Rewound(t, k)
        BY <3>1, SameRewound
      <4>3. pos' = k /\ db' = Rewound(D[k], k)' /\ phase' = "down" /\ k \in 0..m
        BY <3>1, <3>3, <3>6, <3>7, <3>8, <3>10, <4>1, <4>2
      <4> QED
        BY <3>9, <4>3 DEF UndoInv
    <3>11. CASE ~ok
      <4>1. PICK t : t = D[n]
        OBVIOUS
      <4>2. Rewound(t, n)' = Rewound(t, n)
        BY <3>1, SameRewound
      <4>3. /\ pos' = n /\ db' = Rewound(D[n], n)' /\ phase' = "stuck" /\ n \in 0..m
            /\ n > 0
        BY <3>1, <3>3, <3>6, <3>8, <3>11, <4>1, <4>2
      <4>4. edge'[n].up.id \in Outrun'
        BY <3>1, <3>3, <3>7, <3>11, SameEdge
      <4> QED
        BY <3>9, <4>3, <4>4 DEF UndoInv
    <3> QED
      BY <3>10, <3>11
  <2>7. ASSUME UNCHANGED <<old, new, declared, filled, edge, pos, db>>,
               \/ phase' = phase
               \/ phase = "down" /\ pos = 0 /\ phase' = "reverted"
        PROVE  UndoInv'
    <3>1. CASE phase \in {"diff", "generate"}
      <4>1. pos' = 0 /\ db' = Database(old)' /\ phase' = phase
        BY <2>7, <3>1 DEF UndoInv
      <4> QED
        BY <3>1, <4>1 DEF UndoInv
    <3>2. CASE phase \in {"up", "landed"}
      <4>1. PICK m, n, D : /\ m = Len(edge) /\ n \in 0..m /\ pos = n
                           /\ Passes(D, n) /\ db = D[n]
                           /\ phase = "landed" => n = m
        BY <3>2 DEF UndoInv
      <4>2. Passes(D, n)' /\ phase' = phase
        BY <2>7, <3>2, <4>1, SamePasses
      <4>3. m = Len(edge)' /\ pos' = n /\ db' = D[n]
        BY <2>7, <4>1
      <4> QED
        BY <3>2, <4>1, <4>2, <4>3 DEF UndoInv
    <3>3. CASE phase \in {"down", "stuck", "reverted"}
      <4>1. PICK m, n, D : /\ m = Len(edge) /\ n \in 0..m /\ pos = n
                           /\ Passes(D, m) /\ db = Rewound(D[n], n)
                           /\ phase = "stuck" => n > 0 /\ edge[n].up.id \in Outrun
                           /\ phase = "reverted" => n = 0
        BY <3>3 DEF UndoInv
      <4>2. Passes(D, m)' /\ Invertible' /\ Outrun' = Outrun
        <5>1. Invertible
          BY <3>3 DEF UndoInv
        <5> QED
          BY <2>7, <4>1, <5>1, SamePasses, SameEdge
      <4>3. PICK t : t = D[n]
        OBVIOUS
      <4>4. Rewound(t, n)' = Rewound(t, n)
        BY <2>7, SameRewound
      <4>5. /\ m = Len(edge)' /\ pos' = n /\ db' = Rewound(D[n], n)'
            /\ phase' = "stuck" => n > 0 /\ edge'[n].up.id \in Outrun'
            /\ phase' = "reverted" => n = 0
            /\ phase' \in {"down", "stuck", "reverted"}
        BY <2>7, <3>3, <4>1, <4>2, <4>3, <4>4
      <4> QED
        BY <4>1, <4>2, <4>5 DEF UndoInv
    <3>4. CASE phase \notin {"diff", "generate", "up", "landed", "down", "stuck", "reverted"}
      <4>1. phase' = phase
        BY <2>7, <3>4
      <4> QED
        BY <3>4, <4>1 DEF UndoInv
    <3> QED
      BY <3>1, <3>2, <3>3, <3>4
  <2>8. CASE Revert
    BY <2>7, <2>8 DEF Revert
  <2>9. CASE UNCHANGED vars
    BY <2>7, <2>9 DEF vars
  <2> QED
    BY <2>1, <2>2, <2>3, <2>4, <2>5, <2>6, <2>8, <2>9 DEF Next
<1> QED
  BY <1>1, <1>2, PlanInvariant, PTL DEF Spec


\* Undoing an edge all of whose ops have a down stops at nothing but a view
\* outrun by a rename, and gives the database there was before it, apart from
\* the defaults: for every catalog, every pair of schemas, every set of renames
\* the gate lets pass, with rows in the tables or without (the downs that
\* GenerateMigration records, against rollback's use of them).
THEOREM UndoTheorem == Spec => []UndoRestores
<1>1. PlanInv /\ UndoInv => UndoRestores
  <2> SUFFICES ASSUME PlanInv, UndoInv PROVE UndoRestores
    OBVIOUS
  <2>1. ASSUME phase = "stuck" PROVE edge[pos].up.id \in Outrun
    BY <2>1 DEF UndoInv
  <2>2. ASSUME phase = "reverted"
        PROVE  db = [o \in DOMAIN old |->
                       IF o \in Defaulted THEN Stored(o, 0, o) ELSE Database(old)[o]]
    <3>1. Asked /\ edge = EdgeOps
      BY <2>2, AskedFor
    <3>2. Invertible /\ \E D : Passes(D, Len(edge)) /\ db = Rewound(D[0], 0)
      BY <2>2 DEF UndoInv
    <3>3. db = Restored(Database(old), Later(0))
      BY <3>2 DEF Rewound, Passes
    <3>4. Later(0) \subseteq Restorable
      BY <3>1, <3>2, LaterIs
    <3>5. Defaulted \subseteq Later(0)
      <4>1. ASSUME NEW c \in Defaulted PROVE c \in Later(0)
        <5>1. PICK x \in ToSet(edge) : x.up.do = "alter" /\ x.up.id = c
          BY Zenon, <3>1, EdgeAlters
        <5>2. edge \in Seq(Steps)
          BY Zenon, <3>1, EdgeOpsUndo DEF Undoes
        <5>3. PICK i \in DOMAIN edge : edge[i] = x /\ i > 0
          BY <5>1, <5>2 DEF ToSet
        <5>4. AlteredBy(edge[i]) = {c}
          BY <5>1, <5>3 DEF AlteredBy
        <5> QED
          BY <5>3, <5>4 DEF Later
      <4> QED
        BY <4>1
    <3>6. ASSUME NEW o \in DOMAIN old
          PROVE  (IF o \in Later(0) THEN Stored(o, Former(o), Database(old)[o].from)
                  ELSE Database(old)[o])
                 = IF o \in Defaulted THEN Stored(o, 0, o) ELSE Database(old)[o]
      <4>1. Database(old)[o] = Stored(o, old[o], o) /\ Database(old)[o].from = o
        BY DEF Database, Stored
      <4>2. CASE o \in Later(0)
        <5>1. o \in Altered
          BY <3>4, <4>2 DEF Restorable, Fresh
        <5>2. Former(o) = IF o \in Defaulted THEN 0 ELSE old[o]
          BY <3>1, <5>1, FormerIs
        <5> QED
          BY <4>1, <4>2, <5>2
      <4>3. CASE o \notin Later(0)
        BY <3>5, <4>3
      <4> QED
        BY <4>2, <4>3
    <3>7. DOMAIN Database(old) = DOMAIN old
      BY DEF Database
    <3> QED
      BY <3>3, <3>6, <3>7 DEF Restored
  <2> QED
    BY <2>1, <2>2 DEF UndoRestores
<1> QED
  BY <1>1, PlanInvariant, UndoInvariant, PTL
=============================================================================

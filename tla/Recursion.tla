----------------------------- MODULE Recursion ------------------------------
(***************************************************************************)
(* Induction and recursion over the naturals as statements about sets and  *)
(* functions, for the proofs of the other modules: a recursive function is *)
(* the CHOOSE of a function that satisfies its equation, so whoever wants  *)
(* to use the equation shows first that some function does.                *)
(***************************************************************************)
EXTENDS Integers, FiniteSets, SequencesExt, TLAPS, FiniteSetTheorems,
        WellFoundedInduction

\* The least-number principle, from the well-foundedness of strict inclusion:
\* what stands in for induction over the naturals in these proofs.
LEMMA LeastNatural ==
  ASSUME NEW T, T \subseteq Nat, T # {}
  PROVE  \E m \in T : \A n \in T : m <= n
<1> DEFINE Segments == {0..n : n \in T}
<1>1. Segments \subseteq FiniteSubsetsOf(Nat)
  <2>1. \A n \in T : IsFiniteSet(0..n)
    BY FS_Interval
  <2> QED
    BY <2>1 DEF FiniteSubsetsOf
<1>2. Segments # {}
  OBVIOUS
<1>3. PICK x \in Segments :
        \A y \in Segments : ~ (<<y, x>> \in StrictSubsetOrdering(Nat))
  <2> HIDE DEF Segments
  <2> QED
    BY <1>1, <1>2, FS_StrictSubsetOrderingWellFounded, WFMin
<1>4. PICK m \in T : x = 0..m
  OBVIOUS
<1>5. ASSUME NEW n \in T, n < m PROVE FALSE
  <2>1. 0..n \in Segments
    OBVIOUS
  <2>2. /\ 0..n \subseteq Nat /\ x \subseteq Nat /\ 0..n \subseteq x
        /\ m \in x /\ m \notin 0..n
    BY <1>4, <1>5
  <2>3. <<0..n, x>> \in StrictSubsetOrdering(Nat)
    BY <2>2 DEF StrictSubsetOrdering
  <2> QED
    BY <1>3, <2>1, <2>3
<1> QED
  BY <1>5

\* And the greatest of finitely many.
LEMMA GreatestNatural ==
  ASSUME NEW T, T \subseteq Nat, IsFiniteSet(T), T # {}
  PROVE  \E m \in T : \A n \in T : n <= m
<1> DEFINE From(m) == {n \in T : n >= m}
           Upper == {From(m) : m \in T}
<1>1. Upper \subseteq FiniteSubsetsOf(T)
  <2>1. ASSUME NEW m \in T PROVE From(m) \in FiniteSubsetsOf(T)
    BY FS_Subset DEF FiniteSubsetsOf
  <2> HIDE DEF From
  <2> QED
    BY <2>1
<1>2. Upper # {}
  OBVIOUS
<1>3. PICK x \in Upper :
        \A y \in Upper : ~ (<<y, x>> \in StrictSubsetOrdering(T))
  <2> HIDE DEF Upper
  <2> QED
    BY <1>1, <1>2, FS_StrictSubsetOrderingWellFounded, WFMin
<1>4. PICK m \in T : x = From(m)
  OBVIOUS
<1>5. ASSUME NEW n \in T, ~(n <= m) PROVE FALSE
  <2>1. From(n) \in Upper
    OBVIOUS
  <2>2. /\ From(n) \subseteq T /\ x \subseteq T /\ From(n) \subseteq x
        /\ m \in x /\ m \notin From(n)
    <3>1. n \in Nat /\ m \in Nat /\ m < n /\ \A k \in T : k \in Nat
      BY <1>5
    <3>2. m \in From(m) /\ m \notin From(n)
      BY <3>1
    <3>3. From(n) \subseteq From(m)
      <4>1. ASSUME NEW k \in T, k >= n PROVE k >= m
        BY <3>1, <4>1
      <4> QED
        BY <4>1
    <3> HIDE DEF From
    <3> QED
      BY <1>4, <3>2, <3>3 DEF From
  <2>3. <<From(n), x>> \in StrictSubsetOrdering(T)
    BY <2>2 DEF StrictSubsetOrdering
  <2> QED
    BY <1>3, <2>1, <2>3
<1> QED
  BY <1>5

\* Induction: what holds of 0 and of a number when it holds of the one before
\* holds up to N.  P is the set of numbers it holds of.
LEMMA Induction ==
  ASSUME NEW N \in Nat, NEW P,
         0 \in P, \A n \in 1..N : n - 1 \in P => n \in P
  PROVE  \A n \in 0..N : n \in P
<1> SUFFICES ASSUME {n \in 0..N : n \notin P} # {} PROVE FALSE
  OBVIOUS
<1> DEFINE T == {n \in 0..N : n \notin P}
<1>1. PICK m \in T : \A n \in T : m <= n
  <2>1. T \subseteq Nat
    OBVIOUS
  <2> HIDE DEF T
  <2> QED
    BY <2>1, LeastNatural DEF T
<1>2. m \in 1..N /\ m - 1 \in 0..N
  OBVIOUS
<1>3. m - 1 \in P
  BY <1>1, <1>2
<1> QED
  BY <1>2, <1>3

\* f computes m values, one after the other, each from the one before.
Computes(f, m, base, step) ==
  f[0] = base /\ \A n \in 1..m : f[n] = step[n][f[n - 1]]

\* Recursion: some function does.
LEMMA RecursiveFunction ==
  ASSUME NEW N \in Nat, NEW S, NEW base \in S, NEW step \in [1..N -> [S -> S]]
  PROVE  \E f \in [0..N -> S] : Computes(f, N, base, step)
<1> DEFINE P == {m \in 0..N : \E f \in [0..N -> S] : Computes(f, m, base, step)}
<1>1. 0 \in P
  <2>1. [n \in 0..N |-> base] \in [0..N -> S]
    OBVIOUS
  <2>2. Computes([n \in 0..N |-> base], 0, base, step)
    BY DEF Computes
  <2>3. 0 \in 0..N
    OBVIOUS
  <2> QED
    BY <2>1, <2>2, <2>3
<1>2. ASSUME NEW m \in 1..N, m - 1 \in P PROVE m \in P
  <2>1. PICK f \in [0..N -> S] : Computes(f, m - 1, base, step)
    BY <1>2
  <2>2. m \in 0..N /\ m - 1 \in 0..N /\ 0 # m
    OBVIOUS
  <2> DEFINE g == [f EXCEPT ![m] = step[m][f[m - 1]]]
  <2>3. step[m][f[m - 1]] \in S
    BY <2>2
  <2>4. g \in [0..N -> S]
    BY <2>3
  <2>5. g[0] = base /\ g[m] = step[m][g[m - 1]]
    BY <2>1, <2>2 DEF Computes
  <2>6. ASSUME NEW n \in 1..(m - 1) PROVE g[n] = step[n][g[n - 1]]
    <3>1. n \in 0..N /\ n - 1 \in 0..N /\ n # m /\ n - 1 # m
      OBVIOUS
    <3> QED
      BY <3>1, <2>1 DEF Computes
  <2>7. \A n \in 1..m : n = m \/ n \in 1..(m - 1)
    OBVIOUS
  <2>8. Computes(g, m, base, step)
    <3> HIDE DEF g
    <3> QED
      BY <2>5, <2>6, <2>7 DEF Computes
  <2> HIDE DEF g
  <2> QED
    BY <2>2, <2>4, <2>8
<1>3. N \in P
  <2> HIDE DEF P
  <2>1. \A m \in 0..N : m \in P
    BY <1>1, <1>2, Induction
  <2> QED
    BY <2>1
<1> QED
  BY <1>3

-----------------------------------------------------------------------------
(***************************************************************************)
(* Concatenating sequences.                                                *)
(***************************************************************************)

\* f lists the concatenations of the first sequences of seqs.
Concats(f, seqs, S) ==
  /\ f \in [1..Len(seqs) -> Seq(S)]
  /\ f[1] = seqs[1]
  /\ \A i \in 2..Len(seqs) : f[i] = f[i - 1] \o seqs[i]

\* FlattenSeq returns the last of the concatenations.
LEMMA FlattenConcats ==
  ASSUME NEW S, NEW seqs \in Seq(Seq(S)), seqs # <<>>
  PROVE  \E f : Concats(f, seqs, S) /\ FlattenSeq(seqs) = f[Len(seqs)]
<1> DEFINE N == Len(seqs)
           M == N - 1
           Body(f) == [i \in 1..N |->
                         IF i = 1 THEN seqs[i] ELSE f[i - 1] \o seqs[i]]
           base == seqs[1]
           step == [n \in 1..M |-> [q \in Seq(S) |-> q \o seqs[n + 1]]]
<1>1. N \in Nat /\ N # 0 /\ M \in Nat /\ 1 \in 1..N
  OBVIOUS
<1>2. base \in Seq(S)
  BY <1>1
<1>3. step \in [1..M -> [Seq(S) -> Seq(S)]]
  <2>1. ASSUME NEW n \in 1..M, NEW q \in Seq(S) PROVE q \o seqs[n + 1] \in Seq(S)
    <3>1. seqs[n + 1] \in Seq(S)
      BY <1>1
    <3> QED
      BY <3>1
  <2> HIDE DEF M
  <2> QED
    BY <2>1
<1>4. PICK h \in [0..M -> Seq(S)] : Computes(h, M, base, step)
  <2> HIDE DEF step, M, base
  <2> QED
    BY <1>1, <1>2, <1>3, RecursiveFunction
<1> DEFINE f == [i \in 1..N |-> h[i - 1]]
<1>5. f = Body(f)
  <2>1. ASSUME NEW i \in 1..N PROVE f[i] = Body(f)[i]
    <3>1. CASE i = 1
      BY <3>1, <1>1, <1>4 DEF Computes
    <3>2. CASE i # 1
      <4>1. i - 1 \in 1..M /\ i - 1 \in 1..N /\ (i - 1) + 1 = i /\ i - 1 - 1 \in 0..M
        BY <3>2, <1>1
      <4>2. h[i - 1] = step[i - 1][h[i - 1 - 1]] /\ h[i - 1 - 1] \in Seq(S)
        BY <4>1, <1>4 DEF Computes
      <4>3. h[i - 1] = h[i - 1 - 1] \o seqs[i]
        BY <4>1, <4>2
      <4> QED
        BY <3>2, <4>1, <4>3
    <3> QED
      BY <3>1, <3>2
  <2> QED
    BY <2>1
<1> DEFINE g == CHOOSE k : k = Body(k)
<1>6. g = Body(g)
  <2> HIDE DEF Body, f
  <2> QED
    BY <1>5
<1>7. FlattenSeq(seqs) = g[N]
  BY Zenon, <1>1 DEF FlattenSeq
<1>8. g[1] = base /\ \A i \in 2..N : g[i] = g[i - 1] \o seqs[i]
  <2> HIDE DEF g
  <2>1. \A i \in 1..N : g[i] = Body(g)[i]
    <3> HIDE DEF Body
    <3> QED
      BY <1>6
  <2>2. \A i \in 1..N : g[i] = IF i = 1 THEN seqs[i] ELSE g[i - 1] \o seqs[i]
    BY <2>1
  <2>3. \A i \in 2..N : i \in 1..N /\ i # 1
    BY <1>1
  <2> HIDE DEF Body, N
  <2> QED
    BY <1>1, <2>2, <2>3
<1>9. \A i \in 0..M : g[i + 1] \in Seq(S)
  <2> DEFINE P == {i \in 0..M : g[i + 1] \in Seq(S)}
  <2>1. 0 \in P
    <3>1. 0 \in 0..M /\ 0 + 1 = 1
      BY <1>1
    <3> HIDE DEF g, base
    <3> QED
      BY <1>2, <1>8, <3>1
  <2>2. ASSUME NEW n \in 1..M, n - 1 \in P PROVE n \in P
    <3> HIDE DEF g
    <3>1. /\ n \in 0..M /\ n + 1 \in 2..N /\ (n - 1) + 1 = n /\ n + 1 - 1 = n
          /\ seqs[n + 1] \in Seq(S)
      BY <1>1, <2>2
    <3>2. g[n] \in Seq(S)
      BY <2>2, <3>1
    <3>3. PICK k \in 2..N : k = n + 1 /\ k - 1 = n
      BY <3>1
    <3>4. g[n + 1] \in Seq(S)
      <4>1. g[n + 1] = g[n] \o seqs[n + 1]
        <5>1. g[k] = g[k - 1] \o seqs[k]
          BY <1>8
        <5> QED
          BY Zenon, <3>3, <5>1
      <4> HIDE DEF N
      <4> QED
        BY <3>1, <3>2, <4>1
    <3> QED
      BY <3>1, <3>4
  <2>3. \A i \in 0..M : i \in P
    <3> HIDE DEF P, M
    <3> QED
      BY <1>1, <2>1, <2>2, Induction
  <2> QED
    BY <2>3
<1>10. \A i \in 1..N : g[i] \in Seq(S)
  <2>1. ASSUME NEW i \in 1..N PROVE g[i] \in Seq(S)
    <3>1. i - 1 \in 0..M /\ (i - 1) + 1 = i
      BY <1>1
    <3> HIDE DEF g
    <3> QED
      BY <1>9, <3>1
  <2> QED
    BY <2>1
<1>11. g = [i \in 1..N |-> g[i]]
  <2> HIDE DEF g
  <2> QED
    BY <1>6
<1>12. Concats(g, seqs, S)
  <2> HIDE DEF g
  <2> QED
    BY <1>8, <1>10, <1>11 DEF Concats
<1> HIDE DEF g, Body
<1> QED
  BY <1>7, <1>12

\* What two sequences are made of.
LEMMA ConcatSet ==
  ASSUME NEW S, NEW a \in Seq(S), NEW b \in Seq(S)
  PROVE  ToSet(a \o b) = ToSet(a) \union ToSet(b)
<1> DEFINE q == a \o b
           m == Len(a)
<1>1. /\ q \in Seq(S) /\ Len(q) = m + Len(b) /\ m \in Nat /\ Len(b) \in Nat
      /\ \A i \in 1..m : q[i] = a[i]
      /\ \A i \in 1..Len(b) : q[m + i] = b[i]
  OBVIOUS
<1>2. DOMAIN q = 1..Len(q) /\ DOMAIN a = 1..m /\ DOMAIN b = 1..Len(b)
  BY <1>1
<1> HIDE DEF q
<1>3. ToSet(q) \subseteq ToSet(a) \union ToSet(b)
  <2>1. ASSUME NEW i \in DOMAIN q PROVE q[i] \in ToSet(a) \union ToSet(b)
    <3>1. CASE i \in 1..m
      BY <1>1, <1>2, <3>1 DEF ToSet
    <3>2. CASE i \notin 1..m
      <4>1. PICK k \in DOMAIN b : i = m + k
        <5>1. i - m \in DOMAIN b /\ i = m + (i - m)
          BY <1>1, <1>2, <3>2
        <5> QED
          BY <5>1
      <4> QED
        BY <1>1, <1>2, <4>1 DEF ToSet
    <3> QED
      BY <3>1, <3>2
  <2> QED
    BY <2>1 DEF ToSet
<1>4. ToSet(a) \union ToSet(b) \subseteq ToSet(q)
  <2>1. ASSUME NEW i \in DOMAIN a PROVE i \in DOMAIN q /\ q[i] = a[i]
    BY <1>1, <1>2
  <2>2. ASSUME NEW i \in DOMAIN b PROVE \E k \in DOMAIN q : q[k] = b[i]
    <3>1. m + i \in DOMAIN q /\ q[m + i] = b[i]
      BY <1>1, <1>2
    <3> QED
      BY <3>1
  <2> QED
    BY <2>1, <2>2 DEF ToSet
<1> QED
  BY <1>3, <1>4 DEF q

\* A sequence of sequences, flattened, is made of what they are made of.
LEMMA FlattenElements ==
  ASSUME NEW S, NEW seqs \in Seq(Seq(S))
  PROVE  /\ FlattenSeq(seqs) \in Seq(S)
         /\ ToSet(FlattenSeq(seqs)) = UNION {ToSet(seqs[i]) : i \in 1..Len(seqs)}
<1> DEFINE N == Len(seqs)
           Of(n) == UNION {ToSet(seqs[i]) : i \in 1..n}
<1>1. CASE seqs = <<>>
  <2>1. Len(seqs) = 0 /\ FlattenSeq(seqs) = <<>>
    BY <1>1 DEF FlattenSeq
  <2>2. ToSet(<<>>) = {} /\ 1..0 = {}
    BY DEF ToSet
  <2> QED
    BY <2>1, <2>2
<1>2. CASE seqs # <<>>
  <2>1. PICK f : Concats(f, seqs, S) /\ FlattenSeq(seqs) = f[N]
    BY <1>2, FlattenConcats
  <2> DEFINE M == N - 1
             P == {n \in 0..M : ToSet(f[n + 1]) = Of(n + 1)}
  <2>2. /\ N \in Nat /\ M \in Nat /\ M + 1 = N /\ 0 \in 0..M /\ M \in 0..M
        /\ \A i \in 1..N : seqs[i] \in Seq(S) /\ f[i] \in Seq(S)
    <3>1. Len(seqs) \in Nat /\ Len(seqs) # 0
      BY <1>2
    <3>2. f \in [1..Len(seqs) -> Seq(S)] /\ \A i \in 1..Len(seqs) : seqs[i] \in Seq(S)
      BY <2>1 DEF Concats
    <3> QED
      BY SMTT(30), <3>1, <3>2
  <2>3. 0 \in P
    <3>1. 1..1 = {1} /\ f[1] = seqs[1] /\ 0 + 1 = 1
      BY <2>1 DEF Concats
    <3>2. Of(1) = ToSet(seqs[1])
      BY <3>1
    <3> HIDE DEF Of
    <3> QED
      BY <2>2, <3>1, <3>2
  <2>4. ASSUME NEW n \in 1..M, n - 1 \in P PROVE n \in P
    <3>1. PICK k \in 2..N : /\ k = n + 1 /\ k - 1 = n /\ (n - 1) + 1 = n
                            /\ n \in 0..M /\ n \in 1..N /\ k \in 1..N
      <4>1. n + 1 \in 2..N
        BY <2>2
      <4> QED
        BY <2>2, <4>1
    <3> HIDE DEF M
    <3>2. 1..k = 1..n \union {k}
      BY <3>1
    <3>3. Of(k) = Of(n) \union ToSet(seqs[k])
      BY <3>2
    <3> HIDE DEF Of
    <3>4. ToSet(f[n]) = Of(n)
      BY Zenon, <2>4, <3>1
    <3>5. f[k] = f[k - 1] \o seqs[k]
      BY <2>1 DEF Concats
    <3>6. f[k] = f[n] \o seqs[k]
      BY Zenon, <3>1, <3>5
    <3>7. ToSet(f[n] \o seqs[k]) = ToSet(f[n]) \union ToSet(seqs[k])
      <4>1. f[n] \in Seq(S) /\ seqs[k] \in Seq(S)
        BY <2>2, <3>1
      <4> QED
        BY ZenonT(40), <4>1, ConcatSet
    <3>8. ToSet(f[k]) = Of(k)
      BY Zenon, <3>3, <3>4, <3>6, <3>7
    <3> QED
      BY Zenon, <3>1, <3>8
  <2>5. M \in P
    <3> HIDE DEF P, M
    <3> QED
      BY <2>2, <2>3, <2>4, Induction
  <2>6. ToSet(f[N]) = Of(N) /\ f[N] \in Seq(S)
    <3>1. N \in 1..N
      BY <2>2
    <3> HIDE DEF Of, M, N
    <3> QED
      BY Zenon, <2>2, <2>5, <3>1
  <2> QED
    BY <2>1, <2>6
<1> QED
  BY <1>1, <1>2
=============================================================================

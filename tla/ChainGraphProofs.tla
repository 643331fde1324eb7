-------------------------- MODULE ChainGraphProofs --------------------------
(***************************************************************************)
(* What the operators of ChainGraph compute: simulating and running ops    *)
(* one after the other, the ops of a path, and what a forward path is.     *)
(***************************************************************************)
EXTENDS ChainGraph, Recursion, SequenceTheorems

-----------------------------------------------------------------------------
(***************************************************************************)
(* Simulate.                                                               *)
(***************************************************************************)

\* The schema after one more op.
After(schema, op) == (schema \ op.del) \union op.add

\* f lists the schemas the ops lead through.
Leads(f, schema, ops) ==
  /\ f \in [0..Len(ops) -> Revisions]
  /\ f[0] = schema \union {Meta}
  /\ \A i \in 1..Len(ops) : f[i] = After(f[i - 1], ops[i])

\* An op takes a schema to a schema, and leaves the header alone.
LEMMA AfterTyped ==
  ASSUME NEW s \in Revisions, NEW op \in Changes
  PROVE  /\ After(s, op) \in Revisions
         /\ Meta \in s => Meta \in After(s, op)
BY MetaAssumption DEF After, Revisions, Changes, MetaAssumption

\* Simulate returns the last of the schemas the ops lead through.
LEMMA SimulateLeads ==
  ASSUME NEW s \in Revisions, NEW ops \in Seq(Changes)
  PROVE  \E f : Leads(f, s, ops) /\ Simulate(s, ops) = f[Len(ops)]
<1> DEFINE N == Len(ops)
           Body(f) == [i \in 0..N |->
                         IF i = 0 THEN s \union {Meta}
                         ELSE (f[i - 1] \ ops[i].del) \union ops[i].add]
           step == [n \in 1..N |-> [r \in Revisions |-> After(r, ops[n])]]
<1>1. N \in Nat
  OBVIOUS
<1>2. s \union {Meta} \in Revisions
  BY DEF Revisions
<1>3. step \in [1..N -> [Revisions -> Revisions]]
  BY AfterTyped
<1>4. PICK f \in [0..N -> Revisions] : Computes(f, N, s \union {Meta}, step)
  <2> HIDE DEF step, N
  <2> QED
    BY <1>1, <1>2, <1>3, RecursiveFunction
<1>5. f = Body(f)
  <2>1. ASSUME NEW i \in 1..N
        PROVE  f[i] = (f[i - 1] \ ops[i].del) \union ops[i].add
    <3>1. f[i] = step[i][f[i - 1]] /\ f[i - 1] \in Revisions
      BY <1>1, <1>4 DEF Computes
    <3> QED
      BY <3>1 DEF After
  <2>2. \A i \in 0..N : i = 0 \/ i \in 1..N
    BY <1>1
  <2>3. ASSUME NEW i \in 0..N PROVE f[i] = Body(f)[i]
    <3>1. CASE i = 0
      BY <3>1, <1>4 DEF Computes
    <3>2. CASE i # 0
      BY <3>2, <2>1, <2>2
    <3> QED
      BY <3>1, <3>2
  <2> HIDE DEF N
  <2> QED
    BY <1>4, <2>3
<1> DEFINE g == CHOOSE h : h = Body(h)
<1>6. g = Body(g)
  <2> HIDE DEF Body
  <2> QED
    BY <1>5
<1>7. Simulate(s, ops) = g[N]
  BY Zenon DEF Simulate
<1>8. g[0] = s \union {Meta} /\ \A i \in 1..N : g[i] = After(g[i - 1], ops[i])
  <2> HIDE DEF g
  <2> QED
    BY SMTT(30), <1>6 DEF After
<1>9. \A i \in 0..N : g[i] \in Revisions
  <2> DEFINE P == {i \in 0..N : g[i] \in Revisions}
  <2>1. 0 \in P
    <3>1. g[0] \in Revisions /\ 0 \in 0..N
      <4> HIDE DEF g
      <4> QED
        BY <1>1, <1>2, <1>8
    <3> HIDE DEF g
    <3> QED
      BY <3>1
  <2>2. ASSUME NEW n \in 1..N, n - 1 \in P PROVE n \in P
    <3> HIDE DEF g
    <3>1. g[n - 1] \in Revisions /\ ops[n] \in Changes /\ n \in 0..N
      BY <1>1, <2>2
    <3>2. g[n] \in Revisions
      BY <1>8, <3>1, AfterTyped
    <3> QED
      BY <3>1, <3>2
  <2>3. \A i \in 0..N : i \in P
    <3> HIDE DEF P
    <3> QED
      BY <1>1, <2>1, <2>2, Induction
  <2> QED
    BY <2>3
<1>10. g = [i \in 0..N |-> g[i]]
  <2> HIDE DEF g
  <2> QED
    BY <1>6
<1>11. Leads(g, s, ops)
  <2> HIDE DEF g
  <2> QED
    BY <1>8, <1>9, <1>10 DEF Leads
<1> HIDE DEF g, Body
<1> QED
  BY <1>7, <1>11

\* The schemas the ops lead through are the only ones.
LEMMA LeadsAgree ==
  ASSUME NEW s \in Revisions, NEW a \in Seq(Changes), NEW b \in Seq(Changes),
         NEW n \in Nat, n <= Len(a), n <= Len(b),
         \A i \in 1..n : a[i] = b[i],
         NEW f, NEW g, Leads(f, s, a), Leads(g, s, b)
  PROVE  f[n] = g[n]
<1> DEFINE P == {i \in 0..n : f[i] = g[i]}
<1>1. 0 \in P
  <2>1. 0 \in 0..n /\ f[0] = g[0]
    BY DEF Leads
  <2> QED
    BY <2>1
<1>2. ASSUME NEW i \in 1..n, i - 1 \in P PROVE i \in P
  BY <1>2 DEF Leads
<1>3. \A i \in 0..n : i \in P
  <2> HIDE DEF P
  <2> QED
    BY <1>1, <1>2, Induction
<1> QED
  BY <1>3

\* A simulation ends at a schema with its header.
LEMMA SimulateTyped ==
  ASSUME NEW s \in Revisions, NEW ops \in Seq(Changes)
  PROVE  Simulate(s, ops) \in Revisions \ {Genesis} /\ Meta \in Simulate(s, ops)
<1>1. PICK f : Leads(f, s, ops) /\ Simulate(s, ops) = f[Len(ops)]
  BY SimulateLeads
<1> DEFINE P == {i \in 0..Len(ops) : Meta \in f[i]}
<1>2. 0 \in P
  <2>1. 0 \in 0..Len(ops) /\ Meta \in f[0]
    BY <1>1 DEF Leads
  <2> QED
    BY <2>1
<1>3. ASSUME NEW n \in 1..Len(ops), n - 1 \in P PROVE n \in P
  <2>1. /\ n \in 0..Len(ops) /\ n - 1 \in 0..Len(ops) /\ ops[n] \in Changes
        /\ f[n] = After(f[n - 1], ops[n]) /\ f[n - 1] \in Revisions
        /\ Meta \in f[n - 1]
    BY <1>1, <1>3 DEF Leads
  <2> QED
    BY <2>1, AfterTyped
<1>4. \A i \in 0..Len(ops) : i \in P
  <2>1. Len(ops) \in Nat
    OBVIOUS
  <2> HIDE DEF P
  <2> QED
    BY <2>1, <1>2, <1>3, Induction
<1>5. Meta \in f[Len(ops)] /\ f[Len(ops)] \in Revisions
  BY <1>1, <1>4 DEF Leads
<1> QED
  BY <1>1, <1>5 DEF Genesis

\* Simulating ops and then more ops is simulating them all.
LEMMA SimulateConcat ==
  ASSUME NEW s \in Revisions, NEW a \in Seq(Changes), NEW b \in Seq(Changes)
  PROVE  Simulate(s, a \o b) = Simulate(Simulate(s, a), b)
<1> DEFINE ab == a \o b
           m == Len(a)
           n == Len(b)
           t == Simulate(s, a)
<1>1. /\ ab \in Seq(Changes) /\ Len(ab) = m + n /\ m \in Nat /\ n \in Nat
      /\ \A i \in 1..m : ab[i] = a[i]
      /\ \A i \in 1..n : ab[m + i] = b[i]
  OBVIOUS
<1>2. PICK f : Leads(f, s, ab) /\ Simulate(s, ab) = f[m + n]
  BY <1>1, SimulateLeads
<1>3. PICK g : Leads(g, s, a) /\ t = g[m]
  BY SimulateLeads
<1>4. t \in Revisions /\ t \union {Meta} = t
  BY SimulateTyped
<1>5. PICK h : Leads(h, t, b) /\ Simulate(t, b) = h[n]
  <2> HIDE DEF t, n
  <2> QED
    BY <1>4, SimulateLeads DEF n
<1>6. f[m] = t
  <2> HIDE DEF ab, t, m
  <2>1. m <= Len(a) /\ m <= Len(ab)
    BY <1>1 DEF m
  <2> QED
    BY SMTT(30), <1>1, <1>2, <1>3, <2>1, LeadsAgree
<1> DEFINE P == {i \in 0..n : f[m + i] = h[i]}
<1>7. 0 \in P
  <2>1. h[0] = t
    BY <1>4, <1>5 DEF Leads
  <2>2. m + 0 = m /\ 0 \in 0..n
    BY <1>1
  <2> HIDE DEF t, m, n
  <2> QED
    BY <1>6, <2>1, <2>2
<1>8. ASSUME NEW i \in 1..n, i - 1 \in P PROVE i \in P
  <2>1. /\ m + i \in 1..(m + n) /\ (m + i) - 1 = m + (i - 1)
        /\ ab[m + i] = b[i] /\ i \in 0..n
    BY <1>1
  <2>2. f[m + i] = After(f[m + (i - 1)], b[i])
    BY <1>1, <1>2, <2>1 DEF Leads
  <2>3. h[i] = After(h[i - 1], b[i])
    BY <1>5 DEF Leads
  <2>4. f[m + (i - 1)] = h[i - 1]
    BY <1>8
  <2> QED
    BY <2>1, <2>2, <2>3, <2>4
<1>9. \A i \in 0..n : i \in P
  <2> HIDE DEF P, n
  <2> QED
    BY <1>1, <1>7, <1>8, Induction
<1>10. f[m + n] = h[n]
  BY <1>1, <1>9
<1> QED
  BY <1>2, <1>5, <1>10

-----------------------------------------------------------------------------
(***************************************************************************)
(* Runs.                                                                   *)
(***************************************************************************)

\* Ops run one after the other when the first run and the others run on what
\* the first leave.
LEMMA RunsConcat ==
  ASSUME NEW s \in Revisions, NEW a \in Seq(Changes), NEW b \in Seq(Changes),
         Runs(s, a), Runs(Simulate(s, a), b)
  PROVE  Runs(s, a \o b)
<1> DEFINE ab == a \o b
           m == Len(a)
<1>1. /\ ab \in Seq(Changes) /\ Len(ab) = m + Len(b) /\ m \in Nat
      /\ \A i \in 1..m : ab[i] = a[i]
      /\ \A i \in 1..Len(b) : ab[m + i] = b[i]
  OBVIOUS
<1> DEFINE Fits(before, op) ==
             op.del \subseteq before /\ op.add \intersect before = {}
<1>2. ASSUME NEW i \in 1..Len(ab)
      PROVE  Fits(Simulate(s, SubSeq(ab, 1, i - 1)), ab[i])
  <2>1. CASE i \in 1..m
    <3>1. SubSeq(ab, 1, i - 1) = SubSeq(a, 1, i - 1)
      BY <2>1
    <3>2. Fits(Simulate(s, SubSeq(a, 1, i - 1)), a[i])
      BY <2>1 DEF Runs
    <3> HIDE DEF ab, m, Fits
    <3> QED
      BY <1>1, <2>1, <3>1, <3>2
  <2>2. CASE i \notin 1..m
    <3>1. PICK j \in 1..Len(b) : i = m + j
      <4>1. i - m \in 1..Len(b) /\ i = m + (i - m)
        BY <1>1, <2>2
      <4> QED
        BY <4>1
    <3>2. SubSeq(ab, 1, i - 1) = a \o SubSeq(b, 1, j - 1)
      BY <3>1
    <3>3. SubSeq(b, 1, j - 1) \in Seq(Changes)
      OBVIOUS
    <3>4. Simulate(s, SubSeq(ab, 1, i - 1))
            = Simulate(Simulate(s, a), SubSeq(b, 1, j - 1))
      <4> DEFINE c == SubSeq(b, 1, j - 1)
      <4>1. Simulate(s, a \o c) = Simulate(Simulate(s, a), c)
        <5> HIDE DEF c
        <5> QED
          BY <3>3, SimulateConcat DEF c
      <4> QED
        BY Zenon, <3>2, <4>1
    <3>5. Fits(Simulate(Simulate(s, a), SubSeq(b, 1, j - 1)), b[j])
      BY DEF Runs
    <3>6. ab[i] = b[j]
      BY <1>1, <3>1
    <3> HIDE DEF ab, m, Fits
    <3> QED
      BY <3>4, <3>5, <3>6
  <2> QED
    BY <2>1, <2>2
<1> QED
  BY <1>2 DEF Runs

-----------------------------------------------------------------------------
(***************************************************************************)
(* Concatenating sequences.                                                *)
(***************************************************************************)

\* The concatenation of the first n sequences.
LEMMA FlattenPrefix ==
  ASSUME NEW S, NEW seqs \in Seq(Seq(S)), NEW f, Concats(f, seqs, S),
         NEW n \in 1..Len(seqs)
  PROVE  FlattenSeq(SubSeq(seqs, 1, n)) = f[n]
<1> DEFINE sub == SubSeq(seqs, 1, n)
<1>1. /\ sub \in Seq(Seq(S)) /\ Len(sub) = n /\ sub # <<>> /\ n \in Nat
      /\ \A i \in 1..n : sub[i] = seqs[i]
  OBVIOUS
<1>2. PICK g : Concats(g, sub, S) /\ FlattenSeq(sub) = g[n]
  <2> HIDE DEF sub
  <2> QED
    BY <1>1, FlattenConcats
<1> DEFINE M == n - 1
           P == {i \in 0..M : g[i + 1] = f[i + 1]}
<1>3. 0 \in P
  <2>1. 0 \in 0..M /\ 0 + 1 = 1 /\ sub[1] = seqs[1]
    BY <1>1
  <2> HIDE DEF sub
  <2> QED
    BY <1>2, <2>1 DEF Concats
<1>4. ASSUME NEW i \in 1..M, i - 1 \in P PROVE i \in P
  <2>1. /\ i \in 0..M /\ i + 1 \in 2..n /\ (i - 1) + 1 = i /\ i + 1 - 1 = i
        /\ i + 1 \in 2..Len(seqs)
    BY <1>1
  <2>2. g[i] = f[i]
    BY <1>4, <2>1
  <2>3. g[i + 1] = g[i] \o sub[i + 1]
    <3> HIDE DEF sub
    <3>1. PICK k \in 2..n : k = i + 1 /\ k - 1 = i
      BY <2>1
    <3>2. g[k] = g[k - 1] \o sub[k]
      BY <1>1, <1>2 DEF Concats
    <3> QED
      BY Zenon, <3>1, <3>2
  <2>4. f[i + 1] = f[i] \o seqs[i + 1]
    <3>1. PICK k \in 2..Len(seqs) : k = i + 1 /\ k - 1 = i
      BY <2>1
    <3>2. f[k] = f[k - 1] \o seqs[k]
      BY DEF Concats
    <3> QED
      BY Zenon, <3>1, <3>2
  <2>5. sub[i + 1] = seqs[i + 1]
    BY <1>1, <2>1
  <2> HIDE DEF sub
  <2> QED
    BY <2>1, <2>2, <2>3, <2>4, <2>5
<1>5. M \in 0..M
  BY <1>1
<1>6. \A i \in 0..M : i \in P
  <2>1. M \in Nat
    BY <1>1
  <2> HIDE DEF P, M
  <2> QED
    BY <1>3, <1>4, <2>1, Induction
<1>7. g[n] = f[n]
  <2>1. M + 1 = n
    BY <1>1
  <2>2. g[M + 1] = f[M + 1]
    BY <1>5, <1>6
  <2> QED
    BY Zenon, <2>1, <2>2
<1> QED
  BY <1>2, <1>7

-----------------------------------------------------------------------------
(***************************************************************************)
(* The ops of a path.                                                      *)
(***************************************************************************)

\* The edges of p follow one another.
Linked(p) == \A i \in 1..(Len(p) - 1) : p[i].target = p[i + 1].parent

\* The ops of a path, edge by edge.
LEMMA EdgesOpsConcats ==
  ASSUME NEW p \in Seq(Edges), p # <<>>
  PROVE  LET seqs == [i \in DOMAIN p |-> p[i].ops] IN
           /\ seqs \in Seq(Seq(Changes)) /\ Len(seqs) = Len(p)
           /\ \E f : Concats(f, seqs, Changes) /\ EdgesOps(p) = f[Len(p)]
<1> DEFINE seqs == [i \in DOMAIN p |-> p[i].ops]
<1>1. \A i \in DOMAIN p : p[i].ops \in Seq(Changes)
  <2>1. \A i \in DOMAIN p : p[i] \in Edges
    OBVIOUS
  <2> QED
    BY <2>1 DEF Edges
<1>2. seqs \in Seq(Seq(Changes)) /\ Len(seqs) = Len(p) /\ seqs # <<>>
  BY <1>1
<1>3. \E f : Concats(f, seqs, Changes) /\ FlattenSeq(seqs) = f[Len(p)]
  <2> HIDE DEF seqs
  <2> QED
    BY <1>2, FlattenConcats
<1>4. EdgesOps(p) = FlattenSeq(seqs)
  BY Zenon DEF EdgesOps
<1> QED
  BY <1>2, <1>3, <1>4

\* The ops of a path are ops.
LEMMA EdgesOpsTyped ==
  ASSUME NEW p \in Seq(Edges), p # <<>>
  PROVE  EdgesOps(p) \in Seq(Changes)
<1> DEFINE seqs == [i \in DOMAIN p |-> p[i].ops]
<1>1. Len(p) \in 1..Len(p)
  OBVIOUS
<1>2. PICK f : /\ Len(seqs) = Len(p)
               /\ Concats(f, seqs, Changes) /\ EdgesOps(p) = f[Len(p)]
  BY EdgesOpsConcats
<1> HIDE DEF seqs
<1> QED
  BY <1>1, <1>2 DEF Concats

\* The ops of a path of one edge, and of a path that is one edge longer.
LEMMA EdgesOpsPrefix ==
  ASSUME NEW p \in Seq(Edges), p # <<>>
  PROVE  /\ EdgesOps(SubSeq(p, 1, 1)) = p[1].ops
         /\ \A n \in 2..Len(p) :
              EdgesOps(SubSeq(p, 1, n)) = EdgesOps(SubSeq(p, 1, n - 1)) \o p[n].ops
         /\ SubSeq(p, 1, Len(p)) = p
<1> DEFINE seqs == [i \in DOMAIN p |-> p[i].ops]
<1>1. PICK f : /\ seqs \in Seq(Seq(Changes)) /\ Len(seqs) = Len(p)
               /\ Concats(f, seqs, Changes)
  BY EdgesOpsConcats
<1>2. ASSUME NEW n \in 1..Len(p)
      PROVE  EdgesOps(SubSeq(p, 1, n)) = f[n]
  <2> DEFINE sub == SubSeq(p, 1, n)
  <2>1. [i \in DOMAIN sub |-> sub[i].ops] = SubSeq(seqs, 1, n)
    <3>1. /\ DOMAIN sub = 1..n /\ \A i \in 1..n : sub[i] = p[i]
          /\ DOMAIN p = 1..Len(p) /\ n \in Nat /\ n <= Len(p)
      OBVIOUS
    <3>2. SubSeq(seqs, 1, n) = [i \in 1..n |-> seqs[i]]
      <4> HIDE DEF seqs
      <4> QED
        BY <1>1, <3>1
    <3>3. \A i \in 1..n : i \in DOMAIN p
      BY <3>1
    <3> QED
      BY <3>1, <3>2, <3>3
  <2>2. FlattenSeq(SubSeq(seqs, 1, n)) = f[n]
    <3> HIDE DEF seqs
    <3> QED
      BY <1>1, FlattenPrefix
  <2> HIDE DEF seqs
  <2> QED
    BY <2>1, <2>2 DEF EdgesOps
<1>3. /\ 1 \in 1..Len(p) /\ \A n \in 2..Len(p) : n \in 1..Len(p) /\ n - 1 \in 1..Len(p)
      /\ \A n \in 1..Len(p) : seqs[n] = p[n].ops
  OBVIOUS
<1>4. f[1] = seqs[1] /\ \A n \in 2..Len(p) : f[n] = f[n - 1] \o seqs[n]
  <2> HIDE DEF seqs
  <2> QED
    BY <1>1 DEF Concats
<1>5. SubSeq(p, 1, Len(p)) = p
  OBVIOUS
<1>6. EdgesOps(SubSeq(p, 1, 1)) = p[1].ops
  <2> HIDE DEF seqs
  <2> QED
    BY <1>2, <1>3, <1>4
<1>7. ASSUME NEW n \in 2..Len(p)
      PROVE  EdgesOps(SubSeq(p, 1, n)) = EdgesOps(SubSeq(p, 1, n - 1)) \o p[n].ops
  <2>1. n \in 1..Len(p) /\ n - 1 \in 1..Len(p)
    OBVIOUS
  <2>2. EdgesOps(SubSeq(p, 1, n)) = f[n] /\ EdgesOps(SubSeq(p, 1, n - 1)) = f[n - 1]
    BY Zenon, <1>2, <2>1
  <2>3. f[n] = f[n - 1] \o p[n].ops
    <3> HIDE DEF seqs
    <3> QED
      BY <1>3, <1>4, <2>1
  <2> QED
    BY Zenon, <2>2, <2>3
<1> QED
  BY <1>5, <1>6, <1>7

\* The ops of a path lead from where it starts to where it ends, if those of
\* each edge do, and run if those of each edge run on its parent.
LEMMA PathReproduces ==
  ASSUME NEW p \in Seq(Edges), p # <<>>, Linked(p),
         \A i \in 1..Len(p) : Reproduces(p[i])
  PROVE  /\ Simulate(p[1].parent, EdgesOps(p)) = p[Len(p)].target
         /\ (\A i \in 1..Len(p) : Runs(p[i].parent, p[i].ops)) =>
               Runs(p[1].parent, EdgesOps(p))
<1> DEFINE start == p[1].parent
           M == Len(p) - 1
           OpsTo(n) == EdgesOps(SubSeq(p, 1, n))
           Running == \A i \in 1..Len(p) : Runs(p[i].parent, p[i].ops)
           P == {i \in 0..M : /\ Simulate(start, OpsTo(i + 1)) = p[i + 1].target
                              /\ Running => Runs(start, OpsTo(i + 1))}
<1>1. Len(p) \in Nat /\ M \in Nat /\ Len(p) = M + 1 /\ 1 \in 1..Len(p)
  OBVIOUS
<1>2. ASSUME NEW i \in 1..Len(p)
      PROVE  /\ p[i] \in Edges /\ p[i].parent \in Revisions
             /\ p[i].target \in Revisions /\ p[i].ops \in Seq(Changes)
  <2>1. p[i] \in Edges
    OBVIOUS
  <2> QED
    BY <2>1 DEF Edges
<1>3. ASSUME NEW n \in 1..Len(p) PROVE OpsTo(n) \in Seq(Changes)
  <2> DEFINE q == SubSeq(p, 1, n)
  <2>1. q \in Seq(Edges) /\ q # <<>>
    OBVIOUS
  <2>2. EdgesOps(q) \in Seq(Changes)
    <3> HIDE DEF q
    <3> QED
      BY <2>1, EdgesOpsTyped
  <2> QED
    BY <2>2
<1>4. 0 \in P
  <2>1. OpsTo(1) = p[1].ops
    BY EdgesOpsPrefix
  <2>2. Simulate(start, p[1].ops) = p[1].target
    BY <1>1 DEF Reproduces
  <2>3. Running => Runs(start, p[1].ops)
    BY <1>1
  <2>4. 0 \in 0..M /\ 0 + 1 = 1
    BY <1>1
  <2> HIDE DEF OpsTo, start, Running, M
  <2> QED
    BY <2>1, <2>2, <2>3, <2>4
<1>5. ASSUME NEW i \in 1..M, i - 1 \in P PROVE i \in P
  <2>1. PICK k \in 2..Len(p) : /\ k = i + 1 /\ k - 1 = i /\ (i - 1) + 1 = i
                               /\ i \in 1..Len(p) /\ k \in 1..Len(p) /\ i \in 0..M
    <3>1. i + 1 \in 2..Len(p) /\ (i + 1) - 1 = i
      BY <1>1
    <3> QED
      BY <1>1, <3>1
  <2> DEFINE a == OpsTo(i)
             b == p[k].ops
             t == p[k].parent
  <2>2. OpsTo(k) = a \o b
    <3>1. EdgesOps(SubSeq(p, 1, k)) = EdgesOps(SubSeq(p, 1, k - 1)) \o p[k].ops
      BY EdgesOpsPrefix
    <3> QED
      BY Zenon, <2>1, <3>1
  <2>3. Simulate(start, a) = t /\ (Running => Runs(start, a))
    <3>1. Simulate(start, a) = p[i].target /\ (Running => Runs(start, a))
      BY Zenon, <1>5, <2>1
    <3>2. p[i].target = p[k].parent
      BY <2>1 DEF Linked
    <3> QED
      BY Zenon, <3>1, <3>2
  <2>4. /\ start \in Revisions /\ t \in Revisions
        /\ a \in Seq(Changes) /\ b \in Seq(Changes)
    BY Zenon, <1>1, <1>2, <1>3, <2>1
  <2>5. Simulate(t, b) = p[k].target /\ (Running => Runs(t, b))
    BY <2>1 DEF Reproduces
  <2>6. Simulate(start, a \o b) = p[k].target
    <3> HIDE DEF start, a, b, t
    <3> QED
      BY <2>3, <2>4, <2>5, SimulateConcat
  <2>7. Running => Runs(start, a \o b)
    <3> HIDE DEF start, a, b, t, Running
    <3> QED
      BY <2>3, <2>4, <2>5, RunsConcat
  <2> QED
    BY Zenon, <2>1, <2>2, <2>6, <2>7
<1>6. M \in P
  <2>1. M \in 0..M
    BY <1>1
  <2> HIDE DEF P, M
  <2> QED
    BY <1>1, <1>4, <1>5, <2>1, Induction
<1>7. OpsTo(M + 1) = EdgesOps(p) /\ M + 1 = Len(p)
  BY <1>1, EdgesOpsPrefix
<1> QED
  BY Zenon, <1>6, <1>7

-----------------------------------------------------------------------------
(***************************************************************************)
(* The remap and the forward paths.                                        *)
(***************************************************************************)

\* Without a remap every revision stands for itself.
LEMMA CanonPlain ==
  ASSUME NEW r
  PROVE  Canon(r, NoRemap) = r
<1> DEFINE Body(f) == [i \in 0..1 |->
                         IF i = 0 THEN r
                         ELSE IF f[i - 1] \in DOMAIN NoRemap
                              THEN NoRemap[f[i - 1]] ELSE f[i - 1]]
<1>1. DOMAIN NoRemap = {} /\ Cardinality(DOMAIN NoRemap) + 1 = 1
  BY FS_EmptySet DEF NoRemap
<1> DEFINE h == [i \in 0..1 |-> r]
           g == CHOOSE f : f = Body(f)
<1>2. h = Body(h)
  BY <1>1
<1>3. g = Body(g)
  <2> HIDE DEF Body, h
  <2> QED
    BY <1>2
<1>4. Canon(r, NoRemap) = g[1]
  BY Zenon, <1>1 DEF Canon
<1>5. g[0] = r /\ g[1] = g[0]
  <2> HIDE DEF g
  <2> QED
    BY <1>1, <1>3
<1> QED
  BY <1>4, <1>5

\* A path from start: it follows edges, each once, each from where the one
\* before ends.
IsWalk(p, start, edges, remap) ==
  /\ p \in Seq(edges)
  /\ p # <<>> => Canon(p[1].parent, remap) = start
  /\ \A i \in 1..(Len(p) - 1) :
       Canon(p[i].target, remap) = Canon(p[i + 1].parent, remap)
  /\ \A i, j \in 1..Len(p) : p[i] = p[j] => i = j

\* ForwardPaths returns walks that end at the target.
LEMMA ForwardPathsAreWalks ==
  ASSUME NEW start, NEW target, NEW edges, IsFiniteSet(edges), NEW remap,
         NEW p \in ForwardPaths(start, target, edges, remap)
  PROVE  /\ IsWalk(p, start, edges, remap) /\ p # <<>>
         /\ Canon(p[Len(p)].target, remap) = target
<1> DEFINE N == Cardinality(edges)
           End(q) == IF q = <<>> THEN start ELSE Canon(Last(q).target, remap)
           Longer(q) ==
             {Append(q, e) : e \in {x \in edges \ ToSet(q) :
                                      Canon(x.parent, remap) = End(q)}}
           Body(f) == [n \in 0..N |->
                         IF n = 0 THEN {<<>>} ELSE UNION {Longer(q) : q \in f[n - 1]}]
           Walks == {q \in Seq(edges) : IsWalk(q, start, edges, remap)}
           step == [n \in 1..N |->
                      [Q \in SUBSET Walks |-> UNION {Longer(q) : q \in Q}]]
<1>1. N \in Nat
  BY FS_CardinalityType
<1>2. ASSUME NEW q \in Walks, NEW r \in Longer(q)
      PROVE  r \in Walks /\ r # <<>>
  <2>1. PICK e \in edges : /\ r = Append(q, e) /\ e \notin ToSet(q)
                           /\ Canon(e.parent, remap) = End(q)
    OBVIOUS
  <2>2. /\ q \in Seq(edges) /\ Len(q) \in Nat /\ r \in Seq(edges)
        /\ Len(r) = Len(q) + 1 /\ r # <<>> /\ r[Len(q) + 1] = e
        /\ \A i \in 1..Len(q) : r[i] = q[i]
        /\ q = <<>> <=> Len(q) = 0
    BY <2>1
  <2>3. Canon(r[1].parent, remap) = start
    <3>1. CASE q = <<>>
      BY <2>1, <2>2, <3>1
    <3>2. CASE q # <<>>
      <4>1. 1 \in 1..Len(q) /\ r[1] = q[1]
        BY <2>2, <3>2
      <4> QED
        BY <3>2, <4>1 DEF IsWalk
    <3> QED
      BY <3>1, <3>2
  <2>4. ASSUME NEW i \in 1..(Len(r) - 1)
        PROVE  Canon(r[i].target, remap) = Canon(r[i + 1].parent, remap)
    <3>1. CASE i = Len(q)
      <4>1. q # <<>> /\ r[i] = Last(q) /\ r[i + 1] = e
        BY <2>2, <3>1 DEF Last
      <4> QED
        BY <2>1, <4>1
    <3>2. CASE i # Len(q)
      <4>1. i \in 1..(Len(q) - 1) /\ r[i] = q[i] /\ r[i + 1] = q[i + 1]
        BY <2>2, <3>2
      <4> QED
        BY <4>1 DEF IsWalk
    <3> QED
      BY <3>1, <3>2
  <2>5. ASSUME NEW i \in 1..Len(r), NEW j \in 1..Len(r), r[i] = r[j]
        PROVE  i = j
    <3>1. \A k \in 1..Len(q) : q[k] # e
      BY <2>1 DEF ToSet
    <3>2. /\ i \in 1..Len(q) \/ i = Len(q) + 1
          /\ j \in 1..Len(q) \/ j = Len(q) + 1
      BY <2>2
    <3>3. \A k, l \in 1..Len(q) : q[k] = q[l] => k = l
      BY DEF IsWalk
    <3> QED
      BY <2>2, <2>5, <3>1, <3>2, <3>3
  <2>6. IsWalk(r, start, edges, remap)
    BY <2>2, <2>3, <2>4, <2>5 DEF IsWalk
  <2> QED
    BY <2>2, <2>6
<1>3. {<<>>} \in SUBSET Walks
  BY DEF IsWalk
<1>4. step \in [1..N -> [SUBSET Walks -> SUBSET Walks]]
  <2>1. ASSUME NEW Q \in SUBSET Walks
        PROVE  UNION {Longer(q) : q \in Q} \in SUBSET Walks
    <3> HIDE DEF Longer, Walks
    <3> QED
      BY <1>2
  <2> HIDE DEF Longer, Walks, N
  <2> QED
    BY <2>1
<1>5. PICK f \in [0..N -> SUBSET Walks] : Computes(f, N, {<<>>}, step)
  <2> HIDE DEF step, N, Walks
  <2> QED
    BY <1>1, <1>3, <1>4, RecursiveFunction
<1>6. f = Body(f)
  <2>1. ASSUME NEW n \in 1..N PROVE f[n] = UNION {Longer(q) : q \in f[n - 1]}
    <3>1. n - 1 \in 0..N
      BY <1>1
    <3> HIDE DEF Longer, Walks, N
    <3>2. f[n - 1] \in SUBSET Walks
      BY <3>1
    <3>3. f[n] = step[n][f[n - 1]]
      BY <1>5 DEF Computes
    <3> QED
      BY <3>2, <3>3
  <2>2. f[0] = {<<>>} /\ \A n \in 0..N : n = 0 \/ n \in 1..N
    BY <1>1, <1>5 DEF Computes
  <2> HIDE DEF Longer, Walks, N
  <2>3. ASSUME NEW n \in 0..N PROVE f[n] = Body(f)[n]
    BY <2>1, <2>2
  <2> QED
    BY <2>3
<1> DEFINE g == CHOOSE k : k = Body(k)
<1>7. g = Body(g)
  <2> HIDE DEF Body
  <2> QED
    BY <1>6
<1>8. /\ p \in UNION {g[n] : n \in 1..N} /\ End(p) = target
  BY Zenon DEF ForwardPaths
<1>9. /\ g[0] = {<<>>}
      /\ \A n \in 1..N : g[n] = UNION {Longer(q) : q \in g[n - 1]}
  <2> HIDE DEF g, Longer
  <2>1. \A n \in 0..N : g[n] = Body(g)[n]
    <3> HIDE DEF Body
    <3> QED
      BY <1>7
  <2>2. 0 \in 0..N /\ \A n \in 1..N : n \in 0..N /\ n # 0
    BY <1>1
  <2> HIDE DEF N
  <2> QED
    BY <2>1, <2>2
<1> DEFINE P == {n \in 0..N : g[n] \subseteq Walks}
<1>10. 0 \in P
  <2> HIDE DEF g, Walks
  <2> QED
    BY <1>1, <1>3, <1>9
<1>11. ASSUME NEW n \in 1..N, n - 1 \in P PROVE n \in P
  <2>1. n \in 0..N /\ g[n - 1] \subseteq Walks
    BY <1>1, <1>11
  <2> HIDE DEF g, Walks, Longer, N
  <2> QED
    BY <1>2, <1>9, <2>1
<1>12. \A n \in 0..N : n \in P
  <2> HIDE DEF P, N
  <2> QED
    BY <1>1, <1>10, <1>11, Induction
<1>13. p \in Walks /\ p # <<>>
  <2>1. PICK n \in 1..N : p \in g[n]
    BY <1>8
  <2>2. n - 1 \in 0..N
    BY <1>1
  <2>3. PICK q \in g[n - 1] : p \in Longer(q)
    <3> HIDE DEF g, Longer, N
    <3> QED
      BY <1>9, <2>1
  <2>4. q \in Walks
    <3> HIDE DEF g, Walks, N
    <3> QED
      BY <1>12, <2>2, <2>3
  <2> HIDE DEF Walks, Longer
  <2> QED
    BY <1>2, <2>3, <2>4
<1>14. Canon(p[Len(p)].target, remap) = target
  <2> HIDE DEF g
  <2> QED
    BY <1>8, <1>13 DEF Last
<1> QED
  BY <1>13, <1>14

\* The ops of a path are those of its edges.
LEMMA EdgesOpsElements ==
  ASSUME NEW p \in Seq(Edges), p # <<>>
  PROVE  /\ \A i \in 1..Len(p) : ToSet(p[i].ops) \subseteq ToSet(EdgesOps(p))
         /\ \A x \in ToSet(EdgesOps(p)) : \E i \in 1..Len(p) : x \in ToSet(p[i].ops)
<1> DEFINE M == Len(p) - 1
           Ops(n) == EdgesOps(SubSeq(p, 1, n))
           Of(n) == UNION {ToSet(p[i].ops) : i \in 1..n}
           P == {n \in 0..M : ToSet(Ops(n + 1)) = Of(n + 1)}
<1>1. /\ Len(p) \in Nat /\ M \in Nat /\ M + 1 = Len(p) /\ 0 \in 0..M /\ M \in 0..M
      /\ \A i \in 1..Len(p) : p[i] \in Edges /\ p[i].ops \in Seq(Changes)
  <2>1. Len(p) \in Nat /\ Len(p) # 0 /\ \A i \in 1..Len(p) : p[i] \in Edges
    OBVIOUS
  <2>2. \A e \in Edges : e.ops \in Seq(Changes)
    BY DEF Edges
  <2> QED
    BY <2>1, <2>2
<1>2. /\ Ops(1) = p[1].ops
      /\ \A n \in 2..Len(p) : Ops(n) = Ops(n - 1) \o p[n].ops
      /\ Ops(Len(p)) = EdgesOps(p)
  BY EdgesOpsPrefix
<1>3. ASSUME NEW n \in 1..Len(p) PROVE Ops(n) \in Seq(Changes)
  <2> DEFINE q == SubSeq(p, 1, n)
  <2>1. q \in Seq(Edges) /\ q # <<>>
    OBVIOUS
  <2> HIDE DEF q
  <2>2. EdgesOps(q) \in Seq(Changes)
    BY <2>1, EdgesOpsTyped
  <2> QED
    BY <2>2 DEF q
<1> HIDE DEF Ops
<1>4. 0 \in P
  <2>1. 1..1 = {1}
    OBVIOUS
  <2>2. Of(1) = ToSet(p[1].ops)
    BY <2>1
  <2>3. ToSet(Ops(1)) = Of(1) /\ 0 + 1 = 1
    BY <1>2, <2>2
  <2> HIDE DEF Of
  <2> QED
    BY <1>1, <2>3
<1>5. ASSUME NEW n \in 1..M, n - 1 \in P PROVE n \in P
  <2>1. PICK k \in 2..Len(p) : /\ k = n + 1 /\ k - 1 = n /\ (n - 1) + 1 = n
                               /\ n \in 0..M /\ n \in 1..Len(p) /\ k \in 1..Len(p)
    <3>1. n + 1 \in 2..Len(p)
      BY <1>1
    <3> QED
      BY <1>1, <3>1
  <2> HIDE DEF M
  <2>2. 1..k = 1..n \union {k}
    BY <2>1
  <2>3. Of(k) = Of(n) \union ToSet(p[k].ops)
    BY <2>2
  <2> HIDE DEF Of
  <2>4. ToSet(Ops(n)) = Of(n)
    BY Zenon, <1>5, <2>1
  <2>5. Ops(k) = Ops(n) \o p[k].ops
    BY Zenon, <1>2, <2>1
  <2>6. Ops(n) \in Seq(Changes) /\ p[k].ops \in Seq(Changes)
    BY <1>1, <1>3, <2>1
  <2>7. ToSet(Ops(n) \o p[k].ops) = ToSet(Ops(n)) \union ToSet(p[k].ops)
    BY ZenonT(40), <2>6, ConcatSet
  <2>8. ToSet(Ops(k)) = Of(k)
    BY Zenon, <2>3, <2>4, <2>5, <2>7
  <2> QED
    BY Zenon, <2>1, <2>8
<1>6. M \in P
  <2> HIDE DEF P, M
  <2> QED
    BY <1>1, <1>4, <1>5, Induction
<1>7. ToSet(EdgesOps(p)) = Of(Len(p))
  <2> HIDE DEF Of, M
  <2> QED
    BY Zenon, <1>1, <1>2, <1>6
<1> QED
  BY <1>7

\* The ops of a path of two edges or more, each of some ops, are more than those
\* of its first edge.
LEMMA EdgesOpsLonger ==
  ASSUME NEW p \in Seq(Edges), Len(p) >= 2, \A i \in 1..Len(p) : p[i].ops # <<>>
  PROVE  EdgesOps(p) # p[1].ops /\ EdgesOps(p) # <<>>
<1> DEFINE M == Len(p) - 1
           Ops(n) == EdgesOps(SubSeq(p, 1, n))
           k == Len(p[1].ops)
           P == {n \in 0..M : Len(Ops(n + 1)) >= k + n}
<1>1. /\ p # <<>> /\ Len(p) \in Nat /\ M \in Nat /\ M >= 1 /\ M + 1 = Len(p)
      /\ 0 \in 0..M /\ M \in 0..M
      /\ \A i \in 1..Len(p) : p[i] \in Edges
  OBVIOUS
<1>2. \A i \in 1..Len(p) : p[i].ops \in Seq(Changes)
  BY <1>1 DEF Edges
<1>3. /\ Ops(1) = p[1].ops
      /\ \A n \in 2..Len(p) : Ops(n) = Ops(n - 1) \o p[n].ops
      /\ Ops(Len(p)) = EdgesOps(p)
  BY <1>1, EdgesOpsPrefix
<1>4. ASSUME NEW n \in 1..Len(p) PROVE Ops(n) \in Seq(Changes)
  <2> DEFINE q == SubSeq(p, 1, n)
  <2>1. q \in Seq(Edges) /\ q # <<>>
    OBVIOUS
  <2> HIDE DEF q
  <2>2. EdgesOps(q) \in Seq(Changes)
    BY <2>1, EdgesOpsTyped
  <2> QED
    BY <2>2 DEF q
<1>5. p[1].ops \in Seq(Changes) /\ k \in Nat /\ k >= 1
  <2>1. 1 \in 1..Len(p)
    BY <1>1
  <2>2. p[1].ops \in Seq(Changes) /\ p[1].ops # <<>>
    BY <1>2, <2>1
  <2> QED
    BY <2>2
<1> HIDE DEF Ops
<1>6. 0 \in P
  <2>1. Ops(0 + 1) = p[1].ops
    BY <1>3
  <2>2. Len(Ops(0 + 1)) = k
    BY Zenon, <2>1
  <2> HIDE DEF k
  <2> QED
    BY <1>1, <1>5, <2>2
<1>7. ASSUME NEW n \in 1..M, n - 1 \in P PROVE n \in P
  <2>1. PICK j \in 2..Len(p) : /\ j = n + 1 /\ j - 1 = n /\ (n - 1) + 1 = n
                               /\ n \in 0..M /\ n \in 1..Len(p) /\ j \in 1..Len(p)
    <3>1. n + 1 \in 2..Len(p)
      BY <1>1
    <3> QED
      BY <1>1, <3>1
  <2> HIDE DEF M, k
  <2>2. Len(Ops((n - 1) + 1)) >= k + (n - 1)
    BY <1>7
  <2>3. Len(Ops(n)) >= k + (n - 1)
    BY Zenon, <2>1, <2>2
  <2>4. Ops(j) = Ops(n) \o p[j].ops
    BY Zenon, <1>3, <2>1
  <2>5. Ops(n) \in Seq(Changes) /\ p[j].ops \in Seq(Changes) /\ p[j].ops # <<>>
    BY <1>2, <1>4, <2>1
  <2> DEFINE a == Ops(n)
             b == p[j].ops
  <2>6. Len(a \o b) = Len(a) + Len(b) /\ Len(a) \in Nat /\ Len(b) \in Nat /\ Len(b) >= 1
    <3> HIDE DEF a, b
    <3>1. a \in Seq(Changes) /\ b \in Seq(Changes) /\ b # <<>>
      BY <2>5 DEF a, b
    <3> QED
      BY <3>1
  <2>7. Len(Ops(j)) = Len(a) + Len(b)
    BY Zenon, <2>4, <2>6
  <2>8. Len(Ops(j)) >= k + n
    <3>1. Len(a) >= k + (n - 1)
      BY <2>3
    <3>2. n \in Nat
      BY <2>1
    <3> HIDE DEF a, b
    <3> QED
      BY <1>5, <2>6, <2>7, <3>1, <3>2
  <2>9. Len(Ops(n + 1)) >= k + n
    BY Zenon, <2>1, <2>8
  <2> QED
    BY <2>1, <2>9
<1>8. M \in P
  <2> HIDE DEF P, M
  <2> QED
    BY <1>1, <1>6, <1>7, Induction
<1>9. Len(EdgesOps(p)) >= k + M
  <2>1. Len(Ops(M + 1)) >= k + M
    BY <1>8
  <2> HIDE DEF M, k
  <2> QED
    BY Zenon, <1>1, <1>3, <2>1
<1>10. Len(EdgesOps(p)) > k /\ Len(EdgesOps(p)) # 0
  <2>1. EdgesOps(p) \in Seq(Changes)
    BY <1>1, EdgesOpsTyped
  <2>2. Len(EdgesOps(p)) \in Nat
    BY <2>1
  <2> HIDE DEF M, k
  <2> QED
    BY <1>1, <1>5, <1>9, <2>2
<1> QED
  BY <1>5, <1>10

-----------------------------------------------------------------------------
(***************************************************************************)
(* Reachable.                                                              *)
(***************************************************************************)

\* What is one edge away from r, or r itself.
OneAway(r, edges) == {r} \union {e.target : e \in {x \in edges : x.parent = r}}

\* reach lists what is within so many edges of start.
Spreads(reach, start, edges) ==
  /\ reach \in [0..Cardinality(edges) -> SUBSET Revisions]
  /\ reach[0] = {start}
  /\ \A n \in 1..Cardinality(edges) :
       reach[n] = UNION {OneAway(r, edges) : r \in reach[n - 1]}

\* Reachable asks for what is within as many edges as there are.
LEMMA ReachableSpreads ==
  ASSUME NEW edges \in SUBSET Edges, IsFiniteSet(edges), NEW start \in Revisions
  PROVE  \E reach : /\ Spreads(reach, start, edges)
                    /\ \A r : Reachable(start, r, edges, NoRemap)
                                <=> r \in reach[Cardinality(edges)]
<1> DEFINE N == Cardinality(edges)
           Near(r) == {r} \union {Canon(e.target, NoRemap) :
                                    e \in {x \in edges : Canon(x.parent, NoRemap) = r}}
           Body(f) == [n \in 0..N |->
                         IF n = 0 THEN {start} ELSE UNION {Near(r) : r \in f[n - 1]}]
           step == [n \in 1..N |->
                      [Q \in SUBSET Revisions |-> UNION {Near(r) : r \in Q}]]
<1>1. N \in Nat
  BY FS_CardinalityType
<1>2. \A r : Near(r) = OneAway(r, edges)
  BY CanonPlain DEF OneAway
<1>3. \A r \in Revisions : Near(r) \in SUBSET Revisions
  <2>1. \A e \in edges : e.target \in Revisions
    BY DEF Edges
  <2> HIDE DEF Near
  <2> QED
    BY <1>2, <2>1 DEF OneAway
<1>4. step \in [1..N -> [SUBSET Revisions -> SUBSET Revisions]]
  <2>1. ASSUME NEW Q \in SUBSET Revisions
        PROVE  UNION {Near(r) : r \in Q} \in SUBSET Revisions
    <3> HIDE DEF Near
    <3> QED
      BY <1>3
  <2> HIDE DEF Near, N
  <2> QED
    BY <2>1
<1>5. PICK f \in [0..N -> SUBSET Revisions] : Computes(f, N, {start}, step)
  <2> HIDE DEF step, N
  <2> QED
    BY <1>1, <1>4, RecursiveFunction
<1>6. f = Body(f)
  <2>1. ASSUME NEW n \in 1..N PROVE f[n] = UNION {Near(r) : r \in f[n - 1]}
    <3>1. n - 1 \in 0..N
      BY <1>1
    <3> HIDE DEF Near, N
    <3>2. f[n - 1] \in SUBSET Revisions
      BY <3>1
    <3>3. f[n] = step[n][f[n - 1]]
      BY <1>5 DEF Computes
    <3> QED
      BY <3>2, <3>3
  <2>2. f[0] = {start} /\ \A n \in 0..N : n = 0 \/ n \in 1..N
    BY <1>1, <1>5 DEF Computes
  <2> HIDE DEF Near, N
  <2>3. ASSUME NEW n \in 0..N PROVE f[n] = Body(f)[n]
    BY <2>1, <2>2
  <2> QED
    BY <2>3
<1> DEFINE g == CHOOSE k : k = Body(k)
<1>7. g = Body(g)
  <2> HIDE DEF Body
  <2> QED
    BY <1>6
<1>8. \A r : Reachable(start, r, edges, NoRemap) <=> r \in g[N]
  BY Zenon DEF Reachable
<1>9. /\ g[0] = {start}
      /\ \A n \in 1..N : g[n] = UNION {Near(r) : r \in g[n - 1]}
  <2> HIDE DEF g, Near
  <2>1. \A n \in 0..N : g[n] = Body(g)[n]
    <3> HIDE DEF Body
    <3> QED
      BY <1>7
  <2>2. 0 \in 0..N /\ \A n \in 1..N : n \in 0..N /\ n # 0
    BY <1>1
  <2> HIDE DEF N
  <2> QED
    BY <2>1, <2>2
<1>10. \A n \in 1..N : g[n] = UNION {OneAway(r, edges) : r \in g[n - 1]}
  <2> HIDE DEF g, Near, N
  <2> QED
    BY <1>2, <1>9
<1> DEFINE P == {n \in 0..N : g[n] \in SUBSET Revisions}
<1>11. 0 \in P
  <2> HIDE DEF g
  <2> QED
    BY <1>1, <1>9
<1>12. ASSUME NEW n \in 1..N, n - 1 \in P PROVE n \in P
  <2> HIDE DEF g, Near
  <2>1. n \in 0..N /\ g[n - 1] \in SUBSET Revisions
    BY <1>1, <1>12
  <2> HIDE DEF N
  <2> QED
    BY <1>3, <1>9, <2>1
<1>13. \A n \in 0..N : n \in P
  <2> HIDE DEF P, N
  <2> QED
    BY <1>1, <1>11, <1>12, Induction
<1>14. g \in [0..N -> SUBSET Revisions]
  <2> HIDE DEF g, Near, N
  <2>1. \A n \in 0..N : g[n] \in SUBSET Revisions
    BY <1>13
  <2>2. g = [n \in 0..N |-> g[n]]
    BY <1>7
  <2> QED
    BY <2>1, <2>2
<1>15. Spreads(g, start, edges)
  <2> HIDE DEF g
  <2> QED
    BY <1>9, <1>10, <1>14 DEF Spreads
<1> QED
  <2> HIDE DEF g, N, Near
  <2> QED
    BY <1>8, <1>15 DEF N

\* Whoever is away from start by edges is within as many edges as there are:
\* either spreading has come to an end by then, or it has reached one more
\* revision with every edge, which is all of them.
LEMMA SpreadingEnds ==
  ASSUME NEW edges \in SUBSET Edges, IsFiniteSet(edges), NEW start \in Revisions,
         NEW reach, Spreads(reach, start, edges),
         NEW e \in edges, e.parent \in reach[Cardinality(edges)]
  PROVE  e.target \in reach[Cardinality(edges)]
<1> DEFINE N == Cardinality(edges)
           Ends == {start} \union {f.target : f \in edges}
           Wider(n) == UNION {OneAway(r, edges) : r \in reach[n]}
           P == {n \in 0..N : /\ reach[n] \in SUBSET Ends
                              /\ \/ Wider(n) = reach[n]
                                 \/ Cardinality(reach[n]) >= n + 1}
<1>1. N \in Nat
  BY FS_CardinalityType
<1>2. IsFiniteSet(Ends) /\ Cardinality(Ends) <= N + 1
  <2> DEFINE T == {f.target : f \in edges}
             tgt == [f \in edges |-> f.target]
  <2>1. tgt \in Surjection(edges, T)
    BY DEF Surjection
  <2>2. IsFiniteSet(T) /\ Cardinality(T) <= N /\ Cardinality(T) \in Nat
    <3> HIDE DEF T, tgt
    <3> QED
      BY <2>1, FS_Surjection, FS_CardinalityType
  <2>3. Ends = T \union {start}
    OBVIOUS
  <2> HIDE DEF T, Ends, N
  <2>4. /\ IsFiniteSet(T \union {start})
        /\ Cardinality(T \union {start}) =
             IF start \in T THEN Cardinality(T) ELSE Cardinality(T) + 1
    BY Zenon, <2>2, FS_AddElement
  <2> QED
    BY <1>1, <2>2, <2>3, <2>4
<1>3. \A S \in SUBSET Ends : IsFiniteSet(S) /\ Cardinality(S) \in Nat
  <2> HIDE DEF Ends
  <2> QED
    BY <1>2, FS_Subset, FS_CardinalityType
<1>4. \A r \in Ends : r \in OneAway(r, edges) /\ OneAway(r, edges) \in SUBSET Ends
  BY DEF OneAway
<1>5. /\ reach[0] = {start}
      /\ \A n \in 1..N : reach[n] = Wider(n - 1)
  BY DEF Spreads
<1>6. 0 \in P
  <2>1. {start} \in SUBSET Ends
    OBVIOUS
  <2>2. Cardinality({start}) = 1
    BY Zenon, FS_Singleton
  <2>3. 0 \in 0..N
    BY <1>1
  <2> HIDE DEF Ends, Wider, N
  <2>4. reach[0] \in SUBSET Ends
    BY Zenon, <1>5, <2>1
  <2>5. Cardinality(reach[0]) = 1
    BY Zenon, <1>5, <2>2
  <2>6. Cardinality(reach[0]) >= 0 + 1
    BY <2>5
  <2> QED
    BY <2>3, <2>4, <2>6
<1>7. \A n \in 0..N : reach[n] \in SUBSET Ends =>
        reach[n] \subseteq Wider(n) /\ Wider(n) \in SUBSET Ends
  <2> HIDE DEF Ends, N
  <2> QED
    BY <1>4
<1>8. ASSUME NEW n \in 1..N, n - 1 \in P PROVE n \in P
  <2> HIDE DEF Ends, N
  <2>1. PICK k \in 0..N : k = n - 1 /\ k \in P /\ n = k + 1
    BY <1>1, <1>8
  <2>2. reach[n] = Wider(k)
    BY <1>5, <2>1
  <2>3. /\ reach[k] \in SUBSET Ends
        /\ Wider(k) = reach[k] \/ Cardinality(reach[k]) >= k + 1
    BY <2>1
  <2> HIDE DEF Wider
  <2>4. reach[k] \in SUBSET reach[n] /\ reach[n] \in SUBSET Ends
    BY <1>7, <2>2, <2>3
  <2>5. CASE Wider(k) = reach[k]
    <3>1. reach[n] = reach[k]
      BY <2>2, <2>5
    <3>2. Wider(n) = Wider(k)
      BY <3>1 DEF Wider
    <3> QED
      BY <2>2, <2>4, <2>5, <3>1, <3>2
  <2>6. CASE Wider(k) # reach[k]
    <3>1. Cardinality(reach[k]) >= k + 1
      BY <2>3, <2>6
    <3>2. /\ Cardinality(reach[k]) <= Cardinality(reach[n])
          /\ Cardinality(reach[k]) # Cardinality(reach[n])
      BY <1>3, <2>2, <2>4, <2>6, FS_Subset
    <3>3. Cardinality(reach[k]) \in Nat /\ Cardinality(reach[n]) \in Nat
      BY <1>3, <2>3, <2>4
    <3>4. Cardinality(reach[n]) >= n + 1
      BY <2>1, <3>1, <3>2, <3>3
    <3> QED
      BY <2>4, <3>4
  <2> QED
    BY <2>5, <2>6
<1>9. N \in P
  <2>1. \A n \in 0..N : n \in P
    <3> HIDE DEF P, N
    <3> QED
      BY <1>1, <1>6, <1>8, Induction
  <2>2. N \in 0..N
    BY <1>1
  <2> HIDE DEF P, N
  <2> QED
    BY <2>1, <2>2
<1>10. e.target \in Wider(N) /\ e.target \in Ends
  BY DEF OneAway
<1>11. CASE Wider(N) = reach[N]
  BY <1>10, <1>11
<1>12. CASE Cardinality(reach[N]) >= N + 1
  <2> HIDE DEF Ends, N, Wider
  <2>1. reach[N] \in SUBSET Ends
    BY <1>9
  <2>2. Cardinality(reach[N]) \in Nat /\ Cardinality(Ends) \in Nat
        /\ Cardinality(reach[N]) <= Cardinality(Ends)
    BY <1>2, <1>3, <2>1, FS_Subset, FS_CardinalityType
  <2>3. Cardinality(reach[N]) = Cardinality(Ends)
    BY <1>1, <1>2, <1>12, <2>2
  <2>4. reach[N] = Ends
    BY <1>2, <2>1, <2>3, FS_Subset
  <2> QED
    BY <1>10, <2>4 DEF N
<1> QED
  BY <1>9, <1>11, <1>12

\* What Reachable means: start is reachable, what an edge leads to from there,
\* and only targets are besides.
LEMMA ReachableClosed ==
  ASSUME NEW edges \in SUBSET Edges, IsFiniteSet(edges), NEW start \in Revisions
  PROVE  /\ Reachable(start, start, edges, NoRemap)
         /\ \A e \in edges : Reachable(start, e.parent, edges, NoRemap) =>
              Reachable(start, e.target, edges, NoRemap)
<1> DEFINE N == Cardinality(edges)
<1>1. PICK reach : /\ Spreads(reach, start, edges)
                   /\ \A r : Reachable(start, r, edges, NoRemap) <=> r \in reach[N]
  BY ReachableSpreads
<1>2. N \in Nat
  BY FS_CardinalityType
<1> DEFINE P == {n \in 0..N : start \in reach[n]}
<1>3. 0 \in P
  BY <1>1, <1>2 DEF Spreads
<1>4. ASSUME NEW n \in 1..N, n - 1 \in P PROVE n \in P
  <2>1. n \in 0..N /\ start \in reach[n - 1]
    BY <1>2, <1>4
  <2>2. start \in OneAway(start, edges)
    BY DEF OneAway
  <2>3. reach[n] = UNION {OneAway(r, edges) : r \in reach[n - 1]}
    BY <1>1 DEF Spreads
  <2> QED
    BY <2>1, <2>2, <2>3
<1>5. start \in reach[N]
  <2>1. \A n \in 0..N : n \in P
    <3> HIDE DEF P, N
    <3> QED
      BY <1>2, <1>3, <1>4, Induction
  <2>2. N \in 0..N
    BY <1>2
  <2> QED
    BY <2>1, <2>2
<1>6. \A e \in edges : e.parent \in reach[N] => e.target \in reach[N]
  BY <1>1, SpreadingEnds
<1> QED
  BY <1>1, <1>5, <1>6
=============================================================================

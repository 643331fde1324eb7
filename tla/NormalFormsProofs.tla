------------------------ MODULE NormalFormsProofs ------------------------
(***************************************************************************)
(* For every list of columns and every declared dependencies: the search   *)
(* finds the candidate keys, step 2 of the minimal cover keeps the         *)
(* meaning of the list, steps 2 and 3 make a minimal cover of a list       *)
(* without a circle, asking the declared dependencies settles whether the  *)
(* table is in 3NF and BCNF, and the tables that are suggested can be      *)
(* used.                                                                   *)
(***************************************************************************)
EXTENDS NormalForms, Recursion, SequenceTheorems

-----------------------------------------------------------------------------
(* Closure is the least closed superset.                                   *)

LEMMA ClosureExtends ==
  ASSUME NEW X \in SUBSET Attrs, NEW E
  PROVE  X \subseteq Closure(X, E) /\ Closure(X, E) \subseteq Attrs
  BY DEF Closure

LEMMA ClosureClosed ==
  ASSUME NEW E \in SUBSET FDs, NEW X
  PROVE  Closed(Closure(X, E), E)
  <1> SUFFICES ASSUME NEW f \in E, f.det \subseteq Closure(X, E)
               PROVE  f.dep \in Closure(X, E)
    BY DEF Closed, Holds
  <1>1. f.dep \in Attrs
    BY DEF FDs
  <1>2. ASSUME NEW S \in SUBSET Attrs, X \subseteq S, Closed(S, E)
        PROVE  f.dep \in S
    <2>1. f.det \subseteq S
      BY <1>2 DEF Closure
    <2> QED BY <1>2, <2>1 DEF Closed, Holds
  <1> QED BY <1>1, <1>2 DEF Closure

LEMMA ClosureLeast ==
  ASSUME NEW E, NEW X, NEW S \in SUBSET Attrs, X \subseteq S, Closed(S, E)
  PROVE  Closure(X, E) \subseteq S
  BY DEF Closure

\* A set that is between the start and the closure, and closed, is the closure.
LEMMA ClosureReached ==
  ASSUME NEW E, NEW X, NEW R \in SUBSET Attrs,
         X \subseteq R, R \subseteq Closure(X, E), Closed(R, E)
  PROVE  R = Closure(X, E)
  BY ClosureLeast

LEMMA ClosureAbsorbs ==
  ASSUME NEW E \in SUBSET FDs, NEW X, NEW Y, Y \subseteq Closure(X, E)
  PROVE  Closure(Y, E) \subseteq Closure(X, E)
  <1>1. Closure(X, E) \in SUBSET Attrs
    BY DEF Closure
  <1> QED BY <1>1, ClosureClosed, ClosureLeast

LEMMA EmptyClosure ==
  ASSUME NEW E \in SUBSET FDs
  PROVE  Closure({}, E) = {}
  <1>1. \A f \in FDs : f.det # {} /\ f.det \subseteq Attrs
    BY DEF FDs
  <1>2. Closed({}, E)
    BY <1>1 DEF Closed, Holds
  <1> QED BY <1>2, ClosureLeast

-----------------------------------------------------------------------------
(* Columns and combinations are finite.                                    *)

LEMMA ColumnsFinite ==
  /\ IsFiniteSet(Attrs)
  /\ Cardinality(Attrs) <= Len(Columns)
  /\ Attrs # {}
  /\ Len(Columns) \in Nat \ {0}
  <1>1. /\ Columns \in Seq(Attrs)
        /\ Columns # <<>>
    BY ColumnsAssumption
  <1>2. /\ Len(Columns) \in Nat
        /\ DOMAIN Columns = 1 .. Len(Columns)
        /\ Columns \in [1 .. Len(Columns) -> Attrs]
    BY <1>1
  <1>3. Len(Columns) # 0
    BY <1>1, <1>2, EmptySeq
  <1>4. IsFiniteSet(1 .. Len(Columns)) /\ Cardinality(1 .. Len(Columns)) = Len(Columns)
    <2>1. 1 \in Int /\ Len(Columns) \in Int
      BY <1>2
    <2>2. Cardinality(1 .. Len(Columns)) = IF 1 > Len(Columns) THEN 0 ELSE Len(Columns) - 1 + 1
      BY <2>1, FS_Interval
    <2> QED BY <1>2, <1>3, <2>1, <2>2, FS_Interval
  <1>5. Columns \in Surjection(1 .. Len(Columns), Attrs)
    BY <1>2 DEF Surjection, Attrs
  <1>6. IsFiniteSet(Attrs) /\ Cardinality(Attrs) <= Cardinality(1 .. Len(Columns))
    BY <1>4, <1>5, FS_Surjection
  <1>7. Columns[1] \in Attrs
    BY <1>2, <1>3
  <1> QED BY <1>2, <1>3, <1>4, <1>6, <1>7

LEMMA SubsetSizes ==
  ASSUME NEW S \in SUBSET Attrs
  PROVE  /\ Cardinality(S) \in Nat
         /\ Cardinality(S) <= Len(Columns)
         /\ S # {} => Cardinality(S) >= 1
         /\ \A T \in SUBSET S : T # S => Cardinality(T) < Cardinality(S)
  <1>1. IsFiniteSet(S) /\ Cardinality(S) <= Cardinality(Attrs)
    BY ColumnsFinite, FS_Subset
  <1>2. Cardinality(S) \in Nat /\ Cardinality(Attrs) \in Nat
    BY <1>1, ColumnsFinite, FS_CardinalityType
  <1>3. S # {} => Cardinality(S) # 0
    BY <1>1, FS_EmptySet
  <1>4. ASSUME NEW T \in SUBSET S, T # S
        PROVE  Cardinality(T) < Cardinality(S)
    <2>1. /\ IsFiniteSet(T)
          /\ Cardinality(T) <= Cardinality(S)
          /\ Cardinality(T) # Cardinality(S)
      BY <1>1, <1>4, FS_Subset
    <2>2. Cardinality(T) \in Nat
      BY <2>1, FS_CardinalityType
    <2> QED BY <1>2, <2>1, <2>2
  <1> QED BY <1>1, <1>2, <1>3, <1>4, ColumnsFinite

-----------------------------------------------------------------------------
(* Step 2 of MinimalCover.                                                 *)

LEMMA DroppingKeepsMeaning ==
  ASSUME NEW list \in Seq(FDs), NEW v
  PROVE  /\ DropExtraneous(list, v) \in Seq(FDs)
         /\ Equivalent(ToSet(DropExtraneous(list, v)), ToSet(list))
  <1> DEFINE i == VisitFD(v)
             a == VisitColumn(v)
             less == [list[i] EXCEPT !.det = @ \ {a}]
             new  == [list EXCEPT ![i].det = @ \ {a}]
  <1>1. CASE ~(Extraneous(list, i, a) /\ i \in 1 .. Len(list))
    <2>1. DropExtraneous(list, v) = list
      <3>1. CASE ~Extraneous(list, i, a)
        BY <3>1 DEF DropExtraneous
      <3>2. CASE i \notin 1 .. Len(list)
        <4>1. new = list
          BY <3>2
        <4> QED BY <4>1 DEF DropExtraneous
      <3> QED BY <1>1, <3>1, <3>2
    <2> QED BY <2>1 DEF Equivalent
  <1>2. CASE Extraneous(list, i, a) /\ i \in 1 .. Len(list)
    <2>1. DropExtraneous(list, v) = new
      BY <1>2 DEF DropExtraneous
    <2>2. /\ DOMAIN list = 1 .. Len(list)
          /\ \A k \in 1 .. Len(list) : list[k] \in FDs
      BY ElementOfSeq, LenProperties
    <2>3. /\ list[i] \in FDs
          /\ a \in list[i].det
          /\ list[i].det # {a}
          /\ list[i].dep \in Closure(list[i].det \ {a}, ToSet(list))
      BY <1>2, <2>2 DEF Extraneous
    <2>4. /\ less \in FDs
          /\ less.det = list[i].det \ {a}
          /\ less.dep = list[i].dep
      BY <2>3 DEF FDs
    <2>5. new = [list EXCEPT ![i] = less]
      OBVIOUS
    <2>6. /\ new \in Seq(FDs)
          /\ Len(new) = Len(list)
          /\ \A k \in 1 .. Len(new) : new[k] = IF k = i THEN less ELSE list[k]
      BY <1>2, <2>4, <2>5, ExceptSeq
    <2>7. ToSet(new) = {new[k] : k \in 1 .. Len(list)}
      BY <2>6, LenProperties DEF ToSet
    <2>8. ToSet(list) = {list[k] : k \in 1 .. Len(list)}
      BY <2>2 DEF ToSet
    <2>9. ASSUME NEW S \in SUBSET Attrs, Closed(S, ToSet(list))
          PROVE  Closed(S, ToSet(new))
      <3>1. less.det \subseteq S => less.dep \in S
        BY <2>3, <2>4, <2>9, ClosureLeast
      <3>2. \A k \in 1 .. Len(list) : Holds(list[k], S)
        BY <2>8, <2>9 DEF Closed
      <3>3. \A k \in 1 .. Len(list) : Holds(new[k], S)
        BY <2>6, <3>1, <3>2 DEF Holds
      <3> QED BY <2>7, <3>3 DEF Closed
    <2>10. ASSUME NEW S \in SUBSET Attrs, Closed(S, ToSet(new))
           PROVE  Closed(S, ToSet(list))
      <3>1. \A k \in 1 .. Len(list) : Holds(new[k], S)
        BY <2>7, <2>10 DEF Closed
      <3>2. Holds(list[i], S)
        <4>1. Holds(less, S)
          BY <1>2, <2>6, <3>1
        <4> QED BY <2>4, <4>1 DEF Holds
      <3>3. \A k \in 1 .. Len(list) : Holds(list[k], S)
        BY <2>6, <3>1, <3>2
      <3> QED BY <2>8, <3>3 DEF Closed
    <2> QED BY <2>1, <2>6, <2>9, <2>10 DEF Equivalent
  <1> QED BY <1>1, <1>2

-----------------------------------------------------------------------------
(* The inductive invariant.                                                *)

\* A combination the search has dealt with.
Visited(S) ==
  \/ Cardinality(S) < size
  \/ Cardinality(S) = size /\ S \notin untried /\ ~(pc = "close" /\ S = combo)

KeysAreMinimal == \A K \in keys : CandidateKey(K, Attrs)

VisitedHasKey ==
  ~KeysKnown =>
    \A S \in SUBSET Attrs :
      Visited(S) /\ IsSuperkey(S, Attrs, D) => \E K \in keys : K \subseteq S

ScanKnows ==
  pc = "close" =>
    /\ Cardinality(combo) = size
    /\ combo \notin untried
    /\ ~IsSupersetOfAny(combo, keys)
    /\ combo \subseteq result
    /\ result \subseteq Closure(combo, D)
    /\ ~changed => \A k \in 1 .. next - 1 : Holds(declared[k], result)

IInv ==
  /\ TypeOK
  /\ KeysAreMinimal
  /\ VisitedHasKey
  /\ ScanKnows
  /\ KeysAreCandidateKeys
  /\ ReductionKeepsMeaning

LEMMA DeclaredFacts ==
  ASSUME TypeOK
  PROVE  /\ D \in SUBSET FDs
         /\ declared \in Seq(FDs)
         /\ Len(declared) \in Nat
         /\ D = {declared[k] : k \in 1 .. Len(declared)}
         /\ \A k \in 1 .. Len(declared) : declared[k] \in FDs
  <1>1. declared \in Seq(FDs)
    BY ColumnsAssumption DEF TypeOK
  <1>2. /\ Len(declared) \in Nat
        /\ DOMAIN declared = 1 .. Len(declared)
        /\ \A k \in 1 .. Len(declared) : declared[k] \in FDs
    BY <1>1, ElementOfSeq, LenProperties
  <1>3. D = {declared[k] : k \in 1 .. Len(declared)}
    BY <1>2 DEF D, ToSet
  <1> QED BY <1>1, <1>2, <1>3

\* Nothing before the first size can be a superkey: a key has a column.
LEMMA SuperkeysHaveColumns ==
  ASSUME TypeOK, NEW S \in SUBSET Attrs, IsSuperkey(S, Attrs, D)
  PROVE  S # {} /\ Cardinality(S) >= 1
  <1>1. Closure({}, D) = {}
    BY DeclaredFacts, EmptyClosure
  <1>2. S # {}
    BY <1>1, ColumnsFinite DEF IsSuperkey
  <1> QED BY <1>2, SubsetSizes

LEMMA InitInvariant ==
  ASSUME Init
  PROVE  IInv
  <1>1. TypeOK
    <2>1. declared \in Seq(FDs) /\ Len(declared) \in Nat
      BY ColumnsAssumption DEF Init
    <2>2. /\ declared \in Tables /\ fds \in Seq(FDs)
          /\ next \in 1 .. Len(declared) + 1
          /\ size \in 1 .. Len(Columns)
      BY <2>1, ColumnsFinite DEF Init
    <2>3. untried \subseteq Combinations(size)
      BY DEF Init
    <2>4. changed \in BOOLEAN
      BY DEF Init
    <2>5. visit \in Nat \ {0} /\ cover \subseteq FDs /\ keys \subseteq SUBSET Attrs
      BY DEF Init
    <2>6. pc \in {"keys", "close", "reduce", "prune", "suggest", "split", "done"}
      BY DEF Init
    <2>7. combo \subseteq Attrs /\ result \subseteq Attrs
      BY DEF Init
    <2> QED BY <2>2, <2>3, <2>4, <2>5, <2>6, <2>7 DEF TypeOK
  <1>2. VisitedHasKey
    <2> SUFFICES ASSUME NEW S \in SUBSET Attrs, Visited(S), IsSuperkey(S, Attrs, D)
                 PROVE  FALSE
      BY DEF VisitedHasKey
    <2>1. Cardinality(S) >= 1 /\ Cardinality(S) \in Nat
      BY <1>1, SuperkeysHaveColumns, SubsetSizes
    <2>2. S \in Combinations(1) \/ Cardinality(S) # 1
      BY DEF Combinations
    <2> QED BY <2>1, <2>2 DEF Init, Visited
  <1>3. ReductionKeepsMeaning
    BY DEF Init, ReductionKeepsMeaning, D, Equivalent
  <1> QED
    BY <1>1, <1>2, <1>3
    DEF Init, IInv, KeysAreMinimal, ScanKnows, KeysAreCandidateKeys, KeysKnown

-----------------------------------------------------------------------------
(* The steps, by what they disturb.                                        *)

\* Steps of the cover and of the suggestions leave the keys alone.
LEMMA LaterSteps ==
  ASSUME IInv, KeysKnown,
         UNCHANGED <<declared, keys, size, untried, combo, result, next, changed>>,
         pc' \notin {"keys", "close"},
         pc' \in {"keys", "close", "reduce", "prune", "suggest", "split", "done"},
         fds' \in Seq(FDs), visit' \in Nat \ {0}, cover' \subseteq FDs,
         Equivalent(ToSet(fds'), D)
  PROVE  IInv'
  <1>1. D' = D
    BY DEF D
  <1>2. TypeOK'
    BY DEF IInv, TypeOK
  <1>3. \A K, all : CandidateKey(K, all)' <=> CandidateKey(K, all)
    BY <1>1 DEF CandidateKey
  <1>4. KeysAreMinimal' /\ KeysAreCandidateKeys'
    BY <1>3 DEF IInv, KeysAreMinimal, KeysAreCandidateKeys, KeysKnown
  <1>5. VisitedHasKey' /\ ScanKnows'
    BY DEF VisitedHasKey, ScanKnows, KeysKnown
  <1>6. ReductionKeepsMeaning'
    BY <1>1 DEF ReductionKeepsMeaning
  <1> QED BY <1>2, <1>4, <1>5, <1>6 DEF IInv

\* What a step of the search has to show.
LEMMA SearchSteps ==
  ASSUME IInv, UNCHANGED <<declared, fds, visit, cover>>,
         TypeOK', KeysAreMinimal', VisitedHasKey', ScanKnows', KeysAreCandidateKeys'
  PROVE  IInv'
  <1>1. ReductionKeepsMeaning'
    BY DEF IInv, ReductionKeepsMeaning, D
  <1> QED BY <1>1 DEF IInv

LEMMA TryComboStep ==
  ASSUME IInv, NEW X \in untried, TryCombo(X)
  PROVE  IInv'
  <1>1. /\ D' = D
        /\ X \in SUBSET Attrs /\ Cardinality(X) = size
        /\ pc = "keys" /\ size' = size /\ keys' = keys /\ untried' = untried \ {X}
        /\ UNCHANGED <<declared, fds, visit, cover>>
    BY DEF IInv, TypeOK, Combinations, TryCombo, D, coverVars
  <1>2. KeysAreMinimal'
    BY <1>1 DEF IInv, KeysAreMinimal, CandidateKey
  <1>3. CASE IsSupersetOfAny(X, keys)
    <2>1. pc' = pc /\ UNCHANGED <<combo, result, next, changed>>
      BY <1>3 DEF TryCombo, closureVars
    <2>2. TypeOK'
      BY <1>1, <2>1 DEF IInv, TypeOK, Combinations
    <2>3. VisitedHasKey'
      <3> SUFFICES ASSUME NEW S \in SUBSET Attrs, Visited(S)', IsSuperkey(S, Attrs, D)
                   PROVE  \E K \in keys : K \subseteq S
        BY <1>1 DEF VisitedHasKey
      <3>1. Visited(S) \/ S = X
        BY <1>1, <2>1 DEF Visited
      <3>2. ~KeysKnown
        BY <1>1 DEF KeysKnown
      <3> QED BY <1>3, <3>1, <3>2 DEF IInv, VisitedHasKey, IsSupersetOfAny
    <2>4. ScanKnows' /\ KeysAreCandidateKeys'
      BY <1>1, <2>1 DEF ScanKnows, KeysAreCandidateKeys, KeysKnown
    <2> QED BY <1>1, <1>2, <2>2, <2>3, <2>4, SearchSteps
  <1>4. CASE ~IsSupersetOfAny(X, keys)
    <2>1. pc' = "close" /\ combo' = X /\ result' = X /\ next' = 1 /\ changed' = FALSE
      BY <1>4 DEF TryCombo
    <2>2. TypeOK'
      <3>1. next' \in 1 .. Len(declared) + 1
        BY <2>1, DeclaredFacts DEF IInv
      <3> QED BY <1>1, <2>1, <3>1 DEF IInv, TypeOK, Combinations
    <2>3. VisitedHasKey'
      <3> SUFFICES ASSUME NEW S \in SUBSET Attrs, Visited(S)', IsSuperkey(S, Attrs, D)
                   PROVE  \E K \in keys : K \subseteq S
        BY <1>1 DEF VisitedHasKey
      <3>1. Visited(S)
        BY <1>1, <2>1 DEF Visited
      <3>2. ~KeysKnown
        BY <1>1 DEF KeysKnown
      <3> QED BY <3>1, <3>2 DEF IInv, VisitedHasKey
    <2>4. ScanKnows'
      <3>1. X \subseteq Closure(X, D)
        BY <1>1, ClosureExtends
      <3>2. ~IsSupersetOfAny(X, keys')
        BY <1>1, <1>4
      <3>3. \A k \in 1 .. next' - 1 : Holds(declared'[k], result')
        BY <2>1
      <3> QED BY <1>1, <2>1, <3>1, <3>2, <3>3 DEF ScanKnows, IsSupersetOfAny
    <2>5. KeysAreCandidateKeys'
      BY <2>1 DEF KeysAreCandidateKeys, KeysKnown
    <2> QED BY <1>1, <1>2, <2>2, <2>3, <2>4, <2>5, SearchSteps
  <1> QED BY <1>3, <1>4

LEMMA NextSizeStep ==
  ASSUME IInv, NextSize
  PROVE  IInv'
  <1>1. /\ D' = D
        /\ pc = "keys" /\ pc' = "keys" /\ untried = {}
        /\ size \in 1 .. Len(Columns) - 1 /\ size' = size + 1
        /\ untried' = Combinations(size + 1)
        /\ UNCHANGED <<declared, keys, combo, result, next, changed, fds, visit, cover>>
    BY ColumnsFinite DEF IInv, TypeOK, NextSize, D, coverVars, closureVars
  <1>2. TypeOK'
    <2>1. size' \in 1 .. Len(Columns) /\ untried' \subseteq Combinations(size')
      BY <1>1, ColumnsFinite
    <2> QED BY <1>1, <2>1 DEF IInv, TypeOK
  <1>3. KeysAreMinimal'
    BY <1>1 DEF IInv, KeysAreMinimal, CandidateKey
  <1>4. VisitedHasKey'
    <2> SUFFICES ASSUME NEW S \in SUBSET Attrs, Visited(S)', IsSuperkey(S, Attrs, D)
                 PROVE  \E K \in keys : K \subseteq S
      BY <1>1 DEF VisitedHasKey
    <2>1. Cardinality(S) \in Nat
      BY SubsetSizes
    <2>2. Cardinality(S) # size + 1
      <3>1. S \in Combinations(size + 1) <=> Cardinality(S) = size + 1
        BY DEF Combinations
      <3> QED BY <1>1, <2>1, <3>1 DEF Visited
    <2>3. Cardinality(S) <= size
      BY <1>1, <2>1, <2>2 DEF Visited
    <2>4. Visited(S)
      BY <1>1, <2>1, <2>3 DEF Visited
    <2> QED BY <1>1, <2>4 DEF IInv, VisitedHasKey, KeysKnown
  <1>5. ScanKnows' /\ KeysAreCandidateKeys'
    BY <1>1 DEF ScanKnows, KeysAreCandidateKeys, KeysKnown
  <1> QED BY <1>1, <1>2, <1>3, <1>4, <1>5, SearchSteps

\* All sizes are done: every superkey contains a key that was found.
LEMMA KeysFoundStep ==
  ASSUME IInv, KeysFound
  PROVE  IInv'
  <1>1. /\ D' = D
        /\ pc = "keys" /\ pc' = "reduce" /\ untried = {} /\ size = Len(Columns)
        /\ UNCHANGED <<declared, size, untried, keys, combo, result, next, changed,
                       fds, visit, cover>>
    BY DEF IInv, KeysFound, D, keyVars, coverVars, closureVars
  <1>2. TypeOK'
    BY <1>1 DEF IInv, TypeOK
  <1>3. KeysAreMinimal'
    BY <1>1 DEF IInv, KeysAreMinimal, CandidateKey
  <1>4. \A S \in SUBSET Attrs :
          IsSuperkey(S, Attrs, D) => \E K \in keys : K \subseteq S
    <2> SUFFICES ASSUME NEW S \in SUBSET Attrs, IsSuperkey(S, Attrs, D)
                 PROVE  Visited(S)
      BY <1>1 DEF IInv, VisitedHasKey, KeysKnown
    <2>1. Cardinality(S) \in Nat /\ Cardinality(S) <= Len(Columns)
      BY SubsetSizes
    <2> QED BY <1>1, <2>1, ColumnsFinite DEF Visited
  <1>5. keys = {K \in SUBSET Attrs : CandidateKey(K, Attrs)}
    <2>1. ASSUME NEW K \in keys
          PROVE  K \in SUBSET Attrs /\ CandidateKey(K, Attrs)
      BY <2>1 DEF IInv, TypeOK, KeysAreMinimal
    <2>2. ASSUME NEW K \in SUBSET Attrs, CandidateKey(K, Attrs)
          PROVE  K \in keys
      <3>1. PICK L \in keys : L \subseteq K
        BY <1>4, <2>2 DEF CandidateKey
      <3>2. IsSuperkey(L, Attrs, D)
        BY <2>1 DEF CandidateKey
      <3> QED BY <2>2, <3>1, <3>2 DEF CandidateKey
    <2> QED BY <2>1, <2>2
  <1>6. KeysAreCandidateKeys'
    BY <1>1, <1>5 DEF KeysAreCandidateKeys, CandidateKey
  <1>7. VisitedHasKey' /\ ScanKnows'
    BY <1>1 DEF VisitedHasKey, ScanKnows, KeysKnown
  <1> QED BY <1>1, <1>2, <1>3, <1>6, <1>7, SearchSteps

LEMMA ScanFDStep ==
  ASSUME IInv, ScanFD
  PROVE  IInv'
  <1> DEFINE f == declared[next]
             fires == f.det \subseteq result /\ f.dep \notin result
  <1>1. /\ D' = D
        /\ pc = "close" /\ pc' = "close"
        /\ next \in 1 .. Len(declared) /\ next' = next + 1
        /\ Len(declared) \in Nat
        /\ UNCHANGED <<declared, size, untried, keys, combo, fds, visit, cover>>
    BY DeclaredFacts DEF IInv, TypeOK, ScanFD, D, keyVars, coverVars
  <1>2. f \in D /\ f \in FDs
    BY <1>1, DeclaredFacts DEF IInv
  <1>3. /\ fires => result' = result \cup {f.dep} /\ changed' = TRUE
        /\ ~fires => result' = result /\ (changed' <=> changed)
    BY <1>1 DEF ScanFD
  <1>4. changed' \in BOOLEAN
    BY DEF ScanFD
  <1>5. TypeOK'
    <2>1. next' \in 1 .. Len(declared) + 1
      BY <1>1
    <2>2. result' \subseteq Attrs
      BY <1>2, <1>3 DEF IInv, TypeOK, FDs
    <2> QED BY <1>1, <1>4, <2>1, <2>2 DEF IInv, TypeOK
  <1>6. KeysAreMinimal'
    BY <1>1 DEF IInv, KeysAreMinimal, CandidateKey
  <1>7. VisitedHasKey'
    <2> SUFFICES ASSUME NEW S \in SUBSET Attrs, Visited(S)', IsSuperkey(S, Attrs, D)
                 PROVE  \E K \in keys : K \subseteq S
      BY <1>1 DEF VisitedHasKey
    <2>1. Visited(S)
      BY <1>1 DEF Visited
    <2> QED BY <1>1, <2>1 DEF IInv, VisitedHasKey, KeysKnown
  <1>8. ScanKnows'
    <2>1. combo \subseteq result'
      BY <1>1, <1>3 DEF IInv, ScanKnows
    <2>2. result' \subseteq Closure(combo, D)
      <3>1. result \subseteq Closure(combo, D)
        BY <1>1 DEF IInv, ScanKnows
      <3>2. f.det \subseteq result => f.dep \in Closure(combo, D)
        BY <1>2, <3>1, DeclaredFacts, ClosureClosed DEF IInv, Closed, Holds
      <3> QED BY <1>3, <3>1, <3>2
    <2>3. ASSUME ~changed'
          PROVE  \A k \in 1 .. next' - 1 : Holds(declared[k], result')
      <3>1. ~fires /\ ~changed /\ result' = result
        BY <1>3, <2>3
      <3>2. \A k \in 1 .. next - 1 : Holds(declared[k], result)
        BY <1>1, <3>1 DEF IInv, ScanKnows
      <3>3. Holds(declared[next], result)
        BY <3>1 DEF Holds
      <3>4. \A k \in 1 .. next' - 1 : k \in 1 .. next - 1 \/ k = next
        BY <1>1
      <3> QED BY <3>1, <3>2, <3>3, <3>4
    <2> QED BY <1>1, <2>1, <2>2, <2>3 DEF IInv, ScanKnows, IsSupersetOfAny
  <1>9. KeysAreCandidateKeys'
    BY <1>1 DEF KeysAreCandidateKeys, KeysKnown
  <1> QED BY <1>1, <1>5, <1>6, <1>7, <1>8, <1>9, SearchSteps

LEMMA ScanAgainStep ==
  ASSUME IInv, ScanAgain
  PROVE  IInv'
  <1>1. /\ D' = D
        /\ pc = "close" /\ pc' = "close" /\ next' = 1 /\ changed' = FALSE
        /\ Len(declared) \in Nat
        /\ UNCHANGED <<declared, size, untried, keys, combo, result, fds, visit, cover>>
    BY DeclaredFacts DEF IInv, ScanAgain, D, keyVars, coverVars
  <1>2. TypeOK'
    <2>1. next' \in 1 .. Len(declared) + 1
      BY <1>1
    <2>2. changed' \in BOOLEAN
      BY <1>1
    <2> QED BY <1>1, <2>1, <2>2 DEF IInv, TypeOK
  <1>3. KeysAreMinimal'
    BY <1>1 DEF IInv, KeysAreMinimal, CandidateKey
  <1>4. VisitedHasKey'
    <2>1. \A S : Visited(S)' <=> Visited(S)
      BY <1>1 DEF Visited
    <2> QED BY <1>1, <2>1 DEF IInv, VisitedHasKey, KeysKnown
  <1>5. ScanKnows'
    <2>1. \A k \in 1 .. next' - 1 : Holds(declared'[k], result')
      BY <1>1
    <2> QED BY <1>1, <2>1 DEF IInv, ScanKnows, IsSupersetOfAny
  <1>6. KeysAreCandidateKeys'
    BY <1>1 DEF KeysAreCandidateKeys, KeysKnown
  <1> QED BY <1>1, <1>2, <1>3, <1>4, <1>5, <1>6, SearchSteps

\* The scan that adds nothing: result is the closure of the combination.
LEMMA ClosureKnownStep ==
  ASSUME IInv, ClosureKnown
  PROVE  IInv'
  <1>1. /\ D' = D
        /\ pc = "close" /\ pc' = "keys" /\ ~changed
        /\ UNCHANGED <<declared, size, untried, combo, result, next, changed,
                       fds, visit, cover>>
    BY DEF ClosureKnown, D, closureVars, coverVars
  <1>2. /\ combo \in SUBSET Attrs /\ Cardinality(combo) = size
        /\ result \in SUBSET Attrs
        /\ combo \subseteq result /\ result \subseteq Closure(combo, D)
        /\ ~IsSupersetOfAny(combo, keys)
    BY <1>1 DEF IInv, TypeOK, ScanKnows
  <1>3. Closed(result, D)
    <2>1. next > Len(declared) /\ next \in 1 .. Len(declared) + 1 /\ Len(declared) \in Nat
      BY DeclaredFacts DEF IInv, TypeOK, ClosureKnown
    <2>2. \A k \in 1 .. Len(declared) : Holds(declared[k], result)
      BY <1>1, <2>1 DEF IInv, ScanKnows
    <2> QED BY <2>2, DeclaredFacts DEF IInv, Closed
  <1>4. IsSuperkey(combo, Attrs, D) <=> Attrs \subseteq result
    BY <1>2, <1>3, ClosureReached DEF IsSuperkey
  <1>5. keys' = IF Attrs \subseteq result THEN keys \cup {combo} ELSE keys
    BY DEF ClosureKnown
  <1>6. TypeOK'
    BY <1>1, <1>2, <1>5 DEF IInv, TypeOK
  <1>7. \A S \in SUBSET Attrs :
          Visited(S) /\ IsSuperkey(S, Attrs, D) => \E K \in keys : K \subseteq S
    BY <1>1 DEF IInv, VisitedHasKey, KeysKnown
  <1>8. Attrs \subseteq result => CandidateKey(combo, Attrs)
    <2> SUFFICES ASSUME Attrs \subseteq result,
                        NEW S \in SUBSET combo, IsSuperkey(S, Attrs, D), S # combo
                 PROVE  FALSE
      BY <1>2, <1>4 DEF CandidateKey
    <2>1. Cardinality(S) < size
      BY <1>2, SubsetSizes
    <2>2. PICK K \in keys : K \subseteq S
      BY <1>2, <1>7, <2>1 DEF Visited
    <2> QED BY <1>2, <2>2 DEF IsSupersetOfAny
  <1>9. KeysAreMinimal'
    <2>1. \A K : CandidateKey(K, Attrs)' <=> CandidateKey(K, Attrs)
      BY <1>1 DEF CandidateKey
    <2> QED BY <1>5, <1>8, <2>1 DEF IInv, KeysAreMinimal
  <1>10. VisitedHasKey'
    <2> SUFFICES ASSUME NEW S \in SUBSET Attrs, Visited(S)', IsSuperkey(S, Attrs, D)
                 PROVE  \E K \in keys' : K \subseteq S
      BY <1>1 DEF VisitedHasKey
    <2>1. CASE S = combo
      BY <1>4, <1>5, <2>1
    <2>2. CASE S # combo
      <3>1. Visited(S)
        BY <1>1, <2>2 DEF Visited
      <3> QED BY <1>5, <1>7, <3>1
    <2> QED BY <2>1, <2>2
  <1>11. ScanKnows' /\ KeysAreCandidateKeys'
    BY <1>1 DEF ScanKnows, KeysAreCandidateKeys, KeysKnown
  <1> QED BY <1>1, <1>6, <1>9, <1>10, <1>11, SearchSteps

-----------------------------------------------------------------------------
(* The steps after the search.                                             *)

LEMMA ReduceStep ==
  ASSUME IInv, ReduceDeterminant
  PROVE  IInv'
  <1>1. /\ pc = "reduce" /\ pc' = pc /\ fds' = DropExtraneous(fds, visit)
        /\ visit' = visit + 1 /\ cover' = cover
        /\ UNCHANGED <<declared, keys, size, untried, combo, result, next, changed>>
    BY DEF ReduceDeterminant, keyVars, closureVars
  <1>2. fds \in Seq(FDs) /\ visit \in Nat \ {0} /\ cover \subseteq FDs
    BY DEF IInv, TypeOK
  <1>3. fds' \in Seq(FDs) /\ Equivalent(ToSet(fds'), D)
    <2>1. /\ DropExtraneous(fds, visit) \in Seq(FDs)
          /\ Equivalent(ToSet(DropExtraneous(fds, visit)), ToSet(fds))
      BY <1>2, DroppingKeepsMeaning
    <2> QED BY <1>1, <2>1 DEF IInv, ReductionKeepsMeaning, Equivalent
  <1> QED BY <1>1, <1>2, <1>3, LaterSteps DEF KeysKnown

LEMMA CoverSteps ==
  ASSUME IInv, Reduced \/ Prune \/ Pruned
  PROVE  IInv'
  <1>1. /\ pc \in {"reduce", "prune"} /\ pc' \in {"prune", "suggest"} /\ fds' = fds
        /\ UNCHANGED <<declared, keys, size, untried, combo, result, next, changed>>
    BY DEF Reduced, Prune, Pruned, keyVars, closureVars, coverVars
  <1>2. /\ fds \in Seq(FDs) /\ visit \in Nat \ {0} /\ cover \subseteq FDs
        /\ Equivalent(ToSet(fds), D)
    BY DEF IInv, TypeOK, ReductionKeepsMeaning
  <1>3. visit' \in Nat \ {0}
    BY <1>2 DEF Reduced, Prune, Pruned, coverVars
  <1>4. cover' \subseteq FDs
    <2>1. CASE Prune
      <3>1. Len(fds) \in Nat /\ visit \in 1 .. Len(fds)
        BY <1>2, <2>1, LenProperties DEF Prune
      <3>2. fds[visit] \in FDs
        BY <1>2, <3>1, ElementOfSeq
      <3> QED BY <1>2, <2>1, <3>2 DEF Prune
    <2>2. CASE Reduced \/ Pruned
      BY <1>2, <2>2 DEF Reduced, Pruned, coverVars
    <2> QED BY <2>1, <2>2
  <1>5. pc' \notin {"keys", "close"} /\ KeysKnown
    BY <1>1 DEF KeysKnown
  <1> QED BY <1>1, <1>2, <1>3, <1>4, <1>5, LaterSteps

LEMMA SuggestionSteps ==
  ASSUME IInv, Suggest \/ Decompose \/ Decomposed
  PROVE  IInv'
  <1>1. /\ pc \in {"suggest", "split"} /\ pc' \in {"split", "done"}
        /\ UNCHANGED <<declared, keys, size, untried, combo, result, next, changed,
                       fds, visit, cover>>
    BY DEF Suggest, Decompose, Decomposed, keyVars, closureVars, coverVars
  <1>2. /\ fds \in Seq(FDs) /\ visit \in Nat \ {0} /\ cover \subseteq FDs
        /\ Equivalent(ToSet(fds), D)
    BY DEF IInv, TypeOK, ReductionKeepsMeaning
  <1> QED BY <1>1, <1>2, LaterSteps DEF KeysKnown

LEMMA StutteringStep ==
  ASSUME IInv, UNCHANGED vars
  PROVE  IInv'
  <1>1. UNCHANGED <<declared, pc, size, untried, keys, combo, result, next, changed,
                    fds, visit, cover>>
    BY DEF vars, keyVars, closureVars, coverVars
  <1>2. D' = D
    BY <1>1 DEF D
  <1> QED
    BY <1>1, <1>2
    DEF IInv, TypeOK, KeysAreMinimal, CandidateKey, VisitedHasKey, Visited, KeysKnown,
        ScanKnows, KeysAreCandidateKeys, ReductionKeepsMeaning

-----------------------------------------------------------------------------
(* IInv says what the search knows in the middle of its loops: the keys    *)
(* found are candidate keys, every superkey already visited contains one,  *)
(* and the set a scan has reached lies between its start and its closure.  *)
THEOREM InductiveInvariant == Spec => []IInv
  <1>1. Init => IInv
    BY InitInvariant
  <1>2. IInv /\ [Next]_vars => IInv'
    <2> SUFFICES ASSUME IInv, [Next]_vars
                 PROVE  IInv'
      OBVIOUS
    <2>1. ASSUME NEW X \in untried, TryCombo(X)
          PROVE  IInv'
      BY <2>1, TryComboStep
    <2>2. CASE NextSize \/ KeysFound
      BY <2>2, NextSizeStep, KeysFoundStep
    <2>3. CASE ScanFD \/ ScanAgain \/ ClosureKnown
      BY <2>3, ScanFDStep, ScanAgainStep, ClosureKnownStep
    <2>4. CASE ReduceDeterminant \/ Reduced \/ Prune \/ Pruned
      BY <2>4, ReduceStep, CoverSteps
    <2>5. CASE Suggest \/ Decompose \/ Decomposed
      BY <2>5, SuggestionSteps
    <2>6. CASE UNCHANGED vars
      BY <2>6, StutteringStep
    <2> QED BY <2>1, <2>2, <2>3, <2>4, <2>5, <2>6 DEF Next
  <1> QED BY <1>1, <1>2, PTL DEF Spec

\* Every variable of the searches keeps its type.
THEOREM TypeCorrect == Spec => []TypeOK
  <1>1. IInv => TypeOK
    BY DEF IInv
  <1> QED BY <1>1, InductiveInvariant, PTL

\* CandidateKeys finds exactly the minimal superkeys of every table.
THEOREM KeysTheorem == Spec => []KeysAreCandidateKeys
  <1>1. IInv => KeysAreCandidateKeys
    BY DEF IInv
  <1> QED BY <1>1, InductiveInvariant, PTL

\* Removing extraneous columns never changes what the dependencies imply,
\* though closures are taken of the list that is being changed.
THEOREM ReductionTheorem == Spec => []ReductionKeepsMeaning
  <1>1. IInv => ReductionKeepsMeaning
    BY DEF IInv
  <1> QED BY <1>1, InductiveInvariant, PTL

-----------------------------------------------------------------------------
(* check3NF and checkBCNF.  If X determines a column outside X, X is not   *)
(* closed, so a declared dependency fires in it.  For 3NF, X with the      *)
(* prime columns it determines is closed when no dependency violates 3NF.  *)

LEMMA SilenceForBCNF ==
  ASSUME D \in SUBSET FDs, \A f \in D : ~ViolatesBCNF(f)
  PROVE  InBCNF(Attrs)
  <1> SUFFICES ASSUME NEW X \in SUBSET Attrs, ~(Closure(X, D) \cap Attrs \subseteq X)
               PROVE  IsSuperkey(X, Attrs, D)
    BY DEF InBCNF
  <1>1. ~Closed(X, D)
    BY ClosureLeast
  <1>2. PICK f \in D : f.det \subseteq X
    BY <1>1 DEF Closed, Holds
  <1>3. f.det \subseteq Closure(X, D)
    BY <1>2, ClosureExtends
  <1>4. Closure(f.det, D) \subseteq Closure(X, D)
    BY <1>3, ClosureAbsorbs
  <1> QED BY <1>4 DEF ViolatesBCNF, IsSuperkey

LEMMA SilenceFor3NF ==
  ASSUME D \in SUBSET FDs, keys = {K \in SUBSET Attrs : CandidateKey(K, Attrs)},
         \A f \in D : ~Violates3NF(f)
  PROVE  In3NF(Attrs)
  <1> SUFFICES ASSUME NEW X \in SUBSET Attrs, NEW a \in (Closure(X, D) \cap Attrs) \ X,
                      ~IsSuperkey(X, Attrs, D)
               PROVE  IsPrime(a, keys)
    BY DEF In3NF, IsPrime
  <1> DEFINE T == X \cup {b \in Closure(X, D) : IsPrime(b, keys)}
  <1>1. X \subseteq T /\ T \subseteq Closure(X, D) /\ T \in SUBSET Attrs
    BY ClosureExtends
  <1>2. ASSUME NEW f \in D, f.det \subseteq T
        PROVE  f.dep \in T
    <2>1. Closure(f.det, D) \subseteq Closure(X, D)
      BY <1>1, <1>2, ClosureAbsorbs
    <2>2. ~IsSuperkey(f.det, Attrs, D)
      BY <2>1 DEF IsSuperkey
    <2>3. IsPrime(f.dep, keys)
      BY <2>2 DEF Violates3NF
    <2>4. f.dep \in Closure(X, D)
      BY <1>1, <1>2, ClosureClosed DEF Closed, Holds
    <2> QED BY <2>3, <2>4
  <1>3. Closure(X, D) \subseteq T
    <2>1. Closed(T, D)
      BY <1>2 DEF Closed, Holds
    <2> QED BY <1>1, <2>1, ClosureLeast
  <1> QED BY <1>3

LEMMA SilenceFor2NF ==
  ASSUME keys = {K \in SUBSET Attrs : CandidateKey(K, Attrs)}, In3NF(Attrs),
         NEW a \in Attrs
  PROVE  ~PartiallyDependent(a)
  <1> SUFFICES ASSUME ~IsPrime(a, keys), NEW K \in keys,
                      NEW S \in (SUBSET K) \ {{}, K}, a \in Closure(S, D)
               PROVE  FALSE
    BY DEF PartiallyDependent
  <1>1. K \in SUBSET Attrs /\ CandidateKey(K, Attrs)
    OBVIOUS
  <1>2. S \in SUBSET Attrs /\ a \notin S
    BY <1>1 DEF IsPrime
  <1>3. IsSuperkey(S, Attrs, D) \/ \E L \in SUBSET Attrs : CandidateKey(L, Attrs) /\ a \in L
    BY <1>2 DEF In3NF
  <1>4. ~IsSuperkey(S, Attrs, D)
    BY <1>1 DEF CandidateKey
  <1> QED BY <1>3, <1>4 DEF IsPrime

\* To ask the declared dependencies is to ask all they imply: a table the
\* audit has nothing to say about is in the normal form.
THEOREM SilenceTheorem == Spec => []SilenceMeansNormal
  <1>1. IInv => SilenceMeansNormal
    <2> SUFFICES ASSUME IInv, pc = "suggest"
                 PROVE  /\ (\A f \in D : ~Violates3NF(f)) =>
                             In3NF(Attrs) /\ \A a \in Attrs : ~PartiallyDependent(a)
                        /\ (\A f \in D : ~ViolatesBCNF(f)) => InBCNF(Attrs)
      BY DEF SilenceMeansNormal
    <2>1. D \in SUBSET FDs
      BY DeclaredFacts DEF IInv
    <2>2. keys = {K \in SUBSET Attrs : CandidateKey(K, Attrs)}
      BY DEF IInv, KeysAreCandidateKeys, KeysKnown
    <2> QED BY <2>1, <2>2, SilenceForBCNF, SilenceFor3NF, SilenceFor2NF
  <1> QED BY <1>1, InductiveInvariant, PTL

-----------------------------------------------------------------------------
(* More of closures: what they owe to which dependencies.                  *)

LEMMA ClosureMonotone ==
  ASSUME NEW E \in SUBSET FDs, NEW F \in SUBSET FDs, E \subseteq F,
         NEW X, NEW Y, X \subseteq Y
  PROVE  Closure(X, E) \subseteq Closure(Y, F)
  BY DEF Closure, Closed

LEMMA EquivalentClosures ==
  ASSUME NEW E, NEW F, Equivalent(E, F), NEW X
  PROVE  Closure(X, E) = Closure(X, F)
  BY DEF Closure, Equivalent

\* The last step of a closure: what it adds has a dependency that fires in
\* the rest of the closure.
LEMMA ClosureLastStep ==
  ASSUME NEW E \in SUBSET FDs, NEW X \in SUBSET Attrs,
         NEW a \in Closure(X, E), a \notin X
  PROVE  \E f \in E : f.dep = a /\ f.det \subseteq Closure(X, E) \ {a}
  <1> SUFFICES ASSUME \A f \in E : ~(f.dep = a /\ f.det \subseteq Closure(X, E) \ {a})
               PROVE  FALSE
    OBVIOUS
  <1> DEFINE R == Closure(X, E) \ {a}
  <1>1. R \in SUBSET Attrs /\ X \subseteq R
    BY ClosureExtends
  <1>2. ASSUME NEW f \in E, f.det \subseteq R
        PROVE  f.dep \in R
    <2>1. f.dep \in Closure(X, E)
      BY <1>2, ClosureClosed DEF Closed, Holds
    <2> QED BY <1>2, <2>1
  <1>3. Closed(R, E)
    BY <1>2 DEF Closed, Holds
  <1>4. Closure(X, E) \subseteq R
    BY <1>1, <1>3, ClosureLeast
  <1> QED BY <1>4

-----------------------------------------------------------------------------
(* What step 2 leaves, and what step 3 makes of it.                        *)

DepsKept ==
  /\ Len(fds) = Len(declared)
  /\ \A i \in 1 .. Len(fds) :
       fds[i].dep = declared[i].dep /\ fds[i].det \subseteq declared[i].det

\* No column that was visited is extraneous any more.
ReducedSoFar ==
  KeysKnown =>
    \A i \in 1 .. Len(fds), k \in 1 .. Len(Columns) :
      (pc = "reduce" => (i - 1) * Len(Columns) + k < visit)
        => ~Extraneous(fds, i, Columns[k])

Needed(n) == {fds[i] : i \in {k \in 1 .. n : ~Redundant(fds, k)}}

CoverSoFar ==
  /\ ~KeysKnown => visit = 1
  /\ pc \in {"keys", "close", "reduce"} => cover = {}
  /\ pc = "prune" => visit <= Len(fds) + 1 /\ cover = Needed(visit - 1)
  /\ CoverKnown => cover = Needed(Len(fds))

CoverInv == DepsKept /\ ReducedSoFar /\ CoverSoFar

\* Which column of which dependency a visit tries.
LEMMA VisitSplits ==
  ASSUME NEW L \in Nat \ {0}, NEW i \in Nat \ {0}, NEW k \in 1 .. L
  PROVE  /\ ((((i - 1) * L + k) - 1) \div L) + 1 = i
         /\ ((((i - 1) * L + k) - 1) % L) + 1 = k
  <1> DEFINE n == ((i - 1) * L + k) - 1
  <1>1. (i - 1) * L \in Nat
    OBVIOUS
  <1>2. n \in Nat /\ n = L * (i - 1) + (k - 1) /\ 0 <= k - 1 /\ k - 1 < L
    BY <1>1
  <1>3. n \div L = i - 1 /\ n % L = k - 1
    BY <1>2
  <1> QED BY <1>3

LEMMA DropExtraneousList ==
  ASSUME NEW list \in Seq(FDs), NEW v
  PROVE  /\ DropExtraneous(list, v) \in Seq(FDs)
         /\ Len(DropExtraneous(list, v)) = Len(list)
         /\ \A k \in 1 .. Len(list) :
              /\ DropExtraneous(list, v)[k].dep = list[k].dep
              /\ DropExtraneous(list, v)[k].det \subseteq list[k].det
              /\ VisitFD(v) = k /\ Extraneous(list, k, VisitColumn(v)) =>
                   VisitColumn(v) \notin DropExtraneous(list, v)[k].det
         /\ \A k \in 1 .. Len(list) :
              VisitFD(v) = k /\ ~Extraneous(list, k, VisitColumn(v)) =>
                DropExtraneous(list, v) = list
  <1> DEFINE i == VisitFD(v)
             a == VisitColumn(v)
             less == [list[i] EXCEPT !.det = @ \ {a}]
             new  == [list EXCEPT ![i].det = @ \ {a}]
  <1>1. CASE ~(Extraneous(list, i, a) /\ i \in 1 .. Len(list))
    <2>1. DropExtraneous(list, v) = list
      <3>1. CASE ~Extraneous(list, i, a)
        BY <3>1 DEF DropExtraneous
      <3>2. CASE i \notin 1 .. Len(list)
        <4>1. new = list
          BY <3>2
        <4> QED BY <4>1 DEF DropExtraneous
      <3> QED BY <1>1, <3>1, <3>2
    <2> QED BY <1>1, <2>1
  <1>2. CASE Extraneous(list, i, a) /\ i \in 1 .. Len(list)
    <2>1. DropExtraneous(list, v) = new
      BY <1>2 DEF DropExtraneous
    <2>2. \A k \in 1 .. Len(list) : list[k] \in FDs
      BY ElementOfSeq
    <2>3. list[i] \in FDs /\ a \in list[i].det /\ list[i].det # {a}
      BY <1>2, <2>2 DEF Extraneous
    <2>4. less \in FDs /\ less.det = list[i].det \ {a} /\ less.dep = list[i].dep
      BY <2>3 DEF FDs
    <2>5. new = [list EXCEPT ![i] = less]
      OBVIOUS
    <2>6. /\ new \in Seq(FDs)
          /\ Len(new) = Len(list)
          /\ \A k \in 1 .. Len(new) : new[k] = IF k = i THEN less ELSE list[k]
      BY <1>2, <2>4, <2>5, ExceptSeq
    <2> HIDE DEF new, less
    <2> QED BY <1>2, <2>1, <2>4, <2>6
  <1> QED BY <1>1, <1>2

\* A column that is not extraneous stays so: determinants shrink and the list
\* means what it meant.
LEMMA DropKeepsReduced ==
  ASSUME NEW list \in Seq(FDs), NEW v, NEW k \in 1 .. Len(list), NEW b \in Attrs,
         \/ ~Extraneous(list, k, b)
         \/ VisitFD(v) = k /\ VisitColumn(v) = b
  PROVE  ~Extraneous(DropExtraneous(list, v), k, b)
  <1> DEFINE new == DropExtraneous(list, v)
  <1>1. /\ new[k].dep = list[k].dep /\ new[k].det \subseteq list[k].det
        /\ VisitFD(v) = k /\ Extraneous(list, k, VisitColumn(v)) =>
             VisitColumn(v) \notin new[k].det
        /\ VisitFD(v) = k /\ ~Extraneous(list, k, VisitColumn(v)) => new = list
    BY DropExtraneousList
  <1>2. Equivalent(ToSet(new), ToSet(list))
    BY DroppingKeepsMeaning
  <1> HIDE DEF new
  <1>3. CASE ~Extraneous(list, k, b)
    <2> SUFFICES ASSUME Extraneous(new, k, b) PROVE FALSE
      BY DEF new
    <2>1. /\ b \in new[k].det /\ new[k].det # {b}
          /\ new[k].dep \in Closure(new[k].det \ {b}, ToSet(new))
      BY DEF Extraneous
    <2>2. b \in list[k].det /\ list[k].det # {b}
      BY <1>1, <2>1
    <2>3. ToSet(list) \in SUBSET FDs
      <3>1. \A n \in DOMAIN list : list[n] \in FDs
        OBVIOUS
      <3> QED BY <3>1 DEF ToSet
    <2>4. Closure(new[k].det \ {b}, ToSet(new)) = Closure(new[k].det \ {b}, ToSet(list))
      BY <1>2, EquivalentClosures
    <2>5. Closure(new[k].det \ {b}, ToSet(list)) \subseteq Closure(list[k].det \ {b}, ToSet(list))
      BY <1>1, <2>3, ClosureMonotone
    <2>6. list[k].dep \in Closure(list[k].det \ {b}, ToSet(list))
      BY <1>1, <2>1, <2>4, <2>5
    <2> QED BY <1>3, <2>2, <2>6 DEF Extraneous
  <1>4. CASE Extraneous(list, k, b) /\ VisitFD(v) = k /\ VisitColumn(v) = b
    BY <1>1, <1>4 DEF Extraneous, new
  <1> QED BY <1>3, <1>4

LEMMA ReduceKeepsCover ==
  ASSUME IInv, CoverInv, ReduceDeterminant
  PROVE  CoverInv'
  <1>1. /\ pc = "reduce" /\ pc' = pc /\ fds' = DropExtraneous(fds, visit)
        /\ visit' = visit + 1 /\ cover' = cover /\ declared' = declared
    BY DEF ReduceDeterminant
  <1>2. fds \in Seq(FDs) /\ visit \in Nat \ {0} /\ Len(fds) \in Nat
    BY LenProperties DEF IInv, TypeOK
  <1>3. Len(fds') = Len(fds)
    BY <1>1, <1>2, DropExtraneousList
  <1>4. DepsKept'
    <2>1. \A i \in 1 .. Len(fds) : fds'[i].dep = fds[i].dep /\ fds'[i].det \subseteq fds[i].det
      BY <1>1, <1>2, DropExtraneousList
    <2> QED BY <1>1, <1>3, <2>1 DEF CoverInv, DepsKept
  <1>5. ReducedSoFar'
    <2> SUFFICES ASSUME NEW i \in 1 .. Len(fds), NEW k \in 1 .. Len(Columns),
                        (i - 1) * Len(Columns) + k < visit + 1
                 PROVE  ~Extraneous(fds', i, Columns[k])
      BY <1>1, <1>3 DEF ReducedSoFar, KeysKnown
    <2> DEFINE u == (i - 1) * Len(Columns) + k
    <2>1. Columns[k] \in Attrs
      BY ColumnsAssumption DEF Attrs
    <2>2. i \in Nat \ {0} /\ k \in Nat /\ Len(Columns) \in Nat \ {0}
      BY <1>2, ColumnsFinite
    <2>3. (i - 1) * Len(Columns) \in Nat
      BY <2>2
    <2>4. u < visit \/ u = visit
      BY <1>2, <2>2, <2>3
    <2>5. CASE u < visit
      <3>1. ~Extraneous(fds, i, Columns[k])
        BY <1>1, <2>5 DEF CoverInv, ReducedSoFar, KeysKnown
      <3> QED BY <1>1, <1>2, <2>1, <3>1, DropKeepsReduced
    <2>6. CASE u = visit
      <3>1. VisitFD(visit) = i /\ VisitColumn(visit) = Columns[k]
        BY <2>2, <2>6, VisitSplits DEF VisitFD, VisitColumn
      <3> QED BY <1>1, <1>2, <2>1, <3>1, DropKeepsReduced
    <2> QED BY <2>4, <2>5, <2>6
  <1>6. CoverSoFar'
    BY <1>1 DEF CoverInv, CoverSoFar, KeysKnown, CoverKnown
  <1> QED BY <1>4, <1>5, <1>6 DEF CoverInv

\* fds and cover keep their value, and with them what is needed of fds.
LEMMA SameListSameCover ==
  ASSUME fds' = fds
  PROVE  /\ \A n : Needed(n)' = Needed(n)
         /\ \A i, a : Extraneous(fds, i, a)' <=> Extraneous(fds, i, a)
  BY DEF Needed, Redundant, Extraneous

LEMMA SearchKeepsCover ==
  ASSUME CoverInv, IInv,
         pc \in {"keys", "close"}, pc' \in {"keys", "close", "reduce"},
         UNCHANGED <<declared, fds, visit, cover>>
  PROVE  CoverInv'
  <1>1. DepsKept'
    BY DEF CoverInv, DepsKept
  <1>2. visit = 1 /\ cover = {}
    BY DEF CoverInv, CoverSoFar, KeysKnown
  <1>3. ReducedSoFar'
    <2> SUFFICES ASSUME NEW i \in 1 .. Len(fds), NEW k \in 1 .. Len(Columns),
                        (i - 1) * Len(Columns) + k < 1
                 PROVE  FALSE
      BY <1>2 DEF ReducedSoFar, KeysKnown
    <2>1. fds \in Seq(FDs)
      BY DEF IInv, TypeOK
    <2>2. Len(fds) \in Nat
      BY <2>1, LenProperties
    <2>3. i - 1 \in Nat /\ k \in Nat \ {0} /\ Len(Columns) \in Nat
      BY <2>2, ColumnsFinite
    <2>4. (i - 1) * Len(Columns) \in Nat
      BY <2>3
    <2> QED BY <2>3, <2>4
  <1>4. CoverSoFar'
    BY <1>2 DEF CoverSoFar, KeysKnown, CoverKnown
  <1> QED BY <1>1, <1>3, <1>4 DEF CoverInv

LEMMA ReducedKeepsCover ==
  ASSUME CoverInv, IInv, Reduced
  PROVE  CoverInv'
  <1>1. /\ pc = "reduce" /\ visit > Visits(Len(fds)) /\ pc' = "prune" /\ visit' = 1
        /\ UNCHANGED <<declared, fds, cover>>
    BY DEF Reduced
  <1>2. fds \in Seq(FDs) /\ visit \in Nat
    BY DEF IInv, TypeOK
  <1>3. Len(fds) \in Nat
    BY <1>2, LenProperties
  <1>4. DepsKept'
    BY <1>1 DEF CoverInv, DepsKept
  <1>5. ReducedSoFar'
    <2> SUFFICES ASSUME NEW i \in 1 .. Len(fds), NEW k \in 1 .. Len(Columns)
                 PROVE  ~Extraneous(fds, i, Columns[k])
      BY <1>1, SameListSameCover DEF ReducedSoFar
    <2>1. i \in Nat \ {0} /\ k \in Nat /\ Len(Columns) \in Nat \ {0}
      BY <1>3, ColumnsFinite
    <2>2. (i - 1) * Len(Columns) + k <= Len(fds) * Len(Columns)
      <3>1. i * Len(Columns) <= Len(fds) * Len(Columns)
        BY <1>3, <2>1
      <3>2. (i - 1) * Len(Columns) = i * Len(Columns) - Len(Columns)
        BY <2>1
      <3>3. k <= Len(Columns)
        OBVIOUS
      <3>4. i * Len(Columns) \in Nat /\ Len(fds) * Len(Columns) \in Nat
        BY <1>3, <2>1
      <3> QED BY <2>1, <3>1, <3>2, <3>3, <3>4
    <2>3. (i - 1) * Len(Columns) + k < visit
      <3>1. (i - 1) * Len(Columns) \in Nat /\ Len(fds) * Len(Columns) \in Nat
        BY <1>3, <2>1
      <3> QED BY <1>1, <1>2, <2>1, <2>2, <3>1 DEF Visits
    <2> QED BY <1>1, <2>3 DEF CoverInv, ReducedSoFar, KeysKnown
  <1>6. CoverSoFar'
    <2>1. cover = {}
      BY <1>1 DEF CoverInv, CoverSoFar
    <2>2. Needed(0)' = {}
      BY DEF Needed
    <2>3. 1 <= Len(fds) + 1 /\ 1 - 1 = 0
      BY <1>3
    <2> QED BY <1>1, <2>1, <2>2, <2>3 DEF CoverSoFar, KeysKnown, CoverKnown
  <1> QED BY <1>4, <1>5, <1>6 DEF CoverInv

LEMMA PruneKeepsCover ==
  ASSUME CoverInv, IInv, Prune
  PROVE  CoverInv'
  <1>1. /\ pc = "prune" /\ visit <= Len(fds) /\ pc' = pc /\ visit' = visit + 1
        /\ cover' = IF Redundant(fds, visit) THEN cover ELSE cover \cup {fds[visit]}
        /\ UNCHANGED <<declared, fds>>
    BY DEF Prune
  <1>2. fds \in Seq(FDs) /\ visit \in Nat \ {0}
    BY DEF IInv, TypeOK
  <1>3. Len(fds) \in Nat
    BY <1>2, LenProperties
  <1>4. DepsKept'
    BY <1>1 DEF CoverInv, DepsKept
  <1>5. ReducedSoFar'
    BY <1>1, SameListSameCover DEF CoverInv, ReducedSoFar, KeysKnown
  <1>6. cover' = Needed(visit)
    <2>1. cover = Needed(visit - 1)
      BY <1>1 DEF CoverInv, CoverSoFar
    <2>2. 1 .. visit = 1 .. (visit - 1) \cup {visit}
      BY <1>2
    <2> QED BY <1>1, <2>1, <2>2 DEF Needed
  <1>7. CoverSoFar'
    <2>1. visit' <= Len(fds) + 1 /\ visit' - 1 = visit
      BY <1>1, <1>2, <1>3
    <2>2. Needed(visit - 1)' = Needed(visit)
      BY <1>1, <2>1 DEF Needed, Redundant
    <2> QED BY <1>1, <1>6, <2>1, <2>2 DEF CoverSoFar, KeysKnown, CoverKnown
  <1> QED BY <1>4, <1>5, <1>7 DEF CoverInv

LEMMA PrunedKeepsCover ==
  ASSUME CoverInv, IInv,
         pc \in {"prune", "suggest", "split", "done"}, pc' \in {"suggest", "split", "done"},
         pc = "prune" => visit > Len(fds),
         UNCHANGED <<declared, fds, cover>>
  PROVE  CoverInv'
  <1>1. fds \in Seq(FDs) /\ visit \in Nat
    BY DEF IInv, TypeOK
  <1>2. Len(fds) \in Nat
    BY <1>1, LenProperties
  <1>3. DepsKept'
    BY DEF CoverInv, DepsKept
  <1>4. ReducedSoFar'
    BY SameListSameCover DEF CoverInv, ReducedSoFar, KeysKnown
  <1>5. cover = Needed(Len(fds))
    <2>1. CASE pc = "prune"
      <3>1. visit - 1 = Len(fds) /\ cover = Needed(visit - 1)
        BY <1>1, <1>2, <2>1 DEF CoverInv, CoverSoFar
      <3> QED BY <3>1
    <2>2. CASE pc # "prune"
      BY <2>2 DEF CoverInv, CoverSoFar, CoverKnown
    <2> QED BY <2>1, <2>2
  <1>6. CoverSoFar'
    BY <1>5, SameListSameCover DEF CoverSoFar, KeysKnown, CoverKnown, Needed, Redundant
  <1> QED BY <1>3, <1>4, <1>6 DEF CoverInv

\* What steps 2 and 3 know in the middle of their loops: no column visited is
\* extraneous, the cover is what is needed of the dependencies visited.
THEOREM CoverInvariant == Spec => [](IInv /\ CoverInv)
  <1>1. Init => CoverInv
    <2> SUFFICES ASSUME Init PROVE CoverInv
      OBVIOUS
    <2> QED BY DEF Init, CoverInv, DepsKept, ReducedSoFar, CoverSoFar, KeysKnown, CoverKnown
  <1>2. IInv /\ CoverInv /\ [Next]_vars => CoverInv'
    <2> SUFFICES ASSUME IInv, CoverInv, [Next]_vars PROVE CoverInv'
      OBVIOUS
    <2>1. CASE \/ \E X \in untried : TryCombo(X)
               \/ NextSize \/ KeysFound \/ ScanFD \/ ScanAgain \/ ClosureKnown
      <3>1. /\ pc \in {"keys", "close"} /\ pc' \in {"keys", "close", "reduce"}
            /\ UNCHANGED <<declared, fds, visit, cover>>
        BY <2>1 DEF TryCombo, NextSize, KeysFound, ScanFD, ScanAgain, ClosureKnown, coverVars
      <3> QED BY <3>1, SearchKeepsCover
    <2>2. CASE ReduceDeterminant \/ Reduced \/ Prune
      BY <2>2, ReduceKeepsCover, ReducedKeepsCover, PruneKeepsCover
    <2>3. CASE Pruned \/ Suggest \/ Decompose \/ Decomposed
      <3>1. /\ pc \in {"prune", "suggest", "split", "done"}
            /\ pc' \in {"suggest", "split", "done"}
            /\ pc = "prune" => visit > Len(fds)
            /\ UNCHANGED <<declared, fds, cover>>
        BY <2>3 DEF Pruned, Suggest, Decompose, Decomposed, coverVars
      <3> QED BY <3>1, PrunedKeepsCover
    <2>4. CASE UNCHANGED vars
      <3>1. UNCHANGED <<declared, pc, fds, visit, cover>>
        BY <2>4 DEF vars, coverVars
      <3> QED
        BY <3>1, SameListSameCover
        DEF CoverInv, DepsKept, ReducedSoFar, CoverSoFar, KeysKnown, CoverKnown, Needed, Redundant
    <2> QED BY <2>1, <2>2, <2>3, <2>4 DEF Next
  <1> QED BY <1>1, <1>2, InductiveInvariant, PTL DEF Spec

-----------------------------------------------------------------------------
(* Why dropping what the others imply, all at once, loses nothing.         *)

\* No column of X can be left out if a is to follow.
NothingToSpare(X, a) == \A x \in X : X # {x} => a \notin Closure(X \ {x}, D)

\* Without a circle, two determinants of a that determine each other and have
\* no column to spare are one.
LEMMA ReducedAlike ==
  ASSUME D \in SUBSET FDs, Acyclic(D),
         NEW X \in SUBSET Attrs, NEW Y \in SUBSET Attrs, NEW a \in Closure(X, D),
         Closure(X, D) = Closure(Y, D), NothingToSpare(X, a), NothingToSpare(Y, a)
  PROVE  X = Y
  <1> SUFFICES ASSUME X # Y PROVE FALSE
    OBVIOUS
  <1> DEFINE Z == X \cap Y
             B == Closure(X, D) \ Closure(Z, D)
  <1>1. ASSUME NEW V \in SUBSET Attrs, NEW x \in V, Z \subseteq V \ {x},
               NothingToSpare(V, a), a \in Closure(V, D)
        PROVE  x \notin Closure(Z, D)
    <2> SUFFICES ASSUME x \in Closure(Z, D) PROVE FALSE
      OBVIOUS
    <2>1. CASE V = {x}
      <3>1. Z = {}
        BY <1>1, <2>1
      <3> QED BY <3>1, EmptyClosure
    <2>2. CASE V # {x}
      <3>1. x \in Closure(V \ {x}, D)
        BY <1>1, ClosureMonotone
      <3>2. V \subseteq Closure(V \ {x}, D)
        <4>1. V \ {x} \subseteq Closure(V \ {x}, D)
          BY ClosureExtends
        <4> QED BY <3>1, <4>1
      <3>3. Closure(V, D) \subseteq Closure(V \ {x}, D)
        BY <3>2, ClosureAbsorbs
      <3> QED BY <1>1, <2>2, <3>3 DEF NothingToSpare
    <2> QED BY <2>1, <2>2
  <1>2. \A x \in X \ Y : x \notin Closure(Z, D)
    BY <1>1
  <1>3. \A y \in Y \ X : y \notin Closure(Z, D)
    BY <1>1
  <1>4. X \subseteq Closure(X, D) /\ Y \subseteq Closure(X, D) /\ B \in SUBSET Attrs
    BY ClosureExtends
  <1>5. B # {}
    BY <1>2, <1>3, <1>4
  <1>6. PICK b \in B : \A f \in D : f.dep = b /\ b \notin f.det => f.det \cap B = {}
    <2> HIDE DEF B
    <2> QED BY <1>4, <1>5 DEF Acyclic
  <1>7. ASSUME NEW V \in SUBSET Attrs, Closure(V, D) = Closure(X, D), b \notin V
        PROVE  FALSE
    <2>1. PICK f \in D : f.dep = b /\ f.det \subseteq Closure(V, D) \ {b}
      BY <1>7, ClosureLastStep
    <2>2. f.det \subseteq Closure(Z, D)
      BY <1>6, <1>7, <2>1
    <2>3. b \in Closure(Z, D)
      BY <2>1, <2>2, ClosureClosed DEF Closed, Holds
    <2> QED BY <2>3
  <1>8. b \in Z
    BY <1>7
  <1> QED BY <1>8, ClosureExtends

\* What there is to know of the list that step 3 starts from.
LEMMA ReducedList ==
  ASSUME IInv, CoverInv, CoverKnown
  PROVE  /\ D \in SUBSET FDs /\ Len(fds) \in Nat
         /\ \A k \in 1 .. Len(fds) : fds[k] \in FDs /\ fds[k] \in ToSet(fds)
         /\ ToSet(fds) = {fds[k] : k \in 1 .. Len(fds)} /\ DOMAIN fds = 1 .. Len(fds)
         /\ ToSet(fds) \in SUBSET FDs
         /\ \A X : Closure(X, ToSet(fds)) = Closure(X, D)
         /\ \A f \in D : \E k \in 1 .. Len(fds) : fds[k].dep = f.dep /\ fds[k].det \subseteq f.det
         /\ \A k \in 1 .. Len(fds) : NothingToSpare(fds[k].det, fds[k].dep)
         /\ cover = Needed(Len(fds)) /\ cover \subseteq ToSet(fds)
  <1>1. fds \in Seq(FDs) /\ Equivalent(ToSet(fds), D)
    BY DEF IInv, TypeOK, ReductionKeepsMeaning
  <1>2. Len(fds) \in Nat /\ DOMAIN fds = 1 .. Len(fds) /\ \A k \in 1 .. Len(fds) : fds[k] \in FDs
    BY <1>1, LenProperties, ElementOfSeq
  <1>3. ToSet(fds) = {fds[k] : k \in 1 .. Len(fds)}
    BY <1>2 DEF ToSet
  <1>4. \A X : Closure(X, ToSet(fds)) = Closure(X, D)
    BY <1>1, EquivalentClosures
  <1>5. D \in SUBSET FDs /\ D = {declared[k] : k \in 1 .. Len(declared)}
    BY DeclaredFacts DEF IInv
  <1>6. \A f \in D : \E k \in 1 .. Len(fds) : fds[k].dep = f.dep /\ fds[k].det \subseteq f.det
    BY <1>5 DEF CoverInv, DepsKept
  <1>7. ASSUME NEW k \in 1 .. Len(fds), NEW x \in fds[k].det, fds[k].det # {x}
        PROVE  fds[k].dep \notin Closure(fds[k].det \ {x}, D)
    <2>1. x \in Attrs
      BY <1>2 DEF FDs
    <2>2. PICK j \in 1 .. Len(Columns) : x = Columns[j]
      <3>1. DOMAIN Columns = 1 .. Len(Columns)
        BY ColumnsAssumption
      <3> QED BY <2>1, <3>1 DEF Attrs
    <2>3. ~Extraneous(fds, k, x)
      BY <2>2 DEF CoverInv, ReducedSoFar, KeysKnown, CoverKnown
    <2> QED BY <1>4, <1>7, <2>3 DEF Extraneous
  <1>8. cover = Needed(Len(fds))
    BY DEF CoverInv, CoverSoFar
  <1>9. cover \subseteq ToSet(fds)
    BY <1>3, <1>8 DEF Needed
  <1> QED BY <1>2, <1>3, <1>4, <1>5, <1>6, <1>7, <1>8, <1>9 DEF NothingToSpare

\* Two dependencies of the list with the same dependent differ on the left.
LEMMA TwinsDiffer ==
  ASSUME fds \in Seq(FDs), ~Twins, NEW k \in DOMAIN fds, NEW l \in DOMAIN fds, k # l,
         fds[k].dep = fds[l].dep
  PROVE  fds[k].det # fds[l].det
  <1>1. fds[k] \in FDs /\ fds[l] \in FDs
    OBVIOUS
  <1>2. fds[k] # fds[l]
    BY DEF Twins
  <1> QED BY <1>1, <1>2 DEF FDs

\* A set that is closed under the cover is closed under what was declared.
LEMMA CoverMeansAll ==
  ASSUME IInv, CoverInv, CoverKnown, Acyclic(D), ~Twins,
         NEW S \in SUBSET Attrs, Closed(S, cover)
  PROVE  Closed(S, D)
  <1> SUFFICES ASSUME ~Closed(S, D) PROVE FALSE
    OBVIOUS
  <1> DEFINE C == Closure(S, D)
             B == C \ S
             det(k) == fds[k].det
  <1>1. S \subseteq C /\ B \in SUBSET Attrs
    BY ClosureExtends
  <1>2. D \in SUBSET FDs /\ Len(fds) \in Nat /\ DOMAIN fds = 1 .. Len(fds)
    BY ReducedList
  <1>3. B # {}
    <2>1. Closed(C, D)
      BY <1>2, ClosureClosed
    <2>2. C # S
      BY <2>1
    <2> QED BY <1>1, <2>2
  <1>4. PICK a \in B : \A f \in D : f.dep = a /\ a \notin f.det => f.det \cap B = {}
    <2> HIDE DEF B
    <2> QED BY <1>1, <1>3 DEF Acyclic
  <1> DEFINE G == {k \in 1 .. Len(fds) : fds[k].dep = a /\ fds[k].det \subseteq S}
  <1>5. ASSUME NEW V \in SUBSET Attrs, V \subseteq C, a \in Closure(V, D), a \notin V
        PROVE  \E k \in G : fds[k].det \subseteq Closure(V, D)
    <2>1. PICK f \in D : f.dep = a /\ f.det \subseteq Closure(V, D) \ {a}
      BY <1>2, <1>5, ClosureLastStep
    <2>2. Closure(V, D) \subseteq C
      BY <1>2, <1>5, ClosureAbsorbs
    <2>3. f.det \subseteq S
      BY <1>4, <2>1, <2>2
    <2>4. PICK k \in 1 .. Len(fds) : fds[k].dep = f.dep /\ fds[k].det \subseteq f.det
      BY ReducedList
    <2>5. k \in G
      BY <2>1, <2>3, <2>4
    <2> QED BY <2>1, <2>4, <2>5
  <1>6. G # {}
    <2>1. a \in Closure(S, D) /\ a \notin S
      BY <1>4
    <2> QED BY <1>1, <1>5, <2>1
  <1>7. \A k \in G : Redundant(fds, k)
    <2>1. cover = Needed(Len(fds))
      BY ReducedList
    <2> QED BY <1>4, <2>1 DEF Needed, Closed, Holds
  <1> DEFINE weight(k) == Cardinality(Closure(fds[k].det, D))
  <1>8. PICK k \in G : \A l \in G : weight(k) <= weight(l)
    <2>1. \A l \in G : weight(l) \in Nat
      <3>1. \A V : Closure(V, D) \in SUBSET Attrs
        BY DEF Closure
      <3> QED BY <3>1, SubsetSizes
    <2> DEFINE W == {weight(l) : l \in G}
    <2>2. W \subseteq Nat /\ W # {}
      BY <1>6, <2>1
    <2>3. PICK m \in W : \A n \in W : m <= n
      <3> HIDE DEF W
      <3> QED BY <2>2, LeastNatural
    <2> QED BY <2>3
  <1>9. k \in 1 .. Len(fds) /\ fds[k].dep = a /\ fds[k].det \subseteq S /\ a \notin fds[k].det
    BY <1>4
  <1>10. PICK l \in DOMAIN fds \ {k} :
           fds[l].dep = a /\ fds[l].det \subseteq Closure(fds[k].det, D) \ {a}
    <2> DEFINE E == {fds[l] : l \in DOMAIN fds \ {k}}
    <2>1. E \in SUBSET FDs /\ E \subseteq ToSet(fds)
      BY ReducedList
    <2>2. a \in Closure(fds[k].det, E)
      BY <1>7, <1>9 DEF Redundant
    <2>3. fds[k].det \in SUBSET Attrs
      BY <1>9
    <2>4. PICK f \in E : f.dep = a /\ f.det \subseteq Closure(fds[k].det, E) \ {a}
      <3> HIDE DEF E
      <3> QED BY <1>9, <2>1, <2>2, <2>3, ClosureLastStep
    <2>5. Closure(fds[k].det, E) \subseteq Closure(fds[k].det, D)
      <3>1. Closure(fds[k].det, E) \subseteq Closure(fds[k].det, ToSet(fds))
        BY <2>1, ReducedList, ClosureMonotone
      <3> QED BY <3>1, ReducedList
    <2> QED BY <2>4, <2>5
  <1> DEFINE X == fds[k].det
             Y == fds[l].det
  <1>11. /\ X \in SUBSET Attrs /\ Y \in SUBSET Attrs /\ X \subseteq C
         /\ Y \subseteq Closure(X, D) /\ a \notin X /\ a \notin Y
         /\ Closure(Y, D) \subseteq Closure(X, D) /\ Closure(X, D) \subseteq C
    <2>1. Y \subseteq Closure(X, D) /\ a \notin Y
      BY <1>10
    <2>2. X \subseteq C /\ X \in SUBSET Attrs
      BY <1>1, <1>9
    <2>3. Closure(Y, D) \subseteq Closure(X, D) /\ Closure(X, D) \subseteq C
      BY <1>2, <2>1, <2>2, ClosureAbsorbs
    <2>4. Closure(X, D) \in SUBSET Attrs
      BY DEF Closure
    <2> QED BY <1>9, <2>1, <2>2, <2>3, <2>4
  <1>12. a \in Closure(X, D) /\ a \in Closure(Y, D)
    <2>1. ASSUME NEW i \in DOMAIN fds, fds[i].dep = a
          PROVE  a \in Closure(fds[i].det, D)
      <3>1. fds[i] \in ToSet(fds) /\ ToSet(fds) \in SUBSET FDs
            /\ Closure(fds[i].det, ToSet(fds)) = Closure(fds[i].det, D)
        BY <1>2, ReducedList
      <3>2. fds[i].det \subseteq Closure(fds[i].det, ToSet(fds))
        <4>1. fds[i].det \in SUBSET Attrs
          BY <3>1 DEF FDs
        <4> QED BY <4>1, ClosureExtends
      <3> QED BY <2>1, <3>1, <3>2, ClosureClosed DEF Closed, Holds
    <2> QED BY <1>2, <1>9, <1>10, <2>1
  <1>13. Closure(Y, D) = Closure(X, D)
    <2>1. PICK m \in G : fds[m].det \subseteq Closure(Y, D)
      <3>1. Y \subseteq C
        BY <1>11
      <3> HIDE DEF G, C
      <3> QED BY <1>5, <1>11, <1>12, <3>1
    <2>2. Closure(fds[m].det, D) \subseteq Closure(Y, D)
      BY <1>2, <2>1, ClosureAbsorbs
    <2>3. weight(k) <= weight(m)
      BY <1>8
    <2>4. /\ Closure(X, D) \in SUBSET Attrs
          /\ Closure(fds[m].det, D) \in SUBSET Closure(X, D)
      BY <1>11, <2>2 DEF Closure
    <2>5. Closure(fds[m].det, D) = Closure(X, D)
      <3> SUFFICES ASSUME Closure(fds[m].det, D) # Closure(X, D) PROVE FALSE
        OBVIOUS
      <3>1. /\ Cardinality(Closure(fds[m].det, D)) < Cardinality(Closure(X, D))
            /\ Cardinality(Closure(X, D)) \in Nat
        BY <2>4, SubsetSizes
      <3>2. Cardinality(Closure(fds[m].det, D)) \in Nat
        BY <2>4, SubsetSizes
      <3> QED BY <2>3, <3>1, <3>2
    <2> QED BY <1>11, <2>2, <2>5
  <1>14. X # Y
    <2>1. fds \in Seq(FDs)
      BY DEF IInv, TypeOK
    <2> QED BY <1>2, <1>9, <1>10, <2>1, TwinsDiffer
  <1>15. NothingToSpare(X, a) /\ NothingToSpare(Y, a)
    BY <1>2, <1>9, <1>10, ReducedList
  <1> HIDE DEF X, Y
  <1> QED BY <1>2, <1>11, <1>12, <1>13, <1>14, <1>15, ReducedAlike

\* Step 3 leaves nothing that the rest implies, with or without a circle.
LEMMA NothingRedundant ==
  ASSUME IInv, CoverInv, CoverKnown, NEW f \in cover
  PROVE  f.dep \notin Closure(f.det, cover \ {f})
  <1>1. cover \subseteq ToSet(fds) /\ ToSet(fds) \in SUBSET FDs
    BY ReducedList
  <1>2. PICK i \in 1 .. Len(fds) : f = fds[i] /\ ~Redundant(fds, i)
    BY ReducedList DEF Needed
  <1>3. cover \ {f} \subseteq {fds[l] : l \in DOMAIN fds \ {i}}
    BY <1>2, ReducedList DEF Needed
  <1>4. {fds[l] : l \in DOMAIN fds \ {i}} \in SUBSET FDs
    BY ReducedList
  <1>5. Closure(f.det, cover \ {f}) \subseteq Closure(f.det, {fds[l] : l \in DOMAIN fds \ {i}})
    BY <1>1, <1>3, <1>4, ClosureMonotone
  <1> QED BY <1>2, <1>5 DEF Redundant

\* Steps 2 and 3 make a minimal cover of every list of dependencies without a
\* circle, unless step 2 has made two of them equal.
THEOREM CoverTheorem == Spec => []CoverIsCanonical
  <1>1. IInv /\ CoverInv => CoverIsCanonical
    <2> SUFFICES ASSUME IInv, CoverInv, CoverKnown, Acyclic(D), ~Twins
                 PROVE  /\ Equivalent(cover, D)
                        /\ \A f \in cover :
                             /\ f.dep \notin Closure(f.det, cover \ {f})
                             /\ \A a \in f.det :
                                  f.det # {a} => f.dep \notin Closure(f.det \ {a}, cover)
      BY DEF CoverIsCanonical
    <2>1. cover \subseteq ToSet(fds) /\ ToSet(fds) \in SUBSET FDs
      BY ReducedList
    <2>2. Equivalent(cover, D)
      <3>1. ASSUME NEW S \in SUBSET Attrs, Closed(S, D)
            PROVE  Closed(S, cover)
        <4>1. Closed(S, ToSet(fds))
          BY <3>1 DEF IInv, ReductionKeepsMeaning, Equivalent
        <4> QED BY <2>1, <4>1 DEF Closed
      <3> QED BY <3>1, CoverMeansAll DEF Equivalent
    <2>3. \A f \in cover : f.dep \notin Closure(f.det, cover \ {f})
      BY NothingRedundant
    <2>4. ASSUME NEW f \in cover, NEW a \in f.det, f.det # {a}
          PROVE  f.dep \notin Closure(f.det \ {a}, cover)
      <3>1. PICK i \in 1 .. Len(fds) : f = fds[i]
        BY ReducedList DEF Needed
      <3>2. f.dep \notin Closure(f.det \ {a}, ToSet(fds))
        BY <2>4, <3>1, ReducedList DEF NothingToSpare
      <3>3. Closure(f.det \ {a}, cover) \subseteq Closure(f.det \ {a}, ToSet(fds))
        BY <2>1, ClosureMonotone
      <3> QED BY <3>2, <3>3
    <2> QED BY <2>2, <2>3, <2>4
  <1> QED BY <1>1, CoverInvariant, PTL

-----------------------------------------------------------------------------
(* MinimalCover and ProjectFDs of any list: what they return is implied by *)
(* what they are given.                                                    *)

\* A list of the same dependencies, with fewer columns on the left, that means
\* the same.
Reduces(new, list) ==
  /\ new \in Seq(FDs) /\ Len(new) = Len(list)
  /\ \A k \in 1 .. Len(list) : new[k].dep = list[k].dep /\ new[k].det \subseteq list[k].det
  /\ Equivalent(ToSet(new), ToSet(list))

LEMMA DroppingReduces ==
  ASSUME NEW list \in Seq(FDs), NEW new \in Seq(FDs), Reduces(new, list), NEW v
  PROVE  Reduces(DropExtraneous(new, v), list)
  <1> DEFINE less == DropExtraneous(new, v)
  <1>1. /\ less \in Seq(FDs) /\ Len(less) = Len(new)
        /\ \A k \in 1 .. Len(new) : less[k].dep = new[k].dep /\ less[k].det \subseteq new[k].det
    BY DropExtraneousList
  <1>2. Equivalent(ToSet(less), ToSet(new))
    BY DroppingKeepsMeaning
  <1> HIDE DEF less
  <1>3. Equivalent(ToSet(less), ToSet(list))
    BY <1>2 DEF Reduces, Equivalent
  <1>4. \A k \in 1 .. Len(list) : less[k].dep = list[k].dep /\ less[k].det \subseteq list[k].det
    BY <1>1 DEF Reduces
  <1>5. Reduces(less, list)
    BY <1>1, <1>3, <1>4 DEF Reduces
  <1> QED BY <1>5 DEF less

LEMMA VisitsNatural ==
  ASSUME NEW n \in Nat
  PROVE  Visits(n) \in Nat
  BY ColumnsFinite DEF Visits

LEMMA LeftReducedReduces ==
  ASSUME NEW list \in Seq(FDs)
  PROVE  Reduces(LeftReduced(list), list)
  <1> DEFINE N == Visits(Len(list))
             Body(f) == [v \in 0 .. N |->
                           IF v = 0 THEN list ELSE DropExtraneous(f[v - 1], v)]
             step == [v \in 1 .. N |-> [l \in Seq(FDs) |-> DropExtraneous(l, v)]]
  <1>1. N \in Nat
    BY VisitsNatural, LenProperties
  <1>2. step \in [1 .. N -> [Seq(FDs) -> Seq(FDs)]]
    BY DropExtraneousList
  <1>3. PICK f \in [0 .. N -> Seq(FDs)] : Computes(f, N, list, step)
    <2> HIDE DEF step, N
    <2> QED BY <1>1, <1>2, RecursiveFunction
  <1>4. f = Body(f)
    <2>1. ASSUME NEW v \in 1 .. N
          PROVE  f[v] = DropExtraneous(f[v - 1], v)
      <3>1. f[v] = step[v][f[v - 1]] /\ f[v - 1] \in Seq(FDs)
        <4> HIDE DEF step, N
        <4>1. v - 1 \in 0 .. N
          BY <1>1
        <4>2. f[v - 1] \in Seq(FDs)
          BY <4>1
        <4> QED BY <1>3, <4>2, Zenon DEF Computes
      <3> QED BY <3>1
    <2>2. \A v \in 0 .. N : v = 0 \/ v \in 1 .. N
      <3> HIDE DEF N
      <3> QED BY <1>1
    <2>3. ASSUME NEW v \in 0 .. N PROVE f[v] = Body(f)[v]
      <3>1. CASE v = 0
        BY <3>1, <1>3 DEF Computes
      <3>2. CASE v # 0
        BY <3>2, <2>1, <2>2
      <3> QED BY <3>1, <3>2
    <2> HIDE DEF N
    <2> QED BY <1>3, <2>3
  <1> DEFINE g == CHOOSE h : h = Body(h)
  <1>5. g = Body(g)
    <2> HIDE DEF Body
    <2> QED BY <1>4
  <1>6. LeftReduced(list) = g[N]
    BY Zenon DEF LeftReduced
  <1>7. g[0] = list /\ \A v \in 1 .. N : g[v] = DropExtraneous(g[v - 1], v)
    <2>1. 0 \in 0 .. N /\ \A v \in 1 .. N : v \in 0 .. N /\ v # 0
      <3> HIDE DEF N
      <3> QED BY <1>1
    <2> HIDE DEF g, N
    <2> QED BY <1>5, <2>1
  <1> DEFINE P == {v \in 0 .. N : g[v] \in Seq(FDs) /\ Reduces(g[v], list)}
  <1>8. 0 \in P
    <2>1. Reduces(list, list)
      BY DEF Reduces, Equivalent
    <2>2. 0 \in 0 .. N
      <3> HIDE DEF N
      <3> QED BY <1>1
    <2> HIDE DEF g, N
    <2> QED BY <1>7, <2>1, <2>2
  <1>9. ASSUME NEW v \in 1 .. N, v - 1 \in P PROVE v \in P
    <2> HIDE DEF g
    <2>1. g[v - 1] \in Seq(FDs) /\ Reduces(g[v - 1], list)
      BY <1>9
    <2>2. Reduces(DropExtraneous(g[v - 1], v), list)
      BY <2>1, DroppingReduces
    <2>3. g[v] = DropExtraneous(g[v - 1], v)
      BY <1>7
    <2>4. v \in 0 .. N
      <3> HIDE DEF N
      <3> QED BY <1>1
    <2> HIDE DEF N
    <2> QED BY <2>2, <2>3, <2>4 DEF Reduces
  <1>10. N \in P
    <2>1. \A v \in 0 .. N : v \in P
      <3> HIDE DEF P, N
      <3> QED BY <1>1, <1>8, <1>9, Induction
    <2> HIDE DEF P, N
    <2> QED BY <1>1, <2>1
  <1> QED BY <1>6, <1>10

-----------------------------------------------------------------------------
(* The orders the code sorts by are strict and total.                      *)

LEMMA Positions ==
  /\ \A a \in Attrs : Pos(a) \in Nat /\ Pos(a) \in DOMAIN Columns /\ Columns[Pos(a)] = a
  /\ \A a, b \in Attrs : Pos(a) = Pos(b) => a = b
  <1>1. ASSUME NEW a \in Attrs
        PROVE  Pos(a) \in DOMAIN Columns /\ Columns[Pos(a)] = a
    BY DEF Pos, Attrs
  <1>2. DOMAIN Columns \subseteq Nat
    BY ColumnsAssumption, LenProperties
  <1> QED BY <1>1, <1>2

LEMMA FirstOfSet ==
  ASSUME NEW S \in SUBSET Attrs, S # {}
  PROVE  FirstOf(S) \in S /\ \A b \in S : Pos(FirstOf(S)) <= Pos(b)
  <1> DEFINE T == {Pos(a) : a \in S}
  <1>1. T \subseteq Nat /\ T # {}
    BY Positions
  <1>2. PICK m \in T : \A n \in T : m <= n
    <2> HIDE DEF T
    <2> QED BY <1>1, LeastNatural
  <1>3. \E a \in S : \A b \in S : Pos(a) <= Pos(b)
    BY <1>2
  <1> QED BY <1>3 DEF FirstOf

\* d is the first column in which X and Y differ.
FirstApart(X, Y, d) ==
  /\ d \in (X \ Y) \cup (Y \ X)
  /\ \A c \in Attrs : Pos(c) < Pos(d) => (c \in X <=> c \in Y)

GoesOn(Z, d) == \E z \in Z : Pos(z) > Pos(d)

LEMMA BeforeAtFirst ==
  ASSUME NEW X \in SUBSET Attrs, NEW Y \in SUBSET Attrs
  PROVE  /\ \A d \in Attrs : FirstApart(X, Y, d) =>
              (Before(X, Y) <=> (d \in X /\ GoesOn(Y, d)) \/ (d \in Y /\ ~GoesOn(X, d)))
         /\ X # Y => \E d \in Attrs : FirstApart(X, Y, d)
         /\ X = Y => ~Before(X, Y)
  <1> DEFINE apart == (X \ Y) \cup (Y \ X)
             e == FirstOf(apart)
  <1>1. apart \in SUBSET Attrs
    OBVIOUS
  <1>2. Before(X, Y) <=> /\ apart # {}
                         /\ (e \in X /\ GoesOn(Y, e)) \/ (e \in Y /\ ~GoesOn(X, e))
    BY DEF Before, GoesOn
  <1>3. ASSUME apart # {}
        PROVE  e \in apart /\ e \in Attrs /\ FirstApart(X, Y, e)
    <2>1. e \in apart /\ \A b \in apart : Pos(e) <= Pos(b)
      <3> HIDE DEF apart
      <3> QED BY <1>1, <1>3, FirstOfSet
    <2>2. ASSUME NEW c \in Attrs, Pos(c) < Pos(e)
          PROVE  c \in X <=> c \in Y
      <3>1. c \notin apart
        <4> HIDE DEF apart, e
        <4>1. Pos(c) \in Nat /\ Pos(e) \in Nat
          BY <1>1, <2>1, Positions
        <4> QED BY <2>1, <2>2, <4>1
      <3> QED BY <3>1
    <2> QED BY <2>1, <2>2 DEF FirstApart
  <1>4. ASSUME NEW d \in Attrs, FirstApart(X, Y, d)
        PROVE  d = e /\ apart # {}
    <2>1. d \in apart
      BY <1>4 DEF FirstApart
    <2>2. e \in apart /\ e \in Attrs /\ FirstApart(X, Y, e)
      BY <1>3, <2>1
    <2> HIDE DEF e
    <2>3. ~(Pos(d) < Pos(e)) /\ ~(Pos(e) < Pos(d))
      BY <1>4, <2>1, <2>2 DEF FirstApart
    <2>4. Pos(d) = Pos(e)
      BY <2>2, <2>3, Positions
    <2> QED BY <2>1, <2>2, <2>4, Positions
  <1> HIDE DEF e
  <1>5. X # Y => apart # {}
    OBVIOUS
  <1>6. X = Y => apart = {}
    OBVIOUS
  <1> HIDE DEF apart
  <1> QED BY <1>2, <1>3, <1>4, <1>5, <1>6

LEMMA BeforeTotal ==
  ASSUME NEW X \in SUBSET Attrs, NEW Y \in SUBSET Attrs
  PROVE  /\ X # Y => Before(X, Y) \/ Before(Y, X)
         /\ ~(Before(X, Y) /\ Before(Y, X))
         /\ ~Before(X, X)
  <1>1. CASE X = Y
    BY <1>1, BeforeAtFirst
  <1>2. CASE X # Y
    <2>1. PICK d \in Attrs : FirstApart(X, Y, d)
      BY <1>2, BeforeAtFirst
    <2>2. FirstApart(Y, X, d)
      BY <2>1 DEF FirstApart
    <2>3. /\ Before(X, Y) <=> (d \in X /\ GoesOn(Y, d)) \/ (d \in Y /\ ~GoesOn(X, d))
          /\ Before(Y, X) <=> (d \in Y /\ GoesOn(X, d)) \/ (d \in X /\ ~GoesOn(Y, d))
      BY <2>1, <2>2, BeforeAtFirst
    <2>4. (d \in X /\ d \notin Y) \/ (d \in Y /\ d \notin X)
      BY <2>1 DEF FirstApart
    <2>5. ~Before(X, X)
      BY BeforeAtFirst
    <2> QED BY <2>3, <2>4, <2>5
  <1> QED BY <1>1, <1>2

LEMMA BeforeTransitive ==
  ASSUME NEW X \in SUBSET Attrs, NEW Y \in SUBSET Attrs, NEW Z \in SUBSET Attrs,
         Before(X, Y), Before(Y, Z)
  PROVE  Before(X, Z)
  <1>1. X # Y /\ Y # Z
    BY BeforeTotal
  <1>2. PICK d \in Attrs : FirstApart(X, Y, d)
    BY <1>1, BeforeAtFirst
  <1>3. PICK e \in Attrs : FirstApart(Y, Z, e)
    BY <1>1, BeforeAtFirst
  <1>4. /\ (d \in X /\ d \notin Y /\ GoesOn(Y, d)) \/ (d \in Y /\ d \notin X /\ ~GoesOn(X, d))
        /\ (e \in Y /\ e \notin Z /\ GoesOn(Z, e)) \/ (e \in Z /\ e \notin Y /\ ~GoesOn(Y, e))
    <2>1. (d \in X /\ GoesOn(Y, d)) \/ (d \in Y /\ ~GoesOn(X, d))
      BY <1>2, BeforeAtFirst
    <2>2. (e \in Y /\ GoesOn(Z, e)) \/ (e \in Z /\ ~GoesOn(Y, e))
      BY <1>3, BeforeAtFirst
    <2> QED BY <1>2, <1>3, <2>1, <2>2 DEF FirstApart
  <1>5. \A a \in Attrs : Pos(a) \in Nat
    BY Positions
  <1>6. \A c \in Attrs : Pos(c) < Pos(d) => (c \in X <=> c \in Y)
    BY <1>2 DEF FirstApart
  <1>7. \A c \in Attrs : Pos(c) < Pos(e) => (c \in Y <=> c \in Z)
    BY <1>3 DEF FirstApart
  <1>8. CASE Pos(d) < Pos(e)
    <2>1. FirstApart(X, Z, d)
      <3>1. d \in Y <=> d \in Z
        BY <1>7, <1>8
      <3>2. \A c \in Attrs : Pos(c) < Pos(d) => (c \in X <=> c \in Z)
        BY <1>5, <1>6, <1>7, <1>8
      <3> QED BY <1>4, <3>1, <3>2 DEF FirstApart
    <2>2. d \in X => GoesOn(Z, d)
      <3> SUFFICES ASSUME d \in X PROVE GoesOn(Z, d)
        OBVIOUS
      <3>1. CASE e \in Z
        BY <1>8, <3>1 DEF GoesOn
      <3>2. CASE e \notin Z
        <4>1. PICK z \in Z : Pos(z) > Pos(e)
          BY <1>4, <3>2 DEF GoesOn
        <4> QED BY <1>5, <1>8, <4>1 DEF GoesOn
      <3> QED BY <3>1, <3>2
    <2>3. d \in Z => ~GoesOn(X, d)
      <3>1. d \in Z => d \in Y
        BY <1>7, <1>8
      <3> QED BY <1>4, <3>1
    <2>4. d \in X \/ d \in Z
      BY <2>1 DEF FirstApart
    <2> QED BY <2>1, <2>2, <2>3, <2>4, BeforeAtFirst
  <1>9. CASE Pos(e) < Pos(d)
    <2>1. FirstApart(X, Z, e)
      <3>1. e \in X <=> e \in Y
        BY <1>6, <1>9
      <3>2. \A c \in Attrs : Pos(c) < Pos(e) => (c \in X <=> c \in Z)
        BY <1>5, <1>6, <1>7, <1>9
      <3> QED BY <1>4, <3>1, <3>2 DEF FirstApart
    <2>2. e \in X => GoesOn(Z, e)
      <3>1. e \in X => e \in Y
        BY <1>6, <1>9
      <3> QED BY <1>4, <3>1
    <2>3. e \in Z => ~GoesOn(X, e)
      <3> SUFFICES ASSUME e \in Z, GoesOn(X, e) PROVE FALSE
        OBVIOUS
      <3>1. ~GoesOn(Y, e) /\ e \notin Y
        BY <1>4, <2>1 DEF FirstApart
      <3>2. d \notin Y
        BY <1>9, <3>1 DEF GoesOn
      <3>3. PICK y \in Y : Pos(y) > Pos(d)
        BY <1>4, <3>2 DEF GoesOn
      <3>4. Pos(y) > Pos(e)
        BY <1>5, <1>9, <3>3
      <3> QED BY <3>1, <3>4 DEF GoesOn
    <2>4. e \in X \/ e \in Z
      BY <2>1 DEF FirstApart
    <2> QED BY <2>1, <2>2, <2>3, <2>4, BeforeAtFirst
  <1>10. CASE Pos(d) = Pos(e)
    <2>1. d = e
      BY <1>10, Positions
    <2>2. d \in Y /\ d \notin X /\ d \notin Z /\ ~GoesOn(X, d) /\ GoesOn(Z, d)
      BY <1>4, <2>1
    <2>3. X # Z
      BY <2>2 DEF GoesOn
    <2>4. PICK c \in Attrs : FirstApart(X, Z, c)
      BY <2>3, BeforeAtFirst
    <2>5. ~(Pos(c) < Pos(d))
      <3> SUFFICES ASSUME Pos(c) < Pos(d) PROVE FALSE
        OBVIOUS
      <3>1. c \in X <=> c \in Z
        BY <1>6, <1>7, <2>1
      <3> QED BY <2>4, <3>1 DEF FirstApart
    <2>6. Pos(c) > Pos(d)
      <3>1. c # d
        BY <2>2, <2>4 DEF FirstApart
      <3>2. Pos(c) # Pos(d)
        BY <3>1, Positions
      <3> QED BY <1>5, <2>5, <3>2
    <2>7. c \notin X /\ c \in Z
      BY <2>2, <2>4, <2>6 DEF GoesOn, FirstApart
    <2>8. ~GoesOn(X, c)
      BY <1>5, <2>2, <2>6 DEF GoesOn
    <2> QED BY <2>4, <2>7, <2>8, BeforeAtFirst
  <1> QED BY <1>5, <1>8, <1>9, <1>10

LEMMA FDBeforeStrict ==
  ASSUME NEW f \in FDs, NEW g \in FDs, NEW h \in FDs
  PROVE  /\ ~FDBefore(f, f)
         /\ f # g => FDBefore(f, g) \/ FDBefore(g, f)
         /\ FDBefore(f, g) /\ FDBefore(g, h) => FDBefore(f, h)
  <1>1. /\ f.det \in SUBSET Attrs /\ g.det \in SUBSET Attrs /\ h.det \in SUBSET Attrs
        /\ f.dep \in Attrs /\ g.dep \in Attrs /\ h.dep \in Attrs
        /\ f.det = g.det /\ f.dep = g.dep => f = g
    BY DEF FDs
  <1>2. /\ Pos(f.dep) \in Nat /\ Pos(g.dep) \in Nat /\ Pos(h.dep) \in Nat
        /\ Pos(f.dep) = Pos(g.dep) => f.dep = g.dep
    BY <1>1, Positions
  <1>3. ~FDBefore(f, f)
    BY <1>1, <1>2, BeforeTotal DEF FDBefore
  <1>4. ASSUME f # g PROVE FDBefore(f, g) \/ FDBefore(g, f)
    <2>1. CASE f.det = g.det
      <3>1. Pos(f.dep) # Pos(g.dep)
        BY <1>1, <1>2, <1>4, <2>1
      <3> QED BY <1>2, <2>1, <3>1 DEF FDBefore
    <2>2. CASE f.det # g.det
      BY <1>1, <2>2, BeforeTotal DEF FDBefore
    <2> QED BY <2>1, <2>2
  <1>5. ASSUME FDBefore(f, g), FDBefore(g, h) PROVE FDBefore(f, h)
    <2>1. CASE Before(f.det, g.det) /\ Before(g.det, h.det)
      BY <1>1, <2>1, BeforeTransitive DEF FDBefore
    <2>2. CASE Before(f.det, g.det) /\ g.det = h.det
      BY <2>2 DEF FDBefore
    <2>3. CASE f.det = g.det /\ Before(g.det, h.det)
      BY <2>3 DEF FDBefore
    <2>4. CASE /\ f.det = g.det /\ g.det = h.det
               /\ Pos(f.dep) < Pos(g.dep) /\ Pos(g.dep) < Pos(h.dep)
      BY <1>2, <2>4 DEF FDBefore
    <2> QED BY <1>5, <2>1, <2>2, <2>3, <2>4 DEF FDBefore
  <1> QED BY <1>3, <1>4, <1>5

\* How many of S come before f: different for each, so that every place in the
\* sorted list is taken.
Rank(S, f) == Cardinality({g \in S : FDBefore(g, f)})

LEMMA RanksDiffer ==
  ASSUME NEW S \in SUBSET FDs, IsFiniteSet(S), NEW f \in S, NEW h \in S
  PROVE  /\ Rank(S, f) \in Nat /\ Cardinality(S) \in Nat /\ Rank(S, f) < Cardinality(S)
         /\ FDBefore(f, h) => Rank(S, f) < Rank(S, h)
  <1> DEFINE below(x) == {g \in S : FDBefore(g, x)}
  <1>1. ASSUME NEW T \in SUBSET S, NEW U \in SUBSET T, U # T
        PROVE  /\ Cardinality(U) \in Nat /\ Cardinality(T) \in Nat
               /\ Cardinality(U) < Cardinality(T)
    <2>1. IsFiniteSet(T)
      BY FS_Subset
    <2>2. IsFiniteSet(U) /\ Cardinality(U) <= Cardinality(T) /\ Cardinality(U) # Cardinality(T)
      BY <1>1, <2>1, FS_Subset
    <2>3. Cardinality(U) \in Nat /\ Cardinality(T) \in Nat
      BY <2>1, <2>2, FS_CardinalityType
    <2> QED BY <2>2, <2>3
  <1>2. f \notin below(f) /\ below(f) \in SUBSET S /\ below(h) \in SUBSET S
    BY FDBeforeStrict
  <1>3. /\ Rank(S, f) \in Nat /\ Cardinality(S) \in Nat /\ Rank(S, f) < Cardinality(S)
    <2> HIDE DEF below
    <2>1. below(f) \in SUBSET S /\ below(f) # S /\ S \in SUBSET S
      BY <1>2
    <2>2. /\ Cardinality(below(f)) \in Nat /\ Cardinality(S) \in Nat
          /\ Cardinality(below(f)) < Cardinality(S)
      BY <1>1, <2>1
    <2> QED BY <2>2 DEF Rank, below
  <1>4. ASSUME FDBefore(f, h) PROVE Rank(S, f) < Rank(S, h)
    <2>1. below(f) \in SUBSET below(h)
      BY <1>4, FDBeforeStrict
    <2>2. f \in below(h)
      BY <1>4
    <2>3. Cardinality(below(f)) < Cardinality(below(h))
      <3> HIDE DEF below
      <3> QED BY <1>1, <1>2, <2>1, <2>2
    <2> QED BY <2>3 DEF Rank
  <1> QED BY <1>3, <1>4

LEMMA SortedList ==
  ASSUME NEW S \in SUBSET FDs, IsFiniteSet(S)
  PROVE  Sorted(S) \in Seq(FDs) /\ ToSet(Sorted(S)) \subseteq S
  <1> DEFINE n == Cardinality(S)
             r == [f \in S |-> Rank(S, f)]
  <1>1. n \in Nat
    BY FS_CardinalityType
  <1>2. r \in [S -> 0 .. (n - 1)]
    BY RanksDiffer
  <1>3. ASSUME NEW f \in S, NEW g \in S, r[f] = r[g]
        PROVE  f = g
    <2>1. Rank(S, f) = Rank(S, g) /\ Rank(S, f) \in Nat
      BY <1>3, RanksDiffer
    <2>2. ~FDBefore(f, g) /\ ~FDBefore(g, f)
      BY <2>1, RanksDiffer
    <2> QED BY <2>2, FDBeforeStrict
  <1>4. r \in Injection(S, 0 .. (n - 1))
    <2> HIDE DEF r, n
    <2> QED BY <1>2, <1>3 DEF Injection, IsInjective
  <1>5. IsFiniteSet(0 .. (n - 1)) /\ Cardinality(0 .. (n - 1)) = n
    <2> HIDE DEF n
    <2>1. 0 \in Int /\ n - 1 \in Int
      BY <1>1
    <2>2. /\ IsFiniteSet(0 .. (n - 1))
          /\ Cardinality(0 .. (n - 1)) = IF 0 > n - 1 THEN 0 ELSE (n - 1) - 0 + 1
      BY <2>1, FS_Interval
    <2> QED BY <1>1, <2>2
  <1>6. r \in Surjection(S, 0 .. (n - 1))
    <2> HIDE DEF r
    <2> QED BY <1>4, <1>5, FS_Injection
  <1>7. ASSUME NEW k \in 1 .. n
        PROVE  Sorted(S)[k] \in S
    <2>1. k - 1 \in 0 .. (n - 1)
      <3> HIDE DEF n
      <3> QED BY <1>1
    <2>2. PICK f \in S : r[f] = k - 1
      <3> HIDE DEF r, n
      <3> QED BY <1>6, <2>1 DEF Surjection
    <2>3. Cardinality({g \in S : FDBefore(g, f)}) = k - 1
      BY <2>2 DEF Rank
    <2>4. Sorted(S)[k] = CHOOSE x \in S : Cardinality({g \in S : FDBefore(g, x)}) = k - 1
      BY DEF Sorted
    <2> QED BY <2>3, <2>4
  <1>8. Sorted(S) \in [1 .. n -> S]
    <2> DEFINE at(k) == CHOOSE x \in S : Cardinality({g \in S : FDBefore(g, x)}) = k - 1
    <2>1. Sorted(S) = [k \in 1 .. n |-> at(k)]
      BY DEF Sorted
    <2> HIDE DEF at, n
    <2> QED BY <1>7, <2>1
  <1> HIDE DEF n
  <1>9. Sorted(S) \in Seq(FDs) /\ DOMAIN Sorted(S) = 1 .. n
    BY <1>1, <1>8
  <1> QED BY <1>8, <1>9 DEF ToSet

\* g follows from the list: it holds wherever the list does.
Follows(g, list) == \A S \in SUBSET Attrs : Closed(S, ToSet(list)) => Holds(g, S)

LEMMA MinimalCoverFollows ==
  ASSUME NEW list \in Seq(FDs)
  PROVE  /\ MinimalCover(list) \in Seq(FDs)
         /\ \A g \in ToSet(MinimalCover(list)) :
              /\ Follows(g, list)
              /\ \E k \in 1 .. Len(list) : g.dep = list[k].dep /\ g.det \subseteq list[k].det
  <1> DEFINE reduced == LeftReduced(list)
             kept == {reduced[i] : i \in {k \in DOMAIN list : ~Redundant(reduced, k)}}
  <1>1. Reduces(reduced, list)
    BY LeftReducedReduces
  <1>2. MinimalCover(list) = Sorted(kept)
    BY Zenon DEF MinimalCover
  <1>3. DOMAIN list = 1 .. Len(list) /\ Len(list) \in Nat
    BY LenProperties
  <1> HIDE DEF reduced
  <1>4. \A k \in 1 .. Len(list) : reduced[k] \in FDs /\ reduced[k] \in ToSet(reduced)
    <2>1. reduced \in Seq(FDs) /\ DOMAIN reduced = 1 .. Len(list)
      BY <1>1, LenProperties DEF Reduces
    <2> QED BY <2>1 DEF ToSet
  <1>5. kept \in SUBSET FDs
    BY <1>3, <1>4
  <1>6. IsFiniteSet(kept)
    <2> DEFINE K == {k \in DOMAIN list : ~Redundant(reduced, k)}
               pick == [k \in K |-> reduced[k]]
    <2>1. IsFiniteSet(K)
      <3>1. 1 \in Int /\ Len(list) \in Int
        BY <1>3
      <3>2. IsFiniteSet(1 .. Len(list))
        BY <3>1, FS_Interval
      <3>3. K \subseteq 1 .. Len(list)
        BY <1>3
      <3> HIDE DEF K
      <3> QED BY <3>2, <3>3, FS_Subset
    <2>2. pick \in Surjection(K, kept)
      BY DEF Surjection
    <2> HIDE DEF pick, K, kept
    <2> QED BY <2>1, <2>2, FS_Surjection
  <1>7. Sorted(kept) \in Seq(FDs) /\ ToSet(Sorted(kept)) \subseteq kept
    <2> HIDE DEF kept
    <2> QED BY <1>5, <1>6, SortedList
  <1>8. ASSUME NEW g \in ToSet(MinimalCover(list))
        PROVE  /\ Follows(g, list)
               /\ \E k \in 1 .. Len(list) : g.dep = list[k].dep /\ g.det \subseteq list[k].det
    <2>1. g \in kept
      <3> HIDE DEF kept
      <3> QED BY <1>2, <1>7
    <2>2. PICK k \in 1 .. Len(list) : g = reduced[k]
      BY <1>3, <2>1
    <2>3. g.dep = list[k].dep /\ g.det \subseteq list[k].det
      BY <1>1, <2>2 DEF Reduces
    <2>4. ASSUME NEW S \in SUBSET Attrs, Closed(S, ToSet(list)) PROVE Holds(g, S)
      <3>1. Closed(S, ToSet(reduced))
        BY <1>1, <2>4 DEF Reduces, Equivalent
      <3>2. g \in ToSet(reduced)
        BY <1>4, <2>2
      <3> QED BY <3>1, <3>2 DEF Closed
    <2> QED BY <2>3, <2>4 DEF Follows
  <1>9. MinimalCover(list) \in Seq(FDs)
    <2> HIDE DEF kept
    <2> QED BY <1>2, <1>7
  <1> QED BY <1>8, <1>9

\* A dependency within attrs that follows from the list.
Projects(g, attrs, list) ==
  g \in FDs /\ g.det \subseteq attrs /\ g.dep \in attrs /\ Follows(g, list)

\* What visit v projects, and the list it makes longer.
IsProjected(attrs, list, v) ==
  LET f == list[VisitFD(v)]
      a == VisitColumn(v)
  IN  f.det \subseteq attrs /\ a \in (Closure(f.det, ToSet(list)) \cap attrs) \ f.det

Projections(attrs, list, v) ==
  LET f == list[VisitFD(v)]
      a == VisitColumn(v)
      g == [det |-> f.det, dep |-> a]
  IN  IF ~IsProjected(attrs, list, v) THEN <<>>
      ELSE IF Repeated(a, ClosureList(f.det, list)) THEN <<g, g>> ELSE <<g>>

AddProjected(attrs, list, v, before) == before \o Projections(attrs, list, v)

LEMMA VisitsInside ==
  ASSUME NEW n \in Nat, NEW v \in 1 .. Visits(n)
  PROVE  VisitFD(v) \in 1 .. n /\ VisitColumn(v) \in Attrs
  <1> DEFINE L == Len(Columns)
  <1>1. L \in Nat /\ L > 0 /\ v - 1 \in Nat /\ v - 1 < n * L
    <2>1. L \in Nat \ {0}
      BY ColumnsFinite
    <2>2. n * L \in Nat
      BY <2>1
    <2> QED BY <2>1, <2>2 DEF Visits
  <1>2. (v - 1) \div L \in Nat /\ (v - 1) % L \in 0 .. (L - 1)
    <2> HIDE DEF L
    <2> QED BY <1>1
  <1>3. (v - 1) \div L < n
    <2> HIDE DEF L
    <2>1. v - 1 = L * ((v - 1) \div L) + ((v - 1) % L)
      BY <1>1
    <2>2. ASSUME NEW q \in Nat, q >= n PROVE L * q >= n * L
      BY <1>1, <2>2
    <2>3. L * ((v - 1) \div L) \in Nat
      BY <1>1, <1>2
    <2>4. L * ((v - 1) \div L) <= v - 1
      BY <1>1, <1>2, <2>1, <2>3
    <2>5. n * L \in Nat
      BY <1>1
    <2> SUFFICES ASSUME (v - 1) \div L >= n PROVE FALSE
      BY <1>2
    <2>6. L * ((v - 1) \div L) >= n * L
      BY <1>2, <2>2
    <2> QED BY <1>1, <2>3, <2>4, <2>5, <2>6
  <1>4. DOMAIN Columns = 1 .. L
    BY ColumnsAssumption, LenProperties
  <1>5. ((v - 1) % L) + 1 \in 1 .. L
    <2> HIDE DEF L
    <2> QED BY <1>1, <1>2
  <1> QED BY <1>2, <1>3, <1>4, <1>5 DEF VisitFD, VisitColumn, Attrs

AllProject(list, attrs, of) ==
  list \in Seq(FDs) /\ \A g \in ToSet(list) : Projects(g, attrs, of)

LEMMA ProjectionsProject ==
  ASSUME NEW attrs \in SUBSET Attrs, NEW list \in Seq(FDs), NEW v \in 1 .. Visits(Len(list))
  PROVE  AllProject(Projections(attrs, list, v), attrs, list)
  <1> DEFINE f == list[VisitFD(v)]
             a == VisitColumn(v)
             g == [det |-> f.det, dep |-> a]
  <1>1. CASE ~IsProjected(attrs, list, v)
    <2>1. Projections(attrs, list, v) = <<>>
      BY <1>1 DEF Projections
    <2> QED BY <2>1 DEF AllProject, ToSet
  <1>2. CASE IsProjected(attrs, list, v)
    <2>1. VisitFD(v) \in 1 .. Len(list) /\ a \in Attrs
      BY VisitsInside, LenProperties
    <2>2. f \in FDs
      BY <2>1, ElementOfSeq
    <2>3. g \in FDs
      BY <2>1, <2>2 DEF FDs
    <2>4. f.det \subseteq attrs /\ a \in Closure(f.det, ToSet(list)) /\ a \in attrs
      BY <1>2 DEF IsProjected
    <2>5. Follows(g, list)
      <3> SUFFICES ASSUME NEW S \in SUBSET Attrs, Closed(S, ToSet(list)), f.det \subseteq S
                   PROVE  a \in S
        BY DEF Follows, Holds
      <3> QED BY <2>4, ClosureLeast
    <2>6. Projects(g, attrs, list)
      BY <2>3, <2>4, <2>5 DEF Projects
    <2>7. Projections(attrs, list, v) = <<g, g>> \/ Projections(attrs, list, v) = <<g>>
      BY Zenon, <1>2 DEF Projections
    <2> HIDE DEF g
    <2>8. <<g, g>> \in Seq(FDs) /\ ToSet(<<g, g>>) = {g}
      BY <2>3 DEF ToSet
    <2>9. <<g>> \in Seq(FDs) /\ ToSet(<<g>>) = {g}
      BY <2>3 DEF ToSet
    <2> QED BY <2>6, <2>7, <2>8, <2>9 DEF AllProject
  <1> QED BY <1>1, <1>2

LEMMA AddingProjects ==
  ASSUME NEW attrs \in SUBSET Attrs, NEW list \in Seq(FDs),
         NEW v \in 1 .. Visits(Len(list)), NEW before \in Seq(FDs),
         AllProject(before, attrs, list)
  PROVE  AllProject(AddProjected(attrs, list, v, before), attrs, list)
  <1> DEFINE more == Projections(attrs, list, v)
             all  == before \o more
  <1>1. AllProject(more, attrs, list)
    BY ProjectionsProject
  <1>2. AddProjected(attrs, list, v, before) = all
    BY DEF AddProjected
  <1> HIDE DEF more
  <1>3. more \in Seq(FDs)
    BY <1>1 DEF AllProject
  <1>4. Len(before) \in Nat /\ Len(more) \in Nat
    BY <1>3, LenProperties
  <1>5. /\ all \in Seq(FDs)
        /\ Len(all) = Len(before) + Len(more)
        /\ \A i \in 1 .. Len(before) + Len(more) :
             all[i] = IF i <= Len(before) THEN before[i] ELSE more[i - Len(before)]
    BY <1>3, ConcatProperties
  <1>6. /\ DOMAIN all = 1 .. Len(before) + Len(more)
        /\ DOMAIN before = 1 .. Len(before) /\ DOMAIN more = 1 .. Len(more)
    BY <1>3, <1>5, LenProperties
  <1> HIDE DEF all
  <1>7. ASSUME NEW x \in ToSet(all) PROVE x \in ToSet(before) \cup ToSet(more)
    <2>1. PICK i \in 1 .. Len(before) + Len(more) : x = all[i]
      BY <1>6 DEF ToSet
    <2>2. CASE i <= Len(before)
      <3>1. i \in DOMAIN before /\ x = before[i]
        BY <1>4, <1>5, <1>6, <2>1, <2>2
      <3> QED BY <3>1 DEF ToSet
    <2>3. CASE ~(i <= Len(before))
      <3>1. i - Len(before) \in DOMAIN more
        BY <1>4, <1>6, <2>3
      <3>2. x = more[i - Len(before)]
        BY <1>5, <2>1, <2>3
      <3> QED BY <3>1, <3>2 DEF ToSet
    <2> QED BY <2>2, <2>3
  <1> QED BY <1>1, <1>2, <1>5, <1>7 DEF AllProject

LEMMA ProjectFDsProject ==
  ASSUME NEW attrs \in SUBSET Attrs, NEW list \in Seq(FDs)
  PROVE  AllProject(ProjectFDs(attrs, list), attrs, list)
  <1> DEFINE N == Visits(Len(list))
             Body(h) ==
               [v \in 0 .. N |->
                  IF v = 0 THEN <<>>
                  ELSE h[v - 1] \o
                       (LET f == list[VisitFD(v)]
                            a == VisitColumn(v)
                            g == [det |-> f.det, dep |-> a]
                        IN  IF ~( /\ f.det \subseteq attrs
                                  /\ a \in (Closure(f.det, ToSet(list)) \cap attrs) \ f.det )
                            THEN <<>>
                            ELSE IF Repeated(a, ClosureList(f.det, list))
                                 THEN <<g, g>> ELSE <<g>>)]
             step == [v \in 1 .. N |-> [l \in Seq(FDs) |-> AddProjected(attrs, list, v, l)]]
  <1>1. N \in Nat
    BY VisitsNatural, LenProperties
  <1>2. \A h : \A v \in 0 .. N :
          Body(h)[v] = IF v = 0 THEN <<>> ELSE AddProjected(attrs, list, v, h[v - 1])
    BY Zenon DEF AddProjected, Projections, IsProjected
  <1>3. ASSUME NEW v \in 1 .. N, NEW l \in Seq(FDs)
        PROVE  AddProjected(attrs, list, v, l) \in Seq(FDs)
    <2>1. Projections(attrs, list, v) \in Seq(FDs)
      BY ProjectionsProject DEF AllProject
    <2> QED BY <2>1, ConcatProperties DEF AddProjected
  <1>4. step \in [1 .. N -> [Seq(FDs) -> Seq(FDs)]]
    <2> HIDE DEF N
    <2> QED BY <1>3
  <1>5. <<>> \in Seq(FDs)
    OBVIOUS
  <1>6. PICK f \in [0 .. N -> Seq(FDs)] : Computes(f, N, <<>>, step)
    <2> HIDE DEF step, N
    <2> QED BY <1>1, <1>4, <1>5, RecursiveFunction
  <1>7. f = Body(f)
    <2>1. ASSUME NEW v \in 1 .. N
          PROVE  f[v] = AddProjected(attrs, list, v, f[v - 1])
      <3>1. f[v] = step[v][f[v - 1]] /\ f[v - 1] \in Seq(FDs)
        <4> HIDE DEF step, N
        <4>1. v - 1 \in 0 .. N
          BY <1>1
        <4>2. f[v - 1] \in Seq(FDs)
          BY <4>1
        <4> QED BY <1>6, <4>2, Zenon DEF Computes
      <3> HIDE DEF N
      <3> QED BY <3>1
    <2>2. \A v \in 0 .. N : v = 0 \/ v \in 1 .. N
      <3> HIDE DEF N
      <3> QED BY <1>1
    <2>3. f[0] = <<>>
      BY <1>6, Zenon DEF Computes
    <2>4. ASSUME NEW v \in 0 .. N PROVE f[v] = Body(f)[v]
      <3>1. Body(f)[v] = IF v = 0 THEN <<>> ELSE AddProjected(attrs, list, v, f[v - 1])
        BY <1>2
      <3> HIDE DEF Body, N
      <3> QED BY <2>1, <2>2, <2>3, <3>1
    <2>5. Body(f) = [v \in 0 .. N |-> Body(f)[v]]
      <3> HIDE DEF N
      <3> QED OBVIOUS
    <2> HIDE DEF Body, N
    <2> QED BY <1>6, <2>4, <2>5
  <1> DEFINE g == CHOOSE h : h = Body(h)
  <1>8. g = Body(g)
    <2> HIDE DEF Body
    <2> QED BY <1>7
  <1>9. ProjectFDs(attrs, list) = MinimalCover(g[N])
    BY Zenon DEF ProjectFDs
  <1>10. g[0] = <<>> /\ \A v \in 1 .. N : g[v] = AddProjected(attrs, list, v, g[v - 1])
    <2>1. 0 \in 0 .. N /\ \A v \in 1 .. N : v \in 0 .. N /\ v # 0
      <3> HIDE DEF N
      <3> QED BY <1>1
    <2>2. \A v \in 0 .. N :
            Body(g)[v] = IF v = 0 THEN <<>> ELSE AddProjected(attrs, list, v, g[v - 1])
      BY <1>2
    <2> HIDE DEF g, N, Body
    <2> QED BY <1>8, <2>1, <2>2
  <1> DEFINE P == {v \in 0 .. N : AllProject(g[v], attrs, list)}
  <1>11. 0 \in P
    <2>1. AllProject(<<>>, attrs, list)
      BY DEF AllProject, ToSet
    <2>2. 0 \in 0 .. N
      <3> HIDE DEF N
      <3> QED BY <1>1
    <2> HIDE DEF g, N
    <2> QED BY <1>10, <2>1, <2>2
  <1>12. ASSUME NEW v \in 1 .. N, v - 1 \in P PROVE v \in P
    <2>1. v \in 0 .. N /\ v \in 1 .. Visits(Len(list))
      BY <1>1
    <2> HIDE DEF g, N
    <2>2. AllProject(g[v - 1], attrs, list)
      BY <1>12
    <2>3. g[v - 1] \in Seq(FDs)
      BY <2>2 DEF AllProject
    <2>4. AllProject(AddProjected(attrs, list, v, g[v - 1]), attrs, list)
      BY <2>1, <2>2, <2>3, AddingProjects
    <2> QED BY <1>10, <2>1, <2>4
  <1>13. AllProject(g[N], attrs, list)
    <2>1. \A v \in 0 .. N : v \in P
      <3> HIDE DEF P, N
      <3> QED BY <1>1, <1>11, <1>12, Induction
    <2>2. N \in 0 .. N
      <3> HIDE DEF N
      <3> QED BY <1>1
    <2> HIDE DEF g, N
    <2> QED BY <2>1, <2>2
  <1> DEFINE long == g[N]
  <1>14. AllProject(long, attrs, list) /\ ProjectFDs(attrs, list) = MinimalCover(long)
    BY <1>9, <1>13
  <1> HIDE DEF long
  <1>15. long \in Seq(FDs) /\ \A x \in ToSet(long) : Projects(x, attrs, list)
    BY <1>14 DEF AllProject
  <1>16. ASSUME NEW x \in ToSet(MinimalCover(long))
         PROVE  Projects(x, attrs, list)
    <2>1. MinimalCover(long) \in Seq(FDs) /\ Follows(x, long)
      BY <1>15, MinimalCoverFollows
    <2>2. PICK k \in 1 .. Len(long) : x.dep = long[k].dep /\ x.det \subseteq long[k].det
      BY <1>15, MinimalCoverFollows
    <2>3. long[k] \in ToSet(long)
      BY <1>15, LenProperties DEF ToSet
    <2>4. Projects(long[k], attrs, list)
      BY <1>15, <2>3
    <2>5. x \in FDs
      BY <2>1 DEF ToSet
    <2>6. Follows(x, list)
      <3> SUFFICES ASSUME NEW S \in SUBSET Attrs, Closed(S, ToSet(list)) PROVE Holds(x, S)
        BY DEF Follows
      <3>1. Closed(S, ToSet(long))
        BY <1>15 DEF Closed, Projects, Follows
      <3> QED BY <2>1, <3>1 DEF Follows
    <2> QED BY <2>2, <2>4, <2>5, <2>6 DEF Projects
  <1>17. MinimalCover(long) \in Seq(FDs)
    BY <1>15, MinimalCoverFollows
  <1> QED BY <1>14, <1>16, <1>17 DEF AllProject

-----------------------------------------------------------------------------
(* BCNFDecompose.                                                          *)

Relations == [attrs : SUBSET Attrs, fds : Seq(FDs)]

\* The dependencies of a relation are about its columns, and follow from what
\* was declared.
Implied(r) ==
  /\ r \in Relations
  /\ \A g \in ToSet(r.fds) : g.det \subseteq r.attrs /\ g.dep \in r.attrs /\ Follows(g, declared)

\* No column is missing and a relation holds a key.
Whole(rels) ==
  /\ UNION {r.attrs : r \in rels} = Attrs
  /\ \E r \in rels : IsSuperkey(r.attrs, Attrs, D)

SplitInv ==
  /\ pending \in Seq(Relations)
  /\ \A r \in ToSet(pending) \cup parts : Implied(r)
  /\ pc \notin {"split", "done"} => tables = {} /\ parts = {} /\ pending = <<>>
  /\ tables = {} \/ tables = Synthesis
  /\ pc = "split" => Whole(ToSet(pending) \cup parts)
  /\ pc = "done" /\ parts # {} => Whole(parts)

LEMMA HeadAndTail ==
  ASSUME NEW R, NEW s \in Seq(R), s # <<>>
  PROVE  /\ Head(s) \in R /\ Tail(s) \in Seq(R)
         /\ ToSet(s) = {Head(s)} \cup ToSet(Tail(s))
  <1>1. Len(s) \in Nat /\ Len(s) # 0 /\ DOMAIN s = 1 .. Len(s)
    BY LenProperties, EmptySeq
  <1>2. /\ Head(s) = s[1] /\ 1 \in 1 .. Len(s) /\ Tail(s) \in Seq(R)
        /\ Len(Tail(s)) = Len(s) - 1
        /\ \A i \in 1 .. Len(Tail(s)) : Tail(s)[i] = s[i + 1]
    BY <1>1, HeadTailProperties
  <1>3. DOMAIN Tail(s) = 1 .. (Len(s) - 1)
    BY <1>2, LenProperties
  <1>4. ASSUME NEW x \in ToSet(s), x # s[1]
        PROVE  x \in ToSet(Tail(s))
    <2>1. PICK i \in 1 .. Len(s) : x = s[i]
      BY <1>1 DEF ToSet
    <2>2. i - 1 \in 1 .. (Len(s) - 1) /\ (i - 1) + 1 = i
      BY <1>1, <1>4, <2>1
    <2>3. Tail(s)[i - 1] = x
      BY <1>2, <2>1, <2>2
    <2> QED BY <1>3, <2>2, <2>3 DEF ToSet
  <1>5. ASSUME NEW x \in ToSet(Tail(s))
        PROVE  x \in ToSet(s)
    <2>1. PICK i \in 1 .. (Len(s) - 1) : x = Tail(s)[i]
      BY <1>3 DEF ToSet
    <2>2. i + 1 \in 1 .. Len(s) /\ x = s[i + 1]
      BY <1>1, <1>2, <2>1
    <2> QED BY <1>1, <2>2 DEF ToSet
  <1>6. s[1] \in ToSet(s) /\ s[1] \in R
    BY <1>1, <1>2 DEF ToSet
  <1> QED BY <1>2, <1>4, <1>5, <1>6

LEMMA TwoInFront ==
  ASSUME NEW R, NEW s \in Seq(R), NEW x \in R, NEW y \in R
  PROVE  <<x, y>> \o s \in Seq(R) /\ ToSet(<<x, y>> \o s) = {x, y} \cup ToSet(s)
  <1> DEFINE t == <<x, y>> \o s
  <1>1. Len(s) \in Nat /\ DOMAIN s = 1 .. Len(s)
    BY LenProperties
  <1>2. <<x, y>> \in Seq(R) /\ Len(<<x, y>>) = 2 /\ <<x, y>>[1] = x /\ <<x, y>>[2] = y
    OBVIOUS
  <1>3. /\ t \in Seq(R) /\ Len(t) = 2 + Len(s)
        /\ \A i \in 1 .. 2 + Len(s) : t[i] = IF i <= 2 THEN <<x, y>>[i] ELSE s[i - 2]
    <2>1. /\ t \in Seq(R) /\ Len(t) = Len(<<x, y>>) + Len(s)
          /\ \A i \in 1 .. Len(<<x, y>>) + Len(s) :
               t[i] = IF i <= Len(<<x, y>>) THEN <<x, y>>[i] ELSE s[i - Len(<<x, y>>)]
      BY <1>2, ConcatProperties
    <2> QED BY <1>2, <2>1
  <1> HIDE DEF t
  <1>4. DOMAIN t = 1 .. 2 + Len(s)
    BY <1>3, LenProperties
  <1>5. 1 \in DOMAIN t /\ 2 \in DOMAIN t /\ t[1] = x /\ t[2] = y
    BY <1>1, <1>2, <1>3, <1>4
  <1>6. ASSUME NEW z \in ToSet(s) PROVE z \in ToSet(t)
    <2>1. PICK i \in 1 .. Len(s) : z = s[i]
      BY <1>1 DEF ToSet
    <2>2. i + 2 \in DOMAIN t /\ t[i + 2] = s[i]
      BY <1>1, <1>3, <1>4
    <2> QED BY <2>1, <2>2 DEF ToSet
  <1>7. ASSUME NEW z \in ToSet(t) PROVE z \in {x, y} \cup ToSet(s)
    <2>1. PICK i \in DOMAIN t : z = t[i]
      BY DEF ToSet
    <2>2. CASE i <= 2
      BY <1>1, <1>2, <1>3, <1>4, <2>1, <2>2
    <2>3. CASE ~(i <= 2)
      <3>1. i - 2 \in DOMAIN s /\ z = s[i - 2]
        BY <1>1, <1>3, <1>4, <2>1, <2>3
      <3> QED BY <3>1 DEF ToSet
    <2> QED BY <2>2, <2>3
  <1>8. x \in ToSet(t) /\ y \in ToSet(t)
    BY <1>5 DEF ToSet
  <1>9. t \in Seq(R) /\ ToSet(t) = {x, y} \cup ToSet(s)
    BY <1>3, <1>6, <1>7, <1>8
  <1> QED BY <1>9 DEF t

\* The cover of a relation's dependencies is about its columns, and follows.
LEMMA CoverOfRelation ==
  ASSUME NEW r, Implied(r)
  PROVE  /\ MinimalCover(r.fds) \in Seq(FDs)
         /\ \A g \in ToSet(MinimalCover(r.fds)) :
              g.det \subseteq r.attrs /\ g.dep \in r.attrs /\ Follows(g, declared)
  <1>1. r.fds \in Seq(FDs) /\ r.attrs \in SUBSET Attrs
    BY DEF Implied, Relations
  <1>2. MinimalCover(r.fds) \in Seq(FDs)
    BY <1>1, MinimalCoverFollows
  <1>3. ASSUME NEW g \in ToSet(MinimalCover(r.fds))
        PROVE  g.det \subseteq r.attrs /\ g.dep \in r.attrs /\ Follows(g, declared)
    <2>1. Follows(g, r.fds)
      BY <1>1, MinimalCoverFollows
    <2>2. PICK k \in 1 .. Len(r.fds) : g.dep = r.fds[k].dep /\ g.det \subseteq r.fds[k].det
      BY <1>1, MinimalCoverFollows
    <2>3. r.fds[k] \in ToSet(r.fds)
      BY <1>1, LenProperties DEF ToSet
    <2>4. r.fds[k].det \subseteq r.attrs /\ r.fds[k].dep \in r.attrs
      BY <2>3 DEF Implied
    <2>5. Follows(g, declared)
      BY <2>1 DEF Implied, Follows, Closed
    <2> QED BY <2>2, <2>4, <2>5
  <1> QED BY <1>2, <1>3

LEMMA ProjectionImplied ==
  ASSUME NEW mc \in Seq(FDs), \A g \in ToSet(mc) : Follows(g, declared),
         NEW attrs \in SUBSET Attrs
  PROVE  Implied([attrs |-> attrs, fds |-> ProjectFDs(attrs, mc)])
  <1> DEFINE list == ProjectFDs(attrs, mc)
  <1>1. list \in Seq(FDs) /\ \A g \in ToSet(list) : Projects(g, attrs, mc)
    BY ProjectFDsProject DEF AllProject
  <1> HIDE DEF list
  <1>2. ASSUME NEW g \in ToSet(list)
        PROVE  g.det \subseteq attrs /\ g.dep \in attrs /\ Follows(g, declared)
    <2>1. Projects(g, attrs, mc)
      BY <1>1
    <2>2. Follows(g, declared)
      BY <2>1 DEF Projects, Follows, Closed
    <2> QED BY <2>1, <2>2 DEF Projects
  <1>3. Implied([attrs |-> attrs, fds |-> list])
    BY <1>1, <1>2 DEF Implied, Relations
  <1> QED BY <1>3 DEF list

\* Splitting on X loses no column, and the half that keeps X keeps the key.
LEMMA HalvesSound ==
  ASSUME D \in SUBSET FDs, NEW r, Implied(r),
         NEW mc \in Seq(FDs), \A g \in ToSet(mc) : Follows(g, declared),
         NEW X \in SUBSET r.attrs
  PROVE  LET left == Halves(r, mc, X)[1]
             right == Halves(r, mc, X)[2]
         IN  /\ Halves(r, mc, X) = <<left, right>>
             /\ Implied(left) /\ Implied(right)
             /\ r.attrs \subseteq left.attrs \cup right.attrs
             /\ IsSuperkey(r.attrs, Attrs, D) => IsSuperkey(right.attrs, Attrs, D)
  <1> DEFINE xPlus == Closure(X, ToSet(mc))
             rest == X \cup (r.attrs \ xPlus)
             left == [attrs |-> xPlus, fds |-> ProjectFDs(xPlus, mc)]
             right == [attrs |-> rest, fds |-> ProjectFDs(rest, mc)]
  <1>1. Halves(r, mc, X) = <<left, right>>
    BY DEF Halves
  <1>2. r.attrs \in SUBSET Attrs
    BY DEF Implied, Relations
  <1>3. xPlus \in SUBSET Attrs /\ rest \in SUBSET Attrs
    BY <1>2 DEF Closure
  <1>4. Implied(left) /\ Implied(right)
    <2> HIDE DEF xPlus, rest
    <2> QED BY <1>3, ProjectionImplied
  <1>5. xPlus \subseteq Closure(X, D)
    <2>1. \A S \in SUBSET Attrs : Closed(S, D) => Closed(S, ToSet(mc))
      BY DEF Follows, Closed, D
    <2> QED BY <2>1 DEF Closure
  <1>6. ASSUME IsSuperkey(r.attrs, Attrs, D)
        PROVE  IsSuperkey(rest, Attrs, D)
    <2>1. X \subseteq rest /\ rest \subseteq Closure(rest, D)
      BY <1>3, ClosureExtends
    <2>2. Closure(X, D) \subseteq Closure(rest, D)
      BY <2>1, ClosureMonotone
    <2>3. r.attrs \subseteq Closure(rest, D)
      BY <1>5, <2>1, <2>2
    <2>4. Closure(r.attrs, D) \subseteq Closure(rest, D)
      BY <2>3, ClosureAbsorbs
    <2> QED BY <1>6, <2>4 DEF IsSuperkey
  <1>7. r.attrs \subseteq xPlus \cup rest
    OBVIOUS
  <1>8. left.attrs = xPlus /\ right.attrs = rest
    OBVIOUS
  <1>9. Halves(r, mc, X)[1] = left /\ Halves(r, mc, X)[2] = right
    BY <1>1
  <1> HIDE DEF left, right, xPlus, rest
  <1> QED BY <1>1, <1>4, <1>6, <1>7, <1>8, <1>9

LEMMA SameDeclared ==
  ASSUME declared' = declared
  PROVE  /\ D' = D
         /\ \A r : Implied(r)' <=> Implied(r)
         /\ \A rels : Whole(rels)' <=> Whole(rels)
  <1>1. D' = D
    BY DEF D
  <1>2. ASSUME NEW r PROVE Implied(r)' <=> Implied(r)
    BY DEF Implied
  <1>3. ASSUME NEW rels PROVE Whole(rels)' <=> Whole(rels)
    BY <1>1 DEF Whole
  <1> QED BY <1>1, <1>2, <1>3

\* Before the suggestions, and between two of them.
LEMMA SplitKept ==
  ASSUME SplitInv, UNCHANGED <<declared, tables, pending, parts>>,
         \/ pc \notin {"split", "done"} /\ pc' \notin {"split", "done"}
         \/ UNCHANGED <<pc, keys, cover>>
  PROVE  SplitInv'
  <1>1. \A r \in ToSet(pending) \cup parts : Implied(r)'
    BY SameDeclared DEF SplitInv
  <1>2. CASE pc \notin {"split", "done"} /\ pc' \notin {"split", "done"}
    <2>1. tables = {} /\ parts = {} /\ pending = <<>>
      BY <1>2 DEF SplitInv
    <2> QED BY <1>1, <1>2, <2>1 DEF SplitInv
  <1>3. CASE UNCHANGED <<pc, keys, cover>>
    <2>1. Synthesis' = Synthesis
      BY <1>3 DEF Synthesis, FirstKey
    <2>2. /\ Whole(ToSet(pending) \cup parts)' <=> Whole(ToSet(pending) \cup parts)
          /\ Whole(parts)' <=> Whole(parts)
      BY SameDeclared DEF Whole
    <2> QED BY <1>1, <1>3, <2>1, <2>2 DEF SplitInv
  <1> QED BY <1>2, <1>3

LEMMA SuggestSplits ==
  ASSUME IInv, SplitInv, Suggest
  PROVE  SplitInv'
  <1> DEFINE all == [attrs |-> Attrs, fds |-> declared]
  <1>1. D \in SUBSET FDs /\ declared \in Seq(FDs)
    BY DeclaredFacts DEF IInv
  <1>2. UNCHANGED <<declared, keys, cover, parts>> /\ tables = {} /\ parts = {}
    BY DEF Suggest, keyVars, coverVars, SplitInv
  <1>3. Implied(all)
    <2>1. all \in Relations /\ all.attrs = Attrs /\ all.fds = declared
      BY <1>1 DEF Relations
    <2> HIDE DEF all
    <2>2. \A g \in ToSet(declared) : g.det \subseteq Attrs /\ g.dep \in Attrs /\ Follows(g, declared)
      BY <1>1 DEF D, FDs, Follows, Closed
    <2> QED BY <2>1, <2>2 DEF Implied
  <1>4. Whole({all})
    <2>1. all.attrs = Attrs
      OBVIOUS
    <2> HIDE DEF all
    <2>2. IsSuperkey(all.attrs, Attrs, D)
      BY <2>1, ClosureExtends DEF IsSuperkey
    <2> QED BY <2>1, <2>2 DEF Whole
  <1>5. tables' = {} \/ tables' = Synthesis'
    <2>1. Synthesis' = Synthesis
      BY <1>2 DEF Synthesis, FirstKey
    <2>2. tables' = {} \/ tables' = Synthesis
      BY DEF Suggest
    <2> QED BY <2>1, <2>2
  <1>6. CASE pc' = "split" /\ pending' = <<all>>
    <2>1. <<all>> \in Seq(Relations) /\ ToSet(<<all>>) = {all}
      <3>1. all \in Relations
        BY <1>3 DEF Implied
      <3> HIDE DEF all
      <3> QED BY <3>1 DEF ToSet
    <2> HIDE DEF all
    <2>2. ToSet(pending)' = {all} /\ (ToSet(pending) \cup parts)' = {all}
      BY <1>2, <1>6, <2>1
    <2>3. \A r \in (ToSet(pending) \cup parts)' : Implied(r)'
      BY <1>2, <1>3, <2>2, SameDeclared
    <2>4. Whole(ToSet(pending) \cup parts)'
      <3>1. D' = D
        BY <1>2, SameDeclared
      <3> QED BY <1>4, <2>2, <3>1 DEF Whole
    <2> QED BY <1>2, <1>5, <1>6, <2>1, <2>3, <2>4 DEF SplitInv
  <1>7. CASE pc' = "done" /\ pending' = <<>>
    <2>1. <<>> \in Seq(Relations) /\ ToSet(<<>>) = {}
      BY DEF ToSet
    <2> QED BY <1>2, <1>5, <1>7, <2>1 DEF SplitInv
  <1> QED BY <1>6, <1>7 DEF Suggest

\* The relation taken is replaced by relations with its columns, one of which
\* holds the key if it did.
LEMMA DecomposeSplits ==
  ASSUME IInv, SplitInv, Decompose
  PROVE  SplitInv'
  <1> DEFINE rel == Head(pending)
             mc == MinimalCover(rel.fds)
             bad == Violating(rel, mc)
             rest == ToSet(Tail(pending))
             done == [attrs |-> rel.attrs, fds |-> ProjectFDs(rel.attrs, mc)]
  <1>1. D \in SUBSET FDs
    BY DeclaredFacts DEF IInv
  <1>2. /\ UNCHANGED <<declared, pc, keys, cover, tables>> /\ pc = "split"
        /\ pending \in Seq(Relations) /\ pending # <<>>
    BY DEF Decompose, keyVars, coverVars, SplitInv
  <1>3. rel \in Relations /\ Tail(pending) \in Seq(Relations) /\ ToSet(pending) = {rel} \cup rest
    BY <1>2, HeadAndTail
  <1>4. Implied(rel) /\ \A r \in rest \cup parts : Implied(r)
    BY <1>3 DEF SplitInv
  <1>5. Whole({rel} \cup rest \cup parts)
    BY <1>2, <1>3 DEF SplitInv
  <1>6. /\ mc \in Seq(FDs)
        /\ \A g \in ToSet(mc) : g.det \subseteq rel.attrs /\ g.dep \in rel.attrs /\ Follows(g, declared)
    <2> HIDE DEF rel
    <2> QED BY <1>4, CoverOfRelation
  <1>7. rel.attrs \in SUBSET Attrs
    BY <1>3 DEF Relations
  <1>8. Synthesis' = Synthesis
    BY <1>2 DEF Synthesis, FirstKey
  \* What is to be shown of the relations that take the place of this one.
  <1>9. ASSUME NEW new, ToSet(pending') \cup parts' = new \cup rest \cup parts,
               pending' \in Seq(Relations),
               \A r \in new : Implied(r),
               rel.attrs \subseteq UNION {r.attrs : r \in new},
               IsSuperkey(rel.attrs, Attrs, D) => \E r \in new : IsSuperkey(r.attrs, Attrs, D)
        PROVE  SplitInv'
    <2> HIDE DEF rel, mc, rest
    <2>1. \A r \in ToSet(pending') \cup parts' : Implied(r)
      BY <1>4, <1>9
    <2>2. UNION {r.attrs : r \in new \cup rest \cup parts} = Attrs
      <3>1. \A r \in new \cup rest \cup parts : r.attrs \subseteq Attrs
        BY <1>4, <1>9 DEF Implied, Relations
      <3>2. Attrs \subseteq UNION {r.attrs : r \in {rel} \cup rest \cup parts}
        BY <1>5 DEF Whole
      <3> QED BY <1>9, <3>1, <3>2
    <2>3. \E r \in new \cup rest \cup parts : IsSuperkey(r.attrs, Attrs, D)
      BY <1>5, <1>9 DEF Whole
    <2>4. Whole(ToSet(pending') \cup parts')
      BY <1>9, <2>2, <2>3 DEF Whole
    <2>5. /\ \A r \in (ToSet(pending) \cup parts)' : Implied(r)'
          /\ Whole(ToSet(pending) \cup parts)'
      BY <1>2, <2>1, <2>4, SameDeclared
    <2>6. pc' = "split" /\ (tables' = {} \/ tables' = Synthesis')
      BY <1>2, <1>8 DEF SplitInv
    <2> QED BY <1>9, <2>5, <2>6 DEF SplitInv
  <1>10. CASE bad = {}
    <2>1. parts' = parts \cup {done} /\ pending' = Tail(pending)
      BY <1>10 DEF Decompose
    <2>2. Implied(done)
      <3> HIDE DEF rel, mc
      <3> QED BY <1>6, <1>7, ProjectionImplied
    <2>3. done.attrs = rel.attrs
      OBVIOUS
    <2> DEFINE new == {done}
    <2>4. ToSet(pending') \cup parts' = new \cup rest \cup parts
      <3> HIDE DEF done
      <3> QED BY <2>1
    <2>5. \A r \in new : Implied(r)
      BY <2>2
    <2>6. rel.attrs \subseteq UNION {r.attrs : r \in new}
      <3> HIDE DEF done, rel
      <3> QED BY <2>3
    <2>7. IsSuperkey(rel.attrs, Attrs, D) => \E r \in new : IsSuperkey(r.attrs, Attrs, D)
      <3> HIDE DEF done, rel
      <3> QED BY <2>3
    <2>8. pending' \in Seq(Relations)
      BY <1>3, <2>1
    <2> HIDE DEF new, rel, rest, done
    <2> QED BY <1>9, <2>4, <2>5, <2>6, <2>7, <2>8
  <1>11. CASE bad # {}
    <2> DEFINE k == CHOOSE k \in bad : \A l \in bad : k <= l
               X == mc[k].det
               left == Halves(rel, mc, X)[1]
               right == Halves(rel, mc, X)[2]
    <2>1. pending' = Halves(rel, mc, X) \o Tail(pending) /\ parts' = parts
      BY <1>11, Zenon DEF Decompose
    <2>2. k \in bad
      <3>1. bad \subseteq Nat
        <4> HIDE DEF mc, rel
        <4> QED BY <1>6, LenProperties DEF Violating
      <3> HIDE DEF bad
      <3>2. \E m \in bad : \A l \in bad : m <= l
        BY <1>11, <3>1, LeastNatural
      <3> QED BY <3>2
    <2>3. X \in SUBSET rel.attrs
      <3>1. k \in DOMAIN mc
        <4> HIDE DEF k, mc, rel
        <4> QED BY <2>2 DEF Violating
      <3> HIDE DEF k, mc, rel
      <3>2. mc[k] \in ToSet(mc)
        BY <3>1 DEF ToSet
      <3> QED BY <1>6, <3>2
    <2>4. /\ Halves(rel, mc, X) = <<left, right>>
          /\ Implied(left) /\ Implied(right)
          /\ rel.attrs \subseteq left.attrs \cup right.attrs
          /\ IsSuperkey(rel.attrs, Attrs, D) => IsSuperkey(right.attrs, Attrs, D)
      <3> HIDE DEF X, mc, rel
      <3> QED BY <1>1, <1>4, <1>6, <2>3, HalvesSound
    <2> HIDE DEF left, right, X, mc, rel
    <2> DEFINE new == {left, right}
    <2>5. pending' \in Seq(Relations) /\ ToSet(pending') = new \cup rest
      <3>1. left \in Relations /\ right \in Relations
        BY <2>4 DEF Implied
      <3>2. pending' = <<left, right>> \o Tail(pending)
        BY <2>1, <2>4
      <3> DEFINE t == Tail(pending)
      <3>3. t \in Seq(Relations)
        BY <1>3
      <3> HIDE DEF t
      <3>4. /\ <<left, right>> \o t \in Seq(Relations)
            /\ ToSet(<<left, right>> \o t) = {left, right} \cup ToSet(t)
        BY <3>1, <3>3, TwoInFront
      <3> QED BY <3>2, <3>4 DEF t
    <2>6. ToSet(pending') \cup parts' = new \cup rest \cup parts
      BY <2>1, <2>5
    <2>7. /\ \A r \in new : Implied(r)
          /\ rel.attrs \subseteq UNION {r.attrs : r \in new}
          /\ IsSuperkey(rel.attrs, Attrs, D) => \E r \in new : IsSuperkey(r.attrs, Attrs, D)
      BY <2>4
    <2> HIDE DEF new, rest
    <2> QED BY <1>9, <2>5, <2>6, <2>7
  <1> QED BY <1>10, <1>11

LEMMA DecomposedSplits ==
  ASSUME SplitInv, Decomposed
  PROVE  SplitInv'
  <1>1. /\ pc = "split" /\ pc' = "done" /\ pending = <<>>
        /\ UNCHANGED <<declared, keys, cover, tables, pending, parts>>
    BY DEF Decomposed, keyVars, coverVars, bcnfVars
  <1>2. Synthesis' = Synthesis
    BY <1>1 DEF Synthesis, FirstKey
  <1>3. ToSet(pending) = {}
    BY <1>1 DEF ToSet
  <1>4. ToSet(pending) \cup parts = parts
    BY <1>3
  <1>5. Whole(parts)
    BY <1>1, <1>4 DEF SplitInv
  <1>6. D' = D
    BY <1>1, SameDeclared
  <1>7. Whole(parts)'
    BY <1>1, <1>5, <1>6 DEF Whole
  <1>8. \A r \in (ToSet(pending) \cup parts)' : Implied(r)'
    BY <1>1, SameDeclared DEF SplitInv
  <1> QED BY <1>1, <1>2, <1>7, <1>8 DEF SplitInv

\* What the decomposition knows between two calls: the relations it still has
\* to look at and the components together lose no column and hold a key, and
\* their dependencies follow from what was declared.
THEOREM SplitInvariant == Spec => [](IInv /\ CoverInv /\ SplitInv)
  <1>1. Init => SplitInv
    <2> SUFFICES ASSUME Init PROVE SplitInv
      OBVIOUS
    <2>1. pc = "keys" /\ tables = {} /\ parts = {} /\ pending = <<>>
      BY DEF Init
    <2>2. ToSet(pending) = {} /\ pending \in Seq(Relations)
      BY <2>1 DEF ToSet
    <2> QED BY <2>1, <2>2 DEF SplitInv
  <1>2. IInv /\ SplitInv /\ [Next]_vars => SplitInv'
    <2> SUFFICES ASSUME IInv, SplitInv, [Next]_vars PROVE SplitInv'
      OBVIOUS
    <2>1. CASE \/ \E X \in untried : TryCombo(X)
               \/ NextSize \/ KeysFound \/ ScanFD \/ ScanAgain \/ ClosureKnown
      <3>1. /\ UNCHANGED <<declared, tables, pending, parts>>
            /\ pc \notin {"split", "done"} /\ pc' \notin {"split", "done"}
        BY <2>1
        DEF TryCombo, NextSize, KeysFound, ScanFD, ScanAgain, ClosureKnown, bcnfVars
      <3> QED BY <3>1, SplitKept
    <2>2. CASE ReduceDeterminant \/ Reduced \/ Prune \/ Pruned
      <3>1. /\ UNCHANGED <<declared, tables, pending, parts>>
            /\ pc \notin {"split", "done"} /\ pc' \notin {"split", "done"}
        BY <2>2 DEF ReduceDeterminant, Reduced, Prune, Pruned, bcnfVars
      <3> QED BY <3>1, SplitKept
    <2>3. CASE Suggest \/ Decompose \/ Decomposed
      BY <2>3, SuggestSplits, DecomposeSplits, DecomposedSplits
    <2>4. CASE UNCHANGED vars
      <3>1. UNCHANGED <<declared, tables, pending, parts, pc, keys, cover>>
        BY <2>4 DEF vars, keyVars, coverVars, bcnfVars
      <3> QED BY <3>1, SplitKept
    <2> QED BY <2>1, <2>2, <2>3, <2>4 DEF Next
  <1> QED BY <1>1, <1>2, CoverInvariant, PTL DEF Spec

\* What the components can still enforce together is what the audit takes the
\* closure over: a set closed under the projections is closed under their
\* closures.
LEMMA KeptIsEnforced ==
  ASSUME IInv, SplitInv, NEW f \in D \ Lost
  PROVE  Enforced(f)
  <1> DEFINE U == UNION {ToSet(p.fds) : p \in parts}
  <1> SUFFICES ASSUME NEW S \in SUBSET Attrs, f.det \subseteq S,
                      \A p \in parts : Closure(S \cap p.attrs, D) \cap p.attrs \subseteq S
               PROVE  f.dep \in S
    BY DEF Enforced
  <1>1. D \in SUBSET FDs
    BY DeclaredFacts DEF IInv
  <1>2. ASSUME NEW p \in parts, NEW g \in ToSet(p.fds), g.det \subseteq S
        PROVE  g.dep \in S
    <2>1. Implied(p)
      BY DEF SplitInv
    <2>2. g.det \subseteq S \cap p.attrs /\ g.dep \in p.attrs /\ Follows(g, declared)
      BY <1>2, <2>1 DEF Implied
    <2>3. S \cap p.attrs \subseteq Closure(S \cap p.attrs, D) /\ Closure(S \cap p.attrs, D) \in SUBSET Attrs
      BY ClosureExtends DEF Closure
    <2>4. Closed(Closure(S \cap p.attrs, D), D)
      BY <1>1, ClosureClosed
    <2>5. g.dep \in Closure(S \cap p.attrs, D)
      BY <2>2, <2>3, <2>4 DEF Follows, Holds, D
    <2> QED BY <2>2, <2>5
  <1>3. Closed(S, U)
    BY <1>2 DEF Closed, Holds
  <1>4. f.dep \in Closure(f.det, U)
    BY DEF Lost
  <1>5. Closure(f.det, U) \subseteq S
    <2> HIDE DEF U
    <2> QED BY <1>3, ClosureLeast
  <1> QED BY <1>4, <1>5

-----------------------------------------------------------------------------
(* Bernstein's synthesis.                                                  *)

\* Every superkey contains a candidate key.
LEMMA KeyInside ==
  ASSUME NEW all \in SUBSET Attrs, NEW S \in SUBSET all, IsSuperkey(S, all, D)
  PROVE  \E K \in SUBSET S : CandidateKey(K, all)
  <1> DEFINE Keys == {K \in SUBSET S : IsSuperkey(K, all, D)}
             W == {Cardinality(K) : K \in Keys}
  <1>1. \A K \in Keys : K \in SUBSET Attrs
    OBVIOUS
  <1>2. W \subseteq Nat /\ W # {}
    BY <1>1, SubsetSizes
  <1>3. PICK m \in W : \A n \in W : m <= n
    <2> HIDE DEF W
    <2> QED BY <1>2, LeastNatural
  <1>4. PICK K \in Keys : \A L \in Keys : Cardinality(K) <= Cardinality(L)
    BY <1>3
  <1>5. ASSUME NEW L \in SUBSET K, IsSuperkey(L, all, D), L # K
        PROVE  FALSE
    <2>1. L \in Keys /\ K \in SUBSET Attrs /\ L \in SUBSET Attrs
      BY <1>1, <1>5
    <2>2. /\ Cardinality(L) < Cardinality(K) /\ Cardinality(L) \in Nat
          /\ Cardinality(K) \in Nat
      BY <1>5, <2>1, SubsetSizes
    <2>3. Cardinality(K) <= Cardinality(L)
      BY <1>4, <2>1
    <2> QED BY <2>2, <2>3
  <1>6. CandidateKey(K, all)
    BY <1>5 DEF CandidateKey
  <1> QED BY <1>6

\* A table has a key, and one of its keys comes first.
LEMMA FirstKeyIsKey ==
  ASSUME IInv, KeysKnown
  PROVE  FirstKey \in keys /\ \A K \in keys : K \in SUBSET Attrs /\ CandidateKey(K, Attrs)
  <1>1. keys = {K \in SUBSET Attrs : CandidateKey(K, Attrs)}
    BY DEF IInv, KeysAreCandidateKeys
  <1>2. keys # {}
    <2>1. IsSuperkey(Attrs, Attrs, D)
      BY ClosureExtends DEF IsSuperkey
    <2> QED BY <1>1, <2>1, KeyInside
  <1> DEFINE before(K) == {L \in keys : Before(L, K)}
             W == {Cardinality(before(K)) : K \in keys}
  <1>3. IsFiniteSet(keys)
    <2>1. IsFiniteSet(SUBSET Attrs)
      BY ColumnsFinite, FS_SUBSET
    <2> QED BY <1>1, <2>1, FS_Subset
  <1>4. ASSUME NEW K \in keys
        PROVE  IsFiniteSet(before(K)) /\ Cardinality(before(K)) \in Nat
    <2>1. before(K) \subseteq keys
      OBVIOUS
    <2> HIDE DEF before
    <2> QED BY <1>3, <2>1, FS_Subset, FS_CardinalityType
  <1>5. PICK m \in W : \A n \in W : m <= n
    <2>1. W \subseteq Nat /\ W # {}
      <3> HIDE DEF before
      <3> QED BY <1>2, <1>4
    <2> HIDE DEF W
    <2> QED BY <2>1, LeastNatural
  <1>6. PICK K \in keys : m = Cardinality(before(K))
    OBVIOUS
  <1>7. ASSUME NEW L \in keys, Before(L, K)
        PROVE  FALSE
    <2>1. K \in SUBSET Attrs /\ L \in SUBSET Attrs /\ \A M \in keys : M \in SUBSET Attrs
      BY <1>1
    <2>2. before(L) \subseteq before(K) /\ L \in before(K) /\ L \notin before(L)
      <3>1. \A M \in keys : Before(M, L) => Before(M, K)
        BY <1>7, <2>1, BeforeTransitive
      <3>2. ~Before(L, L)
        BY <2>1, BeforeTotal
      <3> QED BY <1>7, <3>1, <3>2
    <2>3. Cardinality(before(L)) \in W
      OBVIOUS
    <2> HIDE DEF before, W
    <2>4. Cardinality(before(K)) <= Cardinality(before(L))
      BY <1>5, <1>6, <2>3
    <2>5. /\ Cardinality(before(L)) <= Cardinality(before(K))
          /\ Cardinality(before(L)) = Cardinality(before(K)) => before(L) = before(K)
      BY <1>4, <2>2, FS_Subset
    <2>6. Cardinality(before(L)) = Cardinality(before(K))
      BY <1>4, <2>4, <2>5
    <2> QED BY <2>2, <2>5, <2>6
  <1>8. \E M \in keys : \A L \in keys : ~Before(L, M)
    BY <1>7
  <1> QED BY <1>1, <1>8 DEF FirstKey

\* The table of one determinant.
Group(X) == X \cup {f.dep : f \in {g \in cover : g.det = X}}

LEMMA KeyIn3NF ==
  ASSUME D \in SUBSET FDs, NEW K \in SUBSET Attrs, CandidateKey(K, Attrs)
  PROVE  In3NF(K)
  <1> SUFFICES ASSUME NEW X \in SUBSET K, NEW a \in (Closure(X, D) \cap K) \ X
               PROVE  FALSE
    BY DEF In3NF
  <1>1. K \ {a} \subseteq Closure(K \ {a}, D) /\ X \subseteq K \ {a}
    BY ClosureExtends
  <1>2. Closure(X, D) \subseteq Closure(K \ {a}, D)
    BY <1>1, ClosureMonotone
  <1>3. K \subseteq Closure(K \ {a}, D)
    BY <1>1, <1>2
  <1>4. Closure(K, D) \subseteq Closure(K \ {a}, D)
    BY <1>3, ClosureAbsorbs
  <1>5. IsSuperkey(K \ {a}, Attrs, D)
    BY <1>4 DEF CandidateKey, IsSuperkey
  <1> QED BY <1>5 DEF CandidateKey

\* The determinant is a key of its table, and a dependency that breaks 3NF
\* would give f another way to be implied.
LEMMA GroupIn3NF ==
  ASSUME IInv, CoverInv, CoverKnown, Equivalent(cover, D), NEW f0 \in cover
  PROVE  In3NF(Group(f0.det))
  <1> DEFINE X0 == f0.det
             T == Group(X0)
  <1>1. /\ D \in SUBSET FDs /\ cover \in SUBSET FDs
        /\ \A V : Closure(V, cover) = Closure(V, D)
    BY ReducedList, EquivalentClosures
  <1>2. X0 \in SUBSET Attrs /\ T \in SUBSET Attrs /\ X0 \subseteq T /\ f0.dep \in T
    BY <1>1 DEF Group, FDs
  <1>3. ASSUME NEW b \in T, b \notin X0
        PROVE  \E g \in cover : g.det = X0 /\ g.dep = b
    BY <1>3 DEF Group
  <1> HIDE DEF T
  <1>4. IsSuperkey(X0, T, D)
    <2>1. X0 \subseteq Closure(X0, cover)
      BY <1>2, ClosureExtends
    <2>2. ASSUME NEW g \in cover, g.det = X0
          PROVE  g.dep \in Closure(X0, cover)
      BY <1>1, <2>1, <2>2, ClosureClosed DEF Closed, Holds
    <2>3. T \subseteq Closure(X0, cover)
      BY <1>3, <2>1, <2>2
    <2> QED BY <1>1, <2>3 DEF IsSuperkey
  <1>5. CandidateKey(X0, T)
    <2> SUFFICES ASSUME NEW S \in SUBSET X0, IsSuperkey(S, T, D), S # X0
                 PROVE  FALSE
      BY <1>2, <1>4 DEF CandidateKey
    <2>1. f0.dep \in Closure(S, D)
      BY <1>2 DEF IsSuperkey
    <2>2. PICK x \in X0 : x \notin S
      OBVIOUS
    <2>3. CASE X0 = {x}
      <3>1. S = {}
        BY <2>2, <2>3
      <3> QED BY <1>1, <2>1, <3>1, EmptyClosure
    <2>4. CASE X0 # {x}
      <3>1. Closure(S, D) \subseteq Closure(X0 \ {x}, D)
        BY <1>1, <2>2, ClosureMonotone
      <3>2. NothingToSpare(X0, f0.dep)
        BY ReducedList
      <3> QED BY <2>1, <2>4, <3>1, <3>2 DEF NothingToSpare
    <2> QED BY <2>3, <2>4
  <1> SUFFICES ASSUME NEW X \in SUBSET T, NEW a \in (Closure(X, D) \cap T) \ X,
                      ~IsSuperkey(X, T, D), a \notin X0
               PROVE  FALSE
    BY <1>2, <1>5 DEF In3NF, T
  <1>6. PICK f \in cover : f.det = X0 /\ f.dep = a
    BY <1>3
  <1> DEFINE E == cover \ {f}
  <1>7. E \in SUBSET FDs /\ a \notin Closure(X0, E)
    BY <1>1, <1>6, NothingRedundant
  <1>8. X \in SUBSET Attrs
    BY <1>2
  <1>9. CASE X0 \subseteq Closure(X, E)
    <2>1. Closure(X, E) \subseteq Closure(X, cover)
      BY <1>1, <1>7, ClosureMonotone
    <2>2. Closure(X0, D) \subseteq Closure(X, D)
      BY <1>1, <1>9, <2>1, ClosureAbsorbs
    <2> QED BY <1>4, <2>2 DEF IsSuperkey
  <1>10. CASE ~(X0 \subseteq Closure(X, E))
    <2>1. Closed(Closure(X, E), E)
      BY <1>7, ClosureClosed
    <2>2. Closed(Closure(X, E), cover)
      BY <1>6, <1>10, <2>1 DEF Closed, Holds
    <2>3. X \subseteq Closure(X, E) /\ Closure(X, E) \in SUBSET Attrs
      BY <1>8, ClosureExtends
    <2>4. a \in Closure(X, E)
      <3>1. Closure(X, cover) \subseteq Closure(X, E)
        <4> HIDE DEF E
        <4> QED BY <2>2, <2>3, ClosureLeast
      <3> QED BY <1>1, <3>1
    <2>5. X0 \subseteq Closure(X0, E)
      BY <1>2, ClosureExtends
    <2>6. ASSUME NEW b \in X PROVE b \in Closure(X0, E)
      <3>1. CASE b \in X0
        BY <2>5, <3>1
      <3>2. CASE b \notin X0
        <4>1. PICK g \in cover : g.det = X0 /\ g.dep = b
          BY <1>3, <3>2
        <4>2. g \in E
          BY <1>6, <4>1
        <4>3. Closed(Closure(X0, E), E)
          BY <1>7, ClosureClosed
        <4> QED BY <2>5, <4>1, <4>2, <4>3 DEF Closed, Holds
      <3> QED BY <3>1, <3>2
    <2>7. Closure(X, E) \subseteq Closure(X0, E)
      BY <1>7, <2>6, ClosureAbsorbs
    <2> QED BY <1>7, <2>4, <2>7
  <1> QED BY <1>9, <1>10

LEMMA SynthesisSound ==
  ASSUME IInv, CoverInv, CoverKnown, Equivalent(cover, D)
  PROVE  /\ UNION Synthesis = Attrs
         /\ \E T \in Synthesis : IsSuperkey(T, Attrs, D)
         /\ \A T \in Synthesis : In3NF(T)
  <1> DEFINE grouped == {Group(X) : X \in {f.det : f \in cover}}
  <1>1. /\ D \in SUBSET FDs /\ cover \in SUBSET FDs
        /\ \A V : Closure(V, cover) = Closure(V, D)
    BY ReducedList, EquivalentClosures
  <1>2. FirstKey \in keys /\ \A K \in keys : K \in SUBSET Attrs /\ CandidateKey(K, Attrs)
    BY FirstKeyIsKey DEF KeysKnown, CoverKnown
  <1>3. Synthesis = IF \E T \in grouped : \E K \in keys : K \subseteq T
                    THEN grouped ELSE grouped \cup {FirstKey}
    BY Zenon DEF Synthesis, Group
  <1>4. \A T \in grouped : \E f \in cover : T = Group(f.det)
    OBVIOUS
  <1>5. \A f \in cover : Group(f.det) \in grouped /\ f.dep \in Group(f.det)
    BY DEF Group
  <1>6. \A f \in cover : Group(f.det) \in SUBSET Attrs
    BY <1>1 DEF Group, FDs
  <1> HIDE DEF grouped
  <1>7. grouped \subseteq Synthesis /\ Synthesis \subseteq grouped \cup {FirstKey}
    BY <1>3
  <1>8. PICK T \in Synthesis, K \in keys : K \subseteq T
    BY <1>2, <1>3
  <1>9. \A U \in Synthesis : U \in SUBSET Attrs
    BY <1>2, <1>4, <1>6, <1>7
  <1>10. IsSuperkey(T, Attrs, D)
    <2>1. Closure(K, D) \subseteq Closure(T, D)
      BY <1>1, <1>8, ClosureMonotone
    <2> QED BY <1>2, <2>1 DEF CandidateKey, IsSuperkey
  <1>11. ASSUME NEW a \in Attrs PROVE a \in UNION Synthesis
    <2>1. CASE a \in K
      BY <1>8, <2>1
    <2>2. CASE a \notin K
      <3>1. a \in Closure(K, cover)
        BY <1>1, <1>2 DEF CandidateKey, IsSuperkey
      <3>2. PICK f \in cover : f.dep = a
        BY <1>1, <1>2, <2>2, <3>1, ClosureLastStep
      <3> QED BY <1>5, <1>7, <3>2
    <2> QED BY <2>1, <2>2
  <1>12. UNION Synthesis = Attrs
    BY <1>9, <1>11
  <1>13. ASSUME NEW U \in Synthesis PROVE In3NF(U)
    <2>1. CASE U \in grouped
      BY <1>4, <2>1, GroupIn3NF
    <2>2. CASE U = FirstKey
      BY <1>1, <1>2, <2>2, KeyIn3NF
    <2> QED BY <1>7, <2>1, <2>2
  <1> QED BY <1>10, <1>12, <1>13

\* What the audit suggests can be used, for every table: the synthesis loses no
\* column, keeps a key together and is in 3NF, and the decomposition loses no
\* column, keeps a key together and reports what nobody enforces any more.
THEOREM SuggestionsTheorem == Spec => []SuggestionsAreSound
  <1>1. IInv /\ CoverInv /\ SplitInv => SuggestionsAreSound
    <2> SUFFICES ASSUME IInv, CoverInv, SplitInv, pc = "done"
                 PROVE  /\ tables # {} /\ Equivalent(cover, D) =>
                             /\ UNION tables = Attrs
                             /\ \E T \in tables : IsSuperkey(T, Attrs, D)
                             /\ \A T \in tables : In3NF(T)
                        /\ parts # {} =>
                             /\ UNION {p.attrs : p \in parts} = Attrs
                             /\ \E p \in parts : IsSuperkey(p.attrs, Attrs, D)
                             /\ \A f \in D \ Lost : Enforced(f)
      BY DEF SuggestionsAreSound
    <2>1. CoverKnown
      BY DEF CoverKnown
    <2>2. tables = {} \/ tables = Synthesis
      BY DEF SplitInv
    <2>3. parts # {} => Whole(parts)
      BY DEF SplitInv
    <2> QED BY <2>1, <2>2, <2>3, SynthesisSound, KeptIsEnforced DEF Whole
  <1> QED BY <1>1, SplitInvariant, PTL
=============================================================================

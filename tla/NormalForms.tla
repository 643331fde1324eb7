---------------------------- MODULE NormalForms ----------------------------
(***************************************************************************)
(* The normal-form audit of one table (internal/audit with internal/fd):   *)
(* the candidate keys, the minimal cover of the declared dependencies,     *)
(* Bernstein's synthesis when 3NF is violated and the BCNF decomposition   *)
(* when BCNF is.  It is one sequential computation; a step is one turn of  *)
(* one of its loops.                                                       *)
(***************************************************************************)
EXTENDS FuncDeps

CONSTANT Tables   \* the lists of dependencies a table may declare

ASSUME ColumnsAssumption ==
  /\ Columns \in Seq(Attrs)
  /\ Columns # <<>>
  /\ IsInjective(Columns)
  /\ Tables \subseteq Seq(FDs)

VARIABLES
  declared,   \* tbl.Dependencies
  pc,         \* "keys", "close", "reduce", "prune", "suggest", "split", "done"
  size, untried, keys,              \* CandidateKeys: size, combos left, keys
  combo, result, next, changed,     \* Closure: attrs, result, index, changed
  fds, visit, cover,                \* MinimalCover: decomposed, i and j, result
  tables,                           \* suggestDecomposition: suggestions
  pending, parts                    \* BCNFDecompose: calls to make, components

keyVars     == <<size, untried, keys>>
closureVars == <<combo, result, next, changed>>
coverVars   == <<fds, visit, cover>>
bcnfVars    == <<pending, parts>>
vars == <<declared, pc, keyVars, closureVars, coverVars, tables, bcnfVars>>

D == ToSet(declared)

Combinations(k) == {S \in SUBSET Attrs : Cardinality(S) = k}

Init ==
  /\ declared \in Tables
  /\ pc = "keys"
  /\ size = 1 /\ untried = Combinations(1) /\ keys = {}
  /\ combo = {} /\ result = {} /\ next = 1 /\ changed = FALSE
  /\ fds = declared /\ visit = 1 /\ cover = {}
  /\ tables = {}
  /\ pending = <<>> /\ parts = {}

-----------------------------------------------------------------------------
(* CandidateKeys: combinations by size, each size in the order of its      *)
(* sorted columns.                                                         *)

IsSupersetOfAny(X, found) == \E K \in found : K \subseteq X

NextCombo(X) == X \in untried /\ \A Y \in untried : ~Before(Y, X)

TryCombo(X) ==
  /\ pc = "keys" /\ NextCombo(X)
  /\ untried' = untried \ {X}
  /\ IF IsSupersetOfAny(X, keys)
     THEN UNCHANGED <<pc, closureVars>>
     ELSE /\ pc' = "close"
          /\ combo' = X /\ result' = X /\ next' = 1 /\ changed' = FALSE
  /\ UNCHANGED <<declared, size, keys, coverVars, tables, bcnfVars>>

NextSize ==
  /\ pc = "keys" /\ untried = {} /\ size < Len(Columns)
  /\ size' = size + 1
  /\ untried' = Combinations(size + 1)
  /\ UNCHANGED <<declared, pc, keys, closureVars, coverVars, tables, bcnfVars>>

KeysFound ==
  /\ pc = "keys" /\ untried = {} /\ size = Len(Columns)
  /\ pc' = "reduce"
  /\ UNCHANGED <<declared, keyVars, closureVars, coverVars, tables, bcnfVars>>

-----------------------------------------------------------------------------
(* Closure, called by IsSuperkey: scan the dependencies until a scan adds  *)
(* nothing.  IsSuperkey reads the list as a set, and so does isSubset: how *)
(* often a column is in it (ClosureList) changes neither result nor        *)
(* changed, for only a scan that has found a new column repeats one.       *)

ScanFD ==
  /\ pc = "close" /\ next <= Len(declared)
  /\ LET f == declared[next]
         fires == f.det \subseteq result /\ f.dep \notin result
     IN  /\ result' = IF fires THEN result \cup {f.dep} ELSE result
         /\ changed' = (changed \/ fires)
  /\ next' = next + 1
  /\ UNCHANGED <<declared, pc, keyVars, combo, coverVars, tables, bcnfVars>>

ScanAgain ==
  /\ pc = "close" /\ next > Len(declared) /\ changed
  /\ next' = 1 /\ changed' = FALSE
  /\ UNCHANGED <<declared, pc, keyVars, combo, result, coverVars, tables, bcnfVars>>

\* Mutant: one scan is enough.
ClosureKnownAfterOneScan ==
  /\ pc = "close" /\ next > Len(declared)
  /\ keys' = IF Attrs \subseteq result THEN keys \cup {combo} ELSE keys
  /\ pc' = "keys"
  /\ UNCHANGED <<declared, size, untried, closureVars, coverVars, tables, bcnfVars>>

ClosureKnown ==
  /\ pc = "close" /\ next > Len(declared) /\ ~changed
  /\ keys' = IF Attrs \subseteq result THEN keys \cup {combo} ELSE keys
  /\ pc' = "keys"
  /\ UNCHANGED <<declared, size, untried, closureVars, coverVars, tables, bcnfVars>>

-----------------------------------------------------------------------------
(* MinimalCover of the declared dependencies, steps 2 and 3.               *)

ReduceDeterminant ==
  /\ pc = "reduce" /\ visit <= Visits(Len(fds))
  /\ fds' = DropExtraneous(fds, visit)
  /\ visit' = visit + 1
  /\ UNCHANGED <<declared, pc, keyVars, closureVars, cover, tables, bcnfVars>>

Reduced ==
  /\ pc = "reduce" /\ visit > Visits(Len(fds))
  /\ pc' = "prune" /\ visit' = 1
  /\ UNCHANGED <<declared, keyVars, closureVars, fds, cover, tables, bcnfVars>>

Prune ==
  /\ pc = "prune" /\ visit <= Len(fds)
  /\ cover' = IF Redundant(fds, visit) THEN cover ELSE cover \cup {fds[visit]}
  /\ visit' = visit + 1
  /\ UNCHANGED <<declared, pc, keyVars, closureVars, fds, tables, bcnfVars>>

Pruned ==
  /\ pc = "prune" /\ visit > Len(fds)
  /\ pc' = "suggest"
  /\ UNCHANGED <<declared, keyVars, closureVars, coverVars, tables, bcnfVars>>

-----------------------------------------------------------------------------
(* check2NF asks each column, check3NF and checkBCNF each declared         *)
(* dependency.                                                             *)

PartiallyDependent(a) ==
  /\ ~IsPrime(a, keys)
  /\ \E K \in keys : \E S \in (SUBSET K) \ {{}, K} : a \in Closure(S, D)

\* Mutant: a prime determinant excuses the dependency as well.
Violates3NFUnlessPrime(f) ==
  /\ ~IsSuperkey(f.det, Attrs, D)
  /\ ~IsPrime(f.dep, keys)
  /\ \A a \in f.det : ~IsPrime(a, keys)

Violates3NF(f) == ~IsSuperkey(f.det, Attrs, D) /\ ~IsPrime(f.dep, keys)

ViolatesBCNF(f) == ~IsSuperkey(f.det, Attrs, D)

\* suggestDecomposition: one table for each determinant of the cover, and
\* the first candidate key if none of them contains one.
FirstKey == CHOOSE K \in keys : \A L \in keys : ~Before(L, K)

Synthesis ==
  LET grouped == {X \cup {f.dep : f \in {g \in cover : g.det = X}} :
                    X \in {f.det : f \in cover}}
  IN  IF \E T \in grouped : \E K \in keys : K \subseteq T
      THEN grouped
      ELSE grouped \cup {FirstKey}

Suggest ==
  /\ pc = "suggest"
  /\ tables' = IF \E f \in D : Violates3NF(f) THEN Synthesis ELSE {}
  /\ IF \E f \in D : ViolatesBCNF(f)
     THEN pc' = "split" /\ pending' = <<[attrs |-> Attrs, fds |-> declared]>>
     ELSE pc' = "done" /\ pending' = <<>>
  /\ UNCHANGED <<declared, keyVars, closureVars, coverVars, parts>>

-----------------------------------------------------------------------------
(* BCNFDecompose: a call makes one component of its relation or splits it  *)
(* on the first dependency of the cover that violates BCNF, and calls      *)
(* itself for the two halves, left before right.                           *)

Violating(rel, mc) ==
  {k \in DOMAIN mc : mc[k].dep \notin mc[k].det /\ ~IsSuperkey(mc[k].det, rel.attrs, ToSet(mc))}

\* Mutant: the determinant stays in the left half only.
HalvesApart(rel, mc, X) ==
  LET xPlus == Closure(X, ToSet(mc))
      right == rel.attrs \ xPlus
  IN  << [attrs |-> xPlus, fds |-> ProjectFDs(xPlus, mc)],
         [attrs |-> right, fds |-> ProjectFDs(right, mc)] >>

Halves(rel, mc, X) ==
  LET xPlus == Closure(X, ToSet(mc))
      right == X \cup (rel.attrs \ xPlus)
  IN  << [attrs |-> xPlus, fds |-> ProjectFDs(xPlus, mc)],
         [attrs |-> right, fds |-> ProjectFDs(right, mc)] >>

Decompose ==
  /\ pc = "split" /\ pending # <<>>
  /\ LET rel == Head(pending)
         mc  == MinimalCover(rel.fds)
         bad == Violating(rel, mc)
     IN  IF bad = {}
         THEN /\ parts' = parts \cup {[attrs |-> rel.attrs, fds |-> ProjectFDs(rel.attrs, mc)]}
              /\ pending' = Tail(pending)
         ELSE LET k == CHOOSE k \in bad : \A l \in bad : k <= l
              IN  /\ pending' = Halves(rel, mc, mc[k].det) \o Tail(pending)
                  /\ UNCHANGED parts
  /\ UNCHANGED <<declared, pc, keyVars, closureVars, coverVars, tables>>

Decomposed ==
  /\ pc = "split" /\ pending = <<>>
  /\ pc' = "done"
  /\ UNCHANGED <<declared, keyVars, closureVars, coverVars, tables, bcnfVars>>

\* PreservesDependencies: what the projections together do not imply.
Lost == {f \in D : f.dep \notin Closure(f.det, UNION {ToSet(p.fds) : p \in parts})}

Next ==
  \/ \E X \in untried : TryCombo(X)
  \/ NextSize \/ KeysFound
  \/ ScanFD \/ ScanAgain \/ ClosureKnown
  \/ ReduceDeterminant \/ Reduced \/ Prune \/ Pruned
  \/ Suggest \/ Decompose \/ Decomposed

Spec == Init /\ [][Next]_vars

-----------------------------------------------------------------------------
(* What the results should be.                                             *)

CandidateKey(K, all) ==
  /\ K \subseteq all
  /\ IsSuperkey(K, all, D)
  /\ \A S \in SUBSET K : IsSuperkey(S, all, D) => S = K

Equivalent(E, F) == \A S \in SUBSET Attrs : Closed(S, E) <=> Closed(S, F)

In3NF(all) ==
  \A X \in SUBSET all : \A a \in (Closure(X, D) \cap all) \ X :
    IsSuperkey(X, all, D) \/ \E K \in SUBSET all : CandidateKey(K, all) /\ a \in K

InBCNF(all) ==
  \A X \in SUBSET all : (Closure(X, D) \cap all) \subseteq X \/ IsSuperkey(X, all, D)

\* No set of columns determines itself in a circle.
Acyclic(E) ==
  \A S \in (SUBSET Attrs) \ {{}} :
    \E a \in S : \A f \in E : f.dep = a /\ a \notin f.det => f.det \cap S = {}

Twins == \E i, k \in DOMAIN fds : i # k /\ fds[i] = fds[k]

KeysKnown == pc \notin {"keys", "close"}

CoverKnown == pc \notin {"keys", "close", "reduce", "prune"}

\* Every variable of the searches has its type; the suggested tables and
\* components are sets of columns by SuggestionsAreSound.
TypeOK ==
  /\ declared \in Tables
  /\ pc \in {"keys", "close", "reduce", "prune", "suggest", "split", "done"}
  /\ size \in 1 .. Len(Columns) /\ untried \subseteq Combinations(size)
  /\ keys \subseteq SUBSET Attrs
  /\ combo \subseteq Attrs /\ result \subseteq Attrs
  /\ next \in 1 .. Len(declared) + 1 /\ changed \in BOOLEAN
  /\ fds \in Seq(FDs) /\ visit \in Nat \ {0} /\ cover \subseteq FDs

\* The keys found are all the minimal superkeys and nothing else: the search
\* by size with its pruning (CandidateKeys) and the scanning loop inside it
\* (Closure) miss no key and keep none that contains another.
KeysAreCandidateKeys ==
  KeysKnown => keys = {K \in SUBSET Attrs : CandidateKey(K, Attrs)}

\* Step 2 of MinimalCover changes the list it takes closures of, column by
\* column, and never changes what the list implies.
ReductionKeepsMeaning == Equivalent(ToSet(fds), D)

\* Step 3 compares each dependency with all the others, dropped ones too.
\* Without a circle, and unless step 2 has made two dependencies equal, the
\* cover implies what was declared, and no part of it can be left out.
CoverIsCanonical ==
  CoverKnown /\ Acyclic(D) /\ ~Twins =>
    /\ Equivalent(cover, D)
    /\ \A f \in cover :
         /\ f.dep \notin Closure(f.det, cover \ {f})
         /\ \A a \in f.det : f.det # {a} => f.dep \notin Closure(f.det \ {a}, cover)

\* The audit asks the declared dependencies only, and that is enough: if none
\* of them violates a normal form, no dependency they imply does, and 3NF
\* leaves 2NF nothing to report.
SilenceMeansNormal ==
  pc = "suggest" =>
    /\ (\A f \in D : ~Violates3NF(f)) =>
         In3NF(Attrs) /\ \A a \in Attrs : ~PartiallyDependent(a)
    /\ (\A f \in D : ~ViolatesBCNF(f)) => InBCNF(Attrs)

\* What the true projections of the dependencies onto the components imply.
Enforced(f) ==
  \A S \in SUBSET Attrs :
    /\ f.det \subseteq S
    /\ \A p \in parts : Closure(S \cap p.attrs, D) \cap p.attrs \subseteq S
    => f.dep \in S

\* What is suggested can be used.  Synthesis: no column is left out, one table
\* holds a key, so that the join is lossless, and each is in 3NF.  The BCNF
\* decomposition: no column is left out, a component holds a key, and a
\* dependency nobody would enforce any more is reported as lost.
SuggestionsAreSound ==
  pc = "done" =>
    /\ tables # {} /\ Equivalent(cover, D) =>
         /\ UNION tables = Attrs
         /\ \E T \in tables : IsSuperkey(T, Attrs, D)
         /\ \A T \in tables : In3NF(T)
    /\ parts # {} =>
         /\ UNION {p.attrs : p \in parts} = Attrs
         /\ \E p \in parts : IsSuperkey(p.attrs, Attrs, D)
         /\ \A f \in D \ Lost : Enforced(f)

\* Every component is in BCNF, as the comment on BCNFDecompose says ("One
\* Component per BCNF sub-relation").  Tables whose own cover step 3 already
\* spoils are left out: it fails without them.
ComponentsInBCNF ==
  pc = "done" /\ ~Twins => \A p \in parts : InBCNF(p.attrs)
=============================================================================

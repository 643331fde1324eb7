------------------------------ MODULE FuncDeps ------------------------------
(***************************************************************************)
(* The primitives of internal/fd: attribute closure, minimal cover, the    *)
(* projection of dependencies and the orders the code sorts by.            *)
(*                                                                         *)
(* A dependency is a record [det, dep] with one dependent: X -> {A, B} of  *)
(* the code is X -> A, X -> B, which is how every algorithm reads it       *)
(* (step 1 of MinimalCover, the loops over Dependent in Closure and in     *)
(* the checks of the audit).  Columns is the sorted list of the table's    *)
(* columns.                                                                *)
(***************************************************************************)
EXTENDS Naturals, Sequences, FiniteSets, SequencesExt

CONSTANT Columns

Attrs == {Columns[k] : k \in DOMAIN Columns}

\* A dependency on no column at all (a constant column) is left out.
FDs == [det : (SUBSET Attrs) \ {{}}, dep : Attrs]

-----------------------------------------------------------------------------
(* Closure.  NormalForms walks through the loop of the code once, for the  *)
(* candidate keys, and NormalFormsProofs shows that it computes this set.  *)

Holds(f, S) == f.det \subseteq S => f.dep \in S

Closed(S, D) == \A f \in D : Holds(f, S)

Closure(X, D) ==
  {a \in Attrs : \A S \in SUBSET Attrs : X \subseteq S /\ Closed(S, D) => a \in S}

IsSuperkey(X, all, D) == all \subseteq Closure(X, D)

IsPrime(a, keys) == \E K \in keys : a \in K

-----------------------------------------------------------------------------
(* joinAttrs compares sorted lists of columns; a list that begins another  *)
(* comes first.                                                            *)

Pos(a) == CHOOSE k \in DOMAIN Columns : Columns[k] = a

FirstOf(S) == CHOOSE a \in S : \A b \in S : Pos(a) <= Pos(b)

Before(X, Y) ==
  LET apart == (X \ Y) \cup (Y \ X)
      d     == FirstOf(apart)
      goesOn(Z) == \E z \in Z : Pos(z) > Pos(d)
  IN  /\ apart # {}
      /\ \/ d \in X /\ goesOn(Y)
         \/ d \in Y /\ ~goesOn(X)

FDBefore(f, g) ==
  \/ Before(f.det, g.det)
  \/ f.det = g.det /\ Pos(f.dep) < Pos(g.dep)

Sorted(D) ==
  [n \in 1 .. Cardinality(D) |->
     CHOOSE f \in D : Cardinality({g \in D : FDBefore(g, f)}) = n - 1]

-----------------------------------------------------------------------------
(* MinimalCover.  A visit is an index of the list and a column to try:     *)
(* step 2 goes through all of them in this order, because the removal of   *)
(* a column leaves the loop where the next column now is.                  *)

Visits(n) == n * Len(Columns)

VisitFD(v) == ((v - 1) \div Len(Columns)) + 1

VisitColumn(v) == Columns[((v - 1) % Len(Columns)) + 1]

\* Mutant: a column is dropped when the others imply it, by whatever way.
ExtraneousIfImplied(fds, i, a) ==
  /\ a \in fds[i].det
  /\ fds[i].det # {a}
  /\ fds[i].dep \in Closure(fds[i].det, ToSet(fds))

Extraneous(fds, i, a) ==
  /\ a \in fds[i].det
  /\ fds[i].det # {a}
  /\ fds[i].dep \in Closure(fds[i].det \ {a}, ToSet(fds))

DropExtraneous(fds, v) ==
  LET i == VisitFD(v)
      a == VisitColumn(v)
  IN  IF Extraneous(fds, i, a) THEN [fds EXCEPT ![i].det = @ \ {a}] ELSE fds

\* Mutant: a dependency is redundant if one other has the same dependent.
RedundantByName(fds, i) ==
  \E k \in DOMAIN fds \ {i} : fds[k].dep = fds[i].dep

\* Step 3 asks of each dependency whether all the others imply it, those
\* others included that it drops too.
Redundant(fds, i) ==
  fds[i].dep \in Closure(fds[i].det, {fds[k] : k \in DOMAIN fds \ {i}})

LeftReduced(fds) ==
  LET after[v \in 0 .. Visits(Len(fds))] ==
        IF v = 0 THEN fds ELSE DropExtraneous(after[v - 1], v)
  IN  after[Visits(Len(fds))]

MinimalCover(fds) ==
  LET reduced == LeftReduced(fds)
  IN  Sorted({reduced[i] : i \in {k \in DOMAIN fds : ~Redundant(reduced, k)}})

-----------------------------------------------------------------------------
(* The list a closure is returned in.  A scan appends to it and searches   *)
(* it by halving, and it is sorted only after the scan: a column that is   *)
(* in the list may not be found in the unsorted list, and is then appended *)
(* again.  The columns in the list are those of Closure all the same,      *)
(* because the last scan goes through a sorted list.                       *)

InOrder(list) == SortSeq(list, LAMBDA a, b : Pos(a) < Pos(b))

\* contains: sort.SearchStrings between 0 and the length of the list.
Found(list, a) ==
  LET n == Len(list)
      search[i \in 0 .. n, j \in 0 .. n] ==
        LET h == (i + j) \div 2
        IN  IF i >= j THEN i
            ELSE IF Pos(list[h + 1]) < Pos(a) THEN search[h + 1, j] ELSE search[i, h]
      at == search[0, n] + 1
  IN  at <= n /\ list[at] = a

Scanned(list, fds) ==
  FoldLeft(LAMBDA l, f : IF f.det \subseteq ToSet(l) /\ ~Found(l, f.dep)
                         THEN Append(l, f.dep) ELSE l,
           list, fds)

\* A scan that changes the list finds a new column: there are at most as many
\* as there are columns.
ClosureList(X, fds) ==
  LET after[n \in 0 .. Len(Columns)] ==
        IF n = 0 THEN SetToSortSeq(X, LAMBDA a, b : Pos(a) < Pos(b))
        ELSE InOrder(Scanned(after[n - 1], fds))
  IN  after[Len(Columns)]

\* The column is in the list more than once.
Repeated(a, list) == Cardinality({k \in DOMAIN list : list[k] = a}) > 1

-----------------------------------------------------------------------------
\* projectFDs: only the determinants that are in the list are projected.  A
\* column that the closure's list repeats is projected more than once; that
\* it is twice stands for any number, for MinimalCover drops each copy because
\* of the others.
ProjectFDs(attrs, fds) ==
  LET projections(v) ==
        LET f == fds[VisitFD(v)]
            a == VisitColumn(v)
            g == [det |-> f.det, dep |-> a]
        IN  IF ~(f.det \subseteq attrs /\ a \in (Closure(f.det, ToSet(fds)) \cap attrs) \ f.det)
            THEN <<>>
            ELSE IF Repeated(a, ClosureList(f.det, fds)) THEN <<g, g>> ELSE <<g>>
      projected[v \in 0 .. Visits(Len(fds))] ==
        IF v = 0 THEN <<>> ELSE projected[v - 1] \o projections(v)
  IN  MinimalCover(projected[Visits(Len(fds))])
=============================================================================

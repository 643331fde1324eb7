--------------------------- MODULE MCNormalForms ---------------------------
(* Tables of four columns: every list of up to two dependencies, every list *)
(* of three over the first three columns, and every three dependencies with *)
(* at most two columns on the left over all four, in one order.             *)
EXTENDS NormalForms

MCColumns == <<"a", "b", "c", "d">>

Declarable(cols) ==
  {[det |-> X, dep |-> y] : X \in (SUBSET cols) \ {{}}, y \in cols}

Proper(S) == {f \in S : f.dep \notin f.det}

MCTables ==
  LET all  == Declarable({"a", "b", "c", "d"})
      some == Proper(Declarable({"a", "b", "c"}))
      slim == {f \in Proper(all) : Cardinality(f.det) <= 2}
  IN  {<<f>> : f \in all}
      \cup UNION {[1 .. 2 -> Proper(all)], [1 .. 3 -> some]}
      \cup {Sorted(S) : S \in kSubset(3, slim)}

-----------------------------------------------------------------------------
(* What the lists of closures do to a projection.                          *)

Dep(X, a) == [det |-> X, dep |-> a]

\* The list holds the columns of the closure, whether it repeats one or not.
ASSUME ListsAreClosures ==
  \A T \in [1 .. 3 -> Proper(Declarable({"a", "b", "c"}))], X \in SUBSET Attrs :
    ToSet(ClosureList(X, T)) = Closure(X, ToSet(T))

\* b -> a, b -> d, c -> b: the closure of c holds b twice, and so nothing is
\* left of c -> b on {b, c}.
ASSUME RepeatedColumnIsLost ==
  LET T == << Dep({"b"}, "a"), Dep({"b"}, "d"), Dep({"c"}, "b") >>
  IN  /\ ClosureList({"c"}, T) = <<"a", "b", "b", "c", "d">>
      /\ ProjectFDs({"b", "c"}, T) = <<>>

\* Of five columns, b, c -> a is lost though the columns imply it.
Wide == INSTANCE FuncDeps WITH Columns <- <<"a", "b", "c", "d", "e">>

ASSUME ImpliedColumnIsLost ==
  LET T == << Dep({"b"}, "e"), Dep({"b", "c"}, "d"), Dep({"c", "e"}, "a"), Dep({"d", "e"}, "a") >>
  IN  /\ Wide!ClosureList({"b", "c"}, T) = <<"a", "a", "b", "c", "d", "e">>
      /\ \A f \in ToSet(Wide!ProjectFDs({"a", "b", "c", "d"}, T)) : f.dep = "d"
=============================================================================

---------------------------- MODULE MCChainStore ----------------------------
(* Instances of ChainStore for TLC: the edits people will make.             *)
EXTENDS ChainStore

CONSTANTS d1, o1, o2, o3, o4

Create(o) == [add |-> {o}, del |-> {}]
Drop(o) == [add |-> {}, del |-> {o}]
Replace(o, by) == [add |-> {by}, del |-> {o}]

\* Edits that each need the one before: no op runs out of order.
LineEdits == {Create(o1), Replace(o1, o2), Replace(o2, o3), Replace(o3, o4)}

\* Two pairs of edits, on either branch; the pairs are alike.
BranchEdits == {Create(o1), Replace(o1, o4), Create(o2), Replace(o2, o3)}
PairsAlike ==
  {p \in Permutations({o1, o2, o3, o4}) :
     {<<p[o1], p[o4]>>, <<p[o2], p[o3]>>} = {<<o1, o4>>, <<o2, o3>>}}

\* A kept branch, and a tail that replaces what the kept branch has too.
ForkEdits == {Create(o1), Create(o2), Create(o3)}

\* These edits take every schema up in rank: the objects weigh more and more.
Rank == [r \in Revisions |-> Cardinality(r) + 2 * Cardinality(r \intersect {o2})
          + 4 * Cardinality(r \intersect {o3}) + 6 * Cardinality(r \intersect {o4})]
ASSUME NothingReturnsHere ==
  Edits \in {LineEdits, BranchEdits, ForkEdits} => NothingReturns(Rank)

\* A table is created, dropped again, and another one created.
RevertEdits == {Create(o1), Create(o2), Drop(o2)}
=============================================================================

----------------------------- MODULE ChainGraph -----------------------------
(***************************************************************************)
(* Revisions, edges and the path-finder (internal/migrate/path_finder.go,   *)
(* internal/chain/edge.go), as operators on sets of edges and a remap.      *)
(*                                                                         *)
(* A revision is its content: the set of schema objects its manifest lists. *)
(* Equal content is the same revision, as with the code's content hashes.   *)
(***************************************************************************)
EXTENDS Naturals, SequencesExt

CONSTANTS
  Objects,   \* the schema objects an edit can drop or create
  Meta       \* the schema's header, an object every model has

ASSUME MetaAssumption == Meta \notin Objects

\* A revision, and the schema of a database.  Nothing has the empty content
\* except genesis: a model has its header.
Revisions == SUBSET (Objects \union {Meta})
Genesis == {}

(***************************************************************************)
(* What one change to the schema drops and creates, and an edge: its ops    *)
(* are the changes it makes, one or, after a squash, several in a row.      *)
(***************************************************************************)
Changes == [add : SUBSET Objects, del : SUBSET Objects]
Edges == [parent : Revisions, target : Revisions \ {Genesis}, ops : Seq(Changes),
          slug : {"change", "squash"}]

\* opSimulator.Simulate: assignments to a manifest, never refused.  The op that
\* sets the header comes with every edge from genesis.
Simulate(schema, ops) ==
  LET after[i \in 0..Len(ops)] ==
        IF i = 0 THEN schema \union {Meta}
        ELSE (after[i - 1] \ ops[i].del) \union ops[i].add
  IN after[Len(ops)]

\* The ops of an edge lead from its parent to its target.
Reproduces(e) == Simulate(e.parent, e.ops) = e.target

\* Running the ops on a database: each drop needs its object, each create
\* needs it absent.
Runs(schema, ops) ==
  \A i \in 1..Len(ops) :
    LET before == Simulate(schema, SubSeq(ops, 1, i - 1)) IN
      ops[i].del \subseteq before /\ ops[i].add \intersect before = {}

\* Mutant: the ops of the last edge come first.
EdgesOpsBackwards(path) == FlattenSeq(Reverse([i \in DOMAIN path |-> path[i].ops]))

EdgesOps(path) == FlattenSeq([i \in DOMAIN path |-> path[i].ops])

-----------------------------------------------------------------------------
\* canon: follow the remap to a fixpoint.
Canon(r, remap) ==
  LET hops == Cardinality(DOMAIN remap) + 1
      after[i \in 0..hops] ==
        IF i = 0 THEN r
        ELSE IF after[i - 1] \in DOMAIN remap THEN remap[after[i - 1]]
        ELSE after[i - 1]
  IN after[hops]

NoRemap == [r \in {} |-> r]

\* FindHeads: the targets that are no edge's parent.
FindHeads(edges, remap) ==
  {Canon(e.target, remap) : e \in edges}
    \ {Canon(e.parent, remap) : e \in {x \in edges : x.parent # Genesis}}

\* allForwardPaths: the forward paths from start to target, no edge twice.
ForwardPaths(start, target, edges, remap) ==
  LET End(path) == IF path = <<>> THEN start ELSE Canon(Last(path).target, remap)
      Longer(path) ==
        {Append(path, e) : e \in {x \in edges \ ToSet(path) :
                                    Canon(x.parent, remap) = End(path)}}
      paths[n \in 0..Cardinality(edges)] ==
        IF n = 0 THEN {<<>>} ELSE UNION {Longer(p) : p \in paths[n - 1]}
  IN {p \in UNION {paths[n] : n \in 1..Cardinality(edges)} : End(p) = target}

Reachable(start, target, edges, remap) ==
  LET Near(r) == {r} \union {Canon(e.target, remap) :
                               e \in {x \in edges : Canon(x.parent, remap) = r}}
      reach[n \in 0..Cardinality(edges)] ==
        IF n = 0 THEN {start} ELSE UNION {Near(r) : r \in reach[n - 1]}
  IN target \in reach[Cardinality(edges)]

\* choosePath: the fewest edges, then the most consolidations.  Any of the
\* paths that are left may be the one: edge ids are hashes.
BestPaths(paths, consolidations) ==
  LET shortest == {p \in paths : \A q \in paths : Len(p) <= Len(q)}
      Consolidations(p) == Cardinality(ToSet(p) \intersect consolidations)
  IN {p \in shortest :
        \A q \in shortest : Consolidations(p) >= Consolidations(q)}

(***************************************************************************)
(* FindPath: what a database at position pos is told.                       *)
(***************************************************************************)
\* Mutant: what is archived is not walked.
ReachableHeadsLive(pos, remap, live, all) ==
  {h \in FindHeads(live, remap) : Reachable(Canon(pos, remap), h, live, remap)}

ReachableHeads(pos, remap, live, all) ==
  {h \in FindHeads(live, remap) : Reachable(Canon(pos, remap), h, all, remap)}

Verdict(pos, remap, live, all) ==
  LET heads == ReachableHeads(pos, remap, live, all) IN
    IF heads = {} THEN "noPath"
    ELSE IF Cardinality(heads) > 1 THEN "fork"
    ELSE IF heads = {Canon(pos, remap)} THEN "upToDate"
    ELSE "path"

\* The paths FindPath may return when the verdict is "path".
FindPath(pos, remap, live, all, consolidations) ==
  LET head == CHOOSE h \in ReachableHeads(pos, remap, live, all) : TRUE IN
    BestPaths(ForwardPaths(Canon(pos, remap), head, all, remap), consolidations)
=============================================================================

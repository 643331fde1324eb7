----------------------------- MODULE ChainStore -----------------------------
(***************************************************************************)
(* The chain on disk under `generate`, `squash` and `rebase`, and the       *)
(* databases that are migrated along it (internal/migrate).                 *)
(*                                                                         *)
(* The three commands write several files one after the other, with nothing *)
(* around them: each write is atomic (a rename), the sequence is not.       *)
(* A colleague works on a branch of the repository and merges it; databases *)
(* apply whatever path the files of the moment give them, an edge at a time *)
(* (inside an edge, see ChainMigrate).                                      *)
(***************************************************************************)
EXTENDS ChainGraph

CONSTANTS
  Databases,
  Edits,        \* bound: the changes people will make, each of them once
  Commands,     \* the file commands people use besides generate
  MaxCrashes    \* bound: commands that are cut short, of either kind

ASSUME EditsAssumption ==
  /\ Edits \subseteq Changes
  /\ \A ed \in Edits : ed.add \union ed.del # {}
ASSUME BoundsAssumption ==
  /\ Commands \subseteq {"branch", "squash", "rebase"}
  /\ MaxCrashes \in Nat

VARIABLES
  \* the files of the project
  live,         \* migrations/chain/
  archive,      \* migrations/archive/
  manifests,    \* migrations/revisions/: the revisions that have a manifest
  supersedes,   \* the superseded edges each consolidation edge lists
  remap,        \* migrations/remap.json
  queue,        \* the writes still to come of the command under way
  theirs,       \* the edges of a colleague's branch, not yet merged
  \* the databases
  pos,          \* chain_position.current_revision
  schema,       \* the schema a database has
  path,         \* the edges the apply under way still has to run
  \* history and bounds
  wanted,       \* the changes no edge makes yet
  published,    \* the revisions of the main line, in the order they came
  merged,       \* a branch has been merged
  crashes

files == <<live, archive, manifests, supersedes, remap>>
databases == <<pos, schema, path>>
history == <<wanted, published, merged>>
vars == <<files, queue, theirs, databases, history, crashes>>

Consolidations == DOMAIN supersedes
All == live \union archive

Init ==
  /\ live = {} /\ archive = {} /\ manifests = {}
  /\ supersedes = NoRemap /\ remap = NoRemap
  /\ queue = <<>>
  /\ theirs = <<>>
  /\ pos = [d \in Databases |-> Genesis]
  /\ schema = [d \in Databases |-> Genesis]
  /\ path = [d \in Databases |-> <<>>]
  /\ wanted = Edits
  /\ published = <<>>
  /\ merged = FALSE
  /\ crashes = 0
-----------------------------------------------------------------------------
(***************************************************************************)
(* The writes of a command, in order.                                       *)
(***************************************************************************)
ManifestFile(r) == [file |-> "manifest", rev |-> r]
EdgeFile(e) == [file |-> "edge", edge |-> e]
SquashFile(e, over) == [file |-> "squash", edge |-> e, over |-> over]
ArchiveMove(e) == [file |-> "archive", edge |-> e]
RemapFile(table) == [file |-> "remap", table |-> table]

\* Mutant: the loop starts at the second edge.
ArchiveMovesButFirst(edges) == [i \in 1..Len(edges) - 1 |-> ArchiveMove(edges[i + 1])]

ArchiveMoves(edges) == [i \in DOMAIN edges |-> ArchiveMove(edges[i])]

\* Mutant: the edge file is removed.
ArchivedNever(e) == archive

\* moveEdgeToArchive: the file moves as it is.
Archived(e) == archive \union {e}

\* WriteRemap keeps the entries it finds and refuses to change one.
Agree(f, g) == \A r \in DOMAIN f \intersect DOMAIN g : f[r] = g[r]
Merge(f, g) == [r \in DOMAIN f \union DOMAIN g |->
                  IF r \in DOMAIN f THEN f[r] ELSE g[r]]

WriteNext ==
  /\ queue # <<>>
  /\ LET w == Head(queue) IN
       \/ /\ w.file = "manifest"
          /\ manifests' = manifests \union {w.rev}
          /\ UNCHANGED <<live, archive, supersedes, remap, published, wanted>>
       \/ /\ w.file = "edge"
          /\ live' = live \union {w.edge}
          /\ published' = Append(published, w.edge.target)
          /\ wanted' = wanted \ ToSet(w.edge.ops)
          /\ UNCHANGED <<archive, manifests, supersedes, remap>>
       \/ /\ w.file = "squash"
          /\ live' = live \union {w.edge}
          /\ supersedes' = Merge([e \in {w.edge} |-> w.over], supersedes)
          /\ UNCHANGED <<archive, manifests, remap, published, wanted>>
       \/ /\ w.file = "archive"
          /\ live' = live \ {w.edge}
          /\ archive' = Archived(w.edge)
          /\ UNCHANGED <<manifests, supersedes, remap, published, wanted>>
       \/ /\ w.file = "remap"
          /\ remap' = IF Agree(remap, w.table) THEN Merge(remap, w.table)
                                               ELSE remap
          /\ UNCHANGED <<live, archive, manifests, supersedes, published, wanted>>
  /\ queue' = Tail(queue)
  /\ UNCHANGED <<theirs, databases, merged, crashes>>

\* The command dies; what it has written stays.
CutShort ==
  /\ queue # <<>>
  /\ crashes < MaxCrashes
  /\ crashes' = crashes + 1
  /\ queue' = <<>>
  /\ UNCHANGED <<files, theirs, databases, history>>
-----------------------------------------------------------------------------
(***************************************************************************)
(* generate                                                                *)
(***************************************************************************)

\* ChainHead: genesis for an empty chain, else the one head, if there is one.
ChainHeads(edges) == IF edges = {} THEN {Genesis} ELSE FindHeads(edges, NoRemap)

\* Mutant: what the change drops stays in the target's manifest.
EdgeFromKeepingDrops(r, edit) ==
  [parent |-> r, target |-> Simulate(r, <<[edit EXCEPT !.del = {}]>>),
   ops |-> <<edit>>, slug |-> "change"]

\* The edge that makes a change to the schema of a revision.
EdgeFrom(r, edit) == [parent |-> r, target |-> Simulate(r, <<edit>>),
                      ops |-> <<edit>>, slug |-> "change"]

\* Mutant: the edge before the manifest it ends in.
GenerateWritesEdgeFirst(e) == <<EdgeFile(e), ManifestFile(e.target)>>

GenerateWrites(e) == <<ManifestFile(e.target), EdgeFile(e)>>

Generate ==
  /\ queue = <<>>
  /\ Cardinality(ChainHeads(live)) = 1
  /\ \E head \in ChainHeads(live), edit \in wanted :
       /\ Runs(head, <<edit>>)
       /\ queue' = GenerateWrites(EdgeFrom(head, edit))
  /\ UNCHANGED <<files, theirs, databases, history, crashes>>

(***************************************************************************)
(* A branch of the repository: a colleague generates edges there, from the  *)
(* head the main line had at the time, may try them on a database, and      *)
(* merges: the files of the branch join those of the main line.             *)
(***************************************************************************)
GenerateTheirs ==
  /\ "branch" \in Commands
  /\ queue = <<>>
  /\ LET bases == IF theirs = <<>> THEN ChainHeads(live) ELSE {Last(theirs).target}
     IN
       /\ Cardinality(bases) = 1
       /\ \E head \in bases, edit \in wanted :
            /\ Runs(head, <<edit>>)
            /\ theirs' = Append(theirs, EdgeFrom(head, edit))
            /\ wanted' = wanted \ {edit}
  /\ UNCHANGED <<files, queue, databases, published, merged, crashes>>

ApplyTheirs(d) ==
  /\ path[d] = <<>>
  /\ \E e \in ToSet(theirs) :
       /\ e.parent = pos[d]
       /\ Runs(schema[d], e.ops)
       /\ pos' = [pos EXCEPT ![d] = e.target]
       /\ schema' = [schema EXCEPT ![d] = Simulate(@, e.ops)]
  /\ UNCHANGED <<files, queue, theirs, path, history, crashes>>

MergeTheirs ==
  /\ queue = <<>>
  /\ theirs # <<>>
  /\ live' = live \union ToSet(theirs)
  /\ manifests' = manifests \union {e.target : e \in ToSet(theirs)}
  /\ theirs' = <<>>
  /\ merged' = TRUE
  /\ UNCHANGED <<archive, supersedes, remap, queue, databases, wanted,
                 published, crashes>>
-----------------------------------------------------------------------------
(***************************************************************************)
(* squash                                                                  *)
(***************************************************************************)

\* resolveSquashEndpoint: genesis, or an endpoint of a live edge.
SquashFroms == {Genesis} \union {e.parent : e \in live} \union {e.target : e \in live}
SquashTos == SquashFroms \ {Genesis}

\* The one live path between the endpoints, of two edges or more.
ConsolidationPaths(from, to) ==
  LET paths == ForwardPaths(from, to, live, NoRemap) IN
    IF Cardinality(paths) = 1 THEN {p \in paths : Len(p) >= 2} ELSE {}

\* checkConsolidationDisjoint looks at the live consolidations.
OverlapsNone(edges) ==
  \A c \in live \intersect Consolidations : supersedes[c] \intersect edges = {}

Squash ==
  /\ "squash" \in Commands
  /\ queue = <<>>
  /\ \E from \in SquashFroms, to \in SquashTos :
       /\ from # to
       /\ \E p \in ConsolidationPaths(from, to) :
            /\ OverlapsNone(ToSet(p))
            /\ LET c == [parent |-> from, target |-> to, ops |-> EdgesOps(p),
                         slug |-> "squash"]
               IN queue' = <<SquashFile(c, ToSet(p))>> \o ArchiveMoves(p)
  /\ UNCHANGED <<files, theirs, databases, history, crashes>>
-----------------------------------------------------------------------------
(***************************************************************************)
(* rebase                                                                  *)
(***************************************************************************)
Producers(r) == {e \in live : Canon(e.target, remap) = r}

\* ancestorsInclusive, of a canonical revision.
AncestorsInclusive(r) ==
  {a \in {Canon(e.target, remap) : e \in live} : Reachable(a, r, live, remap)}

\* Mutant: off by one, the edge into the fork point is asked for too.
ForkTailsProduced(kept, away) ==
  LET Stops(r) == r \in {Genesis} \union AncestorsInclusive(kept)
                  \/ Producers(r) = {}
      starts == {Canon(e.parent, remap) : e \in live}
  IN {p \in UNION {ForwardPaths(s, away, live, remap) : s \in {x \in starts : Stops(x)}} :
        \A i \in DOMAIN p :
          /\ ~Stops(Canon(p[i].target, remap))
          /\ Cardinality(Producers(Canon(p[i].parent, remap))) = 1}

\* forkTailEdges: back from the head that goes, one producing edge at a time,
\* until the kept branch, genesis or a revision nothing produces.
ForkTails(kept, away) ==
  LET Stops(r) == r \in {Genesis} \union AncestorsInclusive(kept)
                  \/ Producers(r) = {}
      starts == {Canon(e.parent, remap) : e \in live}
  IN {p \in UNION {ForwardPaths(s, away, live, remap) : s \in {x \in starts : Stops(x)}} :
        \A i \in DOMAIN p :
          /\ ~Stops(Canon(p[i].target, remap))
          /\ Cardinality(Producers(Canon(p[i].target, remap))) = 1}

\* Mutants: the new parent does not move on, and the old targets are kept.
ReparentedAtHead(kept, tail) ==
  [i \in DOMAIN tail |->
     [tail[i] EXCEPT !.parent = kept, !.target = Simulate(kept, tail[i].ops)]]

ReparentedUnsimulated(kept, tail) ==
  [i \in DOMAIN tail |-> IF i = 1 THEN [tail[i] EXCEPT !.parent = kept] ELSE tail[i]]

\* The tail's edges over again, from the kept head: same ops, new endpoints.
Reparented(kept, tail) ==
  LET Rev(i) == IF i = 0 THEN kept
                ELSE Simulate(kept, EdgesOps(SubSeq(tail, 1, i)))
  IN [i \in DOMAIN tail |-> [tail[i] EXCEPT !.parent = Rev(i - 1), !.target = Rev(i)]]

\* Mutant: no remap is written.
RebaseWritesNoRemap(tail, new) ==
  FlattenSeq([i \in DOMAIN new |-> <<ManifestFile(new[i].target), EdgeFile(new[i])>>])
    \o ArchiveMoves(tail)

RebaseWrites(tail, new) ==
  FlattenSeq([i \in DOMAIN new |-> <<ManifestFile(new[i].target), EdgeFile(new[i])>>])
    \o ArchiveMoves(tail)
    \o <<RemapFile([r \in {e.target : e \in ToSet(tail)} |->
            new[CHOOSE i \in DOMAIN tail : tail[i].target = r].target])>>

Rebase ==
  /\ "rebase" \in Commands
  /\ queue = <<>>
  /\ Cardinality(FindHeads(live, remap)) = 2
  /\ \E kept \in {e.target : e \in live}, away \in FindHeads(live, remap) :
       /\ FindHeads(live, remap) = {Canon(kept, remap), away}
       /\ \E tail \in ForkTails(Canon(kept, remap), away) :
            queue' = RebaseWrites(tail, Reparented(kept, tail))
  /\ UNCHANGED <<files, theirs, databases, history, crashes>>
-----------------------------------------------------------------------------
(***************************************************************************)
(* Databases: apply asks for a path once and runs its edges in order.       *)
(***************************************************************************)
Told(d) == Verdict(pos[d], remap, live, All)

PathsOf(d) == FindPath(pos[d], remap, live, All, Consolidations)

PlanApply(d) ==
  /\ path[d] = <<>>
  /\ Told(d) = "path"
  /\ path' \in {[path EXCEPT ![d] = p] : p \in PathsOf(d)}
  /\ UNCHANGED <<files, queue, theirs, pos, schema, history, crashes>>

\* Mutant: the position is that of the whole path.
PositionAtEnd(p) == Last(p).target

PositionAfter(p) == Head(p).target

ApplyEdge(d) ==
  /\ path[d] # <<>>
  /\ Runs(schema[d], Head(path[d]).ops)
  /\ pos' = [pos EXCEPT ![d] = PositionAfter(path[d])]
  /\ schema' = [schema EXCEPT ![d] = Simulate(@, Head(path[d]).ops)]
  /\ path' = [path EXCEPT ![d] = Tail(@)]
  /\ UNCHANGED <<files, queue, theirs, history, crashes>>

\* The database refuses an op: a drop of nothing, or a second create.
RefuseEdge(d) ==
  /\ path[d] # <<>>
  /\ ~Runs(schema[d], Head(path[d]).ops)
  /\ path' = [path EXCEPT ![d] = <<>>]
  /\ UNCHANGED <<files, queue, theirs, pos, schema, history, crashes>>

StopApply(d) ==
  /\ path[d] # <<>>
  /\ crashes < MaxCrashes
  /\ crashes' = crashes + 1
  /\ path' = [path EXCEPT ![d] = <<>>]
  /\ UNCHANGED <<files, queue, theirs, pos, schema, history>>
-----------------------------------------------------------------------------
FileNext ==
  \/ WriteNext \/ CutShort
  \/ Generate \/ Squash \/ Rebase
  \/ GenerateTheirs \/ MergeTheirs

DatabaseNext(d) ==
  ApplyTheirs(d) \/ PlanApply(d) \/ ApplyEdge(d) \/ RefuseEdge(d) \/ StopApply(d)

Next == FileNext \/ \E d \in Databases : DatabaseNext(d)

\* A command under way goes on, and databases are migrated now and then.
\* Nobody has to generate, branch, squash or rebase.
Fairness ==
  /\ WF_vars(WriteNext)
  /\ \A d \in Databases : WF_vars(PlanApply(d)) /\ WF_vars(ApplyEdge(d))

Spec == Init /\ [][Next]_vars
FairSpec == Spec /\ Fairness
-----------------------------------------------------------------------------
(***************************************************************************)
(* Properties.                                                              *)
(***************************************************************************)

\* Every variable keeps its type; the writes under way are of known files.
TypeOK ==
  /\ live \subseteq Edges /\ archive \subseteq Edges
  /\ manifests \subseteq Revisions
  /\ Consolidations \subseteq All
  /\ \A c \in Consolidations : supersedes[c] \subseteq Edges
  /\ DOMAIN remap \subseteq Revisions /\ {remap[r] : r \in DOMAIN remap} \subseteq Revisions
  /\ \A i \in DOMAIN queue :
       queue[i].file \in {"manifest", "edge", "squash", "archive", "remap"}
  /\ ToSet(theirs) \subseteq Edges
  /\ pos \in [Databases -> Revisions]
  /\ schema \in [Databases -> Revisions]
  /\ \A d \in Databases : ToSet(path[d]) \subseteq Edges
  /\ wanted \subseteq Edits
  /\ ToSet(published) \subseteq Revisions
  /\ merged \in BOOLEAN
  /\ crashes \in 0..MaxCrashes

\* A rebase has archived, or may have, and not yet written the remap.
Rebasing == \E i \in DOMAIN queue : queue[i].file = "remap"

OnChain(d) == live # {} /\ pos[d] \in {Genesis} \union {e.target : e \in All}

\* A database at a revision of the chain is never told that its position is
\* off the chain: whatever was squashed or rebased away, an archived original
\* or the remap leads it to a live head (FindPath, NoPathError).
ServedThroughout ==
  \A d \in Databases : OnChain(d) /\ ~Rebasing => Told(d) # "noPath"

\* Without branches and commands cut short there is no fork: a squash in the
\* middle of the chain, or one over squashes, leaves one head (ForkError).
NeverForkedAlone ==
  ~merged /\ crashes = 0 => \A d \in Databases : Told(d) # "fork"

\* Every path the path-finder may choose runs on the schema the database
\* has, each drop and create, and ends with the schema of the head.
PathLeadsHome ==
  \A d \in Databases : path[d] = <<>> /\ Told(d) = "path" =>
    \A p \in PathsOf(d) :
      /\ Runs(schema[d], EdgesOps(p))
      /\ Simulate(schema[d], EdgesOps(p)) = Canon(Last(p).target, remap)

\* A database that is told it is up to date has the schema of the head.
UpToDateIsTrue ==
  \A d \in Databases : Told(d) = "upToDate" => schema[d] = Canon(pos[d], remap)

\* No edge is superseded by two consolidations: the tie-break never has two
\* that cover one segment (checkConsolidationDisjoint, verifyConsolidations).
ConsolidationsDisjoint ==
  \A c, k \in Consolidations : c # k => supersedes[c] \intersect supersedes[k] = {}

\* The checker has nothing to report: every edge's endpoints have manifests
\* and its ops lead from the one to the other, what is superseded is still
\* there and, if no command was cut short, superseded once
\* (VerifyChainConsistency).
ChainConsistent ==
  /\ \A e \in All :
       /\ {e.parent, e.target} \subseteq manifests \union {Genesis}
       /\ Reproduces(e)
  /\ \A c \in Consolidations : supersedes[c] \subseteq All
  /\ crashes = 0 => ConsolidationsDisjoint

\* Files are only ever added and moved: no edge leaves the project, none comes
\* back from the archive, no manifest goes, and a remap entry once written is
\* never changed (moveEdgeToArchive, WriteRemap).
NothingForgotten ==
  [][/\ All \subseteq All'
     /\ archive \intersect live' \subseteq live
     /\ manifests \subseteq manifests'
     /\ DOMAIN remap \subseteq DOMAIN remap'
     /\ \A r \in DOMAIN remap : remap'[r] = remap[r]]_files

\* A rebase resolves the fork: with its last write there is one head
\* (RebaseChain).
RebaseResolves ==
  [][remap' # remap => Cardinality(FindHeads(live', remap')) = 1]_files

\* A fork of two heads is never a dead end: one of the two can be kept, and
\* the other has a tail to re-parent (forkTailEdges).
ForkHasTail ==
  queue = <<>> /\ Cardinality(FindHeads(live, remap)) = 2 =>
    \E kept, away \in FindHeads(live, remap) :
      kept # away /\ ForkTails(kept, away) # {}

\* What squashing promises: databases see a line of revisions and walk it
\* forward, wherever they are when files move under them (RevisionLine).
Line == INSTANCE RevisionLine WITH
          line <- <<Genesis>> \o published, at <- schema,
          Objects <- Objects \union {Meta}
ImplementsLine == Line!Spec

\* Every database ends at the head, or is told of a fork and waits for a
\* rebase (ApplyChain after FindPath).
DatabasesArrive ==
  \A d \in Databases : <>[](live = {} \/ Told(d) \in {"upToDate", "fork"})
-----------------------------------------------------------------------------
(***************************************************************************)
(* The parts of the inductive invariants (ChainStoreProofs).                *)
(***************************************************************************)

\* The edges the command under way will write, those it will move, and the
\* chain as it will be when the command is through.
ToWrite == {queue[i].edge : i \in {k \in DOMAIN queue :
                                     queue[k].file \in {"edge", "squash"}}}
ToArchive == {queue[i].edge : i \in {k \in DOMAIN queue :
                                       queue[k].file = "archive"}}
Coming == (live \ ToArchive) \union ToWrite

\* Every edge anybody has.
Known == All \union ToWrite \union ToSet(theirs)

\* The writes still to come, one by one.
WriteOK(w) ==
  /\ w.file = "manifest" => w.rev \in Revisions
  /\ w.file \in {"edge", "squash"} => w.edge \in Edges
  /\ w.file = "squash" => w.over \subseteq All
  /\ w.file = "archive" => w.edge \in All
  /\ w.file = "remap" => /\ DOMAIN w.table \subseteq Revisions
                         /\ \A r \in DOMAIN w.table : w.table[r] \in Revisions

SequencesOK ==
  /\ queue \in Seq(ToSet(queue)) /\ \A i \in DOMAIN queue : WriteOK(queue[i])
  /\ theirs \in Seq(Edges) /\ published \in Seq(Revisions)
  /\ path \in [Databases -> Seq(All)]

\* A manifest is written before the edges that start or end there.
ManifestsFirst ==
  \A i \in DOMAIN queue : queue[i].file \in {"edge", "squash"} =>
    {queue[i].edge.parent, queue[i].edge.target}
      \subseteq manifests \union {Genesis} \union
                {queue[j].rev : j \in {k \in 1..(i - 1) : queue[k].file = "manifest"}}

\* A branch starts at a revision of the main line and goes on from there.
BranchRooted ==
  \A e \in ToSet(theirs) :
    e.parent \in manifests \union {Genesis} \union {f.target : f \in ToSet(theirs)}

Endpoints == \A e \in All : {e.parent, e.target} \subseteq manifests \union {Genesis}

KnownReproduce == \A e \in Known : Reproduces(e)

SupersededKept == \A c \in Consolidations : supersedes[c] \subseteq All

StoreInv ==
  /\ TypeOK /\ SequencesOK
  /\ IsFiniteSet(live) /\ IsFiniteSet(archive)
  /\ Endpoints /\ ManifestsFirst /\ BranchRooted
  /\ KnownReproduce /\ SupersededKept

\* Where nobody rebases, edges run where they start, and a database has the
\* schema of its revision and follows edges from there.
EdgesRun == \A e \in Known : Runs(e.parent, e.ops)
AtRevision == \A d \in Databases : schema[d] = pos[d]
PathsFollow ==
  \A d \in Databases : path[d] # <<>> =>
    /\ path[d][1].parent = pos[d]
    /\ \A i \in 1..(Len(path[d]) - 1) : path[d][i].target = path[d][i + 1].parent
NoRemaps == remap = NoRemap /\ \A i \in DOMAIN queue : queue[i].file # "remap"

PlainInv == NoRemaps /\ EdgesRun /\ AtRevision /\ PathsFollow

\* A command writes at most one edge, first, and then moves live edges, each once.
WritesInOrder ==
  /\ \A i \in DOMAIN queue : queue[i].file \in {"edge", "squash"} =>
       /\ \A j \in 1..(i - 1) : queue[j].file = "manifest"
       /\ \A j \in DOMAIN queue : j > i => queue[j].file = "archive"
  /\ \A i, j \in DOMAIN queue :
       queue[i].file = "archive" /\ queue[j].file = "archive" =>
         /\ queue[i].edge \in live
         /\ queue[i].edge = queue[j].edge => i = j
  /\ ToWrite \intersect ToArchive = {}

\* A set of edges that leaves no revision twice, and enters every revision it
\* leaves, genesis excepted, once: all but one edge, the last.  (The last may
\* enter one again, when a schema returns; otherwise its target is the head.)
LastOf(last, edges) ==
  /\ last \in edges
  /\ \A e, f \in edges \ {last} : e.target = f.target => e = f
  /\ {e.target : e \in edges \ {last}} = {e.parent : e \in edges} \ {Genesis}

OneLine(edges) ==
  edges # {} =>
    /\ \A e, f \in edges : e.parent = f.parent => e = f
    /\ \E last \in edges : LastOf(last, edges)

\* What a squash moves away is a stretch of the chain, in order.
StretchMoves ==
  \A i \in DOMAIN queue : queue[i].file = "archive" =>
    \/ \E e \in Coming : e.target = queue[i].edge.target
    \/ /\ i + 1 \in DOMAIN queue /\ queue[i + 1].file = "archive"
       /\ queue[i + 1].edge.parent = queue[i].edge.target

Alone ==
  /\ NoRemaps /\ WritesInOrder /\ StretchMoves
  /\ \A e \in Known : e.ops # <<>>
  /\ OneLine(Coming)
  /\ ToWrite # {} => OneLine(live)

AloneInv == ~merged /\ crashes = 0 => Alone

\* No schema returns: every edit that runs takes a schema up in rank.
NothingReturns(rank) ==
  \A r \in Revisions, edit \in Edits :
    Runs(r, <<edit>>) => rank[r] < rank[Simulate(r, <<edit>>)]

\* So do edges then.
Rises(rank) == \A e \in Known : rank[e.parent] < rank[e.target]

\* The first edge there is, on disk or to come, starts from genesis.
Begins ==
  /\ All # {} => \E e \in All : e.parent = Genesis
  /\ All = {} => /\ \A e \in ToWrite : e.parent = Genesis
                 /\ theirs # <<>> => \E e \in ToSet(theirs) : e.parent = Genesis

\* Where an edge ends another one starts or a live one ends.
LedOn ==
  \A e \in All : \/ \E f \in All : f.parent = e.target
                 \/ \E f \in live : f.target = e.target

ForwardInv(rank) ==
  WritesInOrder /\ StretchMoves /\ Rises(rank) /\ Begins /\ LedOn

\* Without branches, edges end at the revisions of the line, which rises,
\* and the one that is being generated ends above them all.
LineInv(rank) ==
  /\ theirs = <<>>
  /\ ToSet(published) = {e.target : e \in All}
  /\ \A i \in DOMAIN queue :
       /\ queue[i].file = "squash" => queue[i].edge.target \in ToSet(published)
       /\ queue[i].file = "edge" =>
            \A r \in {Genesis} \union ToSet(published) : rank[r] < rank[queue[i].edge.target]
  /\ \A i, j \in DOMAIN published : i < j => rank[published[i]] < rank[published[j]]
  /\ \A r \in ToSet(published) : rank[Genesis] < rank[r]
  /\ \A d \in Databases : pos[d] \in {Genesis} \union ToSet(published)

\* Which edits an edge makes, and which no edge makes yet, the one that is
\* being written included.
Uses(e) == ToSet(e.ops)
Unused == wanted \ UNION {Uses(queue[i].edge) : i \in {k \in DOMAIN queue :
                                                       queue[k].file = "edge"}}

\* Every edit is made by one edge of the chain, or of the branch; what is
\* archived, or about to be, makes some of the edits of an edge that makes more.
EditsOnce ==
  /\ \A e \in Known : e.ops # <<>> /\ Uses(e) \intersect Unused = {}
  /\ \A e, f \in Coming : e # f => Uses(e) \intersect Uses(f) = {}
  /\ \A e \in All \union ToWrite, t \in ToSet(theirs) : Uses(e) \intersect Uses(t) = {}
  /\ \A s, t \in ToSet(theirs) : s # t => Uses(s) \intersect Uses(t) = {}
  /\ \A a \in All \ Coming : \E c \in Coming :
       Uses(a) \subseteq Uses(c) /\ Uses(a) # Uses(c)

\* An edge is in one place, and is superseded once.
EdgesOnce ==
  /\ ToWrite \intersect All = {} /\ live \intersect archive = {}
  /\ \A c \in Consolidations : supersedes[c] \subseteq All \ Coming
  /\ \A i \in DOMAIN queue : queue[i].file = "squash" =>
       /\ queue[i].over \subseteq ToArchive
       /\ \A c \in Consolidations : supersedes[c] \intersect queue[i].over = {}
  /\ ConsolidationsDisjoint

\* Where nobody rebases and no command is cut short.
EditsInv == crashes = 0 => WritesInOrder /\ EditsOnce /\ EdgesOnce
=============================================================================

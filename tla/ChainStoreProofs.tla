-------------------------- MODULE ChainStoreProofs --------------------------
(***************************************************************************)
(* Proofs about ChainStore: what the files of a project say of each other  *)
(* after any sequence of generate, branch, squash and rebase, and what that *)
(* means for the databases migrated along them.                            *)
(***************************************************************************)
EXTENDS ChainStore, ChainGraphProofs

-----------------------------------------------------------------------------
(***************************************************************************)
(* Sequences, edges and the queue.                                         *)
(***************************************************************************)

\* What a sequence is made of.
LEMMA OwnElements ==
  ASSUME NEW S, NEW q \in Seq(S)
  PROVE  /\ q \in Seq(ToSet(q)) /\ ToSet(q) \subseteq S
         /\ \A i \in 1..Len(q) : q[i] \in ToSet(q) /\ q[i] \in S
         /\ DOMAIN q = 1..Len(q) /\ Len(q) \in Nat
BY DEF ToSet

\* What is left of a sequence without its head.
LEMMA TailElements ==
  ASSUME NEW S, NEW q \in Seq(S), q # <<>>
  PROVE  /\ Tail(q) \in Seq(S) /\ Tail(q) \in Seq(ToSet(Tail(q)))
         /\ Head(q) = q[1] /\ 1 \in DOMAIN q /\ Head(q) \in S
         /\ DOMAIN q = 1..Len(q) /\ DOMAIN Tail(q) = 1..(Len(q) - 1)
         /\ Len(q) \in Nat /\ Len(Tail(q)) = Len(q) - 1
         /\ \A i \in DOMAIN Tail(q) : i + 1 \in DOMAIN q /\ Tail(q)[i] = q[i + 1]
         /\ ToSet(Tail(q)) \subseteq ToSet(q)
<1>1. /\ Tail(q) \in Seq(S) /\ Head(q) = q[1] /\ 1 \in DOMAIN q /\ Head(q) \in S
      /\ DOMAIN q = 1..Len(q) /\ DOMAIN Tail(q) = 1..(Len(q) - 1)
      /\ Len(q) \in Nat /\ Len(Tail(q)) = Len(q) - 1
  OBVIOUS
<1>2. ASSUME NEW i \in DOMAIN Tail(q)
      PROVE  i + 1 \in DOMAIN q /\ Tail(q)[i] = q[i + 1]
  OBVIOUS
<1>3. Tail(q) \in Seq(ToSet(Tail(q)))
  BY <1>1, OwnElements
<1>4. ToSet(Tail(q)) \subseteq ToSet(q)
  BY <1>2 DEF ToSet
<1> QED
  BY <1>1, <1>2, <1>3, <1>4

\* The elements of a sequence that is one longer.
LEMMA AppendElements ==
  ASSUME NEW S, NEW q \in Seq(S), NEW x \in S
  PROVE  /\ Append(q, x) \in Seq(S) /\ ToSet(Append(q, x)) = ToSet(q) \union {x}
<1> DEFINE a == Append(q, x)
<1>1. /\ a \in Seq(S) /\ Len(a) = Len(q) + 1 /\ Len(q) \in Nat
      /\ DOMAIN a = 1..(Len(q) + 1) /\ DOMAIN q = 1..Len(q)
      /\ a[Len(q) + 1] = x /\ \A i \in 1..Len(q) : a[i] = q[i]
  OBVIOUS
<1>2. ToSet(a) \subseteq ToSet(q) \union {x}
  <2>1. ASSUME NEW i \in DOMAIN a PROVE a[i] \in ToSet(q) \union {x}
    <3>1. i \in DOMAIN q \/ i = Len(q) + 1
      BY <1>1
    <3> HIDE DEF a
    <3> QED
      BY <1>1, <3>1 DEF ToSet
  <2> HIDE DEF a
  <2> QED
    BY <2>1 DEF ToSet
<1>3. ToSet(q) \union {x} \subseteq ToSet(a)
  <2>1. \A i \in DOMAIN q : i \in DOMAIN a
    BY <1>1
  <2>2. Len(q) + 1 \in DOMAIN a
    BY <1>1
  <2> HIDE DEF a
  <2> QED
    BY <1>1, <2>1, <2>2 DEF ToSet
<1> QED
  BY <1>1, <1>2, <1>3

\* The elements of a sequence are finitely many.
LEMMA ElementsFinite ==
  ASSUME NEW S, NEW q \in Seq(S)
  PROVE  IsFiniteSet(ToSet(q))
<1>1. DOMAIN q = 1..Len(q) /\ Len(q) \in Nat
  OBVIOUS
<1>2. IsFiniteSet(DOMAIN q)
  BY <1>1, FS_Interval
<1>3. q \in Surjection(DOMAIN q, ToSet(q))
  BY <1>1 DEF Surjection, ToSet
<1> QED
  BY <1>2, <1>3, FS_Surjection

\* The fields of an edge.
LEMMA EdgeFields ==
  ASSUME NEW e \in Edges
  PROVE  /\ e.parent \in Revisions /\ e.target \in Revisions /\ e.target # Genesis
         /\ e.ops \in Seq(Changes)
BY DEF Edges

\* Genesis is the revision of no schema.
LEMMA GenesisRevision == Genesis \in Revisions
BY DEF Genesis, Revisions

\* Every edge there is has its type.
LEMMA KnownEdges ==
  ASSUME TypeOK, SequencesOK
  PROVE  Known \subseteq Edges
BY DEF TypeOK, SequencesOK, WriteOK, Known, All, ToWrite

\* Entries of the first table win.
LEMMA MergeEntries ==
  ASSUME NEW f, NEW g
  PROVE  /\ DOMAIN Merge(f, g) = DOMAIN f \union DOMAIN g
         /\ \A r \in DOMAIN f : Merge(f, g)[r] = f[r]
         /\ \A r \in DOMAIN g \ DOMAIN f : Merge(f, g)[r] = g[r]
BY DEF Merge

-----------------------------------------------------------------------------
(***************************************************************************)
(* The invariant of the files, whatever commands are used and cut short.   *)
(***************************************************************************)

\* It holds at the start.
LEMMA InitStore == Init => StoreInv
<1> SUFFICES ASSUME Init PROVE StoreInv
  OBVIOUS
<1> USE DEF Init
<1>1. <<>> \in Seq({}) /\ <<>> \in Seq(Edges) /\ <<>> \in Seq(Revisions)
      /\ DOMAIN <<>> = {}
  OBVIOUS
<1>2. TypeOK
  <2>1. DOMAIN NoRemap = {}
    BY DEF NoRemap
  <2>2. \A d \in Databases : ToSet(path[d]) = {}
    BY <1>1 DEF ToSet
  <2>3. ToSet(theirs) = {} /\ ToSet(published) = {}
    BY <1>1 DEF ToSet
  <2>4. pos \in [Databases -> Revisions] /\ schema \in [Databases -> Revisions]
    BY GenesisRevision
  <2>5. crashes \in 0..MaxCrashes
    BY BoundsAssumption DEF BoundsAssumption
  <2> QED
    BY <1>1, <2>1, <2>2, <2>3, <2>4, <2>5 DEF TypeOK, Consolidations, All
<1>3. SequencesOK
  BY <1>1 DEF SequencesOK, ToSet, All
<1>4. IsFiniteSet(live) /\ IsFiniteSet(archive)
  BY FS_EmptySet
<1>5. Endpoints /\ ManifestsFirst /\ BranchRooted /\ KnownReproduce /\ SupersededKept
  BY <1>1 DEF Endpoints, ManifestsFirst, BranchRooted, KnownReproduce,
              SupersededKept, Known, All, ToWrite, ToSet, Consolidations, NoRemap
<1> QED
  BY <1>2, <1>3, <1>4, <1>5 DEF StoreInv

\* A step of a database leaves the files' part of the invariant alone.
LEMMA FilesUntouched ==
  ASSUME StoreInv, UNCHANGED <<files, queue, theirs, wanted, published, merged>>,
         path' \in [Databases -> Seq(All)],
         pos' \in [Databases -> Revisions], schema' \in [Databases -> Revisions],
         crashes' \in 0..MaxCrashes
  PROVE  StoreInv'
<1> USE DEF StoreInv, files
<1>1. All' = All /\ ToWrite' = ToWrite /\ Known' = Known /\ Consolidations' = Consolidations
  BY DEF All, ToWrite, Known, Consolidations
<1>2. \A d \in Databases : ToSet(path'[d]) \subseteq Edges
  <2>1. All \subseteq Edges
    BY DEF TypeOK, All
  <2> QED
    BY <2>1, OwnElements
<1>3. TypeOK'
  BY <1>1, <1>2 DEF TypeOK
<1>4. SequencesOK'
  BY <1>1 DEF SequencesOK, WriteOK
<1>5. Endpoints' /\ ManifestsFirst' /\ BranchRooted' /\ KnownReproduce' /\ SupersededKept'
  BY <1>1 DEF Endpoints, ManifestsFirst, BranchRooted, KnownReproduce, SupersededKept,
              Reproduces
<1> QED
  BY <1>3, <1>4, <1>5

\* A sequence over a set is one over a larger set.
LEMMA LargerSet ==
  ASSUME NEW S, NEW T, S \subseteq T, NEW q \in Seq(S)
  PROVE  q \in Seq(T)
OBVIOUS

\* No write is under way, and a command with these writes begins.
LEMMA StartKeepsStore ==
  ASSUME StoreInv, queue = <<>>,
         UNCHANGED <<files, theirs, databases, history, crashes>>,
         NEW S, queue' \in Seq(S),
         \A i \in DOMAIN queue' :
           /\ queue'[i].file \in {"manifest", "edge", "squash", "archive", "remap"}
           /\ WriteOK(queue'[i])
           /\ queue'[i].file \in {"edge", "squash"} =>
                /\ Reproduces(queue'[i].edge)
                /\ {queue'[i].edge.parent, queue'[i].edge.target}
                     \subseteq manifests \union {Genesis} \union
                       {queue'[j].rev :
                          j \in {k \in 1..(i - 1) : queue'[k].file = "manifest"}}
  PROVE  StoreInv'
<1> USE DEF StoreInv, files, databases, history
<1>1. All' = All /\ Consolidations' = Consolidations
  BY DEF All, Consolidations
<1>2. TypeOK'
  BY <1>1 DEF TypeOK
<1>3. \A i \in DOMAIN queue' : WriteOK(queue[i])'
  BY <1>1 DEF WriteOK
<1>4. queue' \in Seq(ToSet(queue'))
  BY OwnElements
<1>5. SequencesOK'
  BY <1>1, <1>3, <1>4 DEF SequencesOK
<1>6. KnownReproduce'
  <2>1. \A e \in ToWrite' : Reproduces(e)
    BY DEF ToWrite
  <2>2. \A e \in Known : Reproduces(e)
    BY DEF KnownReproduce
  <2>3. Known' \subseteq Known \union ToWrite'
    BY <1>1 DEF Known
  <2> QED
    BY <2>1, <2>2, <2>3 DEF KnownReproduce
<1>7. ManifestsFirst'
  BY DEF ManifestsFirst
<1>8. Endpoints' /\ BranchRooted' /\ SupersededKept'
  BY <1>1 DEF Endpoints, BranchRooted, SupersededKept
<1> QED
  BY <1>2, <1>5, <1>6, <1>7, <1>8

\* A head is genesis or the target of an edge.
LEMMA HeadsAreTargets ==
  ASSUME NEW edges, NEW head \in ChainHeads(edges)
  PROVE  head \in {Genesis} \union {e.target : e \in edges}
BY CanonPlain DEF ChainHeads, FindHeads

\* The edge that makes an edit.
LEMMA GeneratedEdge ==
  ASSUME NEW r \in Revisions, NEW edit \in Edits
  PROVE  LET e == EdgeFrom(r, edit) IN
           /\ e \in Edges /\ Reproduces(e)
           /\ e.parent = r /\ e.ops = <<edit>> /\ e.target # Genesis
           /\ e.target = Simulate(r, <<edit>>)
<1>1. edit \in Changes /\ <<edit>> \in Seq(Changes)
  BY EditsAssumption DEF EditsAssumption
<1>2. Simulate(r, <<edit>>) \in Revisions \ {Genesis}
  BY <1>1, SimulateTyped
<1> QED
  BY <1>1, <1>2 DEF EdgeFrom, Edges, Reproduces

\* generate.
LEMMA GenerateKeepsStore ==
  ASSUME StoreInv, Generate
  PROVE  StoreInv'
<1>1. PICK head \in ChainHeads(live), edit \in wanted :
        queue' = GenerateWrites(EdgeFrom(head, edit))
  BY DEF Generate
<1> DEFINE e == EdgeFrom(head, edit)
<1>2. head \in Revisions /\ head \in manifests \union {Genesis}
  BY HeadsAreTargets, GenesisRevision, EdgeFields
    DEF StoreInv, TypeOK, Endpoints, All
<1>3. /\ e \in Edges /\ Reproduces(e) /\ e.parent = head
      /\ e.target \in Revisions
  <2>1. edit \in Edits
    BY DEF StoreInv, TypeOK
  <2> QED
    BY <1>2, <2>1, GeneratedEdge, EdgeFields
<1> DEFINE q == <<ManifestFile(e.target), EdgeFile(e)>>
<1>4. queue' = q
  BY <1>1 DEF GenerateWrites
<1> HIDE DEF e
<1>5. /\ q \in Seq({ManifestFile(e.target), EdgeFile(e)})
      /\ DOMAIN q = {1, 2} /\ q[1] = ManifestFile(e.target) /\ q[2] = EdgeFile(e)
  BY DEF ManifestFile, EdgeFile
<1>6. /\ q[1].file = "manifest" /\ q[1].rev = e.target
      /\ q[2].file = "edge" /\ q[2].edge = e
  BY DEF ManifestFile, EdgeFile
<1> HIDE DEF q
<1>7. \A i \in DOMAIN q : WriteOK(q[i])
  BY <1>3, <1>5, <1>6 DEF WriteOK
<1>8. {e.parent, e.target}
        \subseteq manifests \union {Genesis} \union
          {q[j].rev : j \in {k \in 1..(2 - 1) : q[k].file = "manifest"}}
  <2>1. 1 \in 1..(2 - 1)
    OBVIOUS
  <2>2. e.target \in {q[j].rev : j \in {k \in 1..(2 - 1) : q[k].file = "manifest"}}
    BY <1>6, <2>1
  <2> QED
    BY <1>2, <1>3, <2>2
<1>9. \A i \in DOMAIN q :
        /\ q[i].file \in {"manifest", "edge", "squash", "archive", "remap"}
        /\ q[i].file \in {"edge", "squash"} => i = 2
  BY <1>5, <1>6
<1>10. UNCHANGED <<files, theirs, databases, history, crashes>> /\ queue = <<>>
  BY DEF Generate
<1> QED
  BY <1>3, <1>4, <1>5, <1>6, <1>7, <1>8, <1>9, <1>10, StartKeepsStore

\* A colleague generates an edge on a branch.
LEMMA GenerateTheirsKeepsStore ==
  ASSUME StoreInv, GenerateTheirs
  PROVE  StoreInv'
<1> USE DEF StoreInv
<1> DEFINE bases == IF theirs = <<>> THEN ChainHeads(live) ELSE {Last(theirs).target}
<1>1. PICK head \in bases, edit \in wanted :
        theirs' = Append(theirs, EdgeFrom(head, edit))
  BY DEF GenerateTheirs
<1>2. theirs \in Seq(Edges)
  BY DEF SequencesOK
<1>3. /\ head \in Revisions
      /\ head \in manifests \union {Genesis} \union {f.target : f \in ToSet(theirs)}
  <2>1. CASE theirs = <<>>
    BY <2>1, HeadsAreTargets, GenesisRevision, EdgeFields
      DEF TypeOK, Endpoints, All
  <2>2. CASE theirs # <<>>
    <3>1. Last(theirs) \in ToSet(theirs) /\ Last(theirs) \in Edges
      <4>1. Len(theirs) \in 1..Len(theirs)
        BY <1>2, <2>2
      <4> QED
        BY <1>2, <4>1, OwnElements DEF Last
    <3> QED
      BY <2>2, <3>1, EdgeFields
  <2> QED
    BY <2>1, <2>2
<1> DEFINE e == EdgeFrom(head, edit)
<1>4. e \in Edges /\ Reproduces(e) /\ e.parent = head
  <2>1. edit \in Edits
    BY DEF TypeOK
  <2> QED
    BY <1>3, <2>1, GeneratedEdge
<1> HIDE DEF e
<1>5. theirs' = Append(theirs, e)
  BY <1>1 DEF e
<1>6. theirs' \in Seq(Edges) /\ ToSet(theirs') = ToSet(theirs) \union {e}
  BY <1>2, <1>4, <1>5, AppendElements
<1>7. UNCHANGED <<files, queue, databases, published, merged, crashes>>
      /\ wanted' \subseteq wanted
  BY DEF GenerateTheirs
<1> USE DEF files, databases
<1>8. All' = All /\ ToWrite' = ToWrite /\ Consolidations' = Consolidations
  BY <1>7 DEF All, ToWrite, Consolidations
<1>9. TypeOK'
  BY <1>2, <1>4, <1>6, <1>7, <1>8 DEF TypeOK
<1>10. SequencesOK'
  BY <1>6, <1>7, <1>8 DEF SequencesOK, WriteOK
<1>11. KnownReproduce'
  <2>1. Known' = Known \union {e}
    BY <1>6, <1>8 DEF Known
  <2>2. \A f \in Known : Reproduces(f)
    BY DEF KnownReproduce
  <2>3. \A f \in Known' : Reproduces(f)
    BY <1>4, <2>1, <2>2
  <2> QED
    BY <2>3 DEF KnownReproduce
<1>12. BranchRooted'
  BY <1>3, <1>4, <1>6, <1>7 DEF BranchRooted
<1>13. Endpoints' /\ ManifestsFirst' /\ SupersededKept'
  BY <1>7, <1>8 DEF Endpoints, ManifestsFirst, SupersededKept
<1> QED
  BY <1>7, <1>9, <1>10, <1>11, <1>12, <1>13

\* The branch is merged.
LEMMA MergeTheirsKeepsStore ==
  ASSUME StoreInv, MergeTheirs
  PROVE  StoreInv'
<1> USE DEF StoreInv, databases
<1>1. /\ live' = live \union ToSet(theirs) /\ theirs' = <<>> /\ merged' = TRUE
      /\ manifests' = manifests \union {e.target : e \in ToSet(theirs)}
      /\ UNCHANGED <<archive, supersedes, remap, queue, databases, wanted,
                     published, crashes>>
  BY DEF MergeTheirs
<1>2. theirs \in Seq(Edges) /\ ToSet(theirs) \subseteq Edges
      /\ theirs' \in Seq(Edges) /\ ToSet(theirs') = {}
  BY <1>1 DEF SequencesOK, TypeOK, ToSet
<1>3. /\ All' = All \union ToSet(theirs) /\ ToWrite' = ToWrite
      /\ Consolidations' = Consolidations
  BY <1>1 DEF All, ToWrite, Consolidations
<1>4. TypeOK'
  BY <1>1, <1>2, <1>3, EdgeFields DEF TypeOK
<1>5. SequencesOK'
  <2>1. path' \in [Databases -> Seq(All')]
    BY <1>1, <1>3, LargerSet DEF SequencesOK
  <2> QED
    BY <1>1, <1>2, <1>3, <2>1 DEF SequencesOK, WriteOK
<1>6. IsFiniteSet(live)' /\ IsFiniteSet(archive)'
  BY <1>1, <1>2, ElementsFinite, FS_Union
<1>7. KnownReproduce'
  <2>1. Known' \subseteq Known
    BY <1>2, <1>3 DEF Known
  <2>2. \A f \in Known : Reproduces(f)
    BY DEF KnownReproduce
  <2> QED
    BY <2>1, <2>2 DEF KnownReproduce
<1>8. Endpoints'
  BY <1>1, <1>3 DEF Endpoints, BranchRooted
<1>9. BranchRooted' /\ ManifestsFirst' /\ SupersededKept'
  BY <1>1, <1>2, <1>3 DEF BranchRooted, ManifestsFirst, SupersededKept
<1> QED
  BY <1>4, <1>5, <1>6, <1>7, <1>8, <1>9

\* A command is cut short.
LEMMA CutShortKeepsStore ==
  ASSUME StoreInv, CutShort
  PROVE  StoreInv'
<1> USE DEF StoreInv, files, databases, history
<1>1. /\ UNCHANGED <<files, theirs, databases, history>> /\ queue' = <<>>
      /\ crashes' = crashes + 1 /\ crashes < MaxCrashes
  BY DEF CutShort
<1>2. DOMAIN queue' = {} /\ queue' \in Seq(ToSet(queue'))
  BY <1>1
<1>3. /\ All' = All /\ ToWrite' = {} /\ Consolidations' = Consolidations
      /\ Known' \subseteq Known
  BY <1>1, <1>2 DEF All, ToWrite, Consolidations, Known
<1>4. crashes' \in 0..MaxCrashes
  BY <1>1, BoundsAssumption DEF TypeOK, BoundsAssumption
<1>5. TypeOK'
  BY <1>1, <1>2, <1>3, <1>4 DEF TypeOK
<1>6. SequencesOK'
  BY <1>1, <1>2, <1>3 DEF SequencesOK
<1>7. KnownReproduce'
  <2>1. \A f \in Known : Reproduces(f)
    BY DEF KnownReproduce
  <2> QED
    BY <1>3, <2>1 DEF KnownReproduce
<1>8. Endpoints' /\ BranchRooted' /\ ManifestsFirst' /\ SupersededKept'
  BY <1>1, <1>2, <1>3 DEF Endpoints, BranchRooted, ManifestsFirst, SupersededKept
<1> QED
  BY <1>1, <1>5, <1>6, <1>7, <1>8

\* What is left to write after a write.
LEMMA QueueAfterWrite ==
  ASSUME SequencesOK, queue # <<>>, queue' = Tail(queue)
  PROVE  /\ queue[1] = Head(queue) /\ 1 \in DOMAIN queue
         /\ queue' \in Seq(ToSet(queue')) /\ Len(queue) \in Nat
         /\ DOMAIN queue = 1..Len(queue) /\ DOMAIN queue' = 1..(Len(queue) - 1)
         /\ \A i \in DOMAIN queue' : i + 1 \in DOMAIN queue /\ queue'[i] = queue[i + 1]
         /\ \A i \in DOMAIN queue : i = 1 \/ i - 1 \in DOMAIN queue'
         /\ ToWrite' \subseteq ToWrite /\ ToArchive' \subseteq ToArchive
<1> DEFINE S == ToSet(queue)
<1>1. queue \in Seq(S)
  BY DEF SequencesOK
<1>2. /\ queue[1] = Head(queue) /\ 1 \in DOMAIN queue
      /\ queue' \in Seq(ToSet(queue')) /\ Len(queue) \in Nat
      /\ DOMAIN queue = 1..Len(queue) /\ DOMAIN queue' = 1..(Len(queue) - 1)
      /\ \A i \in DOMAIN queue' : i + 1 \in DOMAIN queue /\ queue'[i] = queue[i + 1]
  <2> HIDE DEF S
  <2> QED
    BY <1>1, TailElements
<1>3. \A i \in DOMAIN queue : i = 1 \/ i - 1 \in DOMAIN queue'
  BY <1>2
<1>4. ToWrite' \subseteq ToWrite /\ ToArchive' \subseteq ToArchive
  BY <1>2 DEF ToWrite, ToArchive
<1> QED
  BY <1>2, <1>3, <1>4

\* The next write of a command.
LEMMA WriteNextKeepsStore ==
  ASSUME StoreInv, WriteNext
  PROVE  StoreInv'
<1> USE DEF StoreInv, databases
<1> DEFINE w == Head(queue)
<1>1. /\ queue # <<>> /\ queue' = Tail(queue)
      /\ UNCHANGED <<theirs, databases, merged, crashes>>
  BY DEF WriteNext
<1>2. /\ queue[1] = Head(queue) /\ 1 \in DOMAIN queue
      /\ queue' \in Seq(ToSet(queue')) /\ Len(queue) \in Nat
      /\ DOMAIN queue = 1..Len(queue) /\ DOMAIN queue' = 1..(Len(queue) - 1)
      /\ \A i \in DOMAIN queue' : i + 1 \in DOMAIN queue /\ queue'[i] = queue[i + 1]
      /\ ToWrite' \subseteq ToWrite
  BY <1>1, QueueAfterWrite
<1>3. WriteOK(w) /\ All \subseteq Edges
  BY <1>2 DEF SequencesOK, TypeOK, All
\* The files after the write, in terms of those before.
<1>4. /\ live' \subseteq Edges /\ archive' \subseteq Edges /\ manifests' \subseteq Revisions
      /\ IsFiniteSet(live') /\ IsFiniteSet(archive')
      /\ All \subseteq All' /\ All' \subseteq All \union ToWrite
      /\ manifests \subseteq manifests'
      /\ w.file = "manifest" => w.rev \in manifests'
      /\ wanted' \subseteq wanted
      /\ published' \in Seq(Revisions)
      /\ All' # All => /\ w.file \in {"edge", "squash"}
                       /\ All' = All \union {w.edge}
  <2>1. CASE w.file = "manifest"
    BY <1>3, <2>1 DEF WriteNext, WriteOK, TypeOK, All, SequencesOK
  <2>2. CASE w.file = "edge"
    <3>1. w.edge \in Edges /\ w.edge.target \in Revisions /\ w.edge \in ToWrite
      BY <1>2, <1>3, <2>2, EdgeFields DEF WriteOK, ToWrite
    <3>2. live' = live \union {w.edge} /\ archive' = archive /\ manifests' = manifests
          /\ published' = Append(published, w.edge.target) /\ wanted' \subseteq wanted
      BY <2>2 DEF WriteNext
    <3>3. published' \in Seq(Revisions)
      BY <3>1, <3>2 DEF SequencesOK
    <3>4. IsFiniteSet(live')
      BY <3>2, FS_AddElement
    <3> QED
      BY <2>2, <3>1, <3>2, <3>3, <3>4 DEF TypeOK, All
  <2>3. CASE w.file = "squash"
    <3>1. w.edge \in Edges /\ w.edge \in ToWrite
      BY <1>2, <1>3, <2>3 DEF WriteOK, ToWrite
    <3>2. live' = live \union {w.edge} /\ archive' = archive /\ manifests' = manifests
          /\ published' = published /\ wanted' = wanted
      BY <2>3 DEF WriteNext
    <3>3. IsFiniteSet(live')
      BY <3>2, FS_AddElement
    <3> QED
      BY <2>3, <3>1, <3>2, <3>3 DEF TypeOK, All, SequencesOK
  <2>4. CASE w.file = "archive"
    <3>1. w.edge \in All
      BY <1>3, <2>4 DEF WriteOK
    <3>2. live' = live \ {w.edge} /\ archive' = archive \union {w.edge}
          /\ manifests' = manifests /\ published' = published /\ wanted' = wanted
      BY <2>4 DEF WriteNext, Archived
    <3>3. IsFiniteSet(live') /\ IsFiniteSet(archive')
      BY <3>2, FS_AddElement, FS_RemoveElement
    <3>4. All' = All
      BY <3>1, <3>2 DEF All
    <3> QED
      BY <1>3, <2>4, <3>1, <3>2, <3>3, <3>4 DEF TypeOK, SequencesOK, All
  <2>5. CASE w.file = "remap"
    BY <1>3, <2>5 DEF WriteNext, WriteOK, TypeOK, All, SequencesOK
  <2> QED
    BY <2>1, <2>2, <2>3, <2>4, <2>5 DEF WriteNext
\* The tables after the write.
<1>5. /\ DOMAIN supersedes' \subseteq All'
      /\ \A c \in DOMAIN supersedes' : supersedes'[c] \subseteq All
  <2>1. CASE w.file = "squash"
    <3> DEFINE one == [e \in {w.edge} |-> w.over]
    <3>1. /\ supersedes' = Merge(one, supersedes) /\ w.edge \in live'
          /\ w.over \subseteq All
      BY <1>3, <2>1 DEF WriteNext, WriteOK
    <3>2. /\ DOMAIN Merge(one, supersedes) = {w.edge} \union DOMAIN supersedes
          /\ Merge(one, supersedes)[w.edge] = w.over
          /\ \A c \in DOMAIN supersedes \ {w.edge} :
               Merge(one, supersedes)[c] = supersedes[c]
      <4>1. DOMAIN one = {w.edge} /\ one[w.edge] = w.over
        OBVIOUS
      <4> HIDE DEF one, w
      <4>2. /\ DOMAIN Merge(one, supersedes) = DOMAIN one \union DOMAIN supersedes
            /\ \A c \in DOMAIN one : Merge(one, supersedes)[c] = one[c]
            /\ \A c \in DOMAIN supersedes \ DOMAIN one :
                 Merge(one, supersedes)[c] = supersedes[c]
        BY MergeEntries
      <4> QED
        BY <4>1, <4>2
    <3> HIDE DEF one, w
    <3> QED
      BY <1>4, <3>1, <3>2 DEF TypeOK, SupersededKept, Consolidations, All
  <2>2. CASE w.file # "squash"
    BY <1>4, <2>2 DEF WriteNext, TypeOK, SupersededKept, Consolidations
  <2> QED
    BY <2>1, <2>2
<1>6. /\ DOMAIN remap' \subseteq Revisions
      /\ {remap'[r] : r \in DOMAIN remap'} \subseteq Revisions
  <2>1. CASE w.file = "remap"
    <3>1. /\ remap' = Merge(remap, w.table) \/ remap' = remap
          /\ DOMAIN w.table \subseteq Revisions
          /\ \A r \in DOMAIN w.table : w.table[r] \in Revisions
      BY <1>3, <2>1 DEF WriteNext, WriteOK
    <3>2. /\ DOMAIN remap \subseteq Revisions
          /\ \A r \in DOMAIN remap : remap[r] \in Revisions
      BY DEF TypeOK
    <3>3. CASE remap' = Merge(remap, w.table)
      <4> DEFINE t == w.table
      <4>1. /\ DOMAIN remap' = DOMAIN remap \union DOMAIN t
            /\ \A r \in DOMAIN remap : remap'[r] = remap[r]
            /\ \A r \in DOMAIN t \ DOMAIN remap : remap'[r] = t[r]
        <5>1. remap' = Merge(remap, t)
          BY <3>3
        <5>2. /\ DOMAIN Merge(remap, t) = DOMAIN remap \union DOMAIN t
              /\ \A r \in DOMAIN remap : Merge(remap, t)[r] = remap[r]
              /\ \A r \in DOMAIN t \ DOMAIN remap : Merge(remap, t)[r] = t[r]
          <6> HIDE DEF t
          <6> QED
            BY MergeEntries
        <5> HIDE DEF t
        <5> QED
          BY <5>1, <5>2
      <4>2. DOMAIN t \subseteq Revisions /\ \A r \in DOMAIN t : t[r] \in Revisions
        BY <3>1
      <4> HIDE DEF t
      <4> QED
        BY <3>2, <4>1, <4>2
    <3> QED
      BY <3>1, <3>2, <3>3
  <2>2. CASE w.file # "remap"
    BY <2>2 DEF WriteNext, TypeOK
  <2> QED
    BY <2>1, <2>2
<1> HIDE DEF w
<1>7. TypeOK'
  <2>1. \A i \in DOMAIN queue' :
          queue'[i].file \in {"manifest", "edge", "squash", "archive", "remap"}
    BY <1>2 DEF TypeOK
  <2>2. ToSet(published') \subseteq Revisions
    BY <1>4, OwnElements
  <2>3. \A c \in DOMAIN supersedes' : supersedes'[c] \subseteq Edges
    BY <1>3, <1>5
  <2> QED
    BY <1>1, <1>4, <1>5, <1>6, <2>1, <2>2, <2>3 DEF TypeOK, Consolidations
<1>8. SequencesOK'
  <2>1. ASSUME NEW i \in DOMAIN queue' PROVE WriteOK(queue[i])'
    <3>1. i + 1 \in DOMAIN queue /\ queue'[i] = queue[i + 1]
      BY <1>2
    <3>2. WriteOK(queue[i + 1])
      BY <3>1 DEF SequencesOK
    <3> QED
      BY <1>4, <3>1, <3>2 DEF WriteOK
  <2>2. path' \in [Databases -> Seq(All')]
    BY <1>1, <1>4, LargerSet DEF SequencesOK
  <2> QED
    BY <1>1, <1>2, <1>4, <2>1, <2>2 DEF SequencesOK
<1>9. KnownReproduce'
  <2>1. Known' \subseteq Known
    BY <1>1, <1>2, <1>4 DEF Known
  <2>2. \A f \in Known : Reproduces(f)
    BY DEF KnownReproduce
  <2> QED
    BY <2>1, <2>2 DEF KnownReproduce
<1>10. Endpoints'
  <2>1. CASE All' = All
    BY <1>4, <2>1 DEF Endpoints
  <2>2. CASE All' # All
    <3>1. /\ queue[1].file \in {"edge", "squash"} /\ All' = All \union {queue[1].edge}
      BY <1>2, <1>4, <2>2 DEF w
    <3>2. {queue[1].edge.parent, queue[1].edge.target} \subseteq manifests \union {Genesis}
      <4>1. {k \in 1..(1 - 1) : queue[k].file = "manifest"} = {}
        OBVIOUS
      <4> QED
        BY <1>2, <3>1, <4>1 DEF ManifestsFirst
    <3> QED
      BY <1>4, <3>1, <3>2 DEF Endpoints
  <2> QED
    BY <2>1, <2>2
<1>11. ManifestsFirst'
  <2> SUFFICES ASSUME NEW i \in DOMAIN queue', queue'[i].file \in {"edge", "squash"},
                      NEW r \in {queue'[i].edge.parent, queue'[i].edge.target},
                      r \notin manifests' \union {Genesis}
               PROVE  \E j \in 1..(i - 1) :
                        queue'[j].file = "manifest" /\ queue'[j].rev = r
    BY DEF ManifestsFirst
  <2>1. i + 1 \in DOMAIN queue /\ queue'[i] = queue[i + 1]
    BY <1>2
  <2>2. PICK k \in 1..i : queue[k].file = "manifest" /\ queue[k].rev = r
    <3>1. PICK n \in DOMAIN queue :
            /\ n = i + 1 /\ n - 1 = i /\ queue[n].file \in {"edge", "squash"}
            /\ r \in {queue[n].edge.parent, queue[n].edge.target}
      BY <1>2, <2>1
    <3>2. r \notin manifests \union {Genesis}
      BY <1>4
    <3>3. r \in manifests \union {Genesis} \union
                {queue[j].rev : j \in {k \in 1..(n - 1) : queue[k].file = "manifest"}}
      BY <3>1 DEF ManifestsFirst
    <3> QED
      BY <3>1, <3>2, <3>3
  <2>3. k # 1
    BY <1>2, <1>4, <2>2 DEF w
  <2>4. k - 1 \in 1..(i - 1) /\ k - 1 \in DOMAIN queue' /\ (k - 1) + 1 = k
    BY <1>2, <2>3
  <2>5. queue'[k - 1] = queue[k]
    BY Zenon, <1>2, <2>4
  <2> QED
    BY <2>2, <2>4, <2>5
<1>12. BranchRooted' /\ SupersededKept'
  BY <1>1, <1>4, <1>5 DEF BranchRooted, SupersededKept, Consolidations
<1> QED
  BY <1>4, <1>7, <1>8, <1>9, <1>10, <1>11, <1>12

-----------------------------------------------------------------------------
(***************************************************************************)
(* squash and rebase.                                                      *)
(***************************************************************************)

\* Paths found without a remap.
LEMMA PlainPaths ==
  ASSUME NEW edges \in SUBSET Edges, IsFiniteSet(edges), NEW start, NEW target,
         NEW p \in ForwardPaths(start, target, edges, NoRemap)
  PROVE  /\ p \in Seq(edges) /\ p \in Seq(Edges) /\ p # <<>>
         /\ p[1].parent = start /\ p[Len(p)].target = target
         /\ Linked(p)
         /\ \A i, j \in 1..Len(p) : p[i] = p[j] => i = j
<1>1. /\ IsWalk(p, start, edges, NoRemap) /\ p # <<>>
      /\ Canon(p[Len(p)].target, NoRemap) = target
  BY ForwardPathsAreWalks
<1>2. p \in Seq(edges) /\ p \in Seq(Edges)
  BY <1>1, LargerSet DEF IsWalk
<1>3. p[1].parent = start /\ p[Len(p)].target = target
  BY <1>1, CanonPlain DEF IsWalk
<1>4. Linked(p)
  BY <1>1, CanonPlain DEF IsWalk, Linked
<1> QED
  BY <1>1, <1>2, <1>3, <1>4 DEF IsWalk

\* What squash finds and writes.
LEMMA SquashPlan ==
  ASSUME StoreInv, Squash
  PROVE  \E p \in Seq(live), c \in Edges :
           /\ queue' = <<SquashFile(c, ToSet(p))>> \o ArchiveMoves(p)
           /\ p \in Seq(Edges) /\ Len(p) >= 2 /\ Linked(p)
           /\ \A i, j \in 1..Len(p) : p[i] = p[j] => i = j
           /\ c.parent = p[1].parent /\ c.target = p[Len(p)].target
           /\ c.ops = EdgesOps(p) /\ c.slug = "squash"
           /\ Reproduces(c)
           /\ EdgesRun => Runs(c.parent, c.ops)
           /\ OverlapsNone(ToSet(p))
<1> USE DEF StoreInv
<1>1. PICK from \in SquashFroms, to \in SquashTos : \E p \in ConsolidationPaths(from, to) :
        /\ OverlapsNone(ToSet(p))
        /\ queue' = <<SquashFile([parent |-> from, target |-> to,
                                  ops |-> EdgesOps(p), slug |-> "squash"], ToSet(p))>>
                    \o ArchiveMoves(p)
  BY DEF Squash
<1>2. PICK p \in ConsolidationPaths(from, to) :
        /\ OverlapsNone(ToSet(p))
        /\ queue' = <<SquashFile([parent |-> from, target |-> to,
                                  ops |-> EdgesOps(p), slug |-> "squash"], ToSet(p))>>
                    \o ArchiveMoves(p)
  BY <1>1
<1>3. p \in ForwardPaths(from, to, live, NoRemap) /\ Len(p) >= 2
  BY DEF ConsolidationPaths
<1>4. live \in SUBSET Edges /\ IsFiniteSet(live)
  BY DEF TypeOK
<1>5. /\ p \in Seq(live) /\ p \in Seq(Edges) /\ p # <<>>
      /\ p[1].parent = from /\ p[Len(p)].target = to /\ Linked(p)
      /\ \A i, j \in 1..Len(p) : p[i] = p[j] => i = j
  BY <1>3, <1>4, PlainPaths
<1> DEFINE c == [parent |-> from, target |-> to, ops |-> EdgesOps(p), slug |-> "squash"]
<1>6. EdgesOps(p) \in Seq(Changes)
  BY <1>5, EdgesOpsTyped
<1>7. \A i \in 1..Len(p) : p[i] \in live /\ p[i] \in Edges /\ p[i] \in Known
  BY <1>5 DEF Known, All
<1>8. 1 \in 1..Len(p) /\ Len(p) \in 1..Len(p)
  BY <1>5
<1>9. from \in Revisions /\ to \in Revisions /\ to # Genesis
  BY <1>5, <1>7, <1>8, EdgeFields
<1>10. c \in Edges
  BY <1>6, <1>9 DEF Edges
<1>11. \A i \in 1..Len(p) : Reproduces(p[i])
  BY <1>7 DEF KnownReproduce
<1>12. /\ Simulate(from, EdgesOps(p)) = to
       /\ (\A i \in 1..Len(p) : Runs(p[i].parent, p[i].ops)) => Runs(from, EdgesOps(p))
  BY <1>5, <1>11, PathReproduces
<1>13. Reproduces(c) /\ (EdgesRun => Runs(c.parent, c.ops))
  BY <1>7, <1>12 DEF Reproduces, EdgesRun
<1>14. /\ c.parent = p[1].parent /\ c.target = p[Len(p)].target
       /\ c.ops = EdgesOps(p) /\ c.slug = "squash"
  BY <1>5
<1>15. queue' = <<SquashFile(c, ToSet(p))>> \o ArchiveMoves(p)
  BY Zenon, <1>2
<1> HIDE DEF c
<1> QED
  BY <1>2, <1>3, <1>5, <1>10, <1>13, <1>14, <1>15

\* The writes q of a squash of p into c, by position.
SquashQueue(q, p, c) ==
  /\ \E S : q \in Seq(S)
  /\ DOMAIN q = 1..(Len(p) + 1) /\ Len(q) = Len(p) + 1 /\ Len(p) \in Nat
  /\ q[1].file = "squash" /\ q[1].edge = c /\ q[1].over = ToSet(p)
  /\ \A i \in 1..Len(p) :
       q[i + 1].file = "archive" /\ q[i + 1].edge = p[i]
  /\ \A i \in DOMAIN q : i = 1 \/ \E k \in 1..Len(p) : i = k + 1

\* Those are the writes of Squash.
LEMMA SquashWrites ==
  ASSUME NEW p \in Seq(Edges), NEW c,
         NEW q, q = <<SquashFile(c, ToSet(p))>> \o ArchiveMoves(p)
  PROVE  SquashQueue(q, p, c)
<1> DEFINE m == ArchiveMoves(p)
           s == SquashFile(c, ToSet(p))
           S == {s} \union {ArchiveMove(e) : e \in Edges}
<1>1. m \in Seq({ArchiveMove(e) : e \in Edges}) /\ Len(m) = Len(p)
      /\ \A i \in 1..Len(p) : m[i] = ArchiveMove(p[i])
  BY DEF ArchiveMoves
<1>2. m \in Seq(S) /\ <<s>> \in Seq(S)
  <2> HIDE DEF m, s
  <2> QED
    BY <1>1, LargerSet
<1>3. /\ q \in Seq(S) /\ Len(q) = Len(p) + 1 /\ q[1] = s
      /\ \A i \in 1..Len(p) : q[i + 1] = m[i]
  <2> HIDE DEF m, s, S
  <2>1. Len(<<s>>) = 1 /\ <<s>>[1] = s /\ Len(p) \in Nat
    OBVIOUS
  <2> QED
    BY <1>1, <1>2, <2>1 DEF m, s
<1>4. s.file = "squash" /\ s.edge = c /\ s.over = ToSet(p)
  BY DEF SquashFile
<1>5. \A e : ArchiveMove(e).file = "archive" /\ ArchiveMove(e).edge = e
  BY DEF ArchiveMove
<1>6. Len(p) \in Nat /\ DOMAIN q = 1..Len(q)
  <2> HIDE DEF S
  <2> QED
    BY <1>3
<1> HIDE DEF m, s, S
<1>7. \A i \in DOMAIN q : i = 1 \/ \E k \in 1..Len(p) : i = k + 1
  <2>1. \A i \in DOMAIN q : i = 1 \/ (i - 1 \in 1..Len(p) /\ i = (i - 1) + 1)
    BY <1>3, <1>6
  <2> QED
    BY <2>1
<1> QED
  BY <1>1, <1>3, <1>4, <1>5, <1>6, <1>7 DEF SquashQueue

\* squash.
LEMMA SquashKeepsStore ==
  ASSUME StoreInv, Squash
  PROVE  StoreInv'
<1>1. PICK p \in Seq(live), c \in Edges :
        /\ queue' = <<SquashFile(c, ToSet(p))>> \o ArchiveMoves(p)
        /\ p \in Seq(Edges) /\ Len(p) >= 2
        /\ c.parent = p[1].parent /\ c.target = p[Len(p)].target
        /\ Reproduces(c)
  BY SquashPlan
<1>2. SquashQueue(queue', p, c)
  BY <1>1, SquashWrites
<1>3. PICK S : queue' \in Seq(S)
  BY <1>2 DEF SquashQueue
<1>4. ToSet(p) \subseteq All /\ \A i \in 1..Len(p) : p[i] \in All
  BY OwnElements DEF All
<1>5. {c.parent, c.target} \subseteq manifests \union {Genesis}
  <2>1. 1 \in 1..Len(p) /\ Len(p) \in 1..Len(p)
    BY <1>1
  <2> QED
    BY <1>1, <1>4, <2>1 DEF StoreInv, Endpoints
<1>6. ASSUME NEW i \in DOMAIN queue'
      PROVE  /\ queue'[i].file \in {"manifest", "edge", "squash", "archive", "remap"}
             /\ WriteOK(queue'[i])
             /\ queue'[i].file \in {"edge", "squash"} => i = 1
  <2>1. CASE i = 1
    BY <1>2, <1>4, <2>1 DEF WriteOK, SquashQueue
  <2>2. CASE i # 1
    <3>1. queue'[i].file = "archive" /\ queue'[i].edge \in All
      BY <1>2, <1>4, <2>2 DEF SquashQueue
    <3> QED
      BY <3>1 DEF WriteOK
  <2> QED
    BY <2>1, <2>2
<1>7. UNCHANGED <<files, theirs, databases, history, crashes>> /\ queue = <<>>
  BY DEF Squash
<1>8. ASSUME NEW i \in DOMAIN queue', queue'[i].file \in {"edge", "squash"}
      PROVE  /\ Reproduces(queue'[i].edge)
             /\ {queue'[i].edge.parent, queue'[i].edge.target}
                  \subseteq manifests \union {Genesis}
  <2>1. i = 1
    BY <1>6, <1>8
  <2> QED
    BY <1>1, <1>2, <1>5, <2>1 DEF SquashQueue
<1> QED
  BY <1>3, <1>6, <1>7, <1>8, StartKeepsStore

\* The tail over again, from the kept head: each edge leads from where the one
\* before ends to what its ops make of that.
Replays(new, kept, tail) ==
  /\ new \in Seq(Edges) /\ Len(new) = Len(tail)
  /\ new[1].parent = kept
  /\ \A i \in 2..Len(tail) : new[i].parent = new[i - 1].target
  /\ \A i \in 1..Len(tail) : Reproduces(new[i]) /\ new[i].ops = tail[i].ops

\* That is what re-parenting does.
LEMMA ReparentedEdges ==
  ASSUME NEW kept \in Revisions, NEW tail \in Seq(Edges), tail # <<>>
  PROVE  Replays(Reparented(kept, tail), kept, tail)
<1> DEFINE Rev(i) == IF i = 0 THEN kept
                     ELSE Simulate(kept, EdgesOps(SubSeq(tail, 1, i)))
           new == [i \in DOMAIN tail |->
                     [tail[i] EXCEPT !.parent = Rev(i - 1), !.target = Rev(i)]]
<1>1. Reparented(kept, tail) = new
  BY Zenon DEF Reparented
<1>2. DOMAIN tail = 1..Len(tail) /\ Len(tail) \in Nat /\ 1 \in 1..Len(tail)
  OBVIOUS
<1>3. ASSUME NEW i \in 1..Len(tail)
      PROVE  EdgesOps(SubSeq(tail, 1, i)) \in Seq(Changes)
  <2> DEFINE q == SubSeq(tail, 1, i)
  <2>1. q \in Seq(Edges) /\ q # <<>>
    OBVIOUS
  <2> HIDE DEF q
  <2>2. EdgesOps(q) \in Seq(Changes)
    BY <2>1, EdgesOpsTyped
  <2> QED
    BY <2>2 DEF q
<1>4. ASSUME NEW i \in 1..Len(tail)
      PROVE  Rev(i) \in Revisions \ {Genesis}
  <2>1. i # 0
    OBVIOUS
  <2> QED
    BY <1>3, <2>1, SimulateTyped
<1>5. ASSUME NEW i \in 1..Len(tail)
      PROVE  Rev(i - 1) \in Revisions
  <2>1. i - 1 = 0 \/ i - 1 \in 1..Len(tail)
    OBVIOUS
  <2> HIDE DEF Rev
  <2>2. Rev(0) \in Revisions
    BY DEF Rev
  <2> QED
    BY <1>4, <2>1, <2>2
<1>6. ASSUME NEW i \in 1..Len(tail)
      PROVE  Simulate(Rev(i - 1), tail[i].ops) = Rev(i)
  <2>1. tail[i].ops \in Seq(Changes)
    <3>1. tail[i] \in Edges
      BY <1>2
    <3> QED
      BY <3>1, EdgeFields
  <2>2. CASE i = 1
    <3>1. EdgesOps(SubSeq(tail, 1, 1)) = tail[1].ops
      BY EdgesOpsPrefix
    <3>2. Rev(0) = kept
      OBVIOUS
    <3>3. Rev(1) = Simulate(kept, tail[1].ops)
      BY <3>1
    <3>4. i - 1 = 0
      BY <2>2
    <3> HIDE DEF Rev
    <3> QED
      BY <2>2, <3>2, <3>3, <3>4
  <2>3. CASE i # 1
    <3>1. PICK k \in 1..Len(tail) : k = i - 1 /\ i \in 2..Len(tail) /\ k # 0 /\ i # 0
      BY <1>2, <2>3
    <3> DEFINE a == EdgesOps(SubSeq(tail, 1, k))
    <3>2. EdgesOps(SubSeq(tail, 1, i)) = a \o tail[i].ops
      <4>1. EdgesOps(SubSeq(tail, 1, i)) = EdgesOps(SubSeq(tail, 1, i - 1)) \o tail[i].ops
        BY <3>1, EdgesOpsPrefix
      <4> QED
        BY Zenon, <3>1, <4>1
    <3>3. a \in Seq(Changes)
      BY <1>3
    <3>4. Simulate(kept, a \o tail[i].ops) = Simulate(Simulate(kept, a), tail[i].ops)
      <4> HIDE DEF a
      <4> QED
        BY <2>1, <3>3, SimulateConcat
    <3>5. Rev(i) = Simulate(kept, a \o tail[i].ops)
      BY Zenon, <3>1, <3>2
    <3>6. Rev(i - 1) = Simulate(kept, a)
      BY Zenon, <3>1
    <3> QED
      BY Zenon, <3>4, <3>5, <3>6
  <2> QED
    BY <2>2, <2>3
<1> HIDE DEF Rev
<1>7. ASSUME NEW i \in 1..Len(tail)
      PROVE  /\ new[i] \in Edges /\ new[i].parent = Rev(i - 1)
             /\ new[i].target = Rev(i) /\ new[i].ops = tail[i].ops
  <2>1. tail[i] \in Edges
    BY <1>2
  <2>2. new[i] = [tail[i] EXCEPT !.parent = Rev(i - 1), !.target = Rev(i)]
    BY <1>2
  <2> HIDE DEF new
  <2> QED
    BY <1>4, <1>5, <2>1, <2>2 DEF Edges
<1>8. new \in Seq(Edges) /\ Len(new) = Len(tail)
  <2>1. new = [i \in 1..Len(tail) |-> new[i]]
    BY <1>2
  <2> HIDE DEF new
  <2> QED
    BY <1>2, <1>7, <2>1
<1>9. \A i \in 1..Len(tail) : Reproduces(new[i])
  BY <1>6, <1>7 DEF Reproduces
<1>10. new[1].parent = kept
  <2>1. Rev(1 - 1) = kept
    BY DEF Rev
  <2> HIDE DEF new
  <2> QED
    BY <1>2, <1>7, <2>1
<1>11. \A i \in 2..Len(tail) : new[i].parent = new[i - 1].target
  <2>1. ASSUME NEW i \in 2..Len(tail) PROVE new[i].parent = new[i - 1].target
    <3>1. i \in 1..Len(tail) /\ i - 1 \in 1..Len(tail)
      BY <1>2
    <3>2. new[i].parent = Rev(i - 1) /\ new[i - 1].target = Rev(i - 1)
      BY Zenon, <1>7, <3>1
    <3> QED
      BY Zenon, <3>2
  <2> QED
    BY <2>1
<1> HIDE DEF new
<1> QED
  BY <1>1, <1>7, <1>8, <1>9, <1>10, <1>11 DEF Replays

\* The revisions whose manifests are among the first n writes of q.
Announced(q, n) == {q[j].rev : j \in {k \in 1..n : q[k].file = "manifest"}}

\* q is a sequence a and two elements more, those of b.
LongerByTwo(q, a, b, S) ==
  /\ q \in Seq(S) /\ Len(q) = Len(a) + 2 /\ Len(a) \in Nat
  /\ \A j \in 1..Len(a) : q[j] = a[j]
  /\ q[Len(a) + 1] = b[1] /\ q[Len(a) + 2] = b[2]

\* Two sequences, the second of two elements.
LEMMA ConcatPair ==
  ASSUME NEW S, NEW a \in Seq(S), NEW b \in Seq(S), Len(b) = 2
  PROVE  LongerByTwo(a \o b, a, b, S)
<1> DEFINE q == a \o b
<1>1. /\ a \o b \in Seq(S) /\ Len(a \o b) = Len(a) + Len(b)
      /\ \A i \in 1..Len(a) + Len(b) :
           (a \o b)[i] = IF i <= Len(a) THEN a[i] ELSE b[i - Len(a)]
  BY Zenon, ConcatProperties
<1>2. Len(a) \in Nat
  OBVIOUS
<1> DEFINE n == Len(a)
<1>3. PICK k, l : k = n + 1 /\ l = n + 2
  OBVIOUS
<1>4. /\ k \in 1..n + 2 /\ ~(k <= n) /\ k - n = 1
      /\ l \in 1..n + 2 /\ ~(l <= n) /\ l - n = 2
  BY <1>2, <1>3
<1>5. q[k] = b[1] /\ q[l] = b[2]
  BY Zenon, <1>1, <1>4
<1>6. \A j \in 1..n : j \in 1..n + 2 /\ j <= n
  BY <1>2
<1>7. \A j \in 1..n : q[j] = a[j]
  BY Zenon, <1>1, <1>6
<1> QED
  BY Zenon, <1>1, <1>2, <1>3, <1>5, <1>7 DEF LongerByTwo

\* More writes after the first do not change what the first announce.
LEMMA AnnouncedConcat ==
  ASSUME NEW S, NEW a \in Seq(S), NEW b \in Seq(S), NEW n \in 0..Len(a)
  PROVE  Announced(a \o b, n) = Announced(a, n)
<1>1. \A k \in 1..n : (a \o b)[k] = a[k]
  OBVIOUS
<1> QED
  BY <1>1 DEF Announced

\* The manifest and the edge file of each edge.
PairFiles(new) ==
  FlattenSeq([i \in DOMAIN new |-> <<ManifestFile(new[i].target), EdgeFile(new[i])>>])

EdgeAndManifestFiles == {ManifestFile(e.target) : e \in Edges} \union
                        {EdgeFile(e) : e \in Edges}

\* The writes q are of the edges in new, and no edge is written before the
\* manifests it needs, those in base apart.
InOrder(q, new, base) ==
  /\ q \in Seq(EdgeAndManifestFiles)
  /\ \A j \in 1..Len(q) :
       \E e \in ToSet(new) :
         \/ q[j] = ManifestFile(e.target)
         \/ /\ q[j] = EdgeFile(e)
            /\ {e.parent, e.target} \subseteq base \union Announced(q, j - 1)

\* The re-parented edges are written in order: by induction over the edges, f[i]
\* being what is written of the first i.
LEMMA PairsInOrder ==
  ASSUME NEW base, NEW new \in Seq(Edges), new # <<>>,
         new[1].parent \in base,
         \A i \in 2..Len(new) : new[i].parent = new[i - 1].target
  PROVE  InOrder(PairFiles(new), new, base)
<1> DEFINE Files == EdgeAndManifestFiles
           Pair(i) == <<ManifestFile(new[i].target), EdgeFile(new[i])>>
           pairs == [i \in DOMAIN new |-> Pair(i)]
           M == Len(new) - 1
           Good(q) == \A j \in 1..Len(q) :
                        \E e \in ToSet(new) :
                          \/ q[j] = ManifestFile(e.target)
                          \/ /\ q[j] = EdgeFile(e)
                             /\ {e.parent, e.target}
                                  \subseteq base \union Announced(q, j - 1)
<1>1. /\ DOMAIN new = 1..Len(new) /\ Len(new) \in Nat /\ 1 \in 1..Len(new)
      /\ M \in Nat /\ M + 1 = Len(new)
      /\ \A i \in 1..Len(new) : new[i] \in Edges /\ new[i] \in ToSet(new)
  BY DEF ToSet
<1>2. ASSUME NEW i \in 1..Len(new)
      PROVE  /\ Pair(i) \in Seq(Files) /\ Len(Pair(i)) = 2
             /\ Pair(i)[1] = ManifestFile(new[i].target)
             /\ Pair(i)[2] = EdgeFile(new[i])
  <2>1. ManifestFile(new[i].target) \in Files /\ EdgeFile(new[i]) \in Files
    BY <1>1 DEF EdgeAndManifestFiles
  <2> HIDE DEF Files
  <2> QED
    BY <2>1
<1>3. pairs \in Seq(Seq(Files)) /\ Len(pairs) = Len(new) /\ pairs # <<>>
      /\ \A i \in 1..Len(new) : pairs[i] = Pair(i)
  <2> HIDE DEF Pair, Files
  <2> QED
    BY <1>1, <1>2
<1>4. PICK f : Concats(f, pairs, Files) /\ FlattenSeq(pairs) = f[Len(new)]
  <2> HIDE DEF pairs, Files
  <2> QED
    BY <1>3, FlattenConcats
<1>5. \A m : ManifestFile(m).file = "manifest" /\ ManifestFile(m).rev = m
  BY DEF ManifestFile
<1>6. /\ f[1] = Pair(1)
      /\ \A i \in 1..Len(new) : f[i] \in Seq(Files)
      /\ \A i \in 2..Len(new) : f[i] = f[i - 1] \o Pair(i)
  <2> HIDE DEF pairs, Files, Pair
  <2>1. /\ f[1] = pairs[1]
        /\ \A i \in 1..Len(new) : f[i] \in Seq(Files)
        /\ \A i \in 2..Len(new) : f[i] = f[i - 1] \o pairs[i]
    BY <1>3, <1>4 DEF Concats
  <2>2. ASSUME NEW i \in 2..Len(new) PROVE f[i] = f[i - 1] \o Pair(i)
    <3>1. i \in 1..Len(new)
      BY <1>1
    <3>2. pairs[i] = Pair(i) /\ f[i] = f[i - 1] \o pairs[i]
      BY <1>3, <2>1, <3>1
    <3> QED
      BY Zenon, <3>2
  <2> QED
    BY <1>1, <1>3, <2>1, <2>2
\* One pair more, after writes a that announce where its edge starts.
<1>7. ASSUME NEW i \in 1..Len(new), NEW a \in Seq(Files), Good(a),
             new[i].parent \in base \union Announced(a, Len(a))
      PROVE  LET q == a \o Pair(i) IN
               Good(q) /\ new[i].target \in Announced(q, Len(q))
  <2> DEFINE q == a \o Pair(i)
             n == Len(a)
  <2>1. /\ n \in Nat /\ Len(q) = n + 2 /\ q \in Seq(Files)
        /\ \A j \in 1..n : q[j] = a[j]
        /\ q[n + 1] = ManifestFile(new[i].target) /\ q[n + 2] = EdgeFile(new[i])
    <3>1. Pair(i) \in Seq(Files) /\ Len(Pair(i)) = 2
      BY <1>2
    <3>2. /\ n \in Nat /\ Len(q) = n + 2 /\ q \in Seq(Files)
          /\ \A j \in 1..n : q[j] = a[j]
          /\ q[n + 1] = Pair(i)[1] /\ q[n + 2] = Pair(i)[2]
      <4> DEFINE b == Pair(i)
      <4>1. LongerByTwo(a \o b, a, b, Files)
        <5> HIDE DEF Files, b
        <5> QED
          BY <3>1, ConcatPair DEF b
      <4> HIDE DEF Files, Pair
      <4> QED
        BY Zenon, <4>1 DEF LongerByTwo
    <3> QED
      BY <1>2, <3>2
  <2>2. \A j \in 0..n : Announced(q, j) = Announced(a, j)
    <3>1. Pair(i) \in Seq(Files)
      BY <1>2
    <3> HIDE DEF Files, Pair
    <3> QED
      BY <3>1, AnnouncedConcat
  <2> HIDE DEF q, Files, Pair
  <2>3. /\ new[i].target \in Announced(q, n + 1)
        /\ Announced(q, n) \subseteq Announced(q, n + 1)
        /\ Announced(q, n + 1) \subseteq Announced(q, n + 2)
    <3>1. n + 1 \in 1..(n + 1) /\ q[n + 1].file = "manifest"
          /\ q[n + 1].rev = new[i].target
      BY <1>5, <2>1
    <3> QED
      BY <2>1, <3>1 DEF Announced
  <2>4. ASSUME NEW j \in 1..Len(q)
        PROVE  \E e \in ToSet(new) :
                 \/ q[j] = ManifestFile(e.target)
                 \/ /\ q[j] = EdgeFile(e)
                    /\ {e.parent, e.target} \subseteq base \union Announced(q, j - 1)
    <3>1. CASE j \in 1..n
      <4>1. q[j] = a[j] /\ Announced(q, j - 1) = Announced(a, j - 1)
        BY <2>1, <2>2, <3>1
      <4> QED
        BY <1>7, <3>1, <4>1
    <3>2. CASE j = n + 1
      BY <1>1, <2>1, <3>2
    <3>3. CASE j = n + 2
      <4>1. j - 1 = n + 1
        BY <2>1, <3>3
      <4>2. {new[i].parent, new[i].target} \subseteq base \union Announced(q, n + 1)
        <5>1. Announced(q, n) = Announced(a, n)
          BY <2>1, <2>2
        <5> QED
          BY <1>7, <2>3, <5>1
      <4> QED
        BY <1>1, <2>1, <3>3, <4>1, <4>2
    <3> QED
      BY <2>1, <3>1, <3>2, <3>3
  <2>5. new[i].target \in Announced(q, Len(q))
    BY <2>1, <2>3
  <2> QED
    BY <2>4, <2>5 DEF q
<1> DEFINE P == {i \in 0..M : /\ Good(f[i + 1])
                              /\ new[i + 1].target \in Announced(f[i + 1], Len(f[i + 1]))}
<1>8. 0 \in P
  <2>1. <<>> \in Seq(Files) /\ Len(<<>>) = 0 /\ Good(<<>>)
    BY DEF Announced
  <2>2. <<>> \o Pair(1) = Pair(1)
    <3>1. Pair(1) \in Seq(Files)
      BY <1>1, <1>2
    <3> HIDE DEF Pair, Files
    <3> QED
      BY <3>1
  <2> HIDE DEF Good, Pair, Files
  <2>3. Good(<<>> \o Pair(1)) /\ new[1].target \in Announced(<<>> \o Pair(1), Len(<<>> \o Pair(1)))
    BY <1>1, <1>7, <2>1
  <2>4. 0 \in 0..M /\ 0 + 1 = 1
    BY <1>1
  <2> QED
    BY <1>6, <2>2, <2>3, <2>4
<1>9. ASSUME NEW i \in 1..M, i - 1 \in P PROVE i \in P
  <2>1. PICK k \in 2..Len(new) : /\ k = i + 1 /\ k - 1 = i /\ (i - 1) + 1 = i
                                 /\ i \in 0..M /\ i \in 1..Len(new) /\ k \in 1..Len(new)
    <3>1. i + 1 \in 2..Len(new)
      BY <1>1
    <3> QED
      BY <1>1, <3>1
  <2> HIDE DEF Good, Pair, Files, M
  <2>2. Good(f[i]) /\ new[i].target \in Announced(f[i], Len(f[i]))
    BY Zenon, <1>9, <2>1
  <2>3. new[k].parent = new[i].target
    BY <2>1
  <2>4. f[i] \in Seq(Files) /\ f[k] = f[i] \o Pair(k)
    BY <1>6, <2>1
  <2>5. Good(f[i] \o Pair(k)) /\ new[k].target \in Announced(f[i] \o Pair(k), Len(f[i] \o Pair(k)))
    BY <1>7, <2>1, <2>2, <2>3, <2>4
  <2>6. Good(f[k]) /\ new[k].target \in Announced(f[k], Len(f[k]))
    BY Zenon, <2>4, <2>5
  <2> QED
    BY Zenon, <2>1, <2>6
<1>10. M \in P
  <2>1. M \in 0..M
    BY <1>1
  <2> HIDE DEF P, M
  <2> QED
    BY <1>1, <1>8, <1>9, <2>1, Induction
<1>11. Good(f[Len(new)]) /\ f[Len(new)] \in Seq(Files)
  <2>1. Good(f[M + 1])
    <3> HIDE DEF Good, M
    <3> QED
      BY Zenon, <1>10
  <2>2. Len(new) \in 1..Len(new)
    BY <1>1
  <2> HIDE DEF Good, Files, M
  <2> QED
    BY <1>1, <1>6, <2>1, <2>2
<1> HIDE DEF Files
<1>12. FlattenSeq(pairs) = f[Len(new)]
  BY <1>4
<1> QED
  BY ZenonT(40), <1>11, <1>12 DEF Files, InOrder, PairFiles

\* Sums of naturals are naturals.
LEMMA NatSum == \A m, n \in Nat : m + n \in Nat
OBVIOUS

\* What follows the sequence a in q is of the sequence b, or is x.
InParts(q, a, b, x, S) ==
  /\ q \in Seq(S) /\ Len(a) \in Nat /\ Len(q) \in Nat /\ Len(a) <= Len(q)
  /\ \A j \in 1..Len(a) : q[j] = a[j]
  /\ \A j \in 1..Len(q) : j \in 1..Len(a) \/ q[j] \in ToSet(b) \union {x}

\* Two sequences and an element at the end.
LEMMA ThreeParts ==
  ASSUME NEW S, NEW a \in Seq(S), NEW b \in Seq(S), NEW x \in S
  PROVE  InParts(a \o b \o <<x>>, a, b, x, S)
<1> DEFINE c == a \o b
           y == <<x>>
           q == c \o y
<1>1. /\ c \in Seq(S) /\ Len(c) = Len(a) + Len(b)
      /\ \A i \in 1..Len(a) + Len(b) : c[i] = IF i <= Len(a) THEN a[i] ELSE b[i - Len(a)]
  BY Zenon, ConcatProperties
<1>2. Len(a) \in Nat /\ Len(b) \in Nat /\ DOMAIN b = 1..Len(b)
  OBVIOUS
<1>3. y \in Seq(S) /\ Len(y) = 1 /\ y[1] = x
  OBVIOUS
<1> HIDE DEF c, y
<1>4. /\ q \in Seq(S) /\ Len(q) = Len(c) + 1
      /\ \A i \in 1..Len(c) + 1 : q[i] = IF i <= Len(c) THEN c[i] ELSE y[i - Len(c)]
  <2>1. /\ q \in Seq(S) /\ Len(q) = Len(c) + Len(y)
        /\ \A i \in 1..Len(c) + Len(y) :
             q[i] = IF i <= Len(c) THEN c[i] ELSE y[i - Len(c)]
    <3>1. c \in Seq(S)
      BY <1>1
    <3>2. y \in Seq(S)
      BY <1>3
    <3> QED
      BY Zenon, <3>1, <3>2, ConcatProperties
  <2> HIDE DEF q
  <2> QED
    BY Zenon, <1>3, <2>1
<1> HIDE DEF q
<1>5. ASSUME NEW j \in 1..Len(a) PROVE q[j] = a[j]
  <2>1. j <= Len(c) /\ j \in 1..Len(c) + 1 /\ j <= Len(a) /\ j \in 1..Len(a) + Len(b)
    BY <1>1, <1>2
  <2> QED
    BY Zenon, <1>1, <1>4, <2>1
<1>6. ASSUME NEW j \in 1..Len(q), j \notin 1..Len(a)
      PROVE  q[j] \in ToSet(b) \union {x}
  <2>1. CASE j <= Len(c)
    <3>1. /\ j \in 1..Len(c) + 1 /\ ~(j <= Len(a)) /\ j \in 1..Len(a) + Len(b)
          /\ j - Len(a) \in DOMAIN b
      BY <1>1, <1>2, <1>4, <1>6, <2>1
    <3>2. q[j] = b[j - Len(a)]
      BY Zenon, <1>1, <1>4, <2>1, <3>1
    <3> QED
      BY <3>1, <3>2 DEF ToSet
  <2>2. CASE ~(j <= Len(c))
    <3>1. j \in 1..Len(c) + 1 /\ j - Len(c) = 1
      <4>1. Len(c) \in Nat /\ j \in 1..Len(c) + 1
        BY Zenon, <1>1, <1>2, <1>4, NatSum
      <4> QED
        BY <2>2, <4>1
    <3>2. q[j] = y[1]
      BY Zenon, <1>4, <2>2, <3>1
    <3> QED
      BY <1>3, <3>2
  <2> QED
    BY <2>1, <2>2
<1>7. Len(q) \in Nat /\ Len(a) <= Len(q)
  BY <1>1, <1>2, <1>4
<1>8. InParts(q, a, b, x, S)
  BY Zenon, <1>2, <1>4, <1>5, <1>6, <1>7 DEF InParts
<1> QED
  BY <1>8 DEF q, c, y

\* What a rebase re-parents: a walk along live edges.
LEMMA RebasePlan ==
  ASSUME StoreInv, Rebase
  PROVE  \E kept \in {e.target : e \in live}, tail \in Seq(live) :
           /\ tail # <<>> /\ tail \in Seq(Edges)
           /\ queue' = RebaseWrites(tail, Reparented(kept, tail))
<1>1. PICK kept \in {e.target : e \in live}, away \in FindHeads(live, remap) :
        \E tail \in ForkTails(Canon(kept, remap), away) :
          queue' = RebaseWrites(tail, Reparented(kept, tail))
  BY DEF Rebase
<1>2. PICK tail \in ForkTails(Canon(kept, remap), away) :
        queue' = RebaseWrites(tail, Reparented(kept, tail))
  BY <1>1
<1>3. PICK start : tail \in ForwardPaths(start, away, live, remap)
  BY DEF ForkTails
<1>4. IsFiniteSet(live) /\ live \subseteq Edges
  BY DEF StoreInv, TypeOK
<1>5. tail \in Seq(live) /\ tail # <<>>
  BY SMTT(30), <1>3, <1>4, ForwardPathsAreWalks DEF IsWalk
<1>6. tail \in Seq(Edges)
  BY <1>4, <1>5, LargerSet
<1> QED
  BY <1>2, <1>5, <1>6

\* rebase.
LEMMA RebaseKeepsStore ==
  ASSUME StoreInv, Rebase
  PROVE  StoreInv'
<1>1. PICK kept \in {e.target : e \in live}, tail \in Seq(live) :
        /\ tail # <<>> /\ tail \in Seq(Edges)
        /\ queue' = RebaseWrites(tail, Reparented(kept, tail))
  BY RebasePlan
<1> DEFINE base == manifests \union {Genesis}
           new == Reparented(kept, tail)
           pairs == PairFiles(new)
           moves == ArchiveMoves(tail)
           table == [r \in {e.target : e \in ToSet(tail)} |->
                       new[CHOOSE i \in DOMAIN tail : tail[i].target = r].target]
           Files == EdgeAndManifestFiles
           S == Files \union {ArchiveMove(e) : e \in Edges} \union {RemapFile(table)}
<1>2. kept \in Revisions /\ kept \in base
  BY EdgeFields DEF StoreInv, TypeOK, Endpoints, All
<1>3. /\ new \in Seq(Edges) /\ Len(new) = Len(tail) /\ new[1].parent = kept
      /\ \A i \in 2..Len(new) : new[i].parent = new[i - 1].target
      /\ \A i \in 1..Len(new) : Reproduces(new[i])
  <2>1. Replays(new, kept, tail)
    BY <1>1, <1>2, ReparentedEdges
  <2> HIDE DEF new
  <2> QED
    BY Zenon, <2>1 DEF Replays
<1>4. queue' = pairs \o moves \o <<RemapFile(table)>>
  BY Zenon, <1>1 DEF RebaseWrites, PairFiles
<1>5. /\ DOMAIN tail = 1..Len(tail) /\ Len(tail) \in Nat /\ Len(new) \in Nat
      /\ \A i \in 1..Len(tail) : tail[i] \in Edges /\ tail[i] \in All
      /\ new # <<>> /\ \A i \in 1..Len(new) : new[i] \in Edges
      /\ \A e \in ToSet(new) : \E i \in 1..Len(new) : e = new[i]
      /\ \A e \in ToSet(tail) : \E i \in 1..Len(tail) : e = tail[i]
  <2> HIDE DEF new
  <2> QED
    BY <1>1, <1>3 DEF ToSet, All
<1> HIDE DEF new
<1>6. /\ pairs \in Seq(Files)
      /\ \A j \in 1..Len(pairs) :
           \E e \in ToSet(new) :
             \/ pairs[j] = ManifestFile(e.target)
             \/ /\ pairs[j] = EdgeFile(e)
                /\ {e.parent, e.target} \subseteq base \union Announced(pairs, j - 1)
  <2>1. new[1].parent \in base
    BY <1>2, <1>3
  <2> HIDE DEF base
  <2>2. InOrder(pairs, new, base)
    BY <1>3, <1>5, <2>1, PairsInOrder
  <2> HIDE DEF pairs
  <2> QED
    BY Zenon, <2>2 DEF InOrder
<1>7. /\ moves \in Seq(S) /\ \A m \in ToSet(moves) : \E e \in All : m = ArchiveMove(e)
  <2>1. DOMAIN moves = 1..Len(tail) /\ \A i \in 1..Len(tail) : moves[i] = ArchiveMove(tail[i])
    BY <1>5 DEF ArchiveMoves
  <2>2. moves = [i \in 1..Len(tail) |-> moves[i]]
    BY <1>5 DEF ArchiveMoves
  <2>3. \A i \in 1..Len(tail) : moves[i] \in S
    BY <1>5, <2>1
  <2> HIDE DEF moves, S
  <2>4. moves \in Seq(S)
    BY <1>5, <2>2, <2>3
  <2> QED
    BY <1>5, <2>1, <2>4 DEF ToSet
<1>8. /\ DOMAIN table \subseteq Revisions /\ \A r \in DOMAIN table : table[r] \in Revisions
  <2>1. \A r \in DOMAIN table : \E i \in DOMAIN tail : tail[i].target = r
    BY <1>5
  <2>2. \A r \in DOMAIN table :
          (CHOOSE i \in DOMAIN tail : tail[i].target = r) \in DOMAIN tail
    BY <2>1
  <2>3. \A i \in DOMAIN tail : new[i].target \in Revisions /\ tail[i].target \in Revisions
    BY <1>3, <1>5, EdgeFields
  <2> QED
    BY <2>1, <2>2, <2>3
<1> HIDE DEF table
<1>9. pairs \in Seq(S) /\ RemapFile(table) \in S
  <2>1. Files \subseteq S
    OBVIOUS
  <2> HIDE DEF Files, S, pairs
  <2>2. pairs \in Seq(S)
    BY <1>6, <2>1, LargerSet
  <2> QED
    BY <2>2 DEF S
<1>10. InParts(queue', pairs, moves, RemapFile(table), S)
  <2> HIDE DEF pairs, moves, S
  <2> QED
    BY <1>4, <1>7, <1>9, ThreeParts
<1> HIDE DEF pairs, moves, S, Files
<1>11. /\ queue' \in Seq(S) /\ Len(pairs) \in Nat /\ DOMAIN queue' = 1..Len(queue')
       /\ \A j \in 1..Len(pairs) : queue'[j] = pairs[j]
       /\ \A j \in 1..Len(queue') :
            j \in 1..Len(pairs) \/ queue'[j] \in ToSet(moves) \union {RemapFile(table)}
  BY <1>10 DEF InParts
<1>12. /\ \A r : ManifestFile(r).file = "manifest" /\ ManifestFile(r).rev = r
       /\ \A e : EdgeFile(e).file = "edge" /\ EdgeFile(e).edge = e
       /\ \A e : ArchiveMove(e).file = "archive" /\ ArchiveMove(e).edge = e
       /\ \A t : RemapFile(t).file = "remap" /\ RemapFile(t).table = t
  BY DEF ManifestFile, EdgeFile, ArchiveMove, RemapFile
<1>13. ASSUME NEW i \in DOMAIN queue'
       PROVE  /\ queue'[i].file \in {"manifest", "edge", "squash", "archive", "remap"}
              /\ WriteOK(queue'[i])
              /\ queue'[i].file \in {"edge", "squash"} =>
                   /\ Reproduces(queue'[i].edge)
                   /\ {queue'[i].edge.parent, queue'[i].edge.target}
                        \subseteq base \union Announced(queue', i - 1)
  <2>1. CASE i \in 1..Len(pairs)
    <3>1. PICK e \in ToSet(new) :
            \/ pairs[i] = ManifestFile(e.target)
            \/ /\ pairs[i] = EdgeFile(e)
               /\ {e.parent, e.target} \subseteq base \union Announced(pairs, i - 1)
      BY <1>6, <2>1
    <3>2. e \in Edges /\ Reproduces(e) /\ e.target \in Revisions
      BY <1>3, <1>5, EdgeFields
    <3>3. queue'[i] = pairs[i]
      BY <1>11, <2>1
    <3>4. CASE pairs[i] = ManifestFile(e.target)
      BY <1>12, <3>2, <3>3, <3>4 DEF WriteOK
    <3>5. CASE /\ pairs[i] = EdgeFile(e)
               /\ {e.parent, e.target} \subseteq base \union Announced(pairs, i - 1)
      <4>1. Announced(queue', i - 1) = Announced(pairs, i - 1)
        <5>1. \A k \in 1..(i - 1) : queue'[k] = pairs[k]
          BY <1>11, <2>1
        <5> QED
          BY <5>1 DEF Announced
      <4>2. queue'[i].file = "edge" /\ queue'[i].edge = e
        BY <1>12, <3>3, <3>5
      <4>3. WriteOK(queue'[i])
        BY <3>2, <4>2 DEF WriteOK
      <4> HIDE DEF base
      <4> QED
        BY <3>2, <3>5, <4>1, <4>2, <4>3
    <3> QED
      BY <3>1, <3>4, <3>5
  <2>2. CASE i \notin 1..Len(pairs)
    <3>1. queue'[i] \in ToSet(moves) \union {RemapFile(table)}
      BY <1>11, <2>2
    <3>2. CASE queue'[i] \in ToSet(moves)
      <4>1. queue'[i].file = "archive" /\ queue'[i].edge \in All
        BY <1>7, <1>12, <3>2
      <4> QED
        BY <4>1 DEF WriteOK
    <3>3. CASE queue'[i] = RemapFile(table)
      <4>1. queue'[i].file = "remap" /\ queue'[i].table = table
        BY <1>12, <3>3
      <4> QED
        BY <1>8, <4>1 DEF WriteOK
    <3> QED
      BY <3>1, <3>2, <3>3
  <2> QED
    BY <2>1, <2>2
<1>14. UNCHANGED <<files, theirs, databases, history, crashes>> /\ queue = <<>>
  BY DEF Rebase
<1> QED
  BY <1>11, <1>13, <1>14, StartKeepsStore DEF Announced

-----------------------------------------------------------------------------
(***************************************************************************)
(* The databases.                                                          *)
(***************************************************************************)

\* The paths a database is offered are walks along the project's edges, to a
\* live head, from the revision the database is at.
LEMMA OfferedPaths ==
  ASSUME StoreInv, NEW d \in Databases, Told(d) = "path", NEW p \in PathsOf(d)
  PROVE  /\ p \in Seq(All) /\ p \in Seq(Edges) /\ p # <<>>
         /\ IsWalk(p, Canon(pos[d], remap), All, remap)
<1>1. PICK head : p \in ForwardPaths(Canon(pos[d], remap), head, All, remap)
  BY DEF PathsOf, FindPath, BestPaths
<1>2. IsFiniteSet(All) /\ All \subseteq Edges
  BY FS_Union DEF StoreInv, TypeOK, All
<1>3. p # <<>> /\ IsWalk(p, Canon(pos[d], remap), All, remap)
  BY <1>1, <1>2, ForwardPathsAreWalks
<1>4. p \in Seq(All)
  BY <1>3 DEF IsWalk
<1> QED
  BY <1>2, <1>3, <1>4, LargerSet

\* A path is asked for.
LEMMA PlanApplyKeepsStore ==
  ASSUME StoreInv, NEW d \in Databases, PlanApply(d)
  PROVE  StoreInv'
<1>1. PICK p \in PathsOf(d) : path' = [path EXCEPT ![d] = p]
  BY DEF PlanApply
<1>2. p \in Seq(All)
  BY OfferedPaths DEF PlanApply
<1>3. path' \in [Databases -> Seq(All)]
  BY <1>1, <1>2 DEF StoreInv, SequencesOK
<1> QED
  BY <1>3, FilesUntouched DEF PlanApply, files, history, StoreInv, TypeOK

\* The next edge of a database's path.
LEMMA NextEdge ==
  ASSUME StoreInv, NEW d \in Databases, path[d] # <<>>
  PROVE  /\ path[d] \in Seq(All) /\ Head(path[d]) \in All /\ Head(path[d]) \in Edges
         /\ Head(path[d]) = path[d][1] /\ 1 \in 1..Len(path[d])
         /\ Tail(path[d]) \in Seq(All)
<1>1. path[d] \in Seq(All) /\ All \subseteq Edges
  BY DEF StoreInv, SequencesOK, TypeOK, All
<1> QED
  BY <1>1, TailElements

\* Edges are run, one at a time.
LEMMA ApplyEdgeKeepsStore ==
  ASSUME StoreInv, NEW d \in Databases, ApplyEdge(d)
  PROVE  StoreInv'
<1> DEFINE e == Head(path[d])
<1>1. e \in Edges /\ Tail(path[d]) \in Seq(All)
  BY NextEdge DEF ApplyEdge
<1>2. e.target \in Revisions /\ e.ops \in Seq(Changes)
  BY <1>1, EdgeFields
<1>3. /\ pos' = [pos EXCEPT ![d] = e.target]
      /\ schema' = [schema EXCEPT ![d] = Simulate(schema[d], e.ops)]
      /\ path' = [path EXCEPT ![d] = Tail(path[d])]
      /\ UNCHANGED <<files, queue, theirs, history, crashes>>
  BY DEF ApplyEdge, PositionAfter
<1>4. Simulate(schema[d], e.ops) \in Revisions
  BY <1>2, SimulateTyped DEF StoreInv, TypeOK
<1> HIDE DEF e
<1>5. /\ pos' \in [Databases -> Revisions] /\ schema' \in [Databases -> Revisions]
      /\ path' \in [Databases -> Seq(All)]
  BY <1>1, <1>2, <1>3, <1>4 DEF StoreInv, TypeOK, SequencesOK
<1> QED
  BY <1>3, <1>5, FilesUntouched DEF files, history, StoreInv, TypeOK

\* A path is given up: the database refuses an edge, or the run ends.
LEMMA GiveUpKeepsStore ==
  ASSUME StoreInv, NEW d \in Databases, RefuseEdge(d) \/ StopApply(d)
  PROVE  StoreInv'
<1>1. /\ path' = [path EXCEPT ![d] = <<>>]
      /\ UNCHANGED <<files, queue, theirs, pos, schema, history>>
      /\ crashes' = crashes \/ (crashes < MaxCrashes /\ crashes' = crashes + 1)
  BY DEF RefuseEdge, StopApply
<1>2. path' \in [Databases -> Seq(All)]
  <2>1. <<>> \in Seq(All)
    OBVIOUS
  <2> QED
    BY <1>1, <2>1 DEF StoreInv, SequencesOK
<1>3. crashes' \in 0..MaxCrashes
  BY <1>1, BoundsAssumption DEF StoreInv, TypeOK, BoundsAssumption
<1> QED
  BY <1>1, <1>2, <1>3, FilesUntouched DEF files, history, StoreInv, TypeOK

\* A database tries an edge of the branch.
LEMMA ApplyTheirsKeepsStore ==
  ASSUME StoreInv, NEW d \in Databases, ApplyTheirs(d)
  PROVE  StoreInv'
<1>1. PICK e \in ToSet(theirs) :
        /\ pos' = [pos EXCEPT ![d] = e.target]
        /\ schema' = [schema EXCEPT ![d] = Simulate(schema[d], e.ops)]
  BY DEF ApplyTheirs
<1>2. e.target \in Revisions /\ e.ops \in Seq(Changes)
  BY EdgeFields DEF StoreInv, TypeOK
<1>3. Simulate(schema[d], e.ops) \in Revisions
  BY <1>2, SimulateTyped DEF StoreInv, TypeOK
<1>4. UNCHANGED <<files, queue, theirs, path, history, crashes>>
  BY DEF ApplyTheirs
<1>5. /\ pos' \in [Databases -> Revisions] /\ schema' \in [Databases -> Revisions]
      /\ path' \in [Databases -> Seq(All)]
  BY <1>1, <1>2, <1>3, <1>4 DEF StoreInv, TypeOK, SequencesOK
<1> QED
  BY <1>4, <1>5, FilesUntouched DEF files, history, StoreInv, TypeOK

\* Nothing happens.
LEMMA StutterKeepsStore ==
  ASSUME StoreInv, UNCHANGED vars
  PROVE  StoreInv'
BY FilesUntouched DEF vars, files, databases, history, StoreInv, TypeOK, SequencesOK

\* Whatever commands are used and cut short: what is in the chain, on a branch
\* or about to be written has its type; every edge's ops lead from its parent to
\* its target, whether it was generated, squashed or re-parented; its manifests
\* are written first; what a consolidation supersedes stays.
THEOREM StoreInvariant == Spec => []StoreInv
<1>1. Init => StoreInv
  BY InitStore
<1>2. StoreInv /\ [Next]_vars => StoreInv'
  <2> SUFFICES ASSUME StoreInv, [Next]_vars PROVE StoreInv'
    OBVIOUS
  <2>1. CASE WriteNext
    BY <2>1, WriteNextKeepsStore
  <2>2. CASE CutShort
    BY <2>2, CutShortKeepsStore
  <2>3. CASE Generate
    BY <2>3, GenerateKeepsStore
  <2>4. CASE Squash
    BY <2>4, SquashKeepsStore
  <2>5. CASE Rebase
    BY <2>5, RebaseKeepsStore
  <2>6. CASE GenerateTheirs
    BY <2>6, GenerateTheirsKeepsStore
  <2>7. CASE MergeTheirs
    BY <2>7, MergeTheirsKeepsStore
  <2>8. ASSUME NEW d \in Databases, DatabaseNext(d) PROVE StoreInv'
    BY <2>8, ApplyTheirsKeepsStore, PlanApplyKeepsStore, ApplyEdgeKeepsStore,
       GiveUpKeepsStore DEF DatabaseNext
  <2>9. CASE UNCHANGED vars
    BY <2>9, StutterKeepsStore
  <2> QED
    BY <2>1, <2>2, <2>3, <2>4, <2>5, <2>6, <2>7, <2>8, <2>9 DEF Next, FileNext
<1> QED
  BY <1>1, <1>2, PTL DEF Spec

\* Every variable keeps its type.
THEOREM TypeCorrect == Spec => []TypeOK
<1>1. StoreInv => TypeOK
  BY DEF StoreInv
<1> QED
  BY <1>1, StoreInvariant, PTL

\* The checker's questions about single edges have good answers, whatever is
\* squashed, rebased and cut short: the endpoints of every edge have manifests,
\* its ops lead from the one to the other, what is superseded is still there.
THEOREM EdgesConsistent == Spec => [](Endpoints /\ KnownReproduce /\ SupersededKept)
<1>1. StoreInv => Endpoints /\ KnownReproduce /\ SupersededKept
  BY DEF StoreInv
<1> QED
  BY <1>1, StoreInvariant, PTL

-----------------------------------------------------------------------------
(***************************************************************************)
(* Where nobody rebases.  A re-parented edge may not run where it starts,   *)
(* and the remap takes a database for another revision than it is at: with  *)
(* neither, what a database is told is right.                               *)
(***************************************************************************)

\* The revisions are written as they are, and the remap leaves them alone.
LEMMA CanonIsPlain ==
  ASSUME NoRemaps, NEW r
  PROVE  Canon(r, remap) = r
BY CanonPlain DEF NoRemaps

\* It holds at the start.
LEMMA InitPlain == Init => PlainInv
<1> SUFFICES ASSUME Init PROVE PlainInv
  OBVIOUS
<1>1. DOMAIN <<>> = {}
  OBVIOUS
<1> QED
  BY <1>1 DEF Init, PlainInv, NoRemaps, EdgesRun, AtRevision, PathsFollow, Known, All,
              ToWrite, ToSet

\* Commands: the databases are left alone, no remap is to be written, and the
\* edges there are, or come in, run.
LEMMA CommandKeepsPlain ==
  ASSUME PlainInv, UNCHANGED databases, remap' = remap,
         \A i \in DOMAIN queue' : queue'[i].file # "remap",
         \A e \in Known' : e \in Known \/ Runs(e.parent, e.ops)
  PROVE  PlainInv'
BY DEF PlainInv, NoRemaps, EdgesRun, AtRevision, PathsFollow, databases

\* The next write of a command.
LEMMA WriteNextKeepsPlain ==
  ASSUME StoreInv, PlainInv, WriteNext
  PROVE  PlainInv'
<1>1. /\ queue # <<>> /\ queue' = Tail(queue) /\ UNCHANGED <<theirs, databases>>
  BY DEF WriteNext
<1>2. /\ queue[1] = Head(queue) /\ 1 \in DOMAIN queue
      /\ \A i \in DOMAIN queue' : i + 1 \in DOMAIN queue /\ queue'[i] = queue[i + 1]
      /\ ToWrite' \subseteq ToWrite
  BY <1>1, QueueAfterWrite DEF StoreInv
<1>3. Head(queue).file # "remap" /\ WriteOK(Head(queue))
  BY <1>2 DEF PlainInv, NoRemaps, StoreInv, SequencesOK
<1>4. remap' = remap
  BY <1>3 DEF WriteNext
<1>5. All' \subseteq All \union ToWrite
  <2>1. Head(queue).file \in {"edge", "squash"} => Head(queue).edge \in ToWrite
    BY <1>2 DEF ToWrite
  <2>2. Head(queue).file = "archive" => Head(queue).edge \in All
    BY <1>3 DEF WriteOK
  <2> QED
    BY <2>1, <2>2 DEF WriteNext, Archived, All
<1>6. Known' \subseteq Known
  BY <1>1, <1>2, <1>5 DEF Known
<1>7. \A i \in DOMAIN queue' : queue'[i].file # "remap"
  BY <1>2 DEF PlainInv, NoRemaps
<1> QED
  BY <1>1, <1>4, <1>6, <1>7, CommandKeepsPlain

\* A command begins that writes the edge c.
LEMMA StartKeepsPlain ==
  ASSUME PlainInv, UNCHANGED <<files, theirs, databases>>, NEW c, Runs(c.parent, c.ops),
         \A i \in DOMAIN queue' :
           /\ queue'[i].file # "remap"
           /\ queue'[i].file \in {"edge", "squash"} => queue'[i].edge = c
  PROVE  PlainInv'
<1>1. All' = All
  BY DEF files, All
<1>2. ToWrite' \subseteq {c}
  BY DEF ToWrite
<1>3. \A e \in Known' : e \in Known \/ Runs(e.parent, e.ops)
  BY <1>1, <1>2 DEF Known
<1> QED
  BY <1>3, CommandKeepsPlain DEF files

\* What generate finds and writes.
LEMMA GeneratePlan ==
  ASSUME StoreInv, Generate
  PROVE  \E head \in ChainHeads(live), edit \in wanted : \E e \in Edges :
           /\ e = EdgeFrom(head, edit) /\ edit \in Edits /\ head \in Revisions
           /\ e.parent = head /\ e.ops = <<edit>> /\ Runs(e.parent, e.ops)
           /\ Reproduces(e)
           /\ queue' = GenerateWrites(e)
           /\ DOMAIN queue' = {1, 2}
           /\ queue'[1].file = "manifest"
           /\ queue'[2].file = "edge" /\ queue'[2].edge = e
<1>1. PICK head \in ChainHeads(live), edit \in wanted :
        Runs(head, <<edit>>) /\ queue' = GenerateWrites(EdgeFrom(head, edit))
  BY DEF Generate
<1>2. head \in Revisions
  BY HeadsAreTargets, GenesisRevision, EdgeFields DEF StoreInv, TypeOK
<1>3. edit \in Edits
  BY DEF StoreInv, TypeOK
<1>4. PICK e : e = EdgeFrom(head, edit)
  OBVIOUS
<1>5. e \in Edges /\ e.parent = head /\ e.ops = <<edit>> /\ Reproduces(e)
  BY <1>2, <1>3, <1>4, GeneratedEdge
<1>6. queue' = <<ManifestFile(e.target), EdgeFile(e)>>
  BY <1>1, <1>4 DEF GenerateWrites
<1>7. /\ DOMAIN queue' = {1, 2} /\ queue'[1] = ManifestFile(e.target)
      /\ queue'[2] = EdgeFile(e)
  BY <1>6
<1> QED
  BY <1>1, <1>2, <1>3, <1>4, <1>5, <1>7 DEF ManifestFile, EdgeFile

\* generate and squash.
LEMMA NewEdgeKeepsPlain ==
  ASSUME StoreInv, PlainInv, Generate \/ Squash
  PROVE  PlainInv'
<1>1. CASE Generate
  <2>1. PICK e \in Edges :
          /\ Runs(e.parent, e.ops) /\ DOMAIN queue' = {1, 2}
          /\ queue'[1].file = "manifest" /\ queue'[2].file = "edge" /\ queue'[2].edge = e
    BY <1>1, GeneratePlan
  <2>2. UNCHANGED <<files, theirs, databases>>
    BY <1>1 DEF Generate
  <2> QED
    BY <2>1, <2>2, StartKeepsPlain
<1>2. CASE Squash
  <2>1. PICK p \in Seq(live), c \in Edges :
          /\ queue' = <<SquashFile(c, ToSet(p))>> \o ArchiveMoves(p)
          /\ p \in Seq(Edges)
          /\ EdgesRun => Runs(c.parent, c.ops)
    BY <1>2, SquashPlan
  <2>2. SquashQueue(queue', p, c)
    BY <2>1, SquashWrites
  <2>3. UNCHANGED <<files, theirs, databases>> /\ Runs(c.parent, c.ops)
    BY <1>2, <2>1 DEF Squash, PlainInv
  <2>4. \A i \in DOMAIN queue' :
          /\ queue'[i].file # "remap"
          /\ queue'[i].file \in {"edge", "squash"} => queue'[i].edge = c
    BY <2>2 DEF SquashQueue
  <2> QED
    BY <2>3, <2>4, StartKeepsPlain
<1> QED
  BY <1>1, <1>2

\* The edge a colleague adds to the branch.
LEMMA BranchPlan ==
  ASSUME StoreInv, GenerateTheirs
  PROVE  \E head \in IF theirs = <<>> THEN ChainHeads(live) ELSE {Last(theirs).target},
            edit \in wanted : \E e \in Edges :
           /\ edit \in Edits
           /\ e.parent = head /\ e.ops = <<edit>> /\ Runs(e.parent, e.ops)
           /\ theirs' = Append(theirs, e) /\ ToSet(theirs') = ToSet(theirs) \union {e}
           /\ wanted' = wanted \ {edit}
<1> DEFINE bases == IF theirs = <<>> THEN ChainHeads(live) ELSE {Last(theirs).target}
<1>1. PICK head \in bases, edit \in wanted :
        /\ Runs(head, <<edit>>) /\ wanted' = wanted \ {edit}
        /\ theirs' = Append(theirs, EdgeFrom(head, edit))
  BY DEF GenerateTheirs
<1>2. theirs \in Seq(Edges) /\ edit \in Edits
  BY DEF StoreInv, SequencesOK, TypeOK
<1>3. head \in Revisions
  <2>1. CASE theirs = <<>>
    BY <2>1, HeadsAreTargets, GenesisRevision, EdgeFields DEF StoreInv, TypeOK
  <2>2. CASE theirs # <<>>
    <3>1. Last(theirs) \in Edges
      <4>1. Len(theirs) \in 1..Len(theirs)
        BY <1>2, <2>2
      <4> QED
        BY <1>2, <4>1, OwnElements DEF Last
    <3> QED
      BY <2>2, <3>1, EdgeFields
  <2> QED
    BY <2>1, <2>2
<1>4. PICK e : e = EdgeFrom(head, edit)
  OBVIOUS
<1>5. e \in Edges /\ e.parent = head /\ e.ops = <<edit>>
  BY <1>2, <1>3, <1>4, GeneratedEdge
<1>6. theirs' = Append(theirs, e) /\ ToSet(theirs') = ToSet(theirs) \union {e}
  BY <1>1, <1>2, <1>4, <1>5, AppendElements
<1> QED
  BY <1>1, <1>2, <1>5, <1>6

\* A command cut short; a branch, grown and merged.
LEMMA OthersKeepPlain ==
  ASSUME StoreInv, PlainInv, CutShort \/ GenerateTheirs \/ MergeTheirs
  PROVE  PlainInv'
<1>1. CASE CutShort
  <2>1. /\ UNCHANGED <<files, theirs, databases>> /\ queue' = <<>>
    BY <1>1 DEF CutShort
  <2>2. DOMAIN queue' = {}
    BY <2>1
  <2>3. Known' \subseteq Known
    BY <2>1, <2>2 DEF Known, All, ToWrite, files
  <2> QED
    BY <2>1, <2>2, <2>3, CommandKeepsPlain DEF files
<1>2. CASE GenerateTheirs
  <2>1. PICK e \in Edges : /\ Runs(e.parent, e.ops)
                           /\ ToSet(theirs') = ToSet(theirs) \union {e}
    BY <1>2, BranchPlan
  <2>2. UNCHANGED <<files, queue, databases>>
    BY <1>2 DEF GenerateTheirs
  <2>3. \A f \in Known' : f \in Known \/ Runs(f.parent, f.ops)
    BY <2>1, <2>2 DEF Known, All, ToWrite, files
  <2>4. \A i \in DOMAIN queue' : queue'[i].file # "remap"
    BY <2>2 DEF PlainInv, NoRemaps
  <2> QED
    BY <2>2, <2>3, <2>4, CommandKeepsPlain DEF files
<1>3. CASE MergeTheirs
  <2>1. /\ live' = live \union ToSet(theirs) /\ theirs' = <<>>
        /\ UNCHANGED <<archive, remap, queue, databases>>
    BY <1>3 DEF MergeTheirs
  <2>2. Known' \subseteq Known
    <3>1. ToSet(theirs') = {}
      BY <2>1 DEF ToSet
    <3> QED
      BY <2>1, <3>1 DEF Known, All, ToWrite
  <2>3. \A i \in DOMAIN queue' : queue'[i].file # "remap"
    BY <2>1 DEF PlainInv, NoRemaps
  <2> QED
    BY <2>1, <2>2, <2>3, CommandKeepsPlain
<1> QED
  BY <1>1, <1>2, <1>3

\* A database asks for a path: it starts where the database is.
LEMMA PlanApplyKeepsPlain ==
  ASSUME StoreInv, PlainInv, NEW d \in Databases, PlanApply(d)
  PROVE  PlainInv'
<1>1. PICK p \in PathsOf(d) : path' = [path EXCEPT ![d] = p]
  BY DEF PlanApply
<1>2. /\ p # <<>> /\ p \in Seq(All) /\ IsWalk(p, Canon(pos[d], remap), All, remap)
      /\ UNCHANGED <<files, queue, theirs, pos, schema>>
  BY OfferedPaths DEF PlanApply
<1>3. NoRemaps
  BY DEF PlainInv
<1>4. /\ p[1].parent = pos[d]
      /\ \A i \in 1..(Len(p) - 1) : p[i].target = p[i + 1].parent
  BY <1>2, <1>3, CanonIsPlain DEF IsWalk
<1>5. PathsFollow'
  <2> SUFFICES ASSUME NEW k \in Databases, path'[k] # <<>>
               PROVE  /\ path'[k][1].parent = pos'[k]
                      /\ \A i \in 1..(Len(path'[k]) - 1) :
                           path'[k][i].target = path'[k][i + 1].parent
    BY DEF PathsFollow
  <2>1. path \in [Databases -> Seq(All)]
    BY DEF StoreInv, SequencesOK
  <2>2. CASE k = d
    <3>1. path'[k] = p /\ pos'[k] = pos[d]
      BY <1>1, <1>2, <2>1, <2>2
    <3> QED
      BY Zenon, <1>4, <3>1
  <2>3. CASE k # d
    <3>1. path'[k] = path[k] /\ pos'[k] = pos[k]
      BY <1>1, <1>2, <2>1, <2>3
    <3>2. path[k] # <<>>
      BY <3>1
    <3> QED
      BY Zenon, <3>1, <3>2 DEF PlainInv, PathsFollow
  <2> QED
    BY <2>2, <2>3
<1>6. Known' = Known
  BY <1>2 DEF Known, All, ToWrite, files
<1> QED
  BY <1>2, <1>5, <1>6 DEF PlainInv, NoRemaps, EdgesRun, AtRevision, files

\* An edge is run: the database moves from its parent to its target.
LEMMA ApplyEdgeKeepsPlain ==
  ASSUME StoreInv, PlainInv, NEW d \in Databases, ApplyEdge(d)
  PROVE  PlainInv'
<1> DEFINE e == Head(path[d])
           t == Tail(path[d])
<1>1. /\ path[d] # <<>>
      /\ pos' = [pos EXCEPT ![d] = e.target]
      /\ schema' = [schema EXCEPT ![d] = Simulate(schema[d], e.ops)]
      /\ path' = [path EXCEPT ![d] = t]
      /\ UNCHANGED <<files, queue, theirs>>
  BY DEF ApplyEdge, PositionAfter
<1>2. e \in All /\ e = path[d][1] /\ path[d] \in Seq(All)
  BY <1>1, NextEdge
<1>3. e.parent = pos[d] /\ schema[d] = pos[d]
  BY <1>1, <1>2 DEF PlainInv, PathsFollow, AtRevision
<1>4. Simulate(schema[d], e.ops) = e.target
  <2>1. e \in Known
    BY <1>2 DEF Known
  <2> QED
    BY <1>3, <2>1 DEF StoreInv, KnownReproduce, Reproduces
<1>5. /\ pos \in [Databases -> Revisions] /\ schema \in [Databases -> Revisions]
      /\ path \in [Databases -> Seq(All)]
  BY DEF StoreInv, TypeOK, SequencesOK
<1>6. t # <<>> => t[1].parent = e.target
  <2>1. ASSUME t # <<>> PROVE 1 \in 1..(Len(path[d]) - 1) /\ t[1] = path[d][1 + 1]
    <3>1. /\ DOMAIN t = 1..(Len(path[d]) - 1) /\ Len(path[d]) \in Nat
          /\ \A i \in DOMAIN t : t[i] = path[d][i + 1]
      BY <1>1, <1>2, TailElements
    <3>2. t \in Seq(All)
      BY <1>1, <1>2
    <3>3. 1 \in DOMAIN t
      <4> HIDE DEF t
      <4> QED
        BY <2>1, <3>2
    <3> HIDE DEF t
    <3> QED
      BY <3>1, <3>3
  <2>2. ASSUME t # <<>> PROVE path[d][1].target = path[d][1 + 1].parent
    BY <1>1, <2>1, <2>2 DEF PlainInv, PathsFollow
  <2> HIDE DEF t, e
  <2> QED
    BY Zenon, <1>2, <2>1, <2>2
<1>7. \A i \in 1..(Len(t) - 1) : t[i].target = t[i + 1].parent
  <2>1. /\ DOMAIN t = 1..(Len(path[d]) - 1) /\ Len(path[d]) \in Nat
        /\ Len(t) = Len(path[d]) - 1
        /\ \A i \in DOMAIN t : t[i] = path[d][i + 1]
    BY <1>1, <1>2, TailElements
  <2>2. \A i \in 1..(Len(path[d]) - 1) : path[d][i].target = path[d][i + 1].parent
    BY <1>1 DEF PlainInv, PathsFollow
  <2> HIDE DEF t
  <2>3. ASSUME NEW i \in 1..(Len(t) - 1) PROVE t[i].target = t[i + 1].parent
    <3>1. PICK k \in DOMAIN t : k = i + 1 /\ k \in 1..(Len(path[d]) - 1) /\ i \in DOMAIN t
      BY <2>1
    <3>2. t[i] = path[d][k] /\ t[k] = path[d][k + 1]
      BY Zenon, <2>1, <3>1
    <3>3. path[d][k].target = path[d][k + 1].parent
      BY <2>2, <3>1
    <3> QED
      BY Zenon, <3>1, <3>2, <3>3
  <2> QED
    BY <2>3
<1> HIDE DEF e, t
<1>8. AtRevision'
  BY <1>1, <1>4, <1>5 DEF PlainInv, AtRevision
<1>9. PathsFollow'
  <2> SUFFICES ASSUME NEW k \in Databases, path'[k] # <<>>
               PROVE  /\ path'[k][1].parent = pos'[k]
                      /\ \A i \in 1..(Len(path'[k]) - 1) :
                           path'[k][i].target = path'[k][i + 1].parent
    BY DEF PathsFollow
  <2>1. CASE k = d
    <3>1. path'[k] = t /\ pos'[k] = e.target
      BY <1>1, <1>5, <2>1
    <3> QED
      BY Zenon, <1>6, <1>7, <3>1
  <2>2. CASE k # d
    <3>1. path'[k] = path[k] /\ pos'[k] = pos[k]
      BY <1>1, <1>5, <2>2
    <3>2. path[k] # <<>>
      BY <3>1
    <3> QED
      BY Zenon, <3>1, <3>2 DEF PlainInv, PathsFollow
  <2> QED
    BY <2>1, <2>2
<1>10. Known' = Known
  BY <1>1 DEF Known, All, ToWrite, files
<1> QED
  BY <1>1, <1>8, <1>9, <1>10 DEF PlainInv, NoRemaps, EdgesRun, files

\* A path is given up; an edge of the branch is tried.
LEMMA OtherStepsKeepPlain ==
  ASSUME StoreInv, PlainInv, NEW d \in Databases,
         RefuseEdge(d) \/ StopApply(d) \/ ApplyTheirs(d)
  PROVE  PlainInv'
<1>1. /\ pos \in [Databases -> Revisions] /\ schema \in [Databases -> Revisions]
      /\ path \in [Databases -> Seq(All)]
  BY DEF StoreInv, TypeOK, SequencesOK
<1>2. CASE RefuseEdge(d) \/ StopApply(d)
  <2>1. /\ path' = [path EXCEPT ![d] = <<>>]
        /\ UNCHANGED <<files, queue, theirs, pos, schema>>
    BY <1>2 DEF RefuseEdge, StopApply
  <2>2. \A k \in Databases : path'[k] # <<>> => path'[k] = path[k] /\ pos'[k] = pos[k]
    BY <1>1, <2>1
  <2>3. PathsFollow'
    BY Zenon, <2>2 DEF PlainInv, PathsFollow
  <2>4. Known' = Known
    BY <2>1 DEF Known, All, ToWrite, files
  <2> QED
    BY <2>1, <2>3, <2>4 DEF PlainInv, NoRemaps, EdgesRun, AtRevision, files
<1>3. CASE ApplyTheirs(d)
  <2>1. PICK e \in ToSet(theirs) :
          /\ e.parent = pos[d] /\ path[d] = <<>>
          /\ pos' = [pos EXCEPT ![d] = e.target]
          /\ schema' = [schema EXCEPT ![d] = Simulate(schema[d], e.ops)]
          /\ UNCHANGED <<files, queue, theirs, path>>
    BY <1>3 DEF ApplyTheirs
  <2>2. Simulate(schema[d], e.ops) = e.target
    <3>1. schema[d] = e.parent
      BY <2>1 DEF PlainInv, AtRevision
    <3> QED
      BY <3>1 DEF StoreInv, KnownReproduce, Known, Reproduces
  <2>3. AtRevision'
    BY <1>1, <2>1, <2>2 DEF PlainInv, AtRevision
  <2>4. \A k \in Databases : path'[k] # <<>> => path'[k] = path[k] /\ pos'[k] = pos[k]
    BY <1>1, <2>1
  <2>5. PathsFollow'
    BY Zenon, <2>4 DEF PlainInv, PathsFollow
  <2>6. Known' = Known
    BY <2>1 DEF Known, All, ToWrite, files
  <2> QED
    BY <2>1, <2>3, <2>5, <2>6 DEF PlainInv, NoRemaps, EdgesRun, files
<1> QED
  BY <1>2, <1>3

\* Where nobody rebases, whatever is branched, squashed and cut short: edges run
\* where they start, and a database has the schema of the revision it is at and
\* follows edges from there.
THEOREM PlainInvariant ==
  ASSUME "rebase" \notin Commands
  PROVE  Spec => [](StoreInv /\ PlainInv)
<1>1. Init => StoreInv /\ PlainInv
  BY InitStore, InitPlain
<1>2. StoreInv /\ StoreInv' /\ PlainInv /\ [Next]_vars => PlainInv'
  <2> SUFFICES ASSUME StoreInv, PlainInv, [Next]_vars PROVE PlainInv'
    OBVIOUS
  <2>1. CASE WriteNext
    BY <2>1, WriteNextKeepsPlain
  <2>2. CASE Generate \/ Squash
    BY <2>2, NewEdgeKeepsPlain
  <2>3. CASE CutShort \/ GenerateTheirs \/ MergeTheirs
    BY <2>3, OthersKeepPlain
  <2>4. CASE Rebase
    BY <2>4 DEF Rebase
  <2>5. ASSUME NEW d \in Databases, DatabaseNext(d) PROVE PlainInv'
    BY <2>5, PlanApplyKeepsPlain, ApplyEdgeKeepsPlain, OtherStepsKeepPlain
      DEF DatabaseNext
  <2>6. CASE UNCHANGED vars
    BY <2>6 DEF vars, files, databases, PlainInv, NoRemaps, EdgesRun, AtRevision,
                PathsFollow, Known, All, ToWrite
  <2> QED
    BY <2>1, <2>2, <2>3, <2>4, <2>5, <2>6 DEF Next, FileNext
<1> QED
  BY <1>1, <1>2, StoreInvariant, PTL DEF Spec

\* A database that is told it is up to date has the schema of the head.
THEOREM UpToDate ==
  ASSUME "rebase" \notin Commands
  PROVE  Spec => []UpToDateIsTrue
<1>1. PlainInv => UpToDateIsTrue
  BY CanonIsPlain DEF PlainInv, AtRevision, UpToDateIsTrue
<1> QED
  BY <1>1, PlainInvariant, PTL

\* Every path the path-finder may choose for a database runs on the schema the
\* database has and leads to the schema of the head: also over archived edges,
\* over consolidations, and over both when a squash was cut short.
THEOREM PathsLeadHome ==
  ASSUME "rebase" \notin Commands
  PROVE  Spec => []PathLeadsHome
<1>1. StoreInv /\ PlainInv => PathLeadsHome
  <2> SUFFICES ASSUME StoreInv, PlainInv, NEW d \in Databases, Told(d) = "path",
                      NEW p \in PathsOf(d)
               PROVE  /\ Runs(schema[d], EdgesOps(p))
                      /\ Simulate(schema[d], EdgesOps(p)) = Canon(Last(p).target, remap)
    BY DEF PathLeadsHome
  <2>1. /\ p \in Seq(All) /\ p \in Seq(Edges) /\ p # <<>>
        /\ IsWalk(p, Canon(pos[d], remap), All, remap)
    BY OfferedPaths
  <2>2. NoRemaps /\ schema[d] = pos[d]
    BY DEF PlainInv, AtRevision
  <2>3. p[1].parent = schema[d] /\ Linked(p)
    BY <2>1, <2>2, CanonIsPlain DEF IsWalk, Linked
  <2>4. \A i \in 1..Len(p) : p[i] \in Known
    BY <2>1 DEF Known
  <2>5. \A i \in 1..Len(p) : Reproduces(p[i]) /\ Runs(p[i].parent, p[i].ops)
    BY <2>4 DEF StoreInv, KnownReproduce, PlainInv, EdgesRun
  <2>6. /\ Simulate(p[1].parent, EdgesOps(p)) = p[Len(p)].target
        /\ Runs(p[1].parent, EdgesOps(p))
    BY <2>1, <2>3, <2>5, PathReproduces
  <2>7. Canon(Last(p).target, remap) = p[Len(p)].target
    BY <2>2, CanonIsPlain DEF Last
  <2> QED
    BY Zenon, <2>3, <2>6, <2>7
<1> QED
  BY <1>1, PlainInvariant, PTL

-----------------------------------------------------------------------------
(***************************************************************************)
(* The writes of a command that is not a rebase.                           *)
(***************************************************************************)

\* What the next write does to the files, and what is left to write: a manifest;
\* the one edge of the command; an edge that moves away.
WriteEffect(w) ==
  \/ /\ w.file = "manifest"
     /\ UNCHANGED <<live, archive, supersedes, wanted>>
     /\ ToWrite' = ToWrite /\ ToArchive' = ToArchive
  \/ /\ w.file \in {"edge", "squash"}
     /\ live' = live \union {w.edge} /\ UNCHANGED archive
     /\ ToWrite = {w.edge} /\ ToWrite' = {} /\ ToArchive' = ToArchive
     /\ w.edge \notin ToArchive
     /\ \A i \in DOMAIN queue' : queue'[i].file = "archive"
  \/ /\ w.file = "archive"
     /\ live' = live \ {w.edge} /\ archive' = archive \union {w.edge}
     /\ UNCHANGED <<supersedes, wanted>>
     /\ ToWrite = {} /\ ToWrite' = {}
     /\ ToArchive = ToArchive' \union {w.edge} /\ w.edge \notin ToArchive'
     /\ w.edge \in live

\* A write in order has one of these effects.
LEMMA WriteEffects ==
  ASSUME SequencesOK, NoRemaps, WritesInOrder, WriteNext
  PROVE  /\ WriteEffect(queue[1]) /\ 1 \in DOMAIN queue /\ Head(queue) = queue[1]
         /\ \A i \in DOMAIN queue' : i + 1 \in DOMAIN queue /\ queue'[i] = queue[i + 1]
<1> DEFINE w == queue[1]
<1>1. /\ queue # <<>> /\ queue' = Tail(queue)
  BY DEF WriteNext
<1>2. /\ w = Head(queue) /\ 1 \in DOMAIN queue
      /\ DOMAIN queue = 1..Len(queue) /\ DOMAIN queue' = 1..(Len(queue) - 1)
      /\ Len(queue) \in Nat
      /\ \A i \in DOMAIN queue' : i + 1 \in DOMAIN queue /\ queue'[i] = queue[i + 1]
      /\ \A i \in DOMAIN queue : i = 1 \/ i - 1 \in DOMAIN queue'
      /\ ToWrite' \subseteq ToWrite /\ ToArchive' \subseteq ToArchive
  BY <1>1, QueueAfterWrite
<1>3. \A i \in DOMAIN queue : i = 1 \/ \E k \in DOMAIN queue' : queue'[k] = queue[i]
  <2>1. ASSUME NEW i \in DOMAIN queue, i # 1
        PROVE  \E k \in DOMAIN queue' : queue'[k] = queue[i]
    <3>1. i - 1 \in DOMAIN queue' /\ (i - 1) + 1 = i
      BY <1>2, <2>1
    <3>2. queue'[i - 1] = queue[i]
      BY Zenon, <1>2, <3>1
    <3> QED
      BY <3>1, <3>2
  <2> QED
    BY <2>1
<1>4. w.file # "remap"
  BY <1>2 DEF NoRemaps
<1>5. CASE w.file = "manifest"
  <2>1. ToWrite \subseteq ToWrite' /\ ToArchive \subseteq ToArchive'
    BY <1>3, <1>5 DEF ToWrite, ToArchive
  <2>2. UNCHANGED <<live, archive, supersedes, wanted>>
    BY <1>2, <1>5 DEF WriteNext
  <2> QED
    BY <1>2, <1>5, <2>1, <2>2 DEF WriteEffect
<1>6. CASE w.file \in {"edge", "squash"}
  <2>1. \A i \in DOMAIN queue : i > 1 => queue[i].file = "archive"
    BY <1>2, <1>6 DEF WritesInOrder
  <2>2. ASSUME NEW i \in DOMAIN queue' PROVE queue'[i].file = "archive"
    <3>1. i + 1 \in DOMAIN queue /\ i + 1 > 1 /\ queue'[i] = queue[i + 1]
      BY <1>2
    <3> QED
      BY <2>1, <3>1
  <2>3. ToWrite' = {}
    BY <2>2 DEF ToWrite
  <2>4. ToWrite = {w.edge}
    <3>1. \A i \in DOMAIN queue : i = 1 \/ i > 1
      BY <1>2
    <3> QED
      BY <1>2, <1>6, <2>1, <3>1 DEF ToWrite
  <2>5. ToArchive \subseteq ToArchive'
    BY <1>3, <1>6 DEF ToArchive
  <2>6. live' = live \union {w.edge} /\ UNCHANGED archive
    BY <1>2, <1>6 DEF WriteNext
  <2>7. w.edge \notin ToArchive
    BY <2>4 DEF WritesInOrder
  <2> QED
    BY <1>2, <1>6, <2>2, <2>3, <2>4, <2>5, <2>6, <2>7 DEF WriteEffect
<1>7. CASE w.file = "archive"
  <2>1. ToWrite = {} /\ ToWrite' = {}
    <3>1. ASSUME NEW i \in DOMAIN queue PROVE queue[i].file \notin {"edge", "squash"}
      <4>1. CASE i = 1
        BY <1>7, <4>1
      <4>2. CASE i # 1
        <5>1. 1 \in 1..(i - 1)
          BY <1>2, <4>2
        <5> QED
          BY <1>7, <5>1 DEF WritesInOrder
      <4> QED
        BY <4>1, <4>2
    <3>2. ToWrite = {}
      BY <3>1 DEF ToWrite
    <3> QED
      BY <1>2, <3>2
  <2>2. ToArchive = ToArchive' \union {w.edge}
    BY SMTT(30), <1>2, <1>3, <1>7 DEF ToArchive
  <2>3. w.edge \notin ToArchive'
    <3> SUFFICES ASSUME NEW k \in DOMAIN queue', queue'[k].file = "archive",
                        queue'[k].edge = w.edge
                 PROVE  FALSE
      BY DEF ToArchive
    <3>1. k + 1 \in DOMAIN queue /\ queue'[k] = queue[k + 1] /\ k + 1 # 1
      BY <1>2
    <3>2. queue[k + 1].file = "archive" /\ queue[k + 1].edge = queue[1].edge
      BY <3>1
    <3> QED
      BY <1>2, <1>7, <3>1, <3>2 DEF WritesInOrder
  <2>4. w.edge \in live
    BY <1>2, <1>7 DEF WritesInOrder
  <2>5. live' = live \ {w.edge} /\ archive' = archive \union {w.edge}
        /\ UNCHANGED <<supersedes, wanted>>
    <3>1. Head(queue).file = "archive" /\ Head(queue) = w
      BY <1>2, <1>7
    <3> HIDE DEF w
    <3> QED
      BY <3>1 DEF WriteNext, Archived
  <2> QED
    BY <1>2, <1>7, <2>1, <2>2, <2>3, <2>4, <2>5 DEF WriteEffect
<1>8. w.file \in {"manifest", "edge", "squash", "archive", "remap"}
  BY <1>2 DEF WriteNext
<1>9. WriteEffect(w)
  BY <1>4, <1>5, <1>6, <1>7, <1>8
<1> QED
  BY <1>2, <1>9

\* The writes that are left are in order; the chain as it will be stays.
LEMMA WritesKeepOrder ==
  ASSUME SequencesOK, NoRemaps, WritesInOrder, WriteNext
  PROVE  /\ WritesInOrder'
         /\ Coming' = Coming /\ All' \ Coming' = All \ Coming
         /\ All' \union ToWrite' = All \union ToWrite
         /\ Known' = Known
<1>1. /\ WriteEffect(queue[1]) /\ 1 \in DOMAIN queue
      /\ \A i \in DOMAIN queue' : i + 1 \in DOMAIN queue /\ queue'[i] = queue[i + 1]
  BY WriteEffects
<1>2. /\ DOMAIN queue = 1..Len(queue) /\ DOMAIN queue' = 1..(Len(queue) - 1)
      /\ Len(queue) \in Nat
  BY QueueAfterWrite DEF WriteNext
<1>3. ToWrite' \intersect ToArchive' = {}
  BY <1>1 DEF WriteEffect, WritesInOrder
<1>4. ASSUME NEW i \in DOMAIN queue', queue'[i].file \in {"edge", "squash"}
      PROVE  /\ \A j \in 1..(i - 1) : queue'[j].file = "manifest"
             /\ \A j \in DOMAIN queue' : j > i => queue'[j].file = "archive"
  <2>1. i + 1 \in DOMAIN queue /\ queue'[i] = queue[i + 1] /\ i \in Nat
    BY <1>1, <1>2
  <2>2. /\ \A j \in 1..((i + 1) - 1) : queue[j].file = "manifest"
        /\ \A j \in DOMAIN queue : j > i + 1 => queue[j].file = "archive"
    BY <1>4, <2>1 DEF WritesInOrder
  <2>3. ASSUME NEW j \in 1..(i - 1) PROVE queue'[j].file = "manifest"
    <3>1. j \in DOMAIN queue' /\ j + 1 \in 1..((i + 1) - 1)
      BY <1>2, <2>1
    <3> QED
      BY <1>1, <2>2, <3>1
  <2>4. ASSUME NEW j \in DOMAIN queue', j > i PROVE queue'[j].file = "archive"
    <3>1. j + 1 \in DOMAIN queue /\ j + 1 > i + 1
      BY <1>2, <2>1, <2>4
    <3> QED
      BY <1>1, <2>2, <3>1
  <2> QED
    BY <2>3, <2>4
<1>5. ASSUME NEW i \in DOMAIN queue', NEW j \in DOMAIN queue',
             queue'[i].file = "archive", queue'[j].file = "archive"
      PROVE  /\ queue'[i].edge \in live'
             /\ queue'[i].edge = queue'[j].edge => i = j
  <2>1. i + 1 \in DOMAIN queue /\ j + 1 \in DOMAIN queue
        /\ queue'[i] = queue[i + 1] /\ queue'[j] = queue[j + 1]
    BY <1>1
  <2>2. /\ queue[i + 1].edge \in live
        /\ queue[i + 1].edge = queue[j + 1].edge => i + 1 = j + 1
    BY <1>5, <2>1 DEF WritesInOrder
  <2>3. queue'[i].edge \in ToArchive'
    BY <1>5 DEF ToArchive
  <2>4. queue'[i].edge \in live'
    BY <1>1, <2>1, <2>2, <2>3 DEF WriteEffect
  <2> QED
    BY <1>2, <2>1, <2>2, <2>4
<1>6. WritesInOrder'
  BY <1>3, <1>4, <1>5 DEF WritesInOrder
<1>7. Coming' = Coming /\ All' \ Coming' = All \ Coming
      /\ All' \union ToWrite' = All \union ToWrite
  BY <1>1 DEF WriteEffect, Coming, All
<1>8. Known' = Known
  BY <1>7 DEF Known, WriteNext
<1> QED
  BY <1>6, <1>7, <1>8

-----------------------------------------------------------------------------
(***************************************************************************)
(* Who makes which edit, where nobody rebases and no command is cut short.  *)
(***************************************************************************)

\* An edge with ops makes some edit, and what it uses is not unused.
LEMMA UsesSome ==
  ASSUME NEW e \in Edges, e.ops # <<>>
  PROVE  Uses(e) # {}
<1>1. e.ops \in Seq(Changes)
  BY EdgeFields
<1>2. 1 \in DOMAIN e.ops
  BY <1>1
<1> QED
  BY <1>2 DEF Uses, ToSet

\* Every edge makes some edit.
LEMMA KnownUse ==
  ASSUME StoreInv, EditsOnce, NEW e \in Known
  PROVE  Uses(e) # {}
<1>1. e \in Edges
  BY KnownEdges DEF StoreInv
<1> QED
  BY <1>1, UsesSome DEF EditsOnce

\* With no write under way, the chain is what it will be.
LEMMA QuietFiles ==
  ASSUME queue = <<>>
  PROVE  /\ ToWrite = {} /\ ToArchive = {} /\ Coming = live
         /\ Known = All \union ToSet(theirs) /\ Unused = wanted
         /\ WritesInOrder
<1>1. DOMAIN queue = {}
  OBVIOUS
<1>2. ToWrite = {} /\ ToArchive = {} /\ Unused = wanted
  BY <1>1 DEF ToWrite, ToArchive, Unused
<1> QED
  BY <1>1, <1>2 DEF Coming, Known, WritesInOrder

\* The next write of a command.
LEMMA WriteNextKeepsEdits ==
  ASSUME StoreInv, PlainInv, EditsInv, WriteNext
  PROVE  EditsInv'
<1> SUFFICES ASSUME crashes = 0
             PROVE  WritesInOrder' /\ EditsOnce' /\ EdgesOnce'
  BY DEF EditsInv, WriteNext
<1> DEFINE w == queue[1]
<1>1. WritesInOrder /\ EditsOnce /\ EdgesOnce /\ SequencesOK /\ NoRemaps
  BY DEF EditsInv, StoreInv, PlainInv
<1>2. /\ WriteEffect(w) /\ 1 \in DOMAIN queue /\ Head(queue) = w
      /\ \A i \in DOMAIN queue' : i + 1 \in DOMAIN queue /\ queue'[i] = queue[i + 1]
  BY <1>1, WriteEffects
<1>3. /\ WritesInOrder'
      /\ Coming' = Coming /\ All' \ Coming' = All \ Coming
      /\ All' \union ToWrite' = All \union ToWrite
      /\ Known' = Known
  BY <1>1, WritesKeepOrder
<1>4. theirs' = theirs
  BY DEF WriteNext
<1>5. Unused' \subseteq Unused
  <2>1. w.file = "edge" => wanted' = wanted \ Uses(w.edge)
    BY <1>2 DEF WriteNext, Uses
  <2>2. w.file # "edge" => wanted' = wanted
    BY <1>2 DEF WriteNext
  <2>3. DOMAIN queue = 1..Len(queue) /\ Len(queue) \in Nat
        /\ \A i \in DOMAIN queue : i = 1 \/ i - 1 \in DOMAIN queue'
    BY QueueAfterWrite, <1>1 DEF WriteNext
  <2>4. \A i \in DOMAIN queue : i = 1 \/ \E k \in DOMAIN queue' : queue'[k] = queue[i]
    <3>1. ASSUME NEW i \in DOMAIN queue, i # 1
          PROVE  \E k \in DOMAIN queue' : queue'[k] = queue[i]
      <4>1. i - 1 \in DOMAIN queue' /\ (i - 1) + 1 = i
        BY <2>3, <3>1
      <4>2. queue'[i - 1] = queue[i]
        BY Zenon, <1>2, <4>1
      <4> QED
        BY <4>1, <4>2
    <3> QED
      BY <3>1
  <2> SUFFICES ASSUME NEW x \in Unused', x \notin Unused PROVE FALSE
    OBVIOUS
  <2>5. x \in wanted' /\ x \in wanted
    BY <2>1, <2>2 DEF Unused
  <2>6. PICK i \in DOMAIN queue : queue[i].file = "edge" /\ x \in Uses(queue[i].edge)
    BY <2>5 DEF Unused
  <2>7. i # 1
    BY <2>1, <2>5, <2>6
  <2>8. PICK k \in DOMAIN queue' : queue'[k] = queue[i]
    BY <2>4, <2>7
  <2> QED
    BY <2>6, <2>8 DEF Unused
<1>6. EditsOnce'
  <2>1. \A e \in Known : e.ops # <<>> /\ Uses(e) \intersect Unused' = {}
    BY <1>1, <1>5 DEF EditsOnce
  <2> QED
    BY <1>1, <1>3, <1>4, <2>1 DEF EditsOnce
<1>7. CASE w.file = "squash"
  <2> DEFINE c == w.edge
             one == [e \in {c} |-> w.over]
  <2>1. supersedes' = Merge(one, supersedes)
    BY <1>2, <1>7 DEF WriteNext
  <2>2. /\ DOMAIN Merge(one, supersedes) = {c} \union DOMAIN supersedes
        /\ Merge(one, supersedes)[c] = w.over
        /\ \A k \in DOMAIN supersedes \ {c} : Merge(one, supersedes)[k] = supersedes[k]
    <3>1. DOMAIN one = {c} /\ one[c] = w.over
      OBVIOUS
    <3> HIDE DEF one, c
    <3>2. /\ DOMAIN Merge(one, supersedes) = DOMAIN one \union DOMAIN supersedes
          /\ \A k \in DOMAIN one : Merge(one, supersedes)[k] = one[k]
          /\ \A k \in DOMAIN supersedes \ DOMAIN one :
               Merge(one, supersedes)[k] = supersedes[k]
      BY MergeEntries
    <3> QED
      BY <3>1, <3>2
  <2> HIDE DEF one
  <2>3. /\ w.over \subseteq ToArchive
        /\ \A k \in Consolidations : supersedes[k] \intersect w.over = {}
    BY <1>1, <1>2, <1>7 DEF EdgesOnce
  <2>4. /\ ToWrite = {c} /\ ToWrite' = {} /\ live' = live \union {c}
        /\ archive' = archive /\ c \notin ToArchive /\ ToArchive' = ToArchive
        /\ \A i \in DOMAIN queue' : queue'[i].file = "archive"
    BY <1>2, <1>7 DEF WriteEffect
  <2>5. c \notin All /\ c \notin Consolidations
    BY <1>1, <2>4 DEF EdgesOnce, StoreInv, TypeOK
  <2>6. ToArchive \subseteq live
    BY <1>1 DEF WritesInOrder, ToArchive
  <2>7. ToArchive \subseteq All \ Coming
    BY <1>1, <2>6 DEF Coming, WritesInOrder, All
  <2> HIDE DEF w, c
  <2>8. DOMAIN supersedes' = {c} \union Consolidations /\ supersedes'[c] = w.over
        /\ \A k \in Consolidations : supersedes'[k] = supersedes[k]
    BY <2>1, <2>2, <2>5 DEF Consolidations
  <2>9. \A k \in DOMAIN supersedes' : supersedes'[k] \subseteq All' \ Coming'
    BY <1>1, <1>3, <2>3, <2>7, <2>8 DEF EdgesOnce
  <2>10. \A k, l \in DOMAIN supersedes' :
           k # l => supersedes'[k] \intersect supersedes'[l] = {}
    BY <1>1, <2>3, <2>8 DEF EdgesOnce, ConsolidationsDisjoint
  <2>11. live' \intersect archive' = {}
    BY <1>1, <2>4, <2>5 DEF EdgesOnce, All
  <2> QED
    BY <1>3, <1>6, <2>4, <2>9, <2>10, <2>11
      DEF EdgesOnce, ConsolidationsDisjoint, Consolidations
<1>8. CASE w.file # "squash"
  <2>1. supersedes' = supersedes
    BY <1>2, <1>8 DEF WriteNext
  <2>2. ToWrite' \intersect All' = {} /\ live' \intersect archive' = {}
    BY <1>1, <1>2 DEF WriteEffect, EdgesOnce, All
  <2>3. ASSUME NEW i \in DOMAIN queue', queue'[i].file = "squash"
        PROVE  /\ queue'[i].over \subseteq ToArchive'
               /\ \A c \in Consolidations : supersedes[c] \intersect queue'[i].over = {}
    <3>1. i + 1 \in DOMAIN queue /\ queue[i + 1].file = "squash" /\ queue'[i] = queue[i + 1]
      BY <1>2, <2>3
    <3>2. /\ queue'[i].over \subseteq ToArchive
          /\ \A c \in Consolidations : supersedes[c] \intersect queue'[i].over = {}
      BY <1>1, <3>1 DEF EdgesOnce
    <3>3. queue'[i].edge \in ToWrite'
      BY <2>3 DEF ToWrite
    <3>4. ToArchive' = ToArchive
      BY <1>2, <3>3 DEF WriteEffect
    <3> QED
      BY <3>2, <3>4
  <2> HIDE DEF w
  <2> QED
    BY <1>1, <1>3, <1>6, <2>1, <2>2, <2>3
      DEF EdgesOnce, ConsolidationsDisjoint, Consolidations
<1> QED
  BY <1>7, <1>8

\* generate: an edit that was unused.
LEMMA GenerateKeepsEdits ==
  ASSUME StoreInv, EditsInv, Generate
  PROVE  EditsInv'
<1> SUFFICES ASSUME crashes = 0
             PROVE  WritesInOrder' /\ EditsOnce' /\ EdgesOnce'
  BY DEF EditsInv, Generate
<1>1. EditsOnce /\ EdgesOnce /\ queue = <<>>
  BY DEF EditsInv, Generate
<1>2. PICK edit \in wanted, e \in Edges :
        /\ e.ops = <<edit>> /\ DOMAIN queue' = {1, 2}
        /\ queue'[1].file = "manifest" /\ queue'[2].file = "edge" /\ queue'[2].edge = e
  BY GeneratePlan
<1>3. Uses(e) = {edit} /\ e.ops # <<>>
  <2>1. DOMAIN <<edit>> = {1} /\ <<edit>>[1] = edit /\ <<edit>> # <<>>
    OBVIOUS
  <2> QED
    BY <1>2, <2>1 DEF Uses, ToSet
<1>4. /\ ToWrite' = {e} /\ ToArchive' = {}
      /\ Unused' = wanted' \ {edit}
  BY <1>2, <1>3 DEF ToWrite, ToArchive, Unused
<1>5. UNCHANGED <<files, theirs, wanted>>
  BY DEF Generate, history
<1>6. /\ Coming = live /\ Known = All \union ToSet(theirs) /\ Unused = wanted
      /\ ToWrite = {}
  BY <1>1, QuietFiles
<1>7. All' = All /\ Coming' = live \union {e} /\ Known' = Known \union {e}
      /\ Consolidations' = Consolidations /\ supersedes' = supersedes
      /\ live' = live /\ archive' = archive /\ theirs' = theirs /\ wanted' = wanted
  BY <1>4, <1>5, <1>6 DEF All, Coming, Known, Consolidations, files
<1>8. \A f \in Known : Uses(f) \intersect Uses(e) = {} /\ f.ops # <<>>
                       /\ Uses(f) \intersect wanted = {}
  BY <1>1, <1>3, <1>6 DEF EditsOnce
<1>9. e \notin All
  BY <1>3, <1>6, <1>8
<1>10. WritesInOrder'
  <2>1. 1..(2 - 1) = {1}
    OBVIOUS
  <2> QED
    BY <1>2, <1>4, <2>1 DEF WritesInOrder
<1>11. EditsOnce'
  <2>1. \A f \in Known' : f.ops # <<>> /\ Uses(f) \intersect Unused' = {}
    BY <1>3, <1>4, <1>7, <1>8
  <2>2. \A f, g \in Coming' : f # g => Uses(f) \intersect Uses(g) = {}
    BY <1>1, <1>6, <1>7, <1>8 DEF EditsOnce, All
  <2>3. \A f \in All' \union ToWrite', t \in ToSet(theirs') : Uses(f) \intersect Uses(t) = {}
    BY <1>1, <1>4, <1>6, <1>7, <1>8 DEF EditsOnce
  <2>4. \A a \in All' \ Coming' : \E c \in Coming' :
          Uses(a) \subseteq Uses(c) /\ Uses(a) # Uses(c)
    BY <1>1, <1>6, <1>7 DEF EditsOnce
  <2> QED
    BY <1>1, <1>7, <2>1, <2>2, <2>3, <2>4 DEF EditsOnce
<1>12. EdgesOnce'
  <2>1. \A i \in DOMAIN queue' : queue'[i].file # "squash"
    BY <1>2
  <2>2. ConsolidationsDisjoint'
    BY <1>1, <1>7 DEF EdgesOnce, ConsolidationsDisjoint
  <2>3. \A c \in Consolidations' : supersedes'[c] \subseteq All' \ Coming'
    BY <1>1, <1>6, <1>7, <1>9 DEF EdgesOnce
  <2> QED
    BY <1>1, <1>4, <1>7, <1>9, <2>1, <2>2, <2>3 DEF EdgesOnce
<1> QED
  BY <1>10, <1>11, <1>12

\* A squash begins: its files, its writes and the chain it leads to.
LEMMA SquashBegins ==
  ASSUME StoreInv, Squash, NEW p \in Seq(live), NEW c, SquashQueue(queue', p, c)
  PROVE  /\ queue = <<>> /\ UNCHANGED <<files, theirs, wanted, crashes, merged>>
         /\ ToWrite' = {c} /\ ToArchive' = ToSet(p)
         /\ All' = All /\ Coming' = (live \ ToSet(p)) \union {c}
         /\ Consolidations' = Consolidations
         /\ \A i \in DOMAIN queue' :
              \/ i = 1 /\ queue'[i].file = "squash" /\ queue'[i].over = ToSet(p)
              \/ i > 1 /\ queue'[i].file = "archive"
<1>1. queue = <<>> /\ UNCHANGED <<files, theirs, history, crashes>>
  BY DEF Squash
<1>2. /\ ToSet(p) \subseteq live /\ DOMAIN p = 1..Len(p) /\ Len(p) \in Nat
  BY OwnElements
<1>3. \A i \in DOMAIN queue' :
        \/ i = 1 /\ queue'[i].file = "squash" /\ queue'[i].over = ToSet(p)
        \/ i > 1 /\ queue'[i].file = "archive" /\ queue'[i].edge \in ToSet(p)
  <2> SUFFICES ASSUME NEW i \in DOMAIN queue', i # 1
               PROVE  i > 1 /\ queue'[i].file = "archive" /\ queue'[i].edge \in ToSet(p)
    BY DEF SquashQueue
  <2>1. PICK k \in 1..Len(p) : i = k + 1
    BY DEF SquashQueue
  <2>2. queue'[i].file = "archive" /\ queue'[i].edge = p[k]
    BY <2>1 DEF SquashQueue
  <2> QED
    BY <1>2, <2>1, <2>2 DEF ToSet
<1>4. ToWrite' = {c}
  <2>1. 1 \in DOMAIN queue' /\ queue'[1].edge = c /\ queue'[1].file = "squash"
    BY <1>2 DEF SquashQueue
  <2>2. \A i \in DOMAIN queue' : queue'[i].file \in {"edge", "squash"} => i = 1
    BY <1>3
  <2> QED
    BY <2>1, <2>2 DEF ToWrite
<1>5. ToArchive' = ToSet(p)
  <2>1. ToArchive' \subseteq ToSet(p)
    BY <1>3 DEF ToArchive
  <2>2. ASSUME NEW k \in 1..Len(p) PROVE p[k] \in ToArchive'
    <3>1. k + 1 \in DOMAIN queue'
      BY <1>2 DEF SquashQueue
    <3>2. queue'[k + 1].file = "archive" /\ queue'[k + 1].edge = p[k]
      BY DEF SquashQueue
    <3> QED
      BY <3>1, <3>2 DEF ToArchive
  <2>3. ToSet(p) \subseteq ToArchive'
    BY <1>2, <2>2 DEF ToSet
  <2> QED
    BY <2>1, <2>3
<1>6. All' = All /\ Consolidations' = Consolidations
  BY <1>1 DEF All, Consolidations, files
<1>7. Coming' = (live \ ToSet(p)) \union {c}
  BY <1>1, <1>4, <1>5 DEF Coming, files
<1> QED
  BY <1>1, <1>3, <1>4, <1>5, <1>6, <1>7 DEF history

\* The writes of a squash are in order, if its edge is new.
LEMMA SquashInOrder ==
  ASSUME StoreInv, Squash, NEW p \in Seq(live), NEW c, SquashQueue(queue', p, c),
         \A i, j \in 1..Len(p) : p[i] = p[j] => i = j,
         c \notin ToSet(p)
  PROVE  WritesInOrder'
<1>1. /\ UNCHANGED files /\ ToWrite' = {c} /\ ToArchive' = ToSet(p)
      /\ \A i \in DOMAIN queue' :
           \/ i = 1 /\ queue'[i].file = "squash" /\ queue'[i].over = ToSet(p)
           \/ i > 1 /\ queue'[i].file = "archive"
  BY SquashBegins
<1>2. /\ ToSet(p) \subseteq live /\ DOMAIN p = 1..Len(p) /\ Len(p) \in Nat
      /\ \A i \in 1..Len(p) : p[i] \in live
  BY OwnElements
<1>3. ASSUME NEW i \in DOMAIN queue', queue'[i].file \in {"edge", "squash"}
      PROVE  /\ \A j \in 1..(i - 1) : queue'[j].file = "manifest"
             /\ \A j \in DOMAIN queue' : j > i => queue'[j].file = "archive"
  <2>1. i = 1
    BY <1>1, <1>3
  <2>2. 1..(1 - 1) = {}
    OBVIOUS
  <2>3. \A j \in DOMAIN queue' : j > 1 => queue'[j].file = "archive"
    BY <1>1
  <2> QED
    BY <2>1, <2>2, <2>3
<1>4. ASSUME NEW i \in DOMAIN queue', NEW j \in DOMAIN queue',
             queue'[i].file = "archive", queue'[j].file = "archive"
      PROVE  /\ queue'[i].edge \in live'
             /\ queue'[i].edge = queue'[j].edge => i = j
  <2>1. i # 1 /\ j # 1
    BY <1>1, <1>4
  <2>2. PICK k \in 1..Len(p) : i = k + 1
    BY <2>1 DEF SquashQueue
  <2>3. PICK l \in 1..Len(p) : j = l + 1
    BY <2>1 DEF SquashQueue
  <2>4. queue'[i].edge = p[k] /\ queue'[j].edge = p[l]
    BY <2>2, <2>3 DEF SquashQueue
  <2> QED
    BY <1>1, <1>2, <2>2, <2>3, <2>4 DEF files
<1>5. ToWrite' \intersect ToArchive' = {}
  BY <1>1
<1> QED
  BY <1>3, <1>4, <1>5 DEF WritesInOrder

\* squash: the new edge makes the edits of those it supersedes.
LEMMA SquashKeepsEdits ==
  ASSUME StoreInv, EditsInv, Squash
  PROVE  EditsInv'
<1> SUFFICES ASSUME crashes = 0
             PROVE  WritesInOrder' /\ EditsOnce' /\ EdgesOnce'
  BY DEF EditsInv, Squash
<1>1. EditsOnce /\ EdgesOnce /\ queue = <<>>
  BY DEF EditsInv, Squash
<1>2. PICK p \in Seq(live), c \in Edges :
        /\ queue' = <<SquashFile(c, ToSet(p))>> \o ArchiveMoves(p)
        /\ p \in Seq(Edges) /\ Len(p) >= 2
        /\ \A i, j \in 1..Len(p) : p[i] = p[j] => i = j
        /\ c.ops = EdgesOps(p)
  BY SquashPlan
<1>3. SquashQueue(queue', p, c)
  BY <1>2, SquashWrites
<1>4. /\ UNCHANGED <<files, theirs, wanted>>
      /\ ToWrite' = {c} /\ ToArchive' = ToSet(p)
      /\ All' = All /\ Coming' = (live \ ToSet(p)) \union {c}
      /\ Consolidations' = Consolidations
      /\ \A i \in DOMAIN queue' :
           \/ i = 1 /\ queue'[i].file = "squash" /\ queue'[i].over = ToSet(p)
           \/ i > 1 /\ queue'[i].file = "archive"
  BY <1>3, SquashBegins
<1>5. /\ Coming = live /\ Known = All \union ToSet(theirs) /\ Unused = wanted
      /\ ToWrite = {}
  BY <1>1, QuietFiles
<1>6. /\ DOMAIN p = 1..Len(p) /\ Len(p) \in Nat /\ p # <<>>
      /\ 1 \in 1..Len(p) /\ 2 \in 1..Len(p)
      /\ \A i \in 1..Len(p) : p[i] \in live /\ p[i] \in Known /\ p[i] \in ToSet(p)
      /\ ToSet(p) \subseteq live
  BY <1>2, OwnElements DEF Known, All
\* Its edits.
<1>7. /\ \A i \in 1..Len(p) : Uses(p[i]) \subseteq Uses(c)
      /\ \A x \in Uses(c) : \E i \in 1..Len(p) : x \in Uses(p[i])
  BY <1>2, <1>6, EdgesOpsElements DEF Uses
<1>8. \A i \in 1..Len(p) : Uses(p[i]) # {}
  BY <1>1, <1>6, KnownUse
<1>9. \A e, f \in live : e # f => Uses(e) \intersect Uses(f) = {}
  BY <1>1, <1>5 DEF EditsOnce
<1>10. \A k \in live : ~(Uses(c) \subseteq Uses(k))
  <2> SUFFICES ASSUME NEW k \in live, Uses(c) \subseteq Uses(k) PROVE FALSE
    OBVIOUS
  <2>1. k = p[1] /\ k = p[2]
    BY <1>6, <1>7, <1>8, <1>9
  <2>2. p[1] = p[2] => 1 = 2
    BY Zenon, <1>2, <1>6
  <2> QED
    BY <2>1, <2>2
<1>11. c \notin All
  <2>1. c \notin live
    BY <1>10
  <2>2. c \notin All \ Coming
    <3>1. \A a \in All \ Coming : \E k \in Coming : Uses(a) \subseteq Uses(k)
      BY <1>1 DEF EditsOnce
    <3> QED
      BY <1>5, <1>10, <3>1
  <2> QED
    BY <1>5, <2>1, <2>2
<1>12. c \notin ToSet(p)
  BY <1>6, <1>11 DEF All
<1>13. WritesInOrder'
  BY <1>2, <1>3, <1>12, SquashInOrder
<1>14. /\ c.ops # <<>> /\ Uses(c) \intersect wanted = {}
       /\ \A f \in live \ ToSet(p) : Uses(f) \intersect Uses(c) = {}
       /\ \A t \in ToSet(theirs) : Uses(c) \intersect Uses(t) = {}
  <2>1. c.ops # <<>>
    <3>1. PICK x : x \in Uses(c)
      BY <1>6, <1>7, <1>8
    <3>2. ToSet(<<>>) = {}
      BY DEF ToSet
    <3> QED
      BY <3>1, <3>2 DEF Uses
  <2>2. ASSUME NEW x \in Uses(c)
        PROVE  /\ x \notin wanted
               /\ \A f \in live \ ToSet(p) : x \notin Uses(f)
               /\ \A t \in ToSet(theirs) : x \notin Uses(t)
    <3>1. PICK i \in 1..Len(p) : x \in Uses(p[i])
      BY <1>7
    <3>2. x \notin wanted
      BY <1>1, <1>5, <1>6, <3>1 DEF EditsOnce
    <3>3. \A f \in live \ ToSet(p) : x \notin Uses(f)
      BY <1>6, <1>9, <3>1
    <3>4. \A t \in ToSet(theirs) : x \notin Uses(t)
      BY <1>1, <1>6, <3>1 DEF EditsOnce, All
    <3> QED
      BY <3>2, <3>3, <3>4
  <2> QED
    BY <2>1, <2>2
<1>15. Unused' = wanted
  <2>1. \A i \in DOMAIN queue' : queue'[i].file # "edge"
    BY <1>4
  <2> QED
    BY <1>4, <2>1 DEF Unused
<1>16. EditsOnce'
  <2>1. \A f \in Known' : f.ops # <<>> /\ Uses(f) \intersect Unused' = {}
    <3>1. Known' = Known \union {c}
      BY <1>4, <1>5 DEF Known
    <3>2. \A f \in Known : f.ops # <<>> /\ Uses(f) \intersect wanted = {}
      BY <1>1, <1>5 DEF EditsOnce
    <3> QED
      BY <1>14, <1>15, <3>1, <3>2
  <2>2. \A f, g \in Coming' : f # g => Uses(f) \intersect Uses(g) = {}
    BY <1>4, <1>9, <1>14
  <2>3. \A f \in All' \union ToWrite', t \in ToSet(theirs') : Uses(f) \intersect Uses(t) = {}
    BY <1>1, <1>4, <1>14 DEF EditsOnce
  <2>4. ASSUME NEW a \in All' \ Coming'
        PROVE  \E k \in Coming' : Uses(a) \subseteq Uses(k) /\ Uses(a) # Uses(k)
    <3>1. CASE a \in live
      <4>1. a \in ToSet(p)
        BY <1>4, <2>4, <3>1
      <4>2. Uses(a) \subseteq Uses(c) /\ Uses(a) # Uses(c)
        <5>1. PICK i \in 1..Len(p) : a = p[i]
          BY <1>6, <4>1 DEF ToSet
        <5> QED
          BY <1>7, <1>10, <3>1, <5>1
      <4> QED
        BY <1>4, <4>2
    <3>2. CASE a \notin live
      <4>1. a \in All \ Coming
        BY <1>4, <1>5, <2>4, <3>2
      <4>2. PICK k \in live : Uses(a) \subseteq Uses(k) /\ Uses(a) # Uses(k)
        BY <1>1, <1>5, <4>1 DEF EditsOnce
      <4>3. CASE k \in ToSet(p)
        <5>1. PICK i \in 1..Len(p) : k = p[i]
          BY <1>6, <4>3 DEF ToSet
        <5>2. Uses(a) \subseteq Uses(c) /\ Uses(a) # Uses(c)
          BY <1>7, <4>2, <5>1
        <5> QED
          BY <1>4, <5>2
      <4>4. CASE k \notin ToSet(p)
        BY <1>4, <4>2, <4>4
      <4> QED
        BY <4>3, <4>4
    <3> QED
      BY <3>1, <3>2
  <2> QED
    BY <1>1, <1>4, <2>1, <2>2, <2>3, <2>4 DEF EditsOnce
<1>17. EdgesOnce'
  <2>1. live' = live /\ archive' = archive /\ supersedes' = supersedes
    BY <1>4 DEF files
  <2>2. ToSet(p) \subseteq All \ Coming'
    BY <1>4, <1>6, <1>12 DEF All
  <2>3. \A k \in Consolidations : supersedes[k] \subseteq All \ live
    BY <1>1, <1>5 DEF EdgesOnce
  <2>4. \A k \in Consolidations : supersedes[k] \subseteq All \ Coming'
    BY <1>4, <1>11, <2>3
  <2>5. \A k \in Consolidations : supersedes[k] \intersect ToSet(p) = {}
    BY <1>6, <2>3
  <2>6. ConsolidationsDisjoint'
    BY <1>1, <1>4, <2>1 DEF EdgesOnce, ConsolidationsDisjoint
  <2>7. \A i \in DOMAIN queue' : queue'[i].file = "squash" =>
          /\ queue'[i].over \subseteq ToArchive'
          /\ \A k \in Consolidations' : supersedes'[k] \intersect queue'[i].over = {}
    BY <1>4, <2>1, <2>5
  <2> QED
    BY <1>1, <1>4, <1>11, <2>1, <2>4, <2>6, <2>7 DEF EdgesOnce
<1> QED
  BY <1>13, <1>16, <1>17

\* A colleague's edge makes an edit that was unused.
LEMMA GenerateTheirsKeepsEdits ==
  ASSUME StoreInv, EditsInv, GenerateTheirs
  PROVE  EditsInv'
<1> SUFFICES ASSUME crashes = 0
             PROVE  WritesInOrder' /\ EditsOnce' /\ EdgesOnce'
  BY DEF EditsInv, GenerateTheirs
<1>1. EditsOnce /\ EdgesOnce /\ queue = <<>>
  BY DEF EditsInv, GenerateTheirs
<1>2. PICK edit \in wanted, e \in Edges :
        /\ e.ops = <<edit>> /\ ToSet(theirs') = ToSet(theirs) \union {e}
        /\ wanted' = wanted \ {edit}
  BY BranchPlan
<1>3. Uses(e) = {edit} /\ e.ops # <<>>
  <2>1. DOMAIN <<edit>> = {1} /\ <<edit>>[1] = edit /\ <<edit>> # <<>>
    OBVIOUS
  <2> QED
    BY <1>2, <2>1 DEF Uses, ToSet
<1>4. UNCHANGED <<files, queue>>
  BY DEF GenerateTheirs
<1>5. /\ ToWrite = {} /\ ToArchive = {} /\ Coming = live
      /\ Known = All \union ToSet(theirs) /\ Unused = wanted
  BY <1>1, QuietFiles
<1>6. DOMAIN queue' = {}
  BY <1>1, <1>4
<1>7. /\ ToWrite' = {} /\ Unused' = wanted' /\ WritesInOrder'
      /\ live' = live /\ archive' = archive /\ supersedes' = supersedes
      /\ All' = All /\ Coming' = live /\ Consolidations' = Consolidations
      /\ Known' = Known \union {e}
  BY <1>2, <1>4, <1>5, <1>6
    DEF ToWrite, ToArchive, Unused, WritesInOrder, All, Coming, Consolidations, Known, files
<1>8. \A f \in Known : Uses(f) \intersect Uses(e) = {} /\ f.ops # <<>>
                       /\ Uses(f) \intersect wanted = {}
  BY <1>1, <1>3, <1>5 DEF EditsOnce
<1>9. EditsOnce'
  <2>1. \A f \in Known' : f.ops # <<>> /\ Uses(f) \intersect Unused' = {}
    BY <1>2, <1>3, <1>7, <1>8
  <2>2. \A f \in All' \union ToWrite', t \in ToSet(theirs') : Uses(f) \intersect Uses(t) = {}
    BY <1>1, <1>2, <1>5, <1>7, <1>8 DEF EditsOnce
  <2>3. \A s, t \in ToSet(theirs') : s # t => Uses(s) \intersect Uses(t) = {}
    BY <1>1, <1>2, <1>5, <1>8 DEF EditsOnce
  <2> QED
    BY <1>1, <1>5, <1>7, <2>1, <2>2, <2>3 DEF EditsOnce
<1>10. EdgesOnce'
  BY <1>1, <1>5, <1>6, <1>7 DEF EdgesOnce, ConsolidationsDisjoint
<1> QED
  BY <1>7, <1>9, <1>10

\* The branch is merged: its edges make none of the chain's edits, so they are
\* none of its edges.
LEMMA MergeTheirsKeepsEdits ==
  ASSUME StoreInv, EditsInv, MergeTheirs
  PROVE  EditsInv' /\ (crashes = 0 => All \intersect ToSet(theirs) = {})
<1> SUFFICES ASSUME crashes = 0
             PROVE  /\ WritesInOrder' /\ EditsOnce' /\ EdgesOnce'
                    /\ All \intersect ToSet(theirs) = {}
  BY DEF EditsInv, MergeTheirs
<1>1. EditsOnce /\ EdgesOnce /\ queue = <<>>
  BY DEF EditsInv, MergeTheirs
<1>2. /\ live' = live \union ToSet(theirs) /\ theirs' = <<>>
      /\ UNCHANGED <<archive, supersedes, queue, wanted>>
  BY DEF MergeTheirs
<1>3. /\ ToWrite = {} /\ ToArchive = {} /\ Coming = live
      /\ Known = All \union ToSet(theirs) /\ Unused = wanted
  BY <1>1, QuietFiles
<1>4. DOMAIN queue' = {} /\ ToSet(theirs') = {}
  BY <1>1, <1>2 DEF ToSet
<1>5. /\ ToWrite' = {} /\ Unused' = wanted /\ WritesInOrder'
      /\ All' = All \union ToSet(theirs) /\ Coming' = live \union ToSet(theirs)
      /\ Consolidations' = Consolidations /\ Known' = Known
  BY <1>2, <1>3, <1>4
    DEF ToWrite, ToArchive, Unused, WritesInOrder, All, Coming, Consolidations, Known
<1>6. All \intersect ToSet(theirs) = {}
  <2> SUFFICES ASSUME NEW e \in All, e \in ToSet(theirs) PROVE FALSE
    OBVIOUS
  <2>1. Uses(e) # {}
    BY <1>1, KnownUse DEF Known
  <2> QED
    BY <1>1, <2>1 DEF EditsOnce
<1>7. EditsOnce'
  <2>1. \A f, g \in Coming' : f # g => Uses(f) \intersect Uses(g) = {}
    BY <1>1, <1>3, <1>5 DEF EditsOnce, All
  <2>2. \A a \in All' \ Coming' : \E c \in Coming' :
          Uses(a) \subseteq Uses(c) /\ Uses(a) # Uses(c)
    BY <1>1, <1>3, <1>5 DEF EditsOnce
  <2> QED
    BY <1>1, <1>3, <1>4, <1>5, <2>1, <2>2 DEF EditsOnce
<1>8. EdgesOnce'
  <2>1. \A c \in Consolidations : supersedes[c] \subseteq All' \ Coming'
    BY <1>1, <1>3, <1>5, <1>6 DEF EdgesOnce
  <2>2. live' \intersect archive' = {}
    BY <1>1, <1>2, <1>6 DEF EdgesOnce, All
  <2> QED
    BY <1>1, <1>2, <1>4, <1>5, <2>1, <2>2 DEF EdgesOnce, ConsolidationsDisjoint
<1> QED
  BY <1>5, <1>6, <1>7, <1>8

\* Where nobody rebases: until a command is cut short, every edit is made by one
\* edge of the chain or of the branch, and an edge is in one place.
THEOREM EditsInvariant ==
  ASSUME "rebase" \notin Commands
  PROVE  Spec => [](StoreInv /\ PlainInv /\ EditsInv)
<1>1. Init => EditsInv
  <2> SUFFICES ASSUME Init PROVE EditsInv
    OBVIOUS
  <2>1. /\ ToWrite = {} /\ Coming = {} /\ Known = {} /\ WritesInOrder /\ All = {}
        /\ ToSet(theirs) = {} /\ DOMAIN queue = {} /\ Consolidations = {}
    <3>1. queue = <<>> /\ ToSet(<<>>) = {} /\ DOMAIN <<>> = {} /\ DOMAIN NoRemap = {}
      BY DEF Init, ToSet, NoRemap
    <3> QED
      BY <3>1, QuietFiles DEF Init, All, Consolidations
  <2> QED
    BY <2>1 DEF EditsInv, EditsOnce, EdgesOnce, Init, ConsolidationsDisjoint
<1>2. StoreInv /\ PlainInv /\ EditsInv /\ [Next]_vars => EditsInv'
  <2> SUFFICES ASSUME StoreInv, PlainInv, EditsInv, [Next]_vars PROVE EditsInv'
    OBVIOUS
  <2>1. CASE WriteNext
    BY <2>1, WriteNextKeepsEdits
  <2>2. CASE Generate
    BY <2>2, GenerateKeepsEdits
  <2>3. CASE Squash
    BY <2>3, SquashKeepsEdits
  <2>4. CASE GenerateTheirs
    BY <2>4, GenerateTheirsKeepsEdits
  <2>5. CASE MergeTheirs
    BY <2>5, MergeTheirsKeepsEdits
  <2>6. CASE CutShort
    <3>1. crashes' # 0
      BY <2>6 DEF CutShort, StoreInv, TypeOK
    <3> QED
      BY <3>1 DEF EditsInv
  <2>7. CASE Rebase
    BY <2>7 DEF Rebase
  <2>8. ASSUME UNCHANGED <<files, queue, theirs, wanted>>, crashes' = crashes
        PROVE  EditsInv'
    <3>1. /\ All' = All /\ ToWrite' = ToWrite /\ ToArchive' = ToArchive
          /\ Consolidations' = Consolidations
      BY <2>8 DEF All, ToWrite, ToArchive, Consolidations, files
    <3>2. Coming' = Coming /\ Known' = Known /\ Unused' = Unused
      BY <2>8, <3>1 DEF Coming, Known, Unused, files
    <3>3. WritesInOrder' <=> WritesInOrder
      BY <2>8, <3>1 DEF WritesInOrder, files
    <3>4. EditsOnce' <=> EditsOnce
      BY <2>8, <3>1, <3>2 DEF EditsOnce
    <3>5. EdgesOnce' <=> EdgesOnce
      BY <2>8, <3>1, <3>2 DEF EdgesOnce, ConsolidationsDisjoint, files
    <3> QED
      BY <2>8, <3>3, <3>4, <3>5 DEF EditsInv
  <2>9. ASSUME NEW d \in Databases, DatabaseNext(d) PROVE EditsInv'
    <3>1. /\ UNCHANGED <<files, queue, theirs, wanted>>
          /\ crashes' = crashes \/ crashes' = crashes + 1
      BY <2>9 DEF DatabaseNext, ApplyTheirs, PlanApply, ApplyEdge, RefuseEdge, StopApply,
                  history
    <3>2. crashes' = crashes + 1 => crashes' # 0
      BY DEF StoreInv, TypeOK
    <3> QED
      BY <2>8, <3>1, <3>2 DEF EditsInv
  <2>10. CASE UNCHANGED vars
    BY <2>8, <2>10 DEF vars, history
  <2> QED
    BY <2>1, <2>2, <2>3, <2>4, <2>5, <2>6, <2>7, <2>9, <2>10 DEF Next, FileNext
<1> QED
  BY <1>1, <1>2, PlainInvariant, PTL DEF Spec

\* Where nobody rebases the checker has nothing to report: the endpoints of every
\* edge have manifests and its ops lead from the one to the other, what is
\* superseded is there, and superseded once unless a command was cut short.
THEOREM CheckerSatisfied ==
  ASSUME "rebase" \notin Commands
  PROVE  Spec => []ChainConsistent
<1>1. StoreInv /\ EditsInv => ChainConsistent
  BY DEF StoreInv, EditsInv, EdgesOnce, ChainConsistent, Endpoints, KnownReproduce, Known,
         SupersededKept
<1> QED
  BY <1>1, EditsInvariant, PTL

\* Where nobody rebases and no command is cut short, no edge leaves the project
\* and none comes back from the archive, no manifest goes and no remap entry
\* changes: a generated, squashed or merged edge is never one that was archived.
THEOREM NothingForgottenEver ==
  ASSUME "rebase" \notin Commands, MaxCrashes = 0
  PROVE  Spec => NothingForgotten
<1> DEFINE Kept == /\ All \subseteq All'
                   /\ archive \intersect live' \subseteq live
                   /\ manifests \subseteq manifests'
                   /\ DOMAIN remap \subseteq DOMAIN remap'
                   /\ \A r \in DOMAIN remap : remap'[r] = remap[r]
<1>1. StoreInv /\ PlainInv /\ EditsInv /\ [Next]_vars => [Kept]_files
  <2> SUFFICES ASSUME StoreInv, PlainInv, EditsInv, Next, ~UNCHANGED files
               PROVE  Kept
    BY DEF vars
  <2>1. crashes = 0
    BY DEF StoreInv, TypeOK
  <2>2. WritesInOrder /\ EditsOnce /\ EdgesOnce /\ SequencesOK /\ NoRemaps
    BY <2>1 DEF EditsInv, StoreInv, PlainInv
  <2>3. CASE WriteNext
    <3>1. WriteEffect(queue[1]) /\ Head(queue) = queue[1] /\ 1 \in DOMAIN queue
      BY <2>2, <2>3, WriteEffects
    <3>2. All \subseteq All' /\ archive \intersect live' \subseteq live
      BY <2>2, <3>1 DEF WriteEffect, EdgesOnce, All
    <3>3. queue[1].file # "remap"
      BY <2>2, <3>1 DEF NoRemaps
    <3>4. remap' = remap /\ manifests \subseteq manifests'
      BY <2>3, <3>1, <3>3 DEF WriteNext
    <3> QED
      BY <3>2, <3>4
  <2>4. CASE MergeTheirs
    <3>1. All \intersect ToSet(theirs) = {}
      BY <2>1, <2>4, MergeTheirsKeepsEdits
    <3> QED
      BY <2>4, <3>1 DEF MergeTheirs, All
  <2>5. ASSUME NEW d \in Databases, DatabaseNext(d) PROVE FALSE
    BY <2>5 DEF DatabaseNext, ApplyTheirs, PlanApply, ApplyEdge, RefuseEdge, StopApply
  <2>6. ~CutShort /\ ~Generate /\ ~Squash /\ ~Rebase /\ ~GenerateTheirs
    BY DEF CutShort, Generate, Squash, Rebase, GenerateTheirs
  <2> QED
    BY <2>3, <2>4, <2>5, <2>6 DEF Next, FileNext
<1> QED
  BY <1>1, EditsInvariant, PTL DEF Spec, NothingForgotten

-----------------------------------------------------------------------------
(***************************************************************************)
(* One line of edges, where no branch is merged and no command cut short.   *)
(***************************************************************************)

\* Where the chain is one line, a head is where the last edge ends.
LEMMA LineEnds ==
  ASSUME NEW edges \in SUBSET Edges, NEW last, LastOf(last, edges)
  PROVE  /\ last \in edges /\ last \in Edges
         /\ \A e \in edges \ {last} : \E f \in edges : f.parent = e.target
         /\ \A f \in edges : f.parent # Genesis =>
              \E e \in edges \ {last} : e.target = f.parent
<1>1. /\ last \in edges /\ last \in Edges
      /\ {e.target : e \in edges \ {last}} = {e.parent : e \in edges} \ {Genesis}
  BY DEF LastOf
<1>2. ASSUME NEW e \in edges \ {last} PROVE \E f \in edges : f.parent = e.target
  <2>1. e.target \in {x.target : x \in edges \ {last}}
    OBVIOUS
  <2>2. e.target \in {x.parent : x \in edges}
    BY <1>1, <2>1
  <2> QED
    BY <2>2
<1>3. ASSUME NEW f \in edges, f.parent # Genesis
      PROVE  \E e \in edges \ {last} : e.target = f.parent
  <2>1. f.parent \in {x.parent : x \in edges} \ {Genesis}
    BY <1>3
  <2>2. f.parent \in {x.target : x \in edges \ {last}}
    BY <1>1, <2>1
  <2> QED
    BY <2>2
<1> QED
  BY <1>1, <1>2, <1>3

\* And the other way round.
LEMMA EndsLine ==
  ASSUME NEW edges \in SUBSET Edges, NEW last \in edges,
         \A e, f \in edges \ {last} : e.target = f.target => e = f,
         \A e \in edges \ {last} : \E f \in edges : f.parent = e.target,
         \A f \in edges : f.parent # Genesis =>
           \E e \in edges \ {last} : e.target = f.parent
  PROVE  LastOf(last, edges)
<1>1. \A e \in edges : e.target # Genesis
  BY EdgeFields
<1>2. {e.target : e \in edges \ {last}} \subseteq {e.parent : e \in edges} \ {Genesis}
  BY <1>1
<1>3. {e.parent : e \in edges} \ {Genesis} \subseteq {e.target : e \in edges \ {last}}
  OBVIOUS
<1> QED
  BY <1>2, <1>3 DEF LastOf

\* An edge that ends where the last one ends can be taken for the last.
LEMMA OtherLast ==
  ASSUME NEW edges \in SUBSET Edges, NEW last, LastOf(last, edges),
         NEW y \in edges, y.target = last.target
  PROVE  LastOf(y, edges)
<1>1. /\ last \in edges
      /\ \A e \in edges \ {last} : \E f \in edges : f.parent = e.target
      /\ \A f \in edges : f.parent # Genesis =>
           \E e \in edges \ {last} : e.target = f.parent
  BY LineEnds
<1> SUFFICES ASSUME y # last PROVE LastOf(y, edges)
  OBVIOUS
<1>2. \A e, f \in edges \ {y} : e.target = f.target => e = f
  BY <1>1 DEF LastOf
<1>3. \A e \in edges \ {y} : \E f \in edges : f.parent = e.target
  BY <1>1
<1>4. ASSUME NEW f \in edges, f.parent # Genesis
      PROVE  \E e \in edges \ {y} : e.target = f.parent
  <2>1. PICK e \in edges \ {last} : e.target = f.parent
    BY <1>1, <1>4
  <2>2. CASE e = y
    BY <1>1, <2>1, <2>2
  <2>3. CASE e # y
    BY <2>1, <2>3
  <2> QED
    BY <2>2, <2>3
<1> QED
  BY <1>2, <1>3, <1>4, EndsLine

\* A line goes on from its head.
LEMMA LineGrows ==
  ASSUME NEW edges \in SUBSET Edges, OneLine(edges), NEW e \in Edges,
         e.parent \in ChainHeads(edges)
  PROVE  OneLine(edges \union {e})
<1> DEFINE N == edges \union {e}
<1>1. CASE edges = {}
  <2>1. e.parent = Genesis /\ N = {e}
    BY <1>1 DEF ChainHeads
  <2>2. LastOf(e, N)
    BY <2>1, EndsLine
  <2> QED
    BY <2>1, <2>2 DEF OneLine
<1>2. CASE edges # {}
  <2>1. PICK last : LastOf(last, edges)
    BY <1>2 DEF OneLine
  <2>2. /\ last \in edges
        /\ \A f \in edges \ {last} : \E g \in edges : g.parent = f.target
        /\ \A g \in edges : g.parent # Genesis =>
             \E f \in edges \ {last} : f.target = g.parent
        /\ \A f, g \in edges \ {last} : f.target = g.target => f = g
        /\ \A f, g \in edges : f.parent = g.parent => f = g
    BY <1>2, <2>1, LineEnds DEF LastOf, OneLine
  <2>3. /\ e.parent \in {f.target : f \in edges}
        /\ \A g \in edges : g.parent = Genesis \/ g.parent # e.parent
    BY <1>2, CanonPlain DEF ChainHeads, FindHeads
  <2>4. \A f \in edges : f.target # Genesis
    BY EdgeFields
  <2>5. e.parent = last.target /\ \A g \in edges : g.parent # e.parent
    BY <2>2, <2>3, <2>4
  <2>6. e \notin edges
    BY <2>5
  <2>7. \A f, g \in N : f.parent = g.parent => f = g
    BY <2>2, <2>5
  <2>8. \A f, g \in N \ {e} : f.target = g.target => f = g
    BY <2>2, <2>5
  <2>9. \A f \in N \ {e} : \E g \in N : g.parent = f.target
    BY <2>2, <2>5
  <2>10. \A g \in N : g.parent # Genesis => \E f \in N \ {e} : f.target = g.parent
    BY <2>2, <2>5, <2>6
  <2>11. LastOf(e, N)
    <3>1. N \in SUBSET Edges /\ e \in N
      OBVIOUS
    <3> HIDE DEF N
    <3> QED
      BY <2>8, <2>9, <2>10, <3>1, EndsLine
  <2> QED
    BY <2>7, <2>11 DEF OneLine
<1> QED
  BY <1>1, <1>2

\* What a path of a line is: each of its edges but the last ends where the next
\* one starts, and no other edge of the line starts there.
PathOf(p, edges) ==
  /\ p \in Seq(edges) /\ Len(p) >= 2 /\ Linked(p)
  /\ \A i, j \in 1..Len(p) : p[i] = p[j] => i = j

\* The edges of a path, by position.
LEMMA PathEdges ==
  ASSUME NEW edges \in SUBSET Edges, OneLine(edges), NEW p, PathOf(p, edges)
  PROVE  /\ Len(p) \in Nat /\ 1 \in 1..Len(p) /\ Len(p) \in 1..Len(p)
         /\ \A i \in 1..Len(p) : p[i] \in edges /\ p[i] \in ToSet(p)
         /\ \A e \in ToSet(p) : e = p[Len(p)] \/
              \E f \in ToSet(p) : f.parent = e.target /\ f # p[1]
         /\ \A f \in ToSet(p) : f = p[1] \/
              \E e \in ToSet(p) : e.target = f.parent /\ e # p[Len(p)]
         /\ \A e, f \in ToSet(p) \ {p[Len(p)]} : e.target = f.target => e = f
<1>1. /\ p \in Seq(edges) /\ Len(p) >= 2
      /\ \A i, j \in 1..Len(p) : p[i] = p[j] => i = j
      /\ \A i \in 1..(Len(p) - 1) : p[i].target = p[i + 1].parent
  BY DEF PathOf, Linked
<1>2. /\ Len(p) \in Nat /\ 1 \in 1..Len(p) /\ Len(p) \in 1..Len(p)
      /\ DOMAIN p = 1..Len(p)
      /\ \A i \in 1..Len(p) : p[i] \in edges
  BY <1>1
<1> DEFINE n == Len(p)
<1>len. n \in Nat /\ n = Len(p)
  BY <1>2
<1> HIDE DEF n
<1>3. \A i \in 1..Len(p) : p[i] \in ToSet(p)
  BY <1>2 DEF ToSet
<1>4. ASSUME NEW e \in ToSet(p), e # p[Len(p)]
      PROVE  \E f \in ToSet(p) : f.parent = e.target /\ f # p[1]
  <2>1. PICK i \in 1..Len(p) : e = p[i]
    BY <1>2 DEF ToSet
  <2>2. i # Len(p)
    BY Zenon, <1>4, <2>1
  <2>3. i \in 1..(Len(p) - 1) /\ i + 1 \in 1..Len(p) /\ i + 1 # 1
    BY <1>len, <2>2
  <2>4. p[i + 1].parent = e.target
    BY <1>1, <2>1, <2>3
  <2>5. p[i + 1] # p[1]
    BY Zenon, <1>1, <1>2, <2>3
  <2> QED
    BY <1>3, <2>3, <2>4, <2>5
<1>5. ASSUME NEW f \in ToSet(p), f # p[1]
      PROVE  \E e \in ToSet(p) : e.target = f.parent /\ e # p[Len(p)]
  <2>1. PICK i \in 1..Len(p) : f = p[i]
    BY <1>2 DEF ToSet
  <2>2. i # 1
    BY Zenon, <1>5, <2>1
  <2>3. PICK k \in 1..(Len(p) - 1) : k + 1 = i /\ k \in 1..Len(p) /\ k # Len(p)
    <3>1. /\ i - 1 \in 1..(Len(p) - 1) /\ (i - 1) + 1 = i
          /\ i - 1 \in 1..Len(p) /\ i - 1 # Len(p)
      BY <1>len, <2>2
    <3> QED
      BY Zenon, <3>1
  <2>4. p[k].target = f.parent
    BY Zenon, <1>1, <2>1, <2>3
  <2>5. p[k] # p[Len(p)]
    BY Zenon, <1>1, <1>2, <2>3
  <2> QED
    BY <1>3, <2>3, <2>4, <2>5
<1>6. ASSUME NEW e \in ToSet(p), NEW f \in ToSet(p), e # p[Len(p)], f # p[Len(p)],
             e.target = f.target
      PROVE  e = f
  <2>1. PICK i \in 1..Len(p) : e = p[i]
    BY <1>2 DEF ToSet
  <2>2. PICK j \in 1..Len(p) : f = p[j]
    BY <1>2 DEF ToSet
  <2>3. i # Len(p) /\ j # Len(p)
    BY Zenon, <1>6, <2>1, <2>2
  <2>4. i \in 1..(Len(p) - 1) /\ i + 1 \in 1..Len(p)
        /\ j \in 1..(Len(p) - 1) /\ j + 1 \in 1..Len(p)
    BY <1>len, <2>3
  <2>5. p[i + 1].parent = p[j + 1].parent
    BY Zenon, <1>1, <1>6, <2>1, <2>2, <2>4
  <2>6. p[i + 1] \in edges /\ p[j + 1] \in edges
    BY <1>2, <2>4
  <2>7. p[i + 1] = p[j + 1]
    BY <2>5, <2>6 DEF OneLine
  <2>8. i + 1 = j + 1
    BY Zenon, <1>1, <2>4, <2>7
  <2> QED
    BY <2>1, <2>2, <2>8
<1> QED
  BY <1>2, <1>3, <1>4, <1>5, <1>6

\* The last edge of a line can be taken outside a path, or at its end.
LEMMA LastAtEnd ==
  ASSUME NEW edges \in SUBSET Edges, OneLine(edges), NEW p, PathOf(p, edges)
  PROVE  \E last : LastOf(last, edges) /\ (last \in ToSet(p) => last = p[Len(p)])
<1> DEFINE end == p[Len(p)]
<1>1. /\ end \in edges
      /\ \A e \in ToSet(p) : e = end \/ \E f \in ToSet(p) : f.parent = e.target
      /\ \A e, f \in ToSet(p) \ {end} : e.target = f.target => e = f
      /\ ToSet(p) \subseteq edges
  BY PathEdges, OwnElements DEF PathOf
<1> HIDE DEF end
<1>2. PICK last : LastOf(last, edges)
  BY <1>1 DEF OneLine
<1>3. CASE last \notin ToSet(p) \/ last = end
  BY <1>2, <1>3 DEF end
<1>4. CASE last \in ToSet(p) /\ last # end
  <2>1. last.target # Genesis
    BY <1>1, <1>4, EdgeFields
  <2>2. PICK f \in edges : f.parent = last.target
    BY <1>1, <1>4
  <2>3. PICK y \in edges \ {last} : y.target = last.target
    <3>1. \A g \in edges : g.parent # Genesis =>
            \E e \in edges \ {last} : e.target = g.parent
      BY <1>2, LineEnds
    <3> QED
      BY <2>1, <2>2, <3>1
  <2>4. LastOf(y, edges)
    BY <1>2, <2>3, OtherLast
  <2>5. y \in ToSet(p) => y = end
    BY <1>1, <1>4, <2>3
  <2> QED
    BY <2>4, <2>5 DEF end
<1> QED
  BY <1>3, <1>4

\* A path of a line that becomes one edge leaves a line.
LEMMA LineSquashed ==
  ASSUME NEW edges \in SUBSET Edges, OneLine(edges), NEW p, PathOf(p, edges),
         NEW c \in Edges, c \notin edges,
         c.parent = p[1].parent, c.target = p[Len(p)].target
  PROVE  OneLine((edges \ ToSet(p)) \union {c})
<1> DEFINE start == p[1]
           end == p[Len(p)]
           P == ToSet(p)
           N == (edges \ P) \union {c}
<1>1. /\ start \in edges /\ start \in P /\ end \in edges /\ end \in P
      /\ \A e \in P : e = end \/ \E f \in P : f.parent = e.target /\ f # start
      /\ \A f \in P : f = start \/ \E e \in P : e.target = f.parent /\ e # end
      /\ P \subseteq edges
  BY PathEdges, OwnElements DEF PathOf
<1>2. c.parent = start.parent /\ c.target = end.target
  OBVIOUS
<1>3. PICK last : LastOf(last, edges) /\ (last \in P => last = end)
  BY LastAtEnd
<1> HIDE DEF start, end, P
<1>4. /\ last \in edges
      /\ \A e \in edges \ {last} : \E f \in edges : f.parent = e.target
      /\ \A f \in edges : f.parent # Genesis =>
           \E e \in edges \ {last} : e.target = f.parent
      /\ \A e, f \in edges \ {last} : e.target = f.target => e = f
      /\ \A e, f \in edges : e.parent = f.parent => e = f
      /\ \A e \in edges : e.target # Genesis
  BY <1>3, LineEnds, EdgeFields DEF LastOf, OneLine
<1>5. \A e, f \in N : e.parent = f.parent => e = f
  BY <1>1, <1>2, <1>4
<1>6. N \in SUBSET Edges /\ c \in N /\ c \notin edges
  OBVIOUS
\* What ends or starts inside the path, and where.
<1>7. ASSUME NEW e \in edges \ P, NEW f \in P, e # last, e.target = f.parent
      PROVE  f = start
  BY <1>1, <1>3, <1>4, <1>7
<1>8. ASSUME NEW e \in edges \ P, NEW f \in edges, e # last, f.parent = e.target
      PROVE  \E g \in N : g.parent = e.target
  <2>1. CASE f \in P
    <3>1. f = start
      BY <1>7, <1>8, <2>1
    <3> QED
      BY <1>2, <1>6, <1>8, <3>1
  <2>2. CASE f \notin P
    BY <1>8, <2>2
  <2> QED
    BY <2>1, <2>2
<1>9. ASSUME NEW f \in edges \ P, NEW e \in P, e.target = f.parent
      PROVE  e = end
  BY <1>1, <1>4, <1>9
<1>10. CASE last = end
  <2>1. \A e, f \in N \ {c} : e.target = f.target => e = f
    BY <1>1, <1>4, <1>10
  <2>2. \A e \in N \ {c} : \E f \in N : f.parent = e.target
    BY <1>1, <1>4, <1>8, <1>10
  <2>3. ASSUME NEW f \in N, f.parent # Genesis
        PROVE  \E e \in N \ {c} : e.target = f.parent
    <3>1. PICK g \in edges : /\ g.parent = f.parent
                             /\ g \in P => g = start
                             /\ g \notin P => g = f
      BY <1>1, <1>2
    <3>2. PICK e \in edges \ {last} : e.target = g.parent
      BY <1>4, <2>3, <3>1
    <3>3. e \notin P
      <4> SUFFICES ASSUME e \in P PROVE FALSE
        OBVIOUS
      <4>1. PICK h \in P : h.parent = e.target /\ h # start
        BY <1>1, <1>10, <3>2
      <4>2. h = g
        BY <1>1, <1>4, <3>2, <4>1
      <4> QED
        BY <3>1, <4>1, <4>2
    <3> QED
      BY <1>6, <3>1, <3>2, <3>3
  <2>4. LastOf(c, N)
    <3> HIDE DEF N
    <3> QED
      BY <1>6, <2>1, <2>2, <2>3, EndsLine
  <2> QED
    BY <1>5, <1>6, <2>4 DEF OneLine, P
<1>11. CASE last \notin P
  <2>1. \A e, f \in N \ {last} : e.target = f.target => e = f
    BY <1>1, <1>2, <1>4, <1>11
  <2>2. ASSUME NEW e \in N \ {last} PROVE \E f \in N : f.parent = e.target
    <3>1. CASE e = c
      <4>1. PICK f \in edges : f.parent = end.target
        BY <1>1, <1>4, <1>11
      <4>2. f \in P => f = start
        BY <1>1, <1>4, <1>11, <4>1
      <4> QED
        BY <1>2, <1>6, <3>1, <4>1, <4>2
    <3>2. CASE e # c
      BY <1>4, <1>8, <2>2, <3>2
    <3> QED
      BY <3>1, <3>2
  <2>3. ASSUME NEW f \in N, f.parent # Genesis
        PROVE  \E e \in N \ {last} : e.target = f.parent
    <3>1. PICK g \in edges : /\ g.parent = f.parent
                             /\ g \in P => g = start
                             /\ g \notin P => g = f
      BY <1>1, <1>2
    <3>2. PICK e \in edges \ {last} : e.target = g.parent
      BY <1>4, <2>3, <3>1
    <3>3. e \in P => e = end
      <4> SUFFICES ASSUME e \in P, e # end PROVE FALSE
        OBVIOUS
      <4>1. PICK h \in P : h.parent = e.target /\ h # start
        BY <1>1
      <4>2. h = g
        BY <1>1, <1>4, <3>2, <4>1
      <4> QED
        BY <3>1, <4>1, <4>2
    <3>4. c # last
      BY <1>4
    <3> QED
      BY <1>2, <1>6, <3>1, <3>2, <3>3, <3>4
  <2>4. LastOf(last, N)
    <3>1. last \in N
      BY <1>4, <1>11
    <3> HIDE DEF N
    <3> QED
      BY <1>6, <2>1, <2>2, <2>3, <3>1, EndsLine
  <2> QED
    BY <1>4, <1>5, <1>11, <2>4 DEF OneLine, P
<1> QED
  BY <1>3, <1>10, <1>11

-----------------------------------------------------------------------------
(***************************************************************************)
(* Without branches merged and commands cut short there is no fork.         *)
(***************************************************************************)

\* A set with nothing but x.
LEMMA AtMostOne ==
  ASSUME NEW x, NEW S \in SUBSET {x}
  PROVE  Cardinality(S) \in {0, 1}
<1>1. S = {} \/ S = {x}
  OBVIOUS
<1> QED
  BY <1>1, FS_EmptySet, FS_Singleton

\* Whatever of a command is written, the live edges have one head at most: the
\* moves that are still to come each start where another edge ends.
LEMMA AloneHeads ==
  ASSUME StoreInv, Alone
  PROVE  \E x : FindHeads(live, remap) \subseteq {x}
<1>1. /\ live \subseteq Edges /\ NoRemaps /\ StretchMoves /\ OneLine(Coming)
      /\ ToWrite # {} => OneLine(live)
      /\ \A i \in DOMAIN queue : queue[i].file = "archive" => queue[i].edge \in live
  BY DEF StoreInv, TypeOK, Alone, WritesInOrder
<1>2. \A r : Canon(r, remap) = r
  BY <1>1, CanonIsPlain
<1>3. ASSUME NEW x, NEW h \in FindHeads(live, remap),
             \A e \in live : e.target = x \/ \E f \in live : f.parent = e.target
      PROVE  h = x
  <2>1. PICK e \in live : h = e.target
    BY <1>2 DEF FindHeads
  <2>2. \A f \in live : f.parent # Genesis => f.parent # h
    BY <1>2 DEF FindHeads
  <2>3. e.target # Genesis
    BY <1>1, EdgeFields
  <2> QED
    BY <1>3, <2>1, <2>2, <2>3
<1>4. CASE live = {}
  BY <1>4 DEF FindHeads
<1>5. CASE live # {} /\ ToWrite # {}
  <2>1. PICK last : LastOf(last, live)
    BY <1>1, <1>5 DEF OneLine
  <2>2. \A e \in live : e.target = last.target \/ \E f \in live : f.parent = e.target
    BY <1>1, <2>1, LineEnds
  <2> QED
    BY <1>3, <2>2
<1>6. CASE live # {} /\ ToWrite = {}
  <2>1. /\ Coming \subseteq live /\ live \subseteq Coming \union ToArchive
    BY <1>6 DEF Coming
  <2>2. \E x : \A e \in Coming : e.target = x \/ \E f \in live : f.parent = e.target
    <3>1. CASE Coming = {}
      BY <3>1
    <3>2. CASE Coming # {}
      <4>1. PICK last : LastOf(last, Coming)
        BY <1>1, <3>2 DEF OneLine
      <4>2. \A e \in Coming : e.target = last.target \/ \E f \in Coming : f.parent = e.target
        BY <1>1, <2>1, <4>1, LineEnds
      <4> QED
        BY <2>1, <4>2
    <3> QED
      BY <3>1, <3>2
  <2>3. PICK x : \A e \in Coming : e.target = x \/ \E f \in live : f.parent = e.target
    BY <2>2
  <2>4. ASSUME NEW e \in ToArchive
        PROVE  e.target = x \/ \E f \in live : f.parent = e.target
    <3>1. PICK i \in DOMAIN queue : queue[i].file = "archive" /\ queue[i].edge = e
      BY DEF ToArchive
    <3>2. CASE \E f \in Coming : f.target = e.target
      BY <2>3, <3>2
    <3>3. CASE ~\E f \in Coming : f.target = e.target
      <4>1. /\ i + 1 \in DOMAIN queue /\ queue[i + 1].file = "archive"
            /\ queue[i + 1].edge.parent = e.target
        BY <1>1, <3>1, <3>3 DEF StretchMoves
      <4>2. queue[i + 1].edge \in live
        BY <1>1, <4>1
      <4> QED
        BY <4>1, <4>2
    <3> QED
      BY <3>2, <3>3
  <2>5. \A e \in live : e.target = x \/ \E f \in live : f.parent = e.target
    BY <2>1, <2>3, <2>4
  <2> QED
    BY <1>3, <2>5
<1> QED
  BY <1>4, <1>5, <1>6

\* What moves away is still a stretch of the chain after a write.
LEMMA WritesKeepStretch ==
  ASSUME SequencesOK, NoRemaps, WritesInOrder, StretchMoves, WriteNext
  PROVE  StretchMoves'
<1>1. Coming' = Coming
  BY WritesKeepOrder
<1>2. \A i \in DOMAIN queue' : i + 1 \in DOMAIN queue /\ queue'[i] = queue[i + 1]
  BY WriteEffects
<1>3. /\ DOMAIN queue = 1..Len(queue) /\ DOMAIN queue' = 1..(Len(queue) - 1)
      /\ Len(queue) \in Nat
  BY QueueAfterWrite DEF WriteNext
<1> SUFFICES ASSUME NEW i \in DOMAIN queue', queue'[i].file = "archive",
                    ~\E e \in Coming' : e.target = queue'[i].edge.target
             PROVE  /\ i + 1 \in DOMAIN queue' /\ queue'[i + 1].file = "archive"
                    /\ queue'[i + 1].edge.parent = queue'[i].edge.target
  BY DEF StretchMoves
<1>4. PICK k \in DOMAIN queue : k = i + 1 /\ queue'[i] = queue[k]
  BY <1>2
<1>5. /\ k + 1 \in DOMAIN queue /\ queue[k + 1].file = "archive"
      /\ queue[k + 1].edge.parent = queue[k].edge.target
  BY <1>1, <1>4 DEF StretchMoves
<1>6. k \in DOMAIN queue'
  BY <1>3, <1>4, <1>5
<1>7. queue'[k] = queue[k + 1]
  BY <1>2, <1>6
<1> QED
  BY <1>4, <1>5, <1>6, <1>7

\* What a squash moves away is the path it follows.
LEMMA SquashStretches ==
  ASSUME StoreInv, Squash, NEW p \in Seq(live), NEW c, SquashQueue(queue', p, c),
         Linked(p), c.target = p[Len(p)].target
  PROVE  StretchMoves'
<1>1. c \in Coming'
  BY SquashBegins
<1>2. Len(p) \in Nat
  OBVIOUS
<1> SUFFICES ASSUME NEW i \in DOMAIN queue', queue'[i].file = "archive",
                    ~\E e \in Coming' : e.target = queue'[i].edge.target
             PROVE  /\ i + 1 \in DOMAIN queue' /\ queue'[i + 1].file = "archive"
                    /\ queue'[i + 1].edge.parent = queue'[i].edge.target
  BY DEF StretchMoves
<1>3. i # 1
  BY DEF SquashQueue
<1>4. PICK k \in 1..Len(p) : i = k + 1
  BY <1>3 DEF SquashQueue
<1>5. queue'[i].edge = p[k]
  BY <1>4 DEF SquashQueue
<1>6. k # Len(p)
  BY Zenon, <1>1, <1>5
<1>7. k \in 1..(Len(p) - 1) /\ k + 1 \in 1..Len(p)
  BY <1>2, <1>6
<1>8. i + 1 \in DOMAIN queue'
  BY <1>2, <1>4, <1>7 DEF SquashQueue
<1>9. /\ queue'[(k + 1) + 1].file = "archive" /\ queue'[(k + 1) + 1].edge = p[k + 1]
  BY Zenon, <1>7 DEF SquashQueue
<1>10. p[k + 1].parent = p[k].target
  BY <1>7 DEF Linked
<1> QED
  BY <1>4, <1>5, <1>8, <1>9, <1>10

\* The next write of a command.
LEMMA WriteNextKeepsAlone ==
  ASSUME StoreInv, Alone, WriteNext
  PROVE  Alone'
<1>1. SequencesOK /\ NoRemaps /\ WritesInOrder /\ StretchMoves
  BY DEF StoreInv, Alone
<1>2. /\ WritesInOrder' /\ Coming' = Coming /\ Known' = Known
  BY <1>1, WritesKeepOrder
<1>3. /\ WriteEffect(queue[1]) /\ 1 \in DOMAIN queue /\ Head(queue) = queue[1]
      /\ \A i \in DOMAIN queue' : i + 1 \in DOMAIN queue /\ queue'[i] = queue[i + 1]
  BY <1>1, WriteEffects
<1>5. NoRemaps'
  <2>1. queue[1].file # "remap"
    BY <1>1, <1>3 DEF NoRemaps
  <2>2. remap' = remap
    BY <1>3, <2>1 DEF WriteNext
  <2> QED
    BY <1>1, <1>3, <2>2 DEF NoRemaps
<1>6. StretchMoves'
  BY <1>1, WritesKeepStretch
<1>7. ToWrite' # {} => live' = live /\ ToWrite # {}
  BY <1>3 DEF WriteEffect
<1> QED
  BY <1>2, <1>5, <1>6, <1>7 DEF Alone

\* generate.
LEMMA GenerateKeepsAlone ==
  ASSUME StoreInv, Alone, Generate
  PROVE  Alone'
<1>1. queue = <<>> /\ UNCHANGED <<files, theirs>>
  BY DEF Generate
<1>2. PICK head \in ChainHeads(live), edit \in wanted : \E e \in Edges :
        /\ e.parent = head /\ e.ops = <<edit>>
        /\ DOMAIN queue' = {1, 2} /\ queue'[1].file = "manifest"
        /\ queue'[2].file = "edge" /\ queue'[2].edge = e
  BY GeneratePlan
<1>3. PICK e \in Edges :
        /\ e.parent \in ChainHeads(live) /\ e.ops = <<edit>>
        /\ DOMAIN queue' = {1, 2} /\ queue'[1].file = "manifest"
        /\ queue'[2].file = "edge" /\ queue'[2].edge = e
  BY Zenon, <1>2
<1>ops. e.ops # <<>>
  BY <1>3
<1>4. /\ Coming = live /\ Known = All \union ToSet(theirs)
      /\ live \in SUBSET Edges /\ OneLine(live) /\ NoRemaps
      /\ \A f \in Known : f.ops # <<>>
  BY <1>1, QuietFiles DEF Alone, StoreInv, TypeOK
<1>5. ToWrite' = {e} /\ ToArchive' = {}
  BY <1>3 DEF ToWrite, ToArchive
<1>6. /\ live' = live /\ remap' = remap /\ All' = All /\ Coming' = live \union {e}
      /\ Known' = Known \union {e}
  BY <1>1, <1>4, <1>5 DEF files, All, Coming, Known
<1>7. OneLine(Coming')
  BY <1>3, <1>4, <1>6, LineGrows
<1>8. WritesInOrder'
  <2>1. 1..(2 - 1) = {1}
    OBVIOUS
  <2> QED
    BY <1>3, <1>5, <2>1 DEF WritesInOrder
<1>9. NoRemaps' /\ StretchMoves'
  BY <1>3, <1>4, <1>6 DEF NoRemaps, StretchMoves
<1> QED
  BY <1>3, <1>ops, <1>4, <1>6, <1>7, <1>8, <1>9 DEF Alone

\* squash.
LEMMA SquashKeepsAlone ==
  ASSUME StoreInv, Alone, Squash
  PROVE  Alone'
<1>1. PICK p \in Seq(live), c \in Edges :
        /\ queue' = <<SquashFile(c, ToSet(p))>> \o ArchiveMoves(p)
        /\ p \in Seq(Edges) /\ Len(p) >= 2 /\ Linked(p)
        /\ \A i, j \in 1..Len(p) : p[i] = p[j] => i = j
        /\ c.parent = p[1].parent /\ c.target = p[Len(p)].target
        /\ c.ops = EdgesOps(p)
  BY SquashPlan
<1>2. SquashQueue(queue', p, c)
  BY <1>1, SquashWrites
<1>3. /\ queue = <<>> /\ UNCHANGED <<files, theirs>>
      /\ ToWrite' = {c} /\ ToArchive' = ToSet(p)
      /\ All' = All /\ Coming' = (live \ ToSet(p)) \union {c}
  BY <1>2, SquashBegins
<1>4. /\ Coming = live /\ Known = All \union ToSet(theirs)
      /\ live \in SUBSET Edges /\ OneLine(live) /\ NoRemaps
      /\ \A f \in Known : f.ops # <<>>
  BY <1>3, QuietFiles DEF Alone, StoreInv, TypeOK
<1>5. PathOf(p, live)
  BY <1>1 DEF PathOf
<1>6. /\ Len(p) \in Nat /\ 1 \in 1..Len(p) /\ Len(p) \in 1..Len(p)
      /\ \A i \in 1..Len(p) : p[i] \in live /\ p[i] \in ToSet(p)
      /\ ToSet(p) \subseteq live
  BY <1>4, <1>5, PathEdges, OwnElements
<1>7. c.ops # p[1].ops /\ c.ops # <<>>
  <2>1. \A i \in 1..Len(p) : p[i].ops # <<>>
    BY <1>4, <1>6 DEF All
  <2> QED
    BY <1>1, <2>1, EdgesOpsLonger
<1>8. c \notin live
  <2> SUFFICES ASSUME c \in live PROVE FALSE
    OBVIOUS
  <2>1. p[1] \in live /\ c.parent = p[1].parent
    BY <1>1, <1>6
  <2>2. c = p[1]
    BY <1>4, <2>1 DEF OneLine
  <2> QED
    BY <1>7, <2>2
<1>9. OneLine(Coming')
  <2>1. c.parent = p[1].parent /\ c.target = p[Len(p)].target
    BY <1>1
  <2>2. OneLine((live \ ToSet(p)) \union {c})
    BY <1>4, <1>5, <1>8, <2>1, LineSquashed
  <2> QED
    BY <1>3, <2>2
<1>10. WritesInOrder'
  BY <1>1, <1>2, <1>6, <1>8, SquashInOrder
<1>11. StretchMoves'
  BY <1>1, <1>2, SquashStretches
<1>12. NoRemaps'
  <2>1. \A i \in DOMAIN queue' : queue'[i].file # "remap"
    BY <1>2 DEF SquashQueue
  <2> QED
    BY <1>3, <1>4, <2>1 DEF NoRemaps, files
<1>13. Known' = Known \union {c} /\ live' = live
  BY <1>3, <1>4 DEF Known, files
<1> QED
  BY <1>4, <1>7, <1>9, <1>10, <1>11, <1>12, <1>13 DEF Alone

\* Steps that leave the files and the writes alone, and add edges with ops to
\* the branch, if any.
LEMMA OthersKeepAlone ==
  ASSUME Alone, UNCHANGED <<files, queue>>,
         \A e \in ToSet(theirs') : e \in ToSet(theirs) \/ e.ops # <<>>
  PROVE  Alone'
<1>1. /\ All' = All /\ ToWrite' = ToWrite /\ ToArchive' = ToArchive
      /\ live' = live /\ remap' = remap /\ queue' = queue
  BY DEF All, ToWrite, ToArchive, files
<1>2. Coming' = Coming
  BY <1>1 DEF Coming
<1>3. \A e \in Known' : e \in Known \/ e.ops # <<>>
  BY <1>1 DEF Known
<1>4. NoRemaps' /\ WritesInOrder' /\ StretchMoves'
  BY <1>1, <1>2 DEF Alone, NoRemaps, WritesInOrder, StretchMoves
<1> QED
  BY <1>1, <1>2, <1>3, <1>4 DEF Alone

\* Until a branch is merged or a command is cut short the chain is one line,
\* or will be when the command under way is through.
THEOREM AloneInvariant == Spec => [](StoreInv /\ AloneInv)
<1>1. Init => AloneInv
  <2> SUFFICES ASSUME Init PROVE Alone
    BY DEF AloneInv
  <2>1. /\ queue = <<>> /\ live = {} /\ remap = NoRemap /\ All = {}
        /\ ToSet(theirs) = {} /\ DOMAIN queue = {}
    <3>1. ToSet(<<>>) = {} /\ DOMAIN <<>> = {}
      BY DEF ToSet
    <3> QED
      BY <3>1 DEF Init, All
  <2>2. ToWrite = {} /\ Coming = {} /\ Known = {} /\ WritesInOrder
    BY <2>1, QuietFiles
  <2>3. OneLine({})
    BY DEF OneLine
  <2> QED
    BY <2>1, <2>2, <2>3 DEF Alone, NoRemaps, StretchMoves
<1>2. StoreInv /\ AloneInv /\ [Next]_vars => AloneInv'
  <2> SUFFICES ASSUME StoreInv, AloneInv, [Next]_vars, ~merged', crashes' = 0
               PROVE  Alone'
    BY DEF AloneInv
  <2>1. crashes \in Nat
    BY DEF StoreInv, TypeOK
  <2>2. ASSUME ~merged, crashes = 0 PROVE Alone
    BY <2>2 DEF AloneInv
  <2>3. CASE WriteNext
    BY <2>2, <2>3, WriteNextKeepsAlone DEF WriteNext
  <2>4. CASE Generate
    BY <2>2, <2>4, GenerateKeepsAlone DEF Generate, history
  <2>5. CASE Squash
    BY <2>2, <2>5, SquashKeepsAlone DEF Squash, history
  <2>6. CASE Rebase
    <3>1. Alone
      BY <2>2, <2>6 DEF Rebase, history
    <3>2. PICK x : FindHeads(live, remap) \in SUBSET {x}
      BY <3>1, AloneHeads
    <3>3. Cardinality(FindHeads(live, remap)) \in {0, 1}
      BY <3>2, AtMostOne
    <3> QED
      BY <2>6, <3>3 DEF Rebase
  <2>7. CASE GenerateTheirs
    <3>1. PICK edit \in wanted, e \in Edges :
            e.ops = <<edit>> /\ ToSet(theirs') = ToSet(theirs) \union {e}
      BY <2>7, BranchPlan
    <3>2. e.ops # <<>>
      BY <3>1
    <3>3. Alone /\ UNCHANGED <<files, queue>>
      BY <2>2, <2>7 DEF GenerateTheirs
    <3> QED
      BY <3>1, <3>2, <3>3, OthersKeepAlone
  <2>8. CASE MergeTheirs
    BY <2>8 DEF MergeTheirs
  <2>9. CASE CutShort
    BY <2>1, <2>9 DEF CutShort
  <2>10. ASSUME NEW d \in Databases, DatabaseNext(d) PROVE Alone'
    <3>1. /\ UNCHANGED <<files, queue, theirs, merged>>
          /\ crashes' = crashes \/ crashes' = crashes + 1
      BY <2>10 DEF DatabaseNext, ApplyTheirs, PlanApply, ApplyEdge, RefuseEdge, StopApply,
                   history
    <3>2. Alone
      BY <2>1, <2>2, <3>1
    <3> QED
      BY <3>1, <3>2, OthersKeepAlone
  <2>11. CASE UNCHANGED vars
    <3>1. UNCHANGED <<files, queue, theirs, merged, crashes>>
      BY <2>11 DEF vars, history
    <3> QED
      BY <2>2, <3>1, OthersKeepAlone
  <2> QED
    BY <2>3, <2>4, <2>5, <2>6, <2>7, <2>8, <2>9, <2>10, <2>11 DEF Next, FileNext
<1> QED
  BY <1>1, <1>2, StoreInvariant, PTL DEF Spec

\* Without branches merged and commands cut short no database is told of a fork,
\* at any write of any squash: the path-finder finds one head at most.
THEOREM NeverForked == Spec => []NeverForkedAlone
<1>1. StoreInv /\ AloneInv => NeverForkedAlone
  <2> SUFFICES ASSUME StoreInv, AloneInv, ~merged, crashes = 0, NEW d \in Databases,
                      Told(d) = "fork"
               PROVE  FALSE
    BY DEF NeverForkedAlone
  <2>1. PICK x : FindHeads(live, remap) \subseteq {x}
    BY AloneHeads DEF AloneInv
  <2> DEFINE heads == ReachableHeads(pos[d], remap, live, All)
  <2>2. heads \in SUBSET {x}
    BY <2>1 DEF ReachableHeads
  <2> HIDE DEF heads
  <2>3. Cardinality(heads) \in {0, 1}
    BY <2>2, AtMostOne
  <2>4. Cardinality(heads) > 1
    BY DEF Told, Verdict, heads
  <2> QED
    BY <2>3, <2>4
<1> QED
  BY <1>1, AloneInvariant, PTL

-----------------------------------------------------------------------------
(***************************************************************************)
(* Where no schema returns: ranks of revisions.                            *)
(***************************************************************************)

\* Rank rises along a path whose edges rise.
LEMMA PathRises ==
  ASSUME NEW rank \in [Revisions -> Nat], NEW p \in Seq(Edges), Len(p) >= 2, Linked(p),
         \A i \in 1..Len(p) : rank[p[i].parent] < rank[p[i].target]
  PROVE  /\ rank[p[1].parent] < rank[p[Len(p)].target]
         /\ \A k \in 2..Len(p) : /\ rank[p[1].target] < rank[p[k].target]
                                 /\ rank[p[1].parent] < rank[p[k].parent]
<1> DEFINE M == Len(p) - 1
           t == [i \in 1..Len(p) |-> rank[p[i].target]]
           s == [i \in 1..Len(p) |-> rank[p[i].parent]]
           P == {n \in 0..M : n = 0 \/ t[1] < t[n + 1]}
<1>1. Len(p) \in Nat /\ M \in Nat /\ Len(p) = M + 1 /\ 1 \in 1..Len(p) /\ M >= 1
  OBVIOUS
<1>2. \A i \in 1..Len(p) : t[i] \in Nat /\ s[i] \in Nat /\ s[i] < t[i]
  <2>1. \A i \in 1..Len(p) : p[i].parent \in Revisions /\ p[i].target \in Revisions
    BY EdgeFields
  <2> QED
    BY <2>1
<1>3. \A i \in 1..M : t[i] = s[i + 1]
  <2>1. \A i \in 1..M : p[i].target = p[i + 1].parent
    BY DEF Linked
  <2>2. \A i \in 1..M : i \in 1..Len(p) /\ i + 1 \in 1..Len(p)
    BY <1>1
  <2> HIDE DEF M
  <2> QED
    BY <2>1, <2>2
<1> HIDE DEF t, s
<1>4. 0 \in P
  BY <1>1
<1>5. ASSUME NEW n \in 1..M, n - 1 \in P PROVE n \in P
  <2>1. n \in 0..M /\ n \in 1..Len(p) /\ n + 1 \in 1..Len(p) /\ (n - 1) + 1 = n
    BY <1>1
  <2>2. t[1] \in Nat /\ t[n] \in Nat /\ t[n + 1] \in Nat /\ t[n] < t[n + 1]
    BY <1>1, <1>2, <1>3, <2>1
  <2>3. n = 1 \/ t[1] < t[(n - 1) + 1]
    BY <1>5
  <2>4. n = 1 \/ t[1] < t[n]
    BY <2>1, <2>3
  <2>5. t[1] < t[n + 1]
    BY <2>2, <2>4
  <2> QED
    BY <2>1, <2>5
<1>6. \A n \in 0..M : n \in P
  <2> HIDE DEF P, M
  <2> QED
    BY <1>1, <1>4, <1>5, Induction
<1>7. \A k \in 2..Len(p) : t[1] < t[k]
  <2> SUFFICES ASSUME NEW k \in 2..Len(p) PROVE t[1] < t[k]
    OBVIOUS
  <2>1. k - 1 \in 0..M /\ k - 1 # 0 /\ (k - 1) + 1 = k
    BY <1>1
  <2>2. t[1] < t[(k - 1) + 1]
    BY <1>6, <2>1
  <2> QED
    BY <2>1, <2>2
<1>8. \A k \in 2..Len(p) : s[1] < s[k]
  <2> SUFFICES ASSUME NEW k \in 2..Len(p) PROVE s[1] < s[k]
    OBVIOUS
  <2>1. PICK i \in 1..M : i + 1 = k /\ i \in 1..Len(p) /\ (i = 1 \/ i \in 2..Len(p))
    <3>1. k - 1 \in 1..M /\ (k - 1) + 1 = k /\ k - 1 \in 1..Len(p)
          /\ (k - 1 = 1 \/ k - 1 \in 2..Len(p))
      BY <1>1
    <3> QED
      BY <3>1
  <2> HIDE DEF M
  <2>2. s[k] = t[i] /\ t[i] \in Nat /\ t[1] \in Nat /\ s[1] \in Nat /\ s[1] < t[1]
    BY <1>1, <1>2, <1>3, <2>1
  <2>3. t[1] = t[i] \/ t[1] < t[i]
    BY <1>7, <2>1
  <2> QED
    BY <2>2, <2>3
<1>9. s[1] < t[Len(p)]
  <2>1. Len(p) \in 2..Len(p) /\ Len(p) \in 1..Len(p)
    BY <1>1
  <2>2. t[1] < t[Len(p)] /\ s[1] < t[1]
    BY <1>1, <1>2, <1>7, <2>1
  <2> QED
    BY <1>1, <1>2, <2>1, <2>2
<1>10. \A k \in 1..Len(p) : t[k] = rank[p[k].target] /\ s[k] = rank[p[k].parent]
  BY DEF t, s
<1>11. \A k \in 2..Len(p) : k \in 1..Len(p)
  BY <1>1
<1>12. Len(p) \in 1..Len(p)
  BY <1>1
<1> HIDE DEF M
<1> QED
  BY <1>1, <1>7, <1>8, <1>9, <1>10, <1>11, <1>12

\* Nothing there, nothing to ask.
LEMMA InitForward ==
  ASSUME Init, NEW rank
  PROVE  ForwardInv(rank)
<1>1. /\ queue = <<>> /\ All = {} /\ theirs = <<>> /\ ToSet(theirs) = {}
      /\ DOMAIN queue = {}
  <2>1. ToSet(<<>>) = {} /\ DOMAIN <<>> = {}
    BY DEF ToSet
  <2> QED
    BY <2>1 DEF Init, All
<1>2. ToWrite = {} /\ Known = {} /\ WritesInOrder
  BY <1>1, QuietFiles
<1> QED
  BY <1>1, <1>2 DEF ForwardInv, StretchMoves, Rises, Begins, LedOn

\* The next write of a command.  An edge moves away only when another live one
\* ends at its target, or when the next of the stretch starts there.
LEMMA WriteNextKeepsForward ==
  ASSUME StoreInv, PlainInv, NEW rank, ForwardInv(rank), WriteNext
  PROVE  ForwardInv(rank)'
<1>1. SequencesOK /\ NoRemaps /\ WritesInOrder /\ StretchMoves /\ Rises(rank)
      /\ Begins /\ LedOn
  BY DEF StoreInv, PlainInv, ForwardInv
<1>2. /\ WritesInOrder' /\ Known' = Known
      /\ All' \union ToWrite' = All \union ToWrite
  BY <1>1, WritesKeepOrder
<1>3. /\ WriteEffect(queue[1]) /\ 1 \in DOMAIN queue
      /\ \A i \in DOMAIN queue' : i + 1 \in DOMAIN queue /\ queue'[i] = queue[i + 1]
  BY <1>1, WriteEffects
<1>4. StretchMoves'
  BY <1>1, WritesKeepStretch
<1>5. theirs' = theirs
  BY DEF WriteNext
<1>6. All \subseteq All' /\ ToWrite' \subseteq ToWrite
  BY <1>3 DEF WriteEffect, All
<1>7. Begins'
  <2>1. CASE All # {}
    BY <1>1, <1>6, <2>1 DEF Begins
  <2>2. CASE All = {}
    BY <1>1, <1>2, <1>5, <1>6, <2>2 DEF Begins
  <2> QED
    BY <2>1, <2>2
<1>8. ASSUME NEW e \in All'
      PROVE  (\E f \in All' : f.parent = e.target) \/ (\E f \in live' : f.target = e.target)
  <2>1. CASE queue[1].file \notin {"edge", "squash", "archive"}
    <3>1. live' = live /\ archive' = archive
      BY <1>3, <2>1 DEF WriteEffect
    <3> QED
      BY <1>1, <3>1 DEF LedOn, All
  <2>2. CASE queue[1].file \in {"edge", "squash"}
    <3>1. live' = live \union {queue[1].edge} /\ archive' = archive
      BY <1>3, <2>2 DEF WriteEffect
    <3>2. CASE e = queue[1].edge
      BY <3>1, <3>2
    <3>3. CASE e \in All
      BY <1>1, <1>6, <3>1, <3>3 DEF LedOn
    <3> QED
      BY <3>1, <3>2, <3>3 DEF All
  <2>3. CASE queue[1].file = "archive"
    <3> DEFINE a == queue[1].edge
    <3>1. /\ live' = live \ {a} /\ archive' = archive \union {a} /\ a \in live
          /\ ToWrite = {} /\ a \in ToArchive
      BY <1>3, <2>3 DEF WriteEffect
    <3>2. All' = All /\ Coming \subseteq live'
      BY <3>1 DEF All, Coming
    <3>3. (\E g \in Coming : g.target = a.target)
            \/ /\ 1 + 1 \in DOMAIN queue /\ queue[1 + 1].file = "archive"
               /\ queue[1 + 1].edge.parent = a.target
      BY <1>1, <1>3, <2>3 DEF StretchMoves
    <3> HIDE DEF a
    <3>4. (\E g \in live' : g.target = a.target) \/ (\E f \in All' : f.parent = a.target)
      <4>1. CASE \E g \in Coming : g.target = a.target
        BY <3>2, <4>1
      <4>2. CASE /\ 1 + 1 \in DOMAIN queue /\ queue[1 + 1].file = "archive"
                 /\ queue[1 + 1].edge.parent = a.target
        <5>1. queue[1 + 1].edge \in live
          BY <1>1, <4>2 DEF WritesInOrder
        <5> QED
          BY <3>2, <4>2, <5>1 DEF All
      <4> QED
        BY <3>3, <4>1, <4>2
    <3>5. (\E f \in All : f.parent = e.target) \/ (\E f \in live : f.target = e.target)
      BY <1>1, <3>2 DEF LedOn
    <3>6. CASE \E f \in All : f.parent = e.target
      BY <3>2, <3>6
    <3>7. CASE \E f \in live : f.target = e.target
      <4>1. PICK f \in live : f.target = e.target
        BY <3>7
      <4> QED
        BY <3>1, <3>4, <4>1
    <3> QED
      BY <3>5, <3>6, <3>7
  <2> QED
    BY <2>1, <2>2, <2>3
<1>9. LedOn'
  BY <1>8 DEF LedOn
<1>10. Rises(rank)'
  BY <1>1, <1>2 DEF Rises
<1> QED
  BY <1>2, <1>4, <1>7, <1>9, <1>10 DEF ForwardInv

\* An edge that makes an edit where it runs rises.
LEMMA EditRises ==
  ASSUME NEW rank, NothingReturns(rank), NEW e \in Edges, NEW edit \in Edits,
         e.ops = <<edit>>, Runs(e.parent, e.ops), Reproduces(e)
  PROVE  rank[e.parent] < rank[e.target]
<1>1. e.parent \in Revisions
  BY EdgeFields
<1>2. Runs(e.parent, <<edit>>) /\ Simulate(e.parent, <<edit>>) = e.target
  BY Zenon DEF Reproduces
<1>3. rank[e.parent] < rank[Simulate(e.parent, <<edit>>)]
  BY Zenon, <1>1, <1>2 DEF NothingReturns
<1> QED
  BY Zenon, <1>2, <1>3

\* generate.
LEMMA GenerateKeepsForward ==
  ASSUME StoreInv, NEW rank, NothingReturns(rank), ForwardInv(rank), Generate
  PROVE  ForwardInv(rank)'
<1>1. queue = <<>> /\ UNCHANGED <<files, theirs>>
  BY DEF Generate
<1>2. PICK head \in ChainHeads(live), edit \in wanted : \E e \in Edges :
        /\ edit \in Edits /\ e.parent = head /\ e.ops = <<edit>>
        /\ Runs(e.parent, e.ops) /\ Reproduces(e)
        /\ DOMAIN queue' = {1, 2} /\ queue'[1].file = "manifest"
        /\ queue'[2].file = "edge" /\ queue'[2].edge = e
  BY GeneratePlan
<1>3. PICK e \in Edges :
        /\ edit \in Edits /\ e.parent \in ChainHeads(live) /\ e.ops = <<edit>>
        /\ Runs(e.parent, e.ops) /\ Reproduces(e)
        /\ DOMAIN queue' = {1, 2} /\ queue'[1].file = "manifest"
        /\ queue'[2].file = "edge" /\ queue'[2].edge = e
  BY Zenon, <1>2
<1>4. rank[e.parent] < rank[e.target]
  BY <1>3, EditRises
<1>5. ToWrite' = {e} /\ ToArchive' = {}
  BY <1>3 DEF ToWrite, ToArchive
<1>6. ToWrite = {} /\ Known = All \union ToSet(theirs)
  BY <1>1, QuietFiles
<1>7. /\ live' = live /\ All' = All /\ theirs' = theirs /\ Known' = Known \union {e}
  BY <1>1, <1>5, <1>6 DEF files, All, Known
<1>8. WritesInOrder'
  <2>1. 1..(2 - 1) = {1}
    OBVIOUS
  <2> QED
    BY <1>3, <1>5, <2>1 DEF WritesInOrder
<1>9. StretchMoves'
  BY <1>3 DEF StretchMoves
<1>10. Rises(rank)'
  BY <1>4, <1>7 DEF ForwardInv, Rises
<1>11. Begins'
  <2>1. CASE All # {}
    BY <1>7, <2>1 DEF ForwardInv, Begins
  <2>2. CASE All = {}
    <3>1. e.parent = Genesis
      BY <1>3, <2>2 DEF All, ChainHeads
    <3> QED
      BY <1>5, <1>7, <2>2, <3>1 DEF ForwardInv, Begins
  <2> QED
    BY <2>1, <2>2
<1>12. LedOn'
  BY <1>7 DEF ForwardInv, LedOn
<1> QED
  BY <1>8, <1>9, <1>10, <1>11, <1>12 DEF ForwardInv

\* squash: the new edge goes from where the path starts to where it ends.
LEMMA SquashKeepsForward ==
  ASSUME StoreInv, NEW rank \in [Revisions -> Nat], ForwardInv(rank), Squash
  PROVE  ForwardInv(rank)'
<1>1. PICK p \in Seq(live), c \in Edges :
        /\ queue' = <<SquashFile(c, ToSet(p))>> \o ArchiveMoves(p)
        /\ p \in Seq(Edges) /\ Len(p) >= 2 /\ Linked(p)
        /\ \A i, j \in 1..Len(p) : p[i] = p[j] => i = j
        /\ c.parent = p[1].parent /\ c.target = p[Len(p)].target
  BY SquashPlan
<1>2. SquashQueue(queue', p, c)
  BY <1>1, SquashWrites
<1>3. /\ queue = <<>> /\ UNCHANGED <<files, theirs>> /\ ToWrite' = {c} /\ All' = All
  BY <1>2, SquashBegins
<1>4. /\ Known = All \union ToSet(theirs) /\ Rises(rank)
  BY <1>3, QuietFiles DEF ForwardInv
<1>5. Known' = Known \union {c} /\ live' = live /\ theirs' = theirs
  BY <1>3, <1>4 DEF Known, files
<1>6. \A i \in 1..Len(p) : p[i] \in live /\ p[i] \in Edges /\ 1 \in 1..Len(p)
  BY <1>1
<1>7. \A i \in 1..Len(p) : rank[p[i].parent] < rank[p[i].target]
  BY <1>4, <1>6 DEF Rises, All
<1>8. /\ rank[p[1].parent] < rank[p[Len(p)].target]
      /\ \A k \in 2..Len(p) : /\ rank[p[1].target] < rank[p[k].target]
                              /\ rank[p[1].parent] < rank[p[k].parent]
  BY <1>1, <1>7, PathRises
<1>9. c \notin ToSet(p)
  <2> SUFFICES ASSUME c \in ToSet(p) PROVE FALSE
    OBVIOUS
  <2>1. Len(p) \in Nat /\ Len(p) \in 2..Len(p)
    BY <1>1
  <2>2. PICK k \in 1..Len(p) : p[k] = c
    BY DEF ToSet
  <2>3. \A e \in Edges : rank[e.parent] \in Nat /\ rank[e.target] \in Nat
    BY EdgeFields
  <2>4. CASE k = 1
    <3>1. p[1].target = p[Len(p)].target
      BY <1>1, <2>2, <2>4
    <3>2. rank[p[1].target] < rank[p[Len(p)].target] /\ rank[p[1].target] \in Nat
      BY <1>6, <1>8, <2>1, <2>2, <2>3, <2>4
    <3> QED
      BY <3>1, <3>2
  <2>5. CASE k # 1
    <3>1. k \in 2..Len(p)
      BY <2>1, <2>5
    <3>2. p[1].parent = p[k].parent
      BY <1>1, <2>2
    <3>3. rank[p[1].parent] < rank[p[k].parent] /\ rank[p[k].parent] \in Nat
      BY <1>6, <1>8, <2>2, <2>3, <3>1
    <3> QED
      BY <3>2, <3>3
  <2> QED
    BY <2>4, <2>5
<1>10. WritesInOrder'
  BY <1>1, <1>2, <1>9, SquashInOrder
<1>11. StretchMoves'
  BY <1>1, <1>2, SquashStretches
<1>12. Rises(rank)'
  <2>1. rank[c.parent] < rank[c.target]
    BY <1>1, <1>8
  <2> QED
    BY <1>4, <1>5, <2>1 DEF Rises
<1>13. Begins'
  <2>1. 1 \in 1..Len(p)
    BY <1>1
  <2>2. All # {}
    BY <1>6, <2>1 DEF All
  <2> QED
    BY <1>3, <2>2 DEF ForwardInv, Begins
<1>14. LedOn'
  BY <1>3, <1>5 DEF ForwardInv, LedOn
<1> QED
  BY <1>10, <1>11, <1>12, <1>13, <1>14 DEF ForwardInv

\* Steps that leave the files and the writes alone, and may add an edge that
\* rises to the branch: from genesis if it is the first of all.
LEMMA OthersKeepForward ==
  ASSUME NEW rank, ForwardInv(rank), UNCHANGED <<files, queue>>,
         \/ theirs' = theirs
         \/ \E e : /\ ToSet(theirs') = ToSet(theirs) \union {e}
                   /\ rank[e.parent] < rank[e.target]
                   /\ theirs = <<>> /\ All = {} => e.parent = Genesis
  PROVE  ForwardInv(rank)'
<1>1. /\ All' = All /\ ToWrite' = ToWrite /\ ToArchive' = ToArchive
      /\ live' = live /\ queue' = queue
  BY DEF All, ToWrite, ToArchive, files
<1>2. Coming' = Coming
  BY <1>1 DEF Coming
<1>3. WritesInOrder' /\ StretchMoves' /\ LedOn'
  BY <1>1, <1>2 DEF ForwardInv, WritesInOrder, StretchMoves, LedOn
<1>4. CASE theirs' = theirs
  <2>1. Rises(rank)' /\ Begins'
    BY <1>1, <1>4 DEF ForwardInv, Rises, Begins, Known
  <2> QED
    BY <1>3, <2>1 DEF ForwardInv
<1>5. CASE theirs' # theirs
  <2>1. PICK e : /\ ToSet(theirs') = ToSet(theirs) \union {e}
                 /\ rank[e.parent] < rank[e.target]
                 /\ theirs = <<>> /\ All = {} => e.parent = Genesis
    BY <1>5
  <2>2. Known' = Known \union {e}
    BY <1>1, <2>1 DEF Known
  <2>3. Rises(rank)'
    BY <2>1, <2>2 DEF ForwardInv, Rises
  <2>4. Begins'
    BY <1>1, <2>1 DEF ForwardInv, Begins
  <2> QED
    BY <1>3, <2>3, <2>4 DEF ForwardInv
<1> QED
  BY <1>4, <1>5

\* A colleague's edge.
LEMMA GenerateTheirsKeepsForward ==
  ASSUME StoreInv, StoreInv', NEW rank, NothingReturns(rank), ForwardInv(rank),
         GenerateTheirs
  PROVE  ForwardInv(rank)'
<1>1. UNCHANGED <<files, queue>>
  BY DEF GenerateTheirs
<1>2. PICK head \in IF theirs = <<>> THEN ChainHeads(live) ELSE {Last(theirs).target},
           edit \in wanted : \E e \in Edges :
        /\ edit \in Edits
        /\ e.parent = head /\ e.ops = <<edit>> /\ Runs(e.parent, e.ops)
        /\ ToSet(theirs') = ToSet(theirs) \union {e}
  BY BranchPlan
<1>3. PICK e \in Edges :
        /\ edit \in Edits
        /\ e.parent \in IF theirs = <<>> THEN ChainHeads(live) ELSE {Last(theirs).target}
        /\ e.ops = <<edit>> /\ Runs(e.parent, e.ops)
        /\ ToSet(theirs') = ToSet(theirs) \union {e}
  BY Zenon, <1>2
<1>4. Reproduces(e)
  <2>1. e \in Known' /\ KnownReproduce'
    BY <1>3 DEF Known, StoreInv
  <2>2. \A f \in Known' : Reproduces(f)
    BY Zenon, <2>1 DEF KnownReproduce
  <2> QED
    BY Zenon, <2>1, <2>2
<1>5. rank[e.parent] < rank[e.target]
  BY <1>3, <1>4, EditRises
<1>6. theirs = <<>> /\ All = {} => e.parent = Genesis
  BY <1>3 DEF All, ChainHeads
<1> QED
  BY <1>1, <1>3, <1>5, <1>6, OthersKeepForward

\* The merge of the branch: each of its edges is live where it ends.
LEMMA MergeTheirsKeepsForward ==
  ASSUME StoreInv, NEW rank, ForwardInv(rank), MergeTheirs
  PROVE  ForwardInv(rank)'
<1>1. /\ queue = <<>> /\ queue' = <<>> /\ theirs # <<>> /\ theirs' = <<>>
      /\ live' = live \union ToSet(theirs) /\ archive' = archive
  BY DEF MergeTheirs
<1>2. /\ ToWrite = {} /\ Known = All \union ToSet(theirs)
  BY <1>1, QuietFiles
<1>3. /\ ToWrite' = {} /\ WritesInOrder' /\ DOMAIN queue' = {}
  <2>1. DOMAIN queue' = {}
    BY <1>1
  <2>2. ToWrite' = {} /\ ToArchive' = {}
    BY <2>1 DEF ToWrite, ToArchive
  <2> QED
    BY <2>1, <2>2 DEF WritesInOrder
<1>4. All' = All \union ToSet(theirs)
  BY <1>1 DEF All
<1>5. ToSet(theirs') = {}
  BY <1>1 DEF ToSet
<1>6. Known' = Known
  BY <1>2, <1>3, <1>4, <1>5 DEF Known
<1>7. Rises(rank)' /\ StretchMoves'
  BY <1>3, <1>6 DEF ForwardInv, Rises, StretchMoves
<1>8. Begins'
  BY <1>1, <1>3, <1>4 DEF ForwardInv, Begins
<1>9. LedOn'
  BY <1>1, <1>4 DEF ForwardInv, LedOn
<1> QED
  BY <1>3, <1>7, <1>8, <1>9 DEF ForwardInv

\* A command that is cut short: what it has not moved stays where it is.
LEMMA CutShortKeepsForward ==
  ASSUME NEW rank, ForwardInv(rank), CutShort
  PROVE  ForwardInv(rank)'
<1>1. /\ queue' = <<>> /\ UNCHANGED <<files, theirs>>
  BY DEF CutShort
<1>2. DOMAIN queue' = {}
  BY <1>1
<1>3. ToWrite' = {} /\ ToArchive' = {}
  BY <1>2 DEF ToWrite, ToArchive
<1>4. All' = All /\ live' = live /\ theirs' = theirs
  BY <1>1 DEF All, files
<1>5. Known' \subseteq Known
  BY <1>3, <1>4 DEF Known
<1>6. WritesInOrder' /\ StretchMoves'
  BY <1>2, <1>3 DEF WritesInOrder, StretchMoves
<1>7. Rises(rank)' /\ Begins' /\ LedOn'
  BY <1>3, <1>4, <1>5 DEF ForwardInv, Rises, Begins, LedOn
<1> QED
  BY <1>6, <1>7 DEF ForwardInv

\* Where nobody rebases and no schema returns, edges rise, begin at genesis and
\* lead on to a live one, commands cut short or not.
THEOREM ForwardInvariant ==
  ASSUME "rebase" \notin Commands,
         NEW rank \in [Revisions -> Nat], NothingReturns(rank)
  PROVE  Spec => [](StoreInv /\ PlainInv /\ ForwardInv(rank))
<1>1. Init => ForwardInv(rank)
  BY InitForward
<1>2. StoreInv /\ StoreInv' /\ PlainInv /\ ForwardInv(rank) /\ [Next]_vars
        => ForwardInv(rank)'
  <2> SUFFICES ASSUME StoreInv, StoreInv', PlainInv, ForwardInv(rank), [Next]_vars
               PROVE  ForwardInv(rank)'
    OBVIOUS
  <2>1. CASE WriteNext
    BY <2>1, WriteNextKeepsForward
  <2>2. CASE Generate
    BY <2>2, GenerateKeepsForward
  <2>3. CASE Squash
    BY <2>3, SquashKeepsForward
  <2>4. CASE Rebase
    BY <2>4 DEF Rebase
  <2>5. CASE GenerateTheirs
    BY <2>5, GenerateTheirsKeepsForward
  <2>6. CASE MergeTheirs
    BY <2>6, MergeTheirsKeepsForward
  <2>7. CASE CutShort
    BY <2>7, CutShortKeepsForward
  <2>8. ASSUME NEW d \in Databases, DatabaseNext(d) PROVE ForwardInv(rank)'
    <3>1. UNCHANGED <<files, queue, theirs>>
      BY <2>8 DEF DatabaseNext, ApplyTheirs, PlanApply, ApplyEdge, RefuseEdge, StopApply
    <3> QED
      BY <3>1, OthersKeepForward
  <2>9. CASE UNCHANGED vars
    <3>1. UNCHANGED <<files, queue, theirs>>
      BY <2>9 DEF vars
    <3> QED
      BY <3>1, OthersKeepForward
  <2> QED
    BY <2>1, <2>2, <2>3, <2>4, <2>5, <2>6, <2>7, <2>8, <2>9 DEF Next, FileNext
<1> QED
  BY <1>1, <1>2, PlainInvariant, PTL DEF Spec

\* Of finitely many revisions one has the greatest rank.
LEMMA GreatestRank ==
  ASSUME NEW rank \in [Revisions -> Nat], NEW Q \in SUBSET Revisions,
         IsFiniteSet(Q), Q # {}
  PROVE  \E m \in Q : \A r \in Q : rank[r] <= rank[m]
<1> DEFINE T == {rank[r] : r \in Q}
           f == [r \in Q |-> rank[r]]
<1>1. f \in Surjection(Q, T)
  BY DEF Surjection
<1>2. IsFiniteSet(T)
  <2> HIDE DEF T, f
  <2> QED
    BY <1>1, FS_Surjection
<1>3. T \subseteq Nat /\ T # {}
  OBVIOUS
<1>4. PICK n \in T : \A k \in T : k <= n
  <2> HIDE DEF T
  <2> QED
    BY <1>2, <1>3, GreatestNatural
<1> QED
  BY <1>4

\* Where edges end, and genesis.
LEMMA EndsFinite ==
  ASSUME NEW edges \in SUBSET Edges, IsFiniteSet(edges)
  PROVE  LET ends == {Genesis} \union {e.target : e \in edges} IN
           IsFiniteSet(ends) /\ ends \in SUBSET Revisions
<1> DEFINE T == {e.target : e \in edges}
           f == [e \in edges |-> e.target]
<1>1. f \in Surjection(edges, T)
  BY DEF Surjection
<1>2. IsFiniteSet(T)
  <2> HIDE DEF T, f
  <2> QED
    BY <1>1, FS_Surjection
<1>3. T \in SUBSET Revisions
  BY EdgeFields
<1>4. IsFiniteSet(T \union {Genesis})
  <2> HIDE DEF T
  <2> QED
    BY Zenon, <1>2, FS_AddElement
<1> HIDE DEF T
<1>5. {Genesis} \union T = T \union {Genesis}
  OBVIOUS
<1> QED
  BY <1>3, <1>4, <1>5, GenesisRevision DEF T

\* From every revision of the chain, archived edges walked too, some live head
\* is reached: the reachable revision of the greatest rank is one.
LEMMA HeadReached ==
  ASSUME StoreInv, NEW rank \in [Revisions -> Nat], ForwardInv(rank), All # {},
         NEW start \in {Genesis} \union {e.target : e \in All}
  PROVE  \E h \in FindHeads(live, NoRemap) : /\ Reachable(start, h, All, NoRemap)
                                             /\ rank[start] <= rank[h]
<1>1. /\ All \in SUBSET Edges /\ IsFiniteSet(All) /\ live \subseteq All
  BY FS_Union DEF StoreInv, TypeOK, All
<1> DEFINE T == {Genesis} \union {e.target : e \in All}
           Q == {r \in T : Reachable(start, r, All, NoRemap)}
<1>2. IsFiniteSet(T) /\ T \in SUBSET Revisions
  BY <1>1, EndsFinite
<1>3. /\ Reachable(start, start, All, NoRemap)
      /\ \A e \in All : Reachable(start, e.parent, All, NoRemap) =>
           Reachable(start, e.target, All, NoRemap)
  <2>1. start \in Revisions
    BY <1>2
  <2> QED
    BY <1>1, <2>1, ReachableClosed
<1>4. start \in Q /\ Q \in SUBSET Revisions /\ IsFiniteSet(Q)
  <2>1. start \in Q /\ Q \in SUBSET T
    BY <1>3
  <2> HIDE DEF T, Q
  <2> QED
    BY <1>2, <2>1, FS_Subset
<1>5. PICK h \in Q : \A r \in Q : rank[r] <= rank[h]
  <2> HIDE DEF Q
  <2> QED
    BY <1>4, GreatestRank
<1>6. h \in T /\ Reachable(start, h, All, NoRemap)
  OBVIOUS
<1>7. ASSUME NEW e \in All, e.parent = h PROVE FALSE
  <2>1. e.target \in T
    OBVIOUS
  <2>2. Reachable(start, e.target, All, NoRemap)
    BY Zenon, <1>3, <1>6, <1>7
  <2>3. e.target \in Q
    BY <2>1, <2>2
  <2>4. rank[h] < rank[e.target]
    BY <1>7 DEF ForwardInv, Rises, Known
  <2>5. rank[h] \in Nat /\ rank[e.target] \in Nat
    BY <1>4, <2>3
  <2> QED
    BY <1>5, <2>3, <2>4, <2>5
<1>8. PICK e \in All : e.target = h
  <2>1. PICK f \in All : f.parent = Genesis
    BY <1>1 DEF ForwardInv, Begins
  <2> QED
    BY <1>6, <1>7, <2>1
<1>9. PICK f \in live : f.target = h
  BY <1>7, <1>8 DEF ForwardInv, LedOn
<1>10. \A r : Canon(r, NoRemap) = r
  BY CanonPlain
<1>11. h \in FindHeads(live, NoRemap)
  <2>1. h \in {Canon(x.target, NoRemap) : x \in live}
    BY <1>9, <1>10
  <2>2. h \notin {Canon(x.parent, NoRemap) : x \in {y \in live : y.parent # Genesis}}
    BY <1>1, <1>7, <1>10
  <2> QED
    BY <2>1, <2>2 DEF FindHeads
<1> QED
  BY <1>4, <1>5, <1>6, <1>11

\* A database on the chain is never told that its position is off the chain,
\* at no write of any command, and whatever was cut short: where nobody rebases
\* and no schema returns.
THEOREM Served ==
  ASSUME "rebase" \notin Commands,
         NEW rank \in [Revisions -> Nat], NothingReturns(rank)
  PROVE  Spec => []ServedThroughout
<1>1. StoreInv /\ PlainInv /\ ForwardInv(rank) => ServedThroughout
  <2> SUFFICES ASSUME StoreInv, PlainInv, ForwardInv(rank), NEW d \in Databases,
                      OnChain(d)
               PROVE  Told(d) # "noPath"
    BY DEF ServedThroughout
  <2>1. remap = NoRemap /\ Canon(pos[d], NoRemap) = pos[d]
    BY CanonPlain DEF PlainInv, NoRemaps
  <2>2. live # {} /\ pos[d] \in {Genesis} \union {e.target : e \in All}
    BY DEF OnChain
  <2>3. PICK h \in FindHeads(live, NoRemap) : Reachable(pos[d], h, All, NoRemap)
    <3>1. All # {}
      BY <2>2 DEF All
    <3> QED
      BY <2>2, <3>1, HeadReached
  <2> DEFINE heads == ReachableHeads(pos[d], remap, live, All)
  <2>4. h \in heads
    BY <2>1, <2>3 DEF ReachableHeads
  <2> HIDE DEF heads
  <2>5. Told(d) \in {"fork", "upToDate", "path"}
    BY <2>4 DEF Told, Verdict, heads
  <2> QED
    BY <2>5
<1> QED
  BY <1>1, ForwardInvariant, PTL

-----------------------------------------------------------------------------
(***************************************************************************)
(* Without branches: the line of revisions, and databases on it.           *)
(***************************************************************************)

\* Nothing there yet.
LEMMA InitLine ==
  ASSUME Init, NEW rank
  PROVE  LineInv(rank)
<1>1. /\ queue = <<>> /\ All = {} /\ theirs = <<>> /\ ToSet(published) = {}
      /\ DOMAIN queue = {} /\ DOMAIN published = {}
  <2>1. ToSet(<<>>) = {} /\ DOMAIN <<>> = {}
    BY DEF ToSet
  <2> QED
    BY <2>1 DEF Init, All
<1>2. \A d \in Databases : pos[d] = Genesis
  BY DEF Init
<1> QED
  BY <1>1, <1>2 DEF LineInv

\* The next write of a command: only generate's edge makes the line longer.
LEMMA WriteNextKeepsLine ==
  ASSUME StoreInv, PlainInv, NEW rank \in [Revisions -> Nat], ForwardInv(rank),
         LineInv(rank), WriteNext
  PROVE  LineInv(rank)'
<1>1. SequencesOK /\ NoRemaps /\ WritesInOrder /\ published \in Seq(Revisions)
  BY DEF StoreInv, PlainInv, ForwardInv, SequencesOK
<1>2. /\ WriteEffect(queue[1]) /\ 1 \in DOMAIN queue /\ Head(queue) = queue[1]
      /\ \A i \in DOMAIN queue' : i + 1 \in DOMAIN queue /\ queue'[i] = queue[i + 1]
  BY <1>1, WriteEffects
<1>3. theirs' = <<>> /\ pos' = pos
  BY DEF WriteNext, LineInv, databases
<1>4. CASE queue[1].file = "edge"
  <2> DEFINE e == queue[1].edge
  <2>1. /\ live' = live \union {e} /\ archive' = archive
        /\ \A i \in DOMAIN queue' : queue'[i].file = "archive"
    BY <1>2, <1>4 DEF WriteEffect
  <2>2. published' = Append(published, e.target)
    BY <1>2, <1>4 DEF WriteNext
  <2>3. /\ \A r \in {Genesis} \union ToSet(published) : rank[r] < rank[e.target]
        /\ e \in Edges
    BY <1>1, <1>2, <1>4 DEF LineInv, SequencesOK, WriteOK
  <2> HIDE DEF e
  <2>4. e.target \in Revisions
    BY <2>3, EdgeFields
  <2>5. /\ ToSet(published') = ToSet(published) \union {e.target}
        /\ DOMAIN published' = 1..(Len(published) + 1) /\ Len(published) \in Nat
        /\ DOMAIN published = 1..Len(published)
        /\ published'[Len(published) + 1] = e.target
        /\ \A i \in DOMAIN published : published'[i] = published[i]
    BY <1>1, <2>2, <2>4, AppendElements
  <2>6. ToSet(published') = {f.target : f \in All'}
    BY <2>1, <2>5 DEF LineInv, All
  <2>7. ASSUME NEW i \in DOMAIN published', NEW j \in DOMAIN published', i < j
        PROVE  rank[published'[i]] < rank[published'[j]]
    <3>1. i \in DOMAIN published
      BY <2>5, <2>7
    <3>2. CASE j \in DOMAIN published
      BY <2>5, <2>7, <3>1, <3>2 DEF LineInv
    <3>3. CASE j \notin DOMAIN published
      <4>1. j = Len(published) + 1
        BY <2>5, <3>3
      <4>2. published[i] \in ToSet(published)
        BY <3>1 DEF ToSet
      <4> QED
        BY <2>3, <2>5, <3>1, <4>1, <4>2
    <3> QED
      BY <3>2, <3>3
  <2>8. \A r \in ToSet(published') : rank[Genesis] < rank[r]
    BY <2>3, <2>5 DEF LineInv
  <2>9. \A d \in Databases : pos'[d] \in {Genesis} \union ToSet(published')
    BY <1>3, <2>5 DEF LineInv
  <2> QED
    BY <1>3, <2>1, <2>6, <2>7, <2>8, <2>9 DEF LineInv
<1>5. CASE queue[1].file # "edge"
  <2>1. published' = published
    BY <1>2, <1>5 DEF WriteNext
  <2>2. {f.target : f \in All'} = {f.target : f \in All}
    <3>1. CASE queue[1].file = "squash"
      <4>1. /\ live' = live \union {queue[1].edge} /\ archive' = archive
            /\ queue[1].edge.target \in ToSet(published)
        BY <1>2, <3>1 DEF WriteEffect, LineInv
      <4> QED
        BY <4>1 DEF LineInv, All
    <3>2. CASE queue[1].file # "squash"
      <4>1. All' = All
        BY <1>2, <1>5, <3>2 DEF WriteEffect, All
      <4> QED
        BY <4>1
    <3> QED
      BY <3>1, <3>2
  <2>3. \A i \in DOMAIN queue' : \E k \in DOMAIN queue : queue'[i] = queue[k]
    BY <1>2
  <2>4. \A i \in DOMAIN queue' :
          /\ queue'[i].file = "squash" => queue'[i].edge.target \in ToSet(published)
          /\ queue'[i].file = "edge" =>
               \A r \in {Genesis} \union ToSet(published) :
                 rank[r] < rank[queue'[i].edge.target]
    <3> SUFFICES ASSUME NEW i \in DOMAIN queue'
                 PROVE  /\ queue'[i].file = "squash" =>
                             queue'[i].edge.target \in ToSet(published)
                        /\ queue'[i].file = "edge" =>
                             \A r \in {Genesis} \union ToSet(published) :
                               rank[r] < rank[queue'[i].edge.target]
      OBVIOUS
    <3>1. PICK k \in DOMAIN queue : queue'[i] = queue[k]
      BY <2>3
    <3>2. /\ queue[k].file = "squash" => queue[k].edge.target \in ToSet(published)
          /\ queue[k].file = "edge" =>
               \A r \in {Genesis} \union ToSet(published) :
                 rank[r] < rank[queue[k].edge.target]
      BY Zenon DEF LineInv
    <3> QED
      BY Zenon, <3>1, <3>2
  <2>5. ToSet(published') = {f.target : f \in All'}
    BY Zenon, <2>1, <2>2 DEF LineInv
  <2> QED
    BY Zenon, <1>3, <2>1, <2>4, <2>5 DEF LineInv
<1> QED
  BY <1>4, <1>5

\* generate: its edge ends above the whole line, as it starts at the one head,
\* which is above all that leads there.
LEMMA GenerateKeepsLine ==
  ASSUME StoreInv, PlainInv, NEW rank \in [Revisions -> Nat], NothingReturns(rank),
         ForwardInv(rank), LineInv(rank), Generate
  PROVE  LineInv(rank)'
<1>1. /\ UNCHANGED <<files, theirs, databases, history>>
      /\ Cardinality(ChainHeads(live)) = 1
  BY DEF Generate
<1>2. PICK head \in ChainHeads(live), edit \in wanted : \E e \in Edges :
        /\ edit \in Edits /\ e.parent = head /\ e.ops = <<edit>>
        /\ Runs(e.parent, e.ops) /\ Reproduces(e)
        /\ DOMAIN queue' = {1, 2} /\ queue'[1].file = "manifest"
        /\ queue'[2].file = "edge" /\ queue'[2].edge = e
  BY GeneratePlan
<1>3. PICK e \in Edges :
        /\ edit \in Edits /\ e.parent \in ChainHeads(live) /\ e.ops = <<edit>>
        /\ Runs(e.parent, e.ops) /\ Reproduces(e)
        /\ DOMAIN queue' = {1, 2} /\ queue'[1].file = "manifest"
        /\ queue'[2].file = "edge" /\ queue'[2].edge = e
  BY Zenon, <1>2
<1>4. rank[e.parent] < rank[e.target] /\ rank[e.parent] \in Nat /\ rank[e.target] \in Nat
  <2>1. e.parent \in Revisions /\ e.target \in Revisions
    BY EdgeFields
  <2> QED
    BY <1>3, <2>1, EditRises
<1>5. /\ live \in SUBSET Edges /\ IsFiniteSet(live) /\ All \in SUBSET Edges
  BY DEF StoreInv, TypeOK, All
<1>6. IsFiniteSet(ChainHeads(live))
  <2> DEFINE T == {Genesis} \union {x.target : x \in live}
  <2>1. IsFiniteSet(T)
    BY <1>5, EndsFinite
  <2>2. ChainHeads(live) \in SUBSET T
    BY HeadsAreTargets
  <2> HIDE DEF T
  <2> QED
    BY <2>1, <2>2, FS_Subset
<1>7. PICK x : ChainHeads(live) = {x}
  BY Zenon, <1>1, <1>6, FS_Singleton
<1>8. ASSUME NEW r \in {Genesis} \union ToSet(published) PROVE rank[r] < rank[e.target]
  <2>1. CASE All = {}
    <3>1. r = Genesis /\ e.parent = Genesis
      BY <1>3, <2>1 DEF LineInv, All, ChainHeads
    <3> QED
      BY <1>4, <3>1
  <2>2. CASE All # {}
    <3>1. r \in {Genesis} \union {f.target : f \in All}
      BY DEF LineInv
    <3>2. PICK h \in FindHeads(live, NoRemap) : rank[r] <= rank[h]
      BY <2>2, <3>1, HeadReached
    <3>3. live # {}
      BY <3>2 DEF FindHeads
    <3>4. h \in ChainHeads(live)
      BY <3>2, <3>3 DEF ChainHeads
    <3>5. h = e.parent
      BY <1>3, <1>7, <3>4
    <3>6. r \in Revisions
      BY <1>5, <3>1, GenesisRevision, EdgeFields
    <3>7. rank[r] \in Nat
      BY <3>6
    <3> QED
      BY <1>4, <3>2, <3>5, <3>7
  <2> QED
    BY <2>1, <2>2
<1>9. /\ All' = All /\ published' = published /\ theirs' = theirs /\ pos' = pos
  BY <1>1 DEF files, All, history, databases
<1>10. \A i \in DOMAIN queue' :
         \/ queue'[i].file = "manifest"
         \/ queue'[i].file = "edge" /\ queue'[i].edge = e
  BY <1>3
<1> QED
  BY <1>8, <1>9, <1>10 DEF LineInv

\* squash: its edge ends where an edge of the chain does.
LEMMA SquashKeepsLine ==
  ASSUME StoreInv, NEW rank, LineInv(rank), Squash
  PROVE  LineInv(rank)'
<1>1. PICK p \in Seq(live), c \in Edges :
        /\ queue' = <<SquashFile(c, ToSet(p))>> \o ArchiveMoves(p)
        /\ p \in Seq(Edges) /\ Len(p) >= 2
        /\ c.target = p[Len(p)].target
  BY SquashPlan
<1>2. SquashQueue(queue', p, c)
  BY <1>1, SquashWrites
<1>3. p[Len(p)] \in All
  BY <1>1 DEF All
<1>4. c.target \in ToSet(published)
  BY <1>1, <1>3 DEF LineInv
<1>5. \A i \in DOMAIN queue' :
        \/ queue'[i].file = "archive"
        \/ queue'[i].file = "squash" /\ queue'[i].edge = c
  BY <1>2 DEF SquashQueue
<1>6. /\ All' = All /\ published' = published /\ theirs' = theirs /\ pos' = pos
  BY DEF Squash, files, All, history, databases
<1> QED
  BY <1>4, <1>5, <1>6 DEF LineInv

\* Steps that leave the files and the line alone, and may move databases along it.
LEMMA OthersKeepLine ==
  ASSUME NEW rank, LineInv(rank), UNCHANGED <<files, theirs, published>>,
         queue' = queue \/ queue' = <<>>,
         \A d \in Databases : pos'[d] = pos[d] \/ pos'[d] \in ToSet(published)
  PROVE  LineInv(rank)'
<1>1. /\ All' = All /\ published' = published /\ theirs' = theirs
  BY DEF files, All
<1>2. queue' = <<>> => DOMAIN queue' = {}
  OBVIOUS
<1> QED
  BY <1>1, <1>2 DEF LineInv

\* Databases.
LEMMA DatabasesKeepLine ==
  ASSUME StoreInv, NEW rank, LineInv(rank), NEW d \in Databases, DatabaseNext(d)
  PROVE  LineInv(rank)'
<1>1. UNCHANGED <<files, queue, theirs, published>>
  BY DEF DatabaseNext, ApplyTheirs, PlanApply, ApplyEdge, RefuseEdge, StopApply, history
<1>2. pos \in [Databases -> Revisions]
  BY DEF StoreInv, TypeOK
<1>3. CASE ApplyTheirs(d)
  <2>1. ToSet(theirs) = {}
    BY DEF LineInv, ToSet
  <2> QED
    BY <1>3, <2>1 DEF ApplyTheirs
<1>4. CASE ApplyEdge(d)
  <2>1. path[d] # <<>> /\ pos' = [pos EXCEPT ![d] = Head(path[d]).target]
    BY <1>4 DEF ApplyEdge, PositionAfter
  <2>2. Head(path[d]) \in All
    BY <2>1, NextEdge
  <2>3. Head(path[d]).target \in ToSet(published)
    BY <2>2 DEF LineInv
  <2>4. \A k \in Databases : pos'[k] = pos[k] \/ pos'[k] \in ToSet(published)
    BY <1>2, <2>1, <2>3
  <2> QED
    BY <1>1, <2>4, OthersKeepLine
<1>5. CASE PlanApply(d) \/ RefuseEdge(d) \/ StopApply(d)
  <2>1. pos' = pos
    BY <1>5 DEF PlanApply, RefuseEdge, StopApply
  <2> QED
    BY <1>1, <2>1, OthersKeepLine
<1> QED
  BY <1>3, <1>4, <1>5 DEF DatabaseNext

\* Without branches and rebases, and where no schema returns, the chain is a
\* line of revisions that rise, and databases are on it.
THEOREM LineInvariant ==
  ASSUME "rebase" \notin Commands, "branch" \notin Commands,
         NEW rank \in [Revisions -> Nat], NothingReturns(rank)
  PROVE  Spec => [](StoreInv /\ PlainInv /\ ForwardInv(rank) /\ LineInv(rank))
<1>1. Init => LineInv(rank)
  BY InitLine
<1>2. StoreInv /\ PlainInv /\ ForwardInv(rank) /\ LineInv(rank) /\ [Next]_vars
        => LineInv(rank)'
  <2> SUFFICES ASSUME StoreInv, PlainInv, ForwardInv(rank), LineInv(rank), [Next]_vars
               PROVE  LineInv(rank)'
    OBVIOUS
  <2>1. CASE WriteNext
    BY <2>1, WriteNextKeepsLine
  <2>2. CASE Generate
    BY <2>2, GenerateKeepsLine
  <2>3. CASE Squash
    BY <2>3, SquashKeepsLine
  <2>4. CASE Rebase \/ GenerateTheirs
    BY <2>4 DEF Rebase, GenerateTheirs
  <2>5. CASE MergeTheirs
    BY <2>5 DEF MergeTheirs, LineInv
  <2>6. CASE CutShort
    <3>1. /\ UNCHANGED <<files, theirs, published>> /\ queue' = <<>> /\ pos' = pos
      BY <2>6 DEF CutShort, history, databases
    <3> QED
      BY <3>1, OthersKeepLine
  <2>7. ASSUME NEW d \in Databases, DatabaseNext(d) PROVE LineInv(rank)'
    BY <2>7, DatabasesKeepLine
  <2>8. CASE UNCHANGED vars
    <3>1. /\ UNCHANGED <<files, theirs, published>> /\ queue' = queue /\ pos' = pos
      BY <2>8 DEF vars, history, databases
    <3> QED
      BY <3>1, OthersKeepLine
  <2> QED
    BY <2>1, <2>2, <2>3, <2>4, <2>5, <2>6, <2>7, <2>8 DEF Next, FileNext
<1> QED
  BY <1>1, <1>2, ForwardInvariant, PTL DEF Spec

\* A sequence with one more element in front.
LEMMA InFront ==
  ASSUME NEW S, NEW x \in S, NEW q \in Seq(S)
  PROVE  LET s == <<x>> \o q IN
           /\ DOMAIN s = 1..(Len(q) + 1) /\ Len(q) \in Nat /\ DOMAIN q = 1..Len(q)
           /\ s[1] = x /\ \A i \in DOMAIN q : s[i + 1] = q[i]
           /\ \A i \in DOMAIN s : i = 1 \/ \E k \in DOMAIN q : i = k + 1
           /\ ToSet(s) = {x} \union ToSet(q)
           /\ \A y \in S : <<x>> \o Append(q, y) = Append(s, y)
<1> DEFINE s == <<x>> \o q
<1>1. /\ DOMAIN s = 1..(Len(q) + 1) /\ Len(q) \in Nat /\ DOMAIN q = 1..Len(q)
      /\ s[1] = x /\ \A i \in DOMAIN q : s[i + 1] = q[i]
  OBVIOUS
<1>2. \A i \in DOMAIN s : i = 1 \/ \E k \in DOMAIN q : i = k + 1
  <2> SUFFICES ASSUME NEW i \in DOMAIN s, i # 1 PROVE \E k \in DOMAIN q : i = k + 1
    OBVIOUS
  <2>1. i - 1 \in DOMAIN q /\ i = (i - 1) + 1
    BY <1>1
  <2> QED
    BY <2>1
<1>3. ToSet(s) = {x} \union ToSet(q)
  <2>1. ToSet(<<x>>) = {x}
    BY DEF ToSet
  <2>2. <<x>> \in Seq(S)
    OBVIOUS
  <2>3. ToSet(<<x>> \o q) = ToSet(<<x>>) \union ToSet(q)
    BY ZenonT(40), <2>2, ConcatSet
  <2> QED
    BY <2>1, <2>3
<1>4. ASSUME NEW y \in S PROVE <<x>> \o Append(q, y) = Append(s, y)
  OBVIOUS
<1> QED
  BY <1>1, <1>2, <1>3, <1>4

\* The line rises from genesis on, and databases are on it.
LEMMA LineRises ==
  ASSUME StoreInv, PlainInv, NEW rank, LineInv(rank)
  PROVE  LET line == <<Genesis>> \o published IN
           /\ ToSet(line) = {Genesis} \union ToSet(published)
           /\ \A i, j \in DOMAIN line : i < j => rank[line[i]] < rank[line[j]]
           /\ \A d \in Databases : schema[d] \in ToSet(line)
<1> DEFINE line == <<Genesis>> \o published
<1>1. published \in Seq(Revisions) /\ Genesis \in Revisions
  BY GenesisRevision DEF StoreInv, SequencesOK
<1>2. /\ DOMAIN line = 1..(Len(published) + 1) /\ Len(published) \in Nat
      /\ DOMAIN published = 1..Len(published)
      /\ line[1] = Genesis /\ \A i \in DOMAIN published : line[i + 1] = published[i]
      /\ \A i \in DOMAIN line : i = 1 \/ \E k \in DOMAIN published : i = k + 1
      /\ ToSet(line) = {Genesis} \union ToSet(published)
  <2> HIDE DEF Genesis
  <2> QED
    BY <1>1, InFront
<1> HIDE DEF line
<1>3. ASSUME NEW i \in DOMAIN line, NEW j \in DOMAIN line, i < j
      PROVE  rank[line[i]] < rank[line[j]]
  <2>1. PICK l \in DOMAIN published : j = l + 1
    <3>1. j # 1
      BY <1>2, <1>3
    <3> QED
      BY <1>2, <3>1
  <2>2. line[j] = published[l] /\ published[l] \in ToSet(published)
    BY <1>2, <2>1 DEF ToSet
  <2>3. CASE i = 1
    BY <1>2, <2>2, <2>3 DEF LineInv
  <2>4. CASE i # 1
    <3>1. PICK k \in DOMAIN published : i = k + 1
      BY <1>2, <2>4
    <3>2. k < l /\ line[i] = published[k]
      BY <1>2, <1>3, <2>1, <3>1
    <3> QED
      BY <2>2, <3>2 DEF LineInv
  <2> QED
    BY <2>3, <2>4
<1>4. \A d \in Databases : schema[d] \in ToSet(line)
  BY <1>2 DEF PlainInv, AtRevision, LineInv
<1> QED
  BY <1>2, <1>3, <1>4 DEF line

\* The write of generate's edge makes the line longer, by a revision it has not had.
LEMMA WriteImplementsLine ==
  ASSUME StoreInv, PlainInv, NEW rank \in [Revisions -> Nat], LineInv(rank), WriteNext
  PROVE  Line!Next \/ UNCHANGED Line!vars
<1> DEFINE line == <<Genesis>> \o published
           w == Head(queue)
<1>1. /\ w = queue[1] /\ 1 \in DOMAIN queue /\ schema' = schema
  BY QueueAfterWrite DEF WriteNext, StoreInv, databases
<1>2. CASE w.file = "edge"
  <2> DEFINE r == w.edge.target
  <2>1. published' = Append(published, r)
    BY <1>2 DEF WriteNext
  <2>2. w.edge \in Edges
    BY <1>1, <1>2 DEF StoreInv, SequencesOK, WriteOK
  <2>3. r \in Revisions
    BY <2>2, EdgeFields
  <2>4. r \notin {Genesis} \union ToSet(published)
    <3>1. \A s \in {Genesis} \union ToSet(published) : rank[s] < rank[r]
      BY <1>1, <1>2 DEF LineInv
    <3>2. rank[r] \in Nat
      BY <2>3
    <3> QED
      BY <3>1, <3>2
  <2>5. published \in Seq(Revisions)
    BY DEF StoreInv, SequencesOK
  <2> HIDE DEF r
  <2>6. /\ ToSet(line) = {Genesis} \union ToSet(published)
        /\ <<Genesis>> \o Append(published, r) = Append(line, r)
    <3> HIDE DEF Genesis
    <3> QED
      BY <2>3, <2>5, GenesisRevision, InFront
  <2>7. line' = Append(line, r)
    BY <2>1, <2>6
  <2> HIDE DEF line
  <2>8. r \notin ToSet(line) /\ r \in SUBSET (Objects \union {Meta})
    BY <2>3, <2>4, <2>6 DEF Revisions
  <2>9. Line!ToSet(line) = ToSet(line)
    BY DEF Line!ToSet, ToSet
  <2>10. Line!Extend(r)
    BY <1>1, <2>7, <2>8, <2>9 DEF Line!Extend, line
  <2> QED
    BY <2>8, <2>10 DEF Line!Next
<1>3. CASE w.file # "edge"
  <2>1. published' = published
    BY <1>3 DEF WriteNext
  <2> QED
    BY <1>1, <2>1 DEF Line!vars
<1> QED
  BY <1>2, <1>3

\* An applied edge takes its database forward along the line.
LEMMA ApplyImplementsLine ==
  ASSUME StoreInv, PlainInv, PlainInv', NEW rank \in [Revisions -> Nat],
         ForwardInv(rank), LineInv(rank), NEW d \in Databases, ApplyEdge(d)
  PROVE  Line!Next
<1> DEFINE line == <<Genesis>> \o published
           e == Head(path[d])
<1>1. /\ path[d] # <<>> /\ pos' = [pos EXCEPT ![d] = e.target]
      /\ schema' = [schema EXCEPT ![d] = Simulate(schema[d], e.ops)]
      /\ published' = published
  BY DEF ApplyEdge, PositionAfter, history
<1>2. e \in All /\ e \in Edges /\ e = path[d][1]
  BY <1>1, NextEdge
<1>3. schema[d] = e.parent
  BY <1>1, <1>2 DEF PlainInv, PathsFollow, AtRevision
<1> HIDE DEF e
<1>4. schema' = [schema EXCEPT ![d] = e.target]
  <2>1. e \in Known
    BY <1>2 DEF Known
  <2>2. Simulate(schema[d], e.ops) = e.target
    BY <1>3, <2>1 DEF StoreInv, KnownReproduce, Reproduces
  <2> QED
    BY <1>1, <2>2
<1>5. /\ ToSet(line) = {Genesis} \union ToSet(published)
      /\ \A i, j \in DOMAIN line : i < j => rank[line[i]] < rank[line[j]]
      /\ \A k \in Databases : schema[k] \in ToSet(line)
  BY LineRises
<1>6. DOMAIN line \subseteq Nat
  <2>1. published \in Seq(Revisions) /\ Genesis \in Revisions
    BY GenesisRevision DEF StoreInv, SequencesOK
  <2> HIDE DEF Genesis
  <2> QED
    BY <2>1
<1>7. e.target \in ToSet(line)
  BY <1>2, <1>5 DEF LineInv
<1>8. line' = line
  BY <1>1
<1> HIDE DEF line
<1>9. PICK i \in DOMAIN line : line[i] = schema[d]
  BY <1>5 DEF ToSet
<1>10. PICK j \in DOMAIN line : line[j] = e.target
  BY <1>7 DEF ToSet
<1>11. /\ rank[e.parent] < rank[e.target]
       /\ rank[e.parent] \in Nat /\ rank[e.target] \in Nat
  <2>1. e.parent \in Revisions /\ e.target \in Revisions
    BY <1>2, EdgeFields
  <2>2. e \in Known
    BY <1>2 DEF Known
  <2> QED
    BY <2>1, <2>2 DEF ForwardInv, Rises
<1>12. i < j
  <2>1. i # j
    BY <1>3, <1>9, <1>10, <1>11
  <2>2. ~(j < i)
    <3>1. j < i => rank[e.target] < rank[e.parent]
      BY <1>3, <1>5, <1>9, <1>10
    <3> QED
      BY <1>11, <3>1
  <2> QED
    BY <1>6, <2>1, <2>2
<1>13. schema' = [schema EXCEPT ![d] = line[j]]
  BY <1>4, <1>10
<1>14. Line!Advance(d)
  BY <1>8, <1>9, <1>12, <1>13 DEF Line!Advance, line
<1> QED
  BY <1>14 DEF Line!Next

\* Whatever is squashed, and wherever a squash or an apply is cut short, the
\* databases see a line of revisions and walk it forward: without branches and
\* rebases, and where no schema returns.
THEOREM LineImplemented ==
  ASSUME "rebase" \notin Commands, "branch" \notin Commands,
         NEW rank \in [Revisions -> Nat], NothingReturns(rank)
  PROVE  Spec => ImplementsLine
<1>1. Init => Line!Init
  <2> SUFFICES ASSUME Init PROVE Line!Init
    OBVIOUS
  <2>1. <<Genesis>> \o published = <<Genesis>>
    BY DEF Init
  <2>2. schema = [d \in Databases |-> Genesis]
    BY DEF Init
  <2> QED
    BY <2>1, <2>2 DEF Line!Init, Genesis
<1>2. /\ StoreInv /\ PlainInv /\ PlainInv' /\ ForwardInv(rank) /\ LineInv(rank)
      /\ [Next]_vars
      => [Line!Next]_(Line!vars)
  <2> SUFFICES ASSUME StoreInv, PlainInv, PlainInv', ForwardInv(rank), LineInv(rank),
                      [Next]_vars
               PROVE  Line!Next \/ UNCHANGED Line!vars
    OBVIOUS
  <2>1. CASE WriteNext
    BY <2>1, WriteImplementsLine
  <2>2. CASE CutShort \/ Generate \/ Squash \/ Rebase \/ GenerateTheirs \/ MergeTheirs
    BY <2>2 DEF CutShort, Generate, Squash, Rebase, GenerateTheirs, MergeTheirs,
                databases, history, Line!vars
  <2>3. ASSUME NEW d \in Databases, ApplyEdge(d) PROVE Line!Next
    BY <2>3, ApplyImplementsLine
  <2>4. ASSUME NEW d \in Databases, ApplyTheirs(d) PROVE FALSE
    <3>1. ToSet(theirs) = {}
      BY DEF LineInv, ToSet
    <3> QED
      BY <2>4, <3>1 DEF ApplyTheirs
  <2>5. ASSUME NEW d \in Databases, PlanApply(d) \/ RefuseEdge(d) \/ StopApply(d)
        PROVE  UNCHANGED Line!vars
    BY <2>5 DEF PlanApply, RefuseEdge, StopApply, history, Line!vars
  <2>6. CASE UNCHANGED vars
    BY <2>6 DEF vars, databases, history, Line!vars
  <2> QED
    BY <2>1, <2>2, <2>3, <2>4, <2>5, <2>6 DEF Next, FileNext, DatabaseNext
<1> QED
  BY <1>1, <1>2, LineInvariant, PTL DEF Spec, ImplementsLine, Line!Spec
=============================================================================

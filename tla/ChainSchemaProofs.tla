------------------------- MODULE ChainSchemaProofs --------------------------
(***************************************************************************)
(* Proofs about ChainMigrate, continued: what the journal says of the      *)
(* schema is so, for every set of clients, every bound and every chain     *)
(* whose recorded down-ops restore what the ops changed (DownOpsRestore).  *)
(***************************************************************************)
EXTENDS ChainMigrateProofs, Recursion

-----------------------------------------------------------------------------
(***************************************************************************)
(* Facts about the stages of an edge.                                      *)
(***************************************************************************)

\* One op takes a stage of the schema to the next.
LEMMA StageStep ==
  ASSUME NEW e \in Edges, NEW k \in 1..LastSeq(e), NEW o \in Objects
  PROVE  /\ k - 1 \in 0..MaxOps
         /\ Stages[e][k] \in [Objects -> ObjectStates]
         /\ Stages[e][k - 1] \in [Objects -> ObjectStates]
         /\ Chain[e][k].obj \in Objects
         /\ o # Chain[e][k].obj => Stages[e][k][o] = Stages[e][k - 1][o]
         /\ o = Chain[e][k].obj =>
              Stages[e][k][o] = Effect(Chain[e][k].kind, Stages[e][k - 1][o])
<1>1. k \in 0..MaxOps /\ k - 1 \in 0..MaxOps
  BY ChainFacts, ChainAssumption DEF ChainAssumption, Seqs
<1>2. Stages \in [Edges -> [0..MaxOps -> [Objects -> ObjectStates]]]
  BY Zenon, StagesAssumption DEF StagesAssumption
<1>3. Stages[e][k] = [Stages[e][k - 1] EXCEPT
                        ![Chain[e][k].obj] = Effect(Chain[e][k].kind, @)]
  BY StagesAssumption DEF StagesAssumption
<1>4. Chain[e][k].obj \in Objects
  BY ChainFacts DEF Ops
<1>5. Stages[e][k - 1] \in [Objects -> ObjectStates]
      /\ Stages[e][k] \in [Objects -> ObjectStates]
  BY <1>1, <1>2
<1> QED
  BY <1>1, <1>3, <1>4, <1>5

\* The stages of an edge start at the manifest of its parent and end at its own.
LEMMA StageEnds ==
  ASSUME NEW e \in Edges
  PROVE  /\ Stages[e][0] = Models[e - 1]
         /\ Stages[e][LastSeq(e)] = Models[e]
         /\ e - 1 \in Revisions /\ e \in Revisions
<1>1. Stages[e][0] = Models[e - 1]
  BY StagesAssumption DEF StagesAssumption
<1>2. e \in Revisions /\ e - 1 \in Revisions /\ e # 0
  BY ChainFacts DEF Edges, Revisions
<1> QED
  BY <1>1, <1>2 DEF Models

\* An object that no op so far has touched is as the parent revision has it.
LEMMA UntouchedStays ==
  ASSUME NEW e \in Edges, NEW n \in 0..LastSeq(e), NEW o \in Objects,
         ~Touched(e, n, o)
  PROVE  Stages[e][n][o] = Models[e - 1][o]
<1> DEFINE T == {k \in 0..n : Stages[e][k][o] # Models[e - 1][o]}
<1>1. n \in Nat /\ n <= LastSeq(e) /\ LastSeq(e) \in Nat
  BY EdgeFacts
<1>2. ASSUME T # {} PROVE FALSE
  <2>1. T \subseteq Nat
    BY <1>1
  <2>2. PICK k \in T : \A i \in T : k <= i
    <3> HIDE DEF T
    <3> QED
      BY <1>2, <2>1, LeastNatural
  <2>3. k # 0
    BY StageEnds
  <2>4. k \in 1..LastSeq(e) /\ k \in 1..n /\ k - 1 \in 0..n
    BY <1>1, <2>3
  <2>5. Stages[e][k - 1][o] = Models[e - 1][o]
    <3>1. k - 1 \notin T
      BY <2>2, <2>4
    <3> QED
      BY <2>4, <3>1
  <2>6. Chain[e][k].obj # o
    BY <2>4 DEF Touched
  <2>7. Stages[e][k][o] = Stages[e][k - 1][o]
    BY <2>4, <2>6, StageStep
  <2> QED
    BY <2>5, <2>7
<1> QED
  BY <1>1, <1>2

\* How many rows of an edge are confirmed, when they are the first n.
LEMMA PrefixCount ==
  ASSUME NEW e \in Edges, NEW n \in 0..LastSeq(e), NEW rows,
         \A k \in 1..n : rows[k] = "confirmed",
         \A k \in Seqs : k > n => rows[k] # "confirmed"
  PROVE  Cardinality({k \in Seqs : rows[k] = "confirmed"}) = n
<1>1. n \in Nat /\ LastSeq(e) \in Nat /\ n <= LastSeq(e)
  BY EdgeFacts
<1>2. 1..n \subseteq Seqs
  <2>1. 1..LastSeq(e) \subseteq Seqs /\ 1..n \subseteq 1..LastSeq(e)
    BY <1>1, EdgeFacts
  <2> QED
    BY <2>1
<1>3. \A k \in Seqs : rows[k] = "confirmed" => k \in 1..n
  BY <1>1, EdgeFacts
<1>4. {k \in Seqs : rows[k] = "confirmed"} = 1..n
  BY <1>2, <1>3
<1>5. Cardinality(1..n) = n
  BY <1>1, FS_Interval
<1> QED
  BY <1>4, <1>5

\* An edge without rows has none confirmed.
LEMMA NoRowsCount == Cardinality({}) = 0
BY FS_EmptySet
-----------------------------------------------------------------------------
(***************************************************************************)
(* Frames: what a step leaves alone.                                       *)
(***************************************************************************)

\* The claims about the database stand while it is not touched.
LEMMA UntouchedDatabase ==
  ASSUME NothingBelowBoundary, IntentsAutocommit, BuildsAreFresh,
         JournalMatchesObjects,
         UNCHANGED <<current, inProgress, boundary, journal, objs, reversing,
                     drifts>>
  PROVE  /\ NothingBelowBoundary' /\ IntentsAutocommit' /\ BuildsAreFresh'
         /\ JournalMatchesObjects'
<1>1. NothingBelowBoundary' /\ IntentsAutocommit'
  BY DEF NothingBelowBoundary, IntentsAutocommit, HasRows
<1>2. \A o \in Objects : HalfReversed(o)' <=> HalfReversed(o)
  BY DEF HalfReversed, LastSeq
<1>3. \A o \in Objects : Unsettled(o)' <=> Unsettled(o)
  BY <1>2 DEF Unsettled, IntendedRows
<1>4. Journalled' = Journalled
  BY DEF Journalled, ConfirmedRows
<1>5. JournalMatchesObjects'
  BY <1>3, <1>4 DEF JournalMatchesObjects
<1>6. \A o : HalfReversed(o)' <=> HalfReversed(o)
  BY DEF HalfReversed, LastSeq
<1>7. BuildsAreFresh'
  BY <1>6 DEF BuildsAreFresh, IntendedRows
<1> QED
  BY <1>1, <1>5, <1>7

\* Rows written to an edge above the boundary.
LEMMA WritingAboveBoundary ==
  ASSUME NothingBelowBoundary, boundary' = boundary, NEW e \in Edges,
         ~(e <= boundary), \A d \in Edges : d # e => journal'[d] = journal[d]
  PROVE  NothingBelowBoundary'
BY DEF NothingBelowBoundary, HasRows

\* A client between two edges, or idle, has an empty transaction and no claims.
LEMMA BetweenEdges ==
  ASSUME NEW c \in Clients,
         pc'[c] \notin ApplyPCs \union RollbackPCs \union {"reconcile"},
         written'[c] = Unwritten
  PROVE  ApplySchema(c)' /\ RollbackSchema(c)'
BY DEF ApplySchema, RollbackSchema, ApplyPCs, RollbackPCs, Unwritten

\* The clients other than the one that holds the lock.
LEMMA OthersSchema ==
  ASSUME IInv, SchemaInv, NEW c \in Clients, pc[c] # "idle",
         \A d \in Clients : d # c => pc'[d] = pc[d] /\ written'[d] = written[d]
  PROVE  \A d \in Clients : d # c => ApplySchema(d)' /\ RollbackSchema(d)'
<1> SUFFICES ASSUME NEW d \in Clients, d # c
             PROVE  ApplySchema(d)' /\ RollbackSchema(d)'
  OBVIOUS
<1>1. pc[d] = "idle"
  BY OthersIdle DEF IInv
<1>2. written[d] = Unwritten
  BY <1>1 DEF SchemaInv, ApplySchema
<1> QED
  BY <1>1, <1>2, BetweenEdges DEF ApplyPCs, RollbackPCs

\* An empty transaction sees the committed objects.
LEMMA EmptyView ==
  ASSUME TypeOK, NEW c \in Clients, written[c] = Unwritten
  PROVE  View(c) = objs
<1>1. \A o \in Objects : written[c][o] = "unwritten"
  BY DEF Unwritten
<1> QED
  BY <1>1 DEF View, TypeOK

\* An object the transaction has not written is seen as it is committed.
LEMMA UnwrittenView ==
  ASSUME NEW c \in Clients, NEW o \in Objects, written[c][o] = "unwritten"
  PROVE  View(c)[o] = objs[o]
BY DEF View

\* Initially nothing is unsettled.
LEMMA InitSchema == Init => SchemaInv
<1> SUFFICES ASSUME Init PROVE SchemaInv
  OBVIOUS
<1>1. \A e \in Edges, i \in Seqs : journal[e][i] = "none"
  BY DEF Init
<1>2. NothingBelowBoundary /\ IntentsAutocommit
  BY <1>1 DEF NothingBelowBoundary, IntentsAutocommit, HasRows
<1>3. BuildsAreFresh /\ JournalMatchesObjects
  BY DEF Init, BuildsAreFresh, JournalMatchesObjects, Journalled
<1>4. \A c \in Clients : ApplySchema(c) /\ RollbackSchema(c)
  BY DEF Init, ApplySchema, RollbackSchema, ApplyPCs, RollbackPCs
<1> QED
  BY <1>2, <1>3, <1>4 DEF SchemaInv
-----------------------------------------------------------------------------
(***************************************************************************)
(* Steps that touch no object and no row.                                  *)
(***************************************************************************)

\* Taking the lock.
LEMMA AcquireKeepsSchema ==
  ASSUME IInv, SchemaInv, NEW c \in Clients, AcquireAdvisoryLock(c)
  PROVE  SchemaInv'
<1>1. \A d \in Clients : pc[d] = "idle" /\ written[d] = Unwritten
  <2>1. \A d \in Clients : pc[d] = "idle"
    BY ClientsAssumption DEF AcquireAdvisoryLock, IInv, LockHeld, ClientsAssumption
  <2> QED
    BY <2>1 DEF SchemaInv, ApplySchema
<1>2. \A d \in Clients : pc'[d] \in {"idle", "ensure", "planBack"}
  BY <1>1 DEF AcquireAdvisoryLock, Goto, IInv, TypeOK
<1>3. \A d \in Clients : ApplySchema(d)' /\ RollbackSchema(d)'
  BY <1>1, <1>2, BetweenEdges DEF AcquireAdvisoryLock, ApplyPCs, RollbackPCs
<1> QED
  BY <1>3, UntouchedDatabase
    DEF SchemaInv, AcquireAdvisoryLock, position, history

\* A command ends; the deferred rollback discards what it had not committed.
LEMMA ReleaseKeepsClients ==
  ASSUME IInv, SchemaInv, NEW c \in Clients, pc[c] # "idle",
         NEW report, Release(c, report)
  PROVE  \A d \in Clients : ApplySchema(d)' /\ RollbackSchema(d)'
<1>1. \A d \in Clients : d # c => pc'[d] = pc[d] /\ written'[d] = written[d]
  BY DEF Release, Goto, IInv, TypeOK
<1>2. pc'[c] = "idle" /\ written'[c] = Unwritten
  BY DEF Release, Goto, IInv, TypeOK
<1> QED
  BY <1>1, <1>2, OthersSchema, BetweenEdges DEF ApplyPCs, RollbackPCs

\* Giving up the lock between edges changes neither schema nor journal.
LEMMA QuietReleaseKeepsSchema ==
  ASSUME IInv, SchemaInv, NEW c \in Clients, pc[c] # "idle",
         NEW report, Release(c, report),
         UNCHANGED <<position, journal, objs, reversing, drifts>>
  PROVE  SchemaInv'
BY ReleaseKeepsClients, UntouchedDatabase DEF SchemaInv, position

\* A step from one point between edges to another.
LEMMA BetweenKeepsSchema ==
  ASSUME IInv, SchemaInv, NEW c \in Clients, pc[c] # "idle",
         NEW label, Goto(c, label), written' = written,
         pc[c] \notin {"op", "back"},
         label \notin ApplyPCs \union RollbackPCs \union {"reconcile"},
         UNCHANGED <<current, inProgress, boundary, journal, objs, reversing,
                     drifts>>
  PROVE  SchemaInv'
<1>1. \A d \in Clients : d # c => pc'[d] = pc[d] /\ written'[d] = written[d]
  BY DEF Goto, IInv, TypeOK
<1>2. pc'[c] = label /\ written'[c] = Unwritten
  BY DEF Goto, IInv, TypeOK, SchemaInv, ApplySchema
<1>3. \A d \in Clients : ApplySchema(d)' /\ RollbackSchema(d)'
  BY <1>1, <1>2, OthersSchema, BetweenEdges
<1> QED
  BY <1>3, UntouchedDatabase DEF SchemaInv

\* Nor does a step that only changes what the client is about to do.
LEMMA PlanningKeepsSchema ==
  ASSUME IInv, SchemaInv, NEW c \in Clients,
         \/ EnsureChainStructures(c) \/ FindApplyPath(c)
         \/ PlanChainRollback(c) \/ ReconcileAfterApply(c) \/ Refuse(c)
  PROVE  SchemaInv'
<1>1. CASE EnsureChainStructures(c)
  BY <1>1, BetweenKeepsSchema
    DEF EnsureChainStructures, history, ApplyPCs, RollbackPCs
<1>2. CASE FindApplyPath(c)
  <2>1. CASE Goto(c, "begin") /\ written' = written
    BY <1>2, <2>1, BetweenKeepsSchema
      DEF FindApplyPath, position, history, ApplyPCs, RollbackPCs
  <2>2. ASSUME NEW report, Release(c, report) PROVE SchemaInv'
    BY <1>2, <2>2, QuietReleaseKeepsSchema DEF FindApplyPath, history
  <2> QED
    BY <1>2, <2>1, <2>2 DEF FindApplyPath
<1>3. CASE PlanChainRollback(c)
  <2>1. CASE Goto(c, "beginBack") /\ written' = written
    BY <1>3, <2>1, BetweenKeepsSchema
      DEF PlanChainRollback, position, history, ApplyPCs, RollbackPCs
  <2>2. ASSUME NEW report, Release(c, report) PROVE SchemaInv'
    BY <1>3, <2>2, QuietReleaseKeepsSchema DEF PlanChainRollback, history
  <2> QED
    BY <1>3, <2>1, <2>2 DEF PlanChainRollback
<1>4. CASE ReconcileAfterApply(c)
  BY <1>4, QuietReleaseKeepsSchema DEF ReconcileAfterApply, history
<1>5. CASE Refuse(c)
  <2>1. pc[c] # "idle"
    BY <1>5 DEF Refuse, Refused, AtFreshOp
  <2> QED
    BY <1>5, <2>1, QuietReleaseKeepsSchema DEF Refuse, history
<1> QED
  BY <1>1, <1>2, <1>3, <1>4, <1>5
-----------------------------------------------------------------------------
(***************************************************************************)
(* Steps within an edge that is applied.                                   *)
(***************************************************************************)

\* What is settled depends on the rows and the edges under reversal only.
LEMMA SameSettled ==
  ASSUME UNCHANGED <<journal, reversing>>
  PROVE  \A o : /\ HalfReversed(o)' <=> HalfReversed(o)
               /\ Unsettled(o)' <=> Unsettled(o)
<1>1. \A o : HalfReversed(o)' <=> HalfReversed(o)
  BY DEF HalfReversed, LastSeq
<1> QED
  BY <1>1 DEF Unsettled, IntendedRows

\* One write of a transaction, as the transaction sees it.
LEMMA WrittenView ==
  ASSUME TypeOK, NEW c \in Clients, NEW o \in Objects, NEW s \in ObjectStates,
         written' = [written EXCEPT ![c][o] = s], objs' = objs
  PROVE  View(c)' = [View(c) EXCEPT ![o] = s]
<1>1. s # "unwritten"
  BY DEF ObjectStates
<1>2. \A p \in Objects : written'[c][p] = IF p = o THEN s ELSE written[c][p]
  BY DEF TypeOK
<1> QED
  BY <1>1, <1>2 DEF View

\* An op that was not applied before: the transaction stands at the stage
\* before it, nothing beyond it has a row.
LEMMA FreshOp ==
  ASSUME IInv, SchemaInv, NEW c \in Clients, AtFreshOp(c)
  PROVE  LET e == job[c].edge
             n == job[c].seq IN
         /\ e \in Edges /\ n \in Nat /\ n \in 1..LastSeq(e) /\ n \in Seqs
         /\ inProgress = e /\ e = current + 1
         /\ journal[e][n] # "confirmed"
         /\ \A k \in Seqs : k > n => journal[e][k] = "none"
         /\ \A k \in 1..(n - 1) : k \in job[c].staged \/ journal[e][k] = "confirmed"
         /\ \A k \in job[c].staged : journal[e][k] = "none" /\ k \in 1..(n - 1)
         /\ journal[e][n] = "intended" => written[c] = Unwritten
         /\ drifts = 0 => \A o \in Objects : ~Unsettled(o) =>
                             View(c)[o] = Stages[e][n - 1][o]
<1> DEFINE e == job[c].edge
           n == job[c].seq
<1> USE DEF IInv, SchemaInv
<1>1. pc[c] = "op" /\ pc[c] \in ApplyPCs /\ InEdge(c) /\ n \notin job[c].rows
  BY DEF AtFreshOp, ApplyPCs
<1>2. /\ e \in Edges /\ n \in 1..LastSeq(e) /\ n \in Seqs /\ n \in Nat
      /\ inProgress = e /\ e = current + 1 /\ job[c].staged \subseteq 1..(n - 1)
      /\ \A k \in 1..(n - 1) : k \in job[c].staged \/ journal[e][k] = "confirmed"
  BY <1>1, ApplyFacts, EdgeFacts DEF InEdge
<1>3. journal[e][n] # "confirmed"
  BY <1>1, <1>2 DEF ApplyInv, ConfirmedRows
<1>4. ASSUME NEW k \in Seqs, k > n PROVE journal[e][k] = "none"
  <2>1. n \in 1..(k - 1)
    BY <1>2, <1>4, EdgeFacts
  <2> QED
    BY <1>2, <1>3, <1>4, <2>1 DEF RowsArePrefix
<1>5. \A k \in job[c].staged : journal[e][k] = "none" /\ k \in 1..(n - 1)
  BY <1>1, <1>2 DEF ApplySchema
<1>6. journal[e][n] = "intended" => written[c] = Unwritten
  <2> SUFFICES ASSUME journal[e][n] = "intended" PROVE written[c] = Unwritten
    OBVIOUS
  <2>1. \A k \in 1..(n - 1) : journal[e][k] = "confirmed"
    BY <1>2 DEF RowsArePrefix
  <2>2. job[c].staged = {}
    BY <1>5, <2>1
  <2> QED
    BY <1>1, <2>2 DEF ApplySchema
<1>7. ASSUME drifts = 0, NEW o \in Objects, ~Unsettled(o)
      PROVE  View(c)[o] = Stages[e][n - 1][o]
  <2>1. CASE job[c].staged # {}
    BY <1>1, <1>7, <2>1 DEF ApplySchema
  <2>2. CASE job[c].staged = {}
    <3>1. View(c) = objs
      BY <1>1, <2>2, EmptyView DEF ApplySchema
    <3>2. n - 1 \in 0..LastSeq(e)
      <4>1. LastSeq(e) \in Nat
        BY <1>2, EdgeFacts
      <4> QED
        BY <1>2, <4>1
    <3>3. /\ \A k \in 1..(n - 1) : journal[e][k] = "confirmed"
          /\ \A k \in Seqs : k > n - 1 => journal[e][k] # "confirmed"
      BY <1>2, <1>3, <1>4, <2>2, EdgeFacts
    <3>4. Cardinality(ConfirmedRows(e)) = n - 1
      BY <1>2, <3>2, <3>3, PrefixCount DEF ConfirmedRows
    <3>5. Journalled = Stages[e][n - 1]
      BY <1>2, <3>4, EdgeFacts DEF Journalled
    <3>6. objs[o] = Journalled[o]
      BY <1>7 DEF JournalMatchesObjects
    <3> QED
      BY <3>1, <3>5, <3>6
  <2> QED
    BY <2>1, <2>2
<1> QED
  BY <1>2, <1>3, <1>4, <1>5, <1>6, <1>7

\* Starting an edge: what its rows say of the schema is what was said before.
LEMMA BeginEdgeKeepsSchema ==
  ASSUME IInv, SchemaInv, NEW c \in Clients, BeginEdge(c)
  PROVE  SchemaInv'
<1> USE DEF IInv, SchemaInv
<1> DEFINE e == job[c].edge
<1>1. /\ e \in Edges /\ e = current + 1 /\ pc[c] = "begin" /\ e # 0
      /\ job[c].staged = {} /\ job[c] \in Jobs /\ pc[c] # "idle"
  BY EdgeFacts DEF BeginEdge, ApplyInv, TypeOK
<1>2. /\ job' = [job EXCEPT ![c] = [job[c] EXCEPT !.seq = 1,
                                       !.rows = ConfirmedRows(e),
                                       !.pending = IntendedRows(e)]]
      /\ inProgress' = e
      /\ UNCHANGED <<lock, tracked, current, boundary, journal, objs, written,
                     outcome, history>>
  BY DEF BeginEdge
<1>3. inProgress = e \/ (inProgress = 0 /\ \A k \in Seqs : journal[e][k] = "none")
  <2>1. inProgress \in {0, e}
    BY <1>1 DEF PositionMatchesJournal
  <2>2. e > current
    BY <1>1, RevisionFacts DEF TypeOK
  <2> QED
    BY <1>1, <2>1, <2>2 DEF PositionMatchesJournal, HasRows
<1>4. /\ job'[c].seq = 1 /\ job'[c].edge = e /\ job'[c].staged = {}
      /\ job'[c].pending = IntendedRows(e)
  BY <1>1, <1>2 DEF Jobs, TypeOK
<1>5. pc'[c] = "op" /\ written'[c] = Unwritten
  BY <1>1, <1>2 DEF BeginEdge, Goto, TypeOK, ApplySchema
<1>6. Journalled' = Journalled
  <2>1. CASE inProgress = e
    BY <1>2, <2>1 DEF Journalled, ConfirmedRows
  <2>2. CASE inProgress = 0 /\ \A k \in Seqs : journal[e][k] = "none"
    <3>1. ConfirmedRows(e)' = {}
      BY <1>2, <2>2 DEF ConfirmedRows
    <3>2. Journalled' = Stages[e][0]
      <4>1. inProgress' = e /\ e # 0
        BY <1>1, <1>2, EdgeFacts
      <4>2. ConfirmedRows(inProgress)' = {}
        BY <1>2, <2>2, <4>1 DEF ConfirmedRows
      <4> QED
        BY Zenon, <4>1, <4>2, NoRowsCount DEF Journalled
    <3>3. Stages[e][0] = Models[current]
      <4>1. current = e - 1
        BY <1>1, RevisionFacts DEF TypeOK
      <4> QED
        BY <1>1, <4>1, StageEnds
    <3> QED
      BY <2>2, <3>2, <3>3 DEF Journalled
  <2> QED
    BY <1>3, <2>1, <2>2
<1>7. JournalMatchesObjects'
  BY <1>2, <1>6, SameSettled DEF JournalMatchesObjects, history
<1>8. BuildsAreFresh'
  <2>1. IntendedRows(e)' = IntendedRows(e)
    BY <1>2 DEF IntendedRows
  <2>2. CASE inProgress = e
    <3>1. /\ UNCHANGED <<journal, reversing>> /\ drifts' = drifts
          /\ objs' = objs /\ inProgress' = inProgress
      BY <1>2, <2>2 DEF history
    <3>2. ASSUME NEW o PROVE HalfReversed(o)' <=> HalfReversed(o)
      BY <3>1 DEF HalfReversed, LastSeq
    <3> QED
      BY <3>1, <3>2 DEF BuildsAreFresh, IntendedRows
  <2>3. CASE inProgress = 0 /\ \A k \in Seqs : journal[e][k] = "none"
    BY <1>2, <2>1, <2>3 DEF BuildsAreFresh, IntendedRows
  <2> QED
    BY <1>3, <2>2, <2>3
<1>9. NothingBelowBoundary' /\ IntentsAutocommit'
  BY <1>2 DEF NothingBelowBoundary, IntentsAutocommit, HasRows
<1>10. ApplySchema(c)' /\ RollbackSchema(c)'
  BY <1>2, <1>4, <1>5 DEF ApplySchema, RollbackSchema, RollbackPCs, ApplyPCs,
     IntendedRows
<1>11. \A d \in Clients : d # c => ApplySchema(d)' /\ RollbackSchema(d)'
  <2>1. \A d \in Clients : d # c => pc'[d] = pc[d] /\ written'[d] = written[d]
    BY <1>2 DEF BeginEdge, Goto, TypeOK
  <2> QED
    BY <1>1, <2>1, OthersSchema
<1> QED
  BY <1>7, <1>8, <1>9, <1>10, <1>11

\* Passing over a confirmed op: its segment is empty.
LEMMA SkipConfirmedKeepsSchema ==
  ASSUME IInv, SchemaInv, NEW c \in Clients, SkipConfirmedOp(c)
  PROVE  SchemaInv'
<1> USE DEF IInv, SchemaInv
<1> DEFINE e == job[c].edge
           n == job[c].seq
<1>1. /\ pc[c] = "op" /\ pc[c] \in ApplyPCs /\ pc[c] # "idle" /\ InEdge(c)
      /\ n \in job[c].rows
      /\ job' = [job EXCEPT ![c].seq = @ + 1]
      /\ UNCHANGED <<lock, position, journal, objs, pc, written, outcome, history>>
  BY DEF SkipConfirmedOp, ApplyPCs
<1>2. /\ job[c] \in Jobs /\ e \in Edges /\ n \in Nat /\ journal[e][n] = "confirmed"
      /\ n \in Seqs /\ job[c].staged \subseteq 1..(n - 1)
  BY <1>1, ApplyFacts, EdgeFacts DEF ConfirmedRows
<1>3. job[c].staged = {}
  <2>1. \A k \in 1..(n - 1) : journal[e][k] = "confirmed"
    BY <1>2 DEF RowsArePrefix
  <2> QED
    BY <1>1, <1>2, <2>1 DEF ApplySchema
<1>4. /\ job'[c].seq = n + 1 /\ job'[c].edge = e /\ job'[c].staged = {}
      /\ job'[c].pending = job[c].pending
  BY <1>1, <1>2, <1>3 DEF TypeOK, Jobs
<1>5. ApplySchema(c)' /\ RollbackSchema(c)'
  <2>1. job[c].pending \subseteq Nat
    BY <1>2, EdgeFacts DEF Jobs
  <2>2. \A k \in job'[c].pending : k >= n + 1 => journal[e][k] = "intended"
    BY <1>1, <1>2, <1>4, <2>1 DEF ApplySchema
  <2> QED
    BY <1>1, <1>3, <1>4, <2>2 DEF ApplySchema, RollbackSchema, RollbackPCs, ApplyPCs
<1>6. \A d \in Clients : d # c => ApplySchema(d)' /\ RollbackSchema(d)'
  BY <1>1, OthersSchema
<1> QED
  BY <1>1, <1>5, <1>6, UntouchedDatabase DEF position, history

\* One more op in the open segment.
LEMMA StageOpKeepsSchema ==
  ASSUME IInv, SchemaInv, NEW c \in Clients, StageOp(c)
  PROVE  SchemaInv'
<1> USE DEF IInv, SchemaInv
<1> DEFINE e == job[c].edge
           n == job[c].seq
           op == Chain[e][n]
           s == Effect(op.kind, View(c)[op.obj])
<1>1. /\ pc[c] = "op" /\ pc[c] \in ApplyPCs /\ pc[c] # "idle" /\ InEdge(c)
      /\ AtFreshOp(c) /\ op.kind \notin NonTransactional
      /\ written' = [written EXCEPT ![c][op.obj] = s]
      /\ job' = [job EXCEPT ![c] = [@ EXCEPT !.staged = job[c].staged \union {n},
                                             !.seq = n + 1]]
      /\ UNCHANGED <<lock, position, journal, objs, pc, outcome, history>>
  BY Zenon DEF StageOp, AtFreshOp, ApplyPCs, RunsInSegment, InSegment, Op
<1>2. /\ e \in Edges /\ n \in Nat /\ n \in 1..LastSeq(e) /\ n \in Seqs
      /\ journal[e][n] # "confirmed"
      /\ \A k \in job[c].staged : journal[e][k] = "none"
      /\ drifts = 0 => \A o \in Objects : ~Unsettled(o) =>
                          View(c)[o] = Stages[e][n - 1][o]
  BY Zenon, <1>1, FreshOp
<1>3. op.obj \in Objects /\ s \in ObjectStates
  <2>1. op.obj \in Objects /\ op.kind \in OpKinds
    BY <1>2, ChainFacts DEF Ops
  <2> QED
    BY <2>1, ViewType, EffectType
<1>4. job[c] \in Jobs /\ job[c].pending \subseteq Nat
  BY EdgeFacts DEF TypeOK, Jobs
<1>5. /\ job'[c].seq = n + 1 /\ job'[c].edge = e
      /\ job'[c].staged = job[c].staged \union {n}
      /\ job'[c].pending = job[c].pending
  BY <1>1, <1>4 DEF TypeOK, Jobs
<1>6. journal[e][n] = "none"
  BY <1>1, <1>2 DEF IntentsAutocommit, TypeOK, RowStates
<1>7. ASSUME drifts = 0, NEW o \in Objects, ~Unsettled(o)
      PROVE  View(c)'[o] = Stages[e][n][o]
  <2>1. View(c)'[o] = IF o = op.obj THEN s ELSE View(c)[o]
    <3>1. written' = [written EXCEPT ![c][op.obj] = s] /\ objs' = objs
      BY Zenon, <1>1
    <3>2. View(c)' = [View(c) EXCEPT ![op.obj] = s]
      <4> HIDE DEF s, op
      <4> QED
        BY <1>3, <3>1, WrittenView
    <3> QED
      BY Zenon, <3>2, ViewType
  <2>2. View(c)[o] = Stages[e][n - 1][o]
    BY <1>2, <1>7
  <2>3. /\ o # op.obj => Stages[e][n][o] = Stages[e][n - 1][o]
        /\ o = op.obj => Stages[e][n][o] = Effect(op.kind, Stages[e][n - 1][o])
    BY Zenon, <1>2, StageStep
  <2> QED
    BY Zenon, <2>1, <2>2, <2>3
<1>8. ApplySchema(c)'
  <2>1. \A k \in job'[c].pending : k >= n + 1 => journal[e][k] = "intended"
    <3>1. \A k \in job[c].pending : k >= n => journal[e][k] = "intended"
      BY Zenon, <1>1 DEF ApplySchema
    <3> HIDE DEF IInv, SchemaInv
    <3> QED
      BY <1>2, <1>4, <1>5, <3>1
  <2>2. n + 1 - 1 = n
    BY <1>2
  <2>3. \A k \in job'[c].staged : journal[e][k] = "none"
    BY <1>2, <1>5, <1>6
  <2>4. drifts' = drifts
    BY Zenon, <1>1 DEF history
  <2>5. ASSUME drifts' = 0, NEW o \in Objects, ~Unsettled(o)'
        PROVE  View(c)'[o] = Stages[e][n][o]
    BY Zenon, <1>1, <1>7, <2>4, <2>5, SameSettled DEF history
  <2>6. job'[c].staged # {}
    BY <1>5
  <2>7. pc'[c] = "op" /\ journal' = journal /\ LastSeq(e)' = LastSeq(e)
    BY <1>1 DEF LastSeq
  <2>8. \A k \in job'[c].pending :
          k >= job'[c].seq => journal'[job'[c].edge][k] = "intended"
    BY <1>5, <2>1, <2>7
  <2>9. \A k \in job'[c].staged : journal'[job'[c].edge][k] = "none"
    BY <1>5, <2>3, <2>7
  <2>10. ASSUME drifts' = 0, NEW o \in Objects, ~Unsettled(o)'
         PROVE  View(c)'[o] = Stages[job'[c].edge][job'[c].seq - 1][o]
    <3>1. job'[c].edge = e /\ job'[c].seq - 1 = n
      BY <1>2, <1>5
    <3> QED
      BY <2>5, <2>10, <3>1
  <2> QED
    BY <2>6, <2>7, <2>8, <2>9, <2>10 DEF ApplySchema
<1>9. RollbackSchema(c)'
  BY Zenon, <1>1 DEF RollbackSchema, RollbackPCs
<1>10. \A d \in Clients : d # c => ApplySchema(d)' /\ RollbackSchema(d)'
  <2>1. \A d \in Clients : d # c => pc'[d] = pc[d] /\ written'[d] = written[d]
    BY <1>1 DEF TypeOK
  <2> QED
    BY Zenon, <1>1, <2>1, OthersSchema
<1> QED
  BY Zenon, <1>1, <1>8, <1>9, <1>10, UntouchedDatabase DEF position, history
\* Committing the open segment up to a fresh op settles no object but the op's
\* own: what was unsettled before stays so.
LEMMA CommitSettles ==
  ASSUME IInv, SchemaInv, NEW c \in Clients, AtFreshOp(c),
         NEW status \in {"intended", "confirmed"},
         status = "intended" \/ journal[job[c].edge][job[c].seq] = "none",
         journal' = Journaled(c, job[c].seq, status), reversing' = reversing,
         NEW o \in Objects
  PROVE  /\ HalfReversed(o) => HalfReversed(o)'
         /\ Unsettled(o) => Unsettled(o)'
<1> DEFINE e == job[c].edge
           n == job[c].seq
<1>1. /\ e \in Edges /\ n \in Nat /\ n \in 1..LastSeq(e) /\ n \in Seqs
      /\ \A k \in Seqs : k > n => journal[e][k] = "none"
      /\ \A k \in 1..(n - 1) : k \in job[c].staged \/ journal[e][k] = "confirmed"
      /\ \A k \in job[c].staged : journal[e][k] = "none"
  BY FreshOp
<1>2. /\ \A d \in Edges : d # e => journal'[d] = journal[d]
      /\ \A k \in 1..(n - 1) : journal'[e][k] = "confirmed"
      /\ journal'[e][n] = status
  BY Zenon, CommitKeepsPrefix
<1>3. ASSUME NEW d \in Edges, NEW i \in Seqs, journal[d][i] # "none"
      PROVE  journal'[d][i] # "none"
  <2>1. CASE d # e
    BY <1>2, <1>3, <2>1
  <2>2. CASE d = e
    <3>1. i \in 1..(n - 1) \/ i = n
      BY <1>1, <1>3, <2>2, EdgeFacts
    <3> QED
      BY <1>2, <2>2, <3>1
  <2> QED
    BY <2>1, <2>2
<1>4. ASSUME HalfReversed(o) PROVE HalfReversed(o)'
  <2>1. PICK d \in reversing : \E i \in 1..LastSeq(d) :
          journal[d][i] # "none" /\ Chain[d][i].obj = o
    BY <1>4 DEF HalfReversed
  <2>2. PICK i \in 1..LastSeq(d) : journal[d][i] # "none" /\ Chain[d][i].obj = o
    BY <2>1
  <2>3. d \in Edges /\ i \in Seqs
    BY <2>1, <2>2, EdgeFacts DEF IInv, TypeOK
  <2>4. journal'[d][i] # "none"
    BY <1>3, <2>2, <2>3
  <2> QED
    BY <2>1, <2>2, <2>4 DEF HalfReversed, LastSeq
<1>5. ASSUME NEW d \in Edges, NEW i \in Seqs, journal[d][i] = "intended"
      PROVE  journal'[d][i] = "intended"
  <2>1. CASE d # e
    BY <1>2, <1>5, <2>1
  <2>2. CASE d = e
    <3>1. i \in 1..(n - 1) \/ i = n
      BY <1>1, <1>5, <2>2, EdgeFacts
    <3>2. i = n
      BY <1>1, <1>5, <2>2, <3>1
    <3> QED
      BY <1>2, <1>5, <2>2, <3>2
  <2> QED
    BY <2>1, <2>2
<1>6. ASSUME Unsettled(o) PROVE Unsettled(o)'
  <2>1. CASE HalfReversed(o)
    BY <1>4, <2>1 DEF Unsettled
  <2>2. CASE \E d \in Edges : \E i \in IntendedRows(d) : Chain[d][i].obj = o
    BY <1>5, <2>2 DEF Unsettled, IntendedRows
  <2> QED
    BY <1>6, <2>1, <2>2 DEF Unsettled
<1> QED
  BY <1>4, <1>6

\* The rows an edge still had pending lie before a fresh op or at it.
LEMMA NothingPendingBeyond ==
  ASSUME IInv, SchemaInv, NEW c \in Clients, AtFreshOp(c),
         NEW k \in job[c].pending, k > job[c].seq
  PROVE  FALSE
<1>1. pc[c] \in ApplyPCs /\ job[c] \in Jobs
  BY DEF AtFreshOp, ApplyPCs, IInv, TypeOK
<1>2. k \in Seqs /\ k \in Nat /\ job[c].seq \in Nat
  BY <1>1, EdgeFacts DEF Jobs
<1>3. journal[job[c].edge][k] = "none"
  BY <1>2, FreshOp
<1>4. journal[job[c].edge][k] = "intended"
  BY <1>1, <1>2 DEF SchemaInv, ApplySchema
<1> QED
  BY <1>3, <1>4

\* The last op lands its edge: the objects are as its manifest says.
LEMMA LandEdgeKeepsSchema ==
  ASSUME IInv, SchemaInv, NEW c \in Clients, LandEdge(c)
  PROVE  SchemaInv'
<1> DEFINE e == job[c].edge
           n == job[c].seq
           op == Chain[e][n]
<1>1. /\ pc[c] = "op" /\ pc[c] # "idle" /\ n = LastSeq(e)
      /\ AtFreshOp(c) /\ op.kind \notin NonTransactional
      /\ objs' = [View(c) EXCEPT ![op.obj] = Effect(op.kind, @)]
      /\ journal' = Journaled(c, n, "confirmed")
      /\ current' = e /\ inProgress' = 0 /\ boundary' = boundary
      /\ written' = [written EXCEPT ![c] = Unwritten]
      /\ job' = [job EXCEPT ![c] = [@ EXCEPT !.staged = {}, !.seq = n + 1]]
      /\ pc' = pc /\ reversing' = reversing /\ drifts' = drifts
  BY Zenon DEF LandEdge, AtFreshOp, IsFinal, RunsInSegment, Op, AdvanceChainPosition,
         history
<1>2. /\ e \in Edges /\ n \in Nat /\ n \in 1..LastSeq(e) /\ n \in Seqs
      /\ e = current + 1 /\ journal[e][n] # "confirmed"
      /\ \A k \in Seqs : k > n => journal[e][k] = "none"
      /\ drifts = 0 => \A o \in Objects : ~Unsettled(o) =>
                          View(c)[o] = Stages[e][n - 1][o]
  BY Zenon, <1>1, FreshOp
<1>3. journal[e][n] = "none"
  BY <1>1, <1>2 DEF IntentsAutocommit, SchemaInv, IInv, TypeOK, RowStates
<1>4. /\ journal' \in [Edges -> [Seqs -> RowStates]]
      /\ \A d \in Edges : d # e => journal'[d] = journal[d]
      /\ \A k \in 1..(n - 1) : journal'[e][k] = "confirmed"
      /\ journal'[e][n] = "confirmed"
      /\ \A k \in Seqs : k > n => journal'[e][k] = "none"
  BY Zenon, <1>1, CommitKeepsPrefix
<1>5. NothingBelowBoundary'
  <2>1. ~(e <= boundary)
    BY <1>2, RevisionFacts DEF IInv, TypeOK, PositionMatchesJournal
  <2> QED
    BY <1>1, <1>2, <1>4, <2>1, WritingAboveBoundary DEF SchemaInv
<1>6. IntentsAutocommit'
  <2> SUFFICES ASSUME NEW d \in Edges, NEW i \in Seqs, journal'[d][i] = "intended"
               PROVE  journal[d][i] = "intended"
    BY DEF IntentsAutocommit, SchemaInv
  <2>1. CASE d # e
    BY <1>4, <2>1
  <2>2. CASE d = e
    <3>1. i \in 1..(n - 1) \/ i = n \/ i > n
      BY <1>2, EdgeFacts
    <3> QED
      BY <1>4, <2>2, <3>1
  <2> QED
    BY <2>1, <2>2
<1>7. BuildsAreFresh'
  BY Zenon, <1>1 DEF BuildsAreFresh
<1>8. JournalMatchesObjects'
  <2> SUFFICES ASSUME drifts = 0, NEW o \in Objects, ~Unsettled(o)'
               PROVE  objs'[o] = Journalled'[o]
    BY Zenon, <1>1 DEF JournalMatchesObjects
  <2>1. ~Unsettled(o)
    BY <1>1, <1>3, CommitSettles
  <2>2. View(c)[o] = Stages[e][n - 1][o]
    BY <1>2, <2>1
  <2>3. Journalled' = Stages[e][n]
    BY <1>1, <1>2, StageEnds DEF Journalled
  <2>4. objs'[o] = IF o = op.obj THEN Effect(op.kind, View(c)[o]) ELSE View(c)[o]
    BY Zenon, <1>1, ViewType DEF IInv
  <2> QED
    BY <1>2, <2>2, <2>3, <2>4, StageStep
<1>9. ApplySchema(c)' /\ RollbackSchema(c)'
  <2>1. job[c] \in Jobs /\ job[c].pending \subseteq Nat
    BY EdgeFacts DEF IInv, TypeOK, Jobs
  <2>2. /\ job'[c].seq = n + 1 /\ job'[c].edge = e /\ job'[c].staged = {}
        /\ job'[c].pending = job[c].pending
    BY <1>1, <2>1 DEF IInv, TypeOK, Jobs
  <2>3. \A k \in job'[c].pending : ~(k >= job'[c].seq)
    <3>1. ASSUME NEW k \in job[c].pending, k >= n + 1 PROVE FALSE
      <4>1. k > n
        BY <1>2, <2>1, <3>1
      <4> QED
        BY <1>1, <4>1, NothingPendingBeyond
    <3> QED
      BY <2>2, <3>1
  <2>4. pc'[c] = "op" /\ written'[c] = Unwritten
    BY <1>1 DEF IInv, TypeOK
  <2> QED
    BY <2>2, <2>3, <2>4 DEF ApplySchema, RollbackSchema, RollbackPCs
<1>10. \A d \in Clients : d # c => ApplySchema(d)' /\ RollbackSchema(d)'
  <2>1. \A d \in Clients : d # c => pc'[d] = pc[d] /\ written'[d] = written[d]
    BY <1>1 DEF IInv, TypeOK
  <2> QED
    BY <1>1, <2>1, OthersSchema
<1> QED
  BY <1>5, <1>6, <1>7, <1>8, <1>9, <1>10 DEF SchemaInv

\* An intent row is committed, with the segment before its op.
LEMMA IntendOpKeepsSchema ==
  ASSUME IInv, SchemaInv, NEW c \in Clients, IntendOp(c)
  PROVE  SchemaInv'
<1> DEFINE e == job[c].edge
           n == job[c].seq
           op == Chain[e][n]
<1>1. /\ pc[c] = "op" /\ pc[c] \in ApplyPCs /\ pc[c] # "idle"
      /\ AtFreshOp(c) /\ op.kind \in NonTransactional
      /\ n \notin job[c].pending => Precondition(op.kind, View(c)[op.obj])
      /\ objs' = View(c)
      /\ journal' = Journaled(c, n, "intended")
      /\ current' = current /\ inProgress' = inProgress /\ boundary' = boundary
      /\ written' = [written EXCEPT ![c] = Unwritten]
      /\ job' = [job EXCEPT ![c].staged = {}]
      /\ pc' = [pc EXCEPT ![c] = "exec"]
      /\ reversing' = reversing /\ drifts' = drifts
  BY Zenon DEF IntendOp, AtFreshOp, Op, Resumes, Goto, ApplyPCs, position, history
<1>2. /\ e \in Edges /\ n \in Nat /\ n \in 1..LastSeq(e) /\ n \in Seqs
      /\ e = current + 1 /\ inProgress = e
      /\ journal[e][n] = "intended" => written[c] = Unwritten
      /\ drifts = 0 => \A o \in Objects : ~Unsettled(o) =>
                          View(c)[o] = Stages[e][n - 1][o]
  BY Zenon, <1>1, FreshOp
<1>3. /\ journal' \in [Edges -> [Seqs -> RowStates]]
      /\ \A d \in Edges : d # e => journal'[d] = journal[d]
      /\ \A k \in 1..(n - 1) : journal'[e][k] = "confirmed"
      /\ journal'[e][n] = "intended"
      /\ \A k \in Seqs : k > n => journal'[e][k] = "none"
  BY Zenon, <1>1, CommitKeepsPrefix
<1>4. NothingBelowBoundary'
  <2>1. ~(e <= boundary)
    BY <1>2, RevisionFacts DEF IInv, TypeOK, PositionMatchesJournal
  <2> QED
    BY <1>1, <1>2, <1>3, <2>1, WritingAboveBoundary DEF SchemaInv
<1>5. ASSUME NEW k \in Seqs, journal'[e][k] = "intended" PROVE k = n
  <2>1. k \in 1..(n - 1) \/ k = n \/ k > n
    BY <1>2, EdgeFacts
  <2> QED
    BY <1>3, <1>5, <2>1
<1>6. IntentsAutocommit'
  <2> SUFFICES ASSUME NEW d \in Edges, NEW i \in Seqs, journal'[d][i] = "intended"
               PROVE  Chain[d][i].kind \in NonTransactional
    BY DEF IntentsAutocommit
  <2>1. CASE d # e
    BY <1>3, <2>1 DEF IntentsAutocommit, SchemaInv
  <2>2. CASE d = e
    BY <1>1, <1>5, <2>2
  <2> QED
    BY <2>1, <2>2
<1>7. op.obj \in Objects
  BY <1>2, ChainFacts DEF Ops
<1>8. BuildsAreFresh'
  <2> SUFFICES ASSUME drifts = 0, op.kind = "create_index_concurrently",
                      ~HalfReversed(op.obj)'
               PROVE  View(c)[op.obj] # "altered"
    BY <1>1, <1>2, <1>5 DEF BuildsAreFresh, IntendedRows
  <2>1. CASE n \notin job[c].pending
    BY <1>1, <2>1 DEF Precondition
  <2>2. CASE n \in job[c].pending
    <3>1. journal[e][n] = "intended"
      BY <1>1, <1>2, <2>2 DEF SchemaInv, ApplySchema
    <3>2. View(c) = objs
      BY <1>2, <3>1, EmptyView DEF IInv
    <3>3. ~HalfReversed(op.obj)
      BY <1>1, <1>7, CommitSettles
    <3> QED
      BY <1>2, <3>1, <3>2, <3>3, EdgeFacts DEF SchemaInv, BuildsAreFresh, IntendedRows
  <2> QED
    BY Zenon, <2>1, <2>2
<1>9. JournalMatchesObjects'
  <2> SUFFICES ASSUME drifts = 0, NEW o \in Objects, ~Unsettled(o)'
               PROVE  objs'[o] = Journalled'[o]
    BY <1>1 DEF JournalMatchesObjects
  <2>1. ~Unsettled(o)
    BY <1>1, CommitSettles
  <2>2. View(c)[o] = Stages[e][n - 1][o]
    BY <1>2, <2>1
  <2>3. Cardinality({k \in Seqs : journal'[e][k] = "confirmed"}) = n - 1
    <3>1. n - 1 \in 0..LastSeq(e)
      <4>1. LastSeq(e) \in Nat
        BY <1>2, EdgeFacts
      <4> QED
        BY <1>2, <4>1
    <3>2. \A k \in Seqs : k > n - 1 => journal'[e][k] # "confirmed"
      BY <1>2, <1>3, EdgeFacts
    <3> QED
      BY <1>2, <1>3, <3>1, <3>2, PrefixCount
  <2>4. Journalled' = Stages[e][n - 1]
    BY <1>1, <1>2, <2>3, EdgeFacts DEF Journalled, ConfirmedRows
  <2> QED
    BY <1>1, <2>2, <2>4
<1>10. ApplySchema(c)' /\ RollbackSchema(c)'
  <2>1. job[c] \in Jobs /\ job[c].pending \subseteq Nat
    BY EdgeFacts DEF IInv, TypeOK, Jobs
  <2>2. /\ job'[c].seq = n /\ job'[c].edge = e
        /\ job'[c].pending = job[c].pending
    BY <1>1, <2>1 DEF IInv, TypeOK, Jobs
  <2>3. ASSUME NEW k \in job[c].pending, k >= n PROVE journal'[e][k] = "intended"
    <3>1. k = n \/ k > n
      BY <1>2, <2>1, <2>3
    <3> QED
      BY <1>1, <1>3, <3>1, NothingPendingBeyond
  <2>4. pc'[c] = "exec" /\ written'[c] = Unwritten
    BY <1>1 DEF IInv, TypeOK
  <2> QED
    BY <2>2, <2>3, <2>4 DEF ApplySchema, RollbackSchema, RollbackPCs
<1>11. \A d \in Clients : d # c => ApplySchema(d)' /\ RollbackSchema(d)'
  <2>1. \A d \in Clients : d # c => pc'[d] = pc[d] /\ written'[d] = written[d]
    BY <1>1 DEF IInv, TypeOK
  <2> QED
    BY <1>1, <2>1, OthersSchema
<1> QED
  BY <1>4, <1>6, <1>8, <1>9, <1>10, <1>11 DEF SchemaInv

\* While an intent row stands, its op is the one frontier of the journal.
LEMMA IntentFacts ==
  ASSUME IInv, SchemaInv, NEW c \in Clients, pc[c] \in {"exec", "confirm"}
  PROVE  LET e == job[c].edge
             n == job[c].seq IN
         /\ e \in Edges /\ n \in Nat /\ n \in 1..LastSeq(e) /\ n \in Seqs
         /\ n - 1 \in 0..LastSeq(e)
         /\ inProgress = e /\ e = current + 1
         /\ journal[e][n] = "intended"
         /\ \A k \in 1..(n - 1) : journal[e][k] = "confirmed"
         /\ \A k \in Seqs : k > n => journal[e][k] = "none"
         /\ \A k \in Seqs : journal[e][k] = "intended" => k = n
         /\ job[c].staged = {} /\ written[c] = Unwritten
         /\ Chain[e][n].obj \in Objects
         /\ Chain[e][n].kind \in NonTransactional
         /\ Unsettled(Chain[e][n].obj)
<1> DEFINE e == job[c].edge
           n == job[c].seq
<1>1. /\ e \in Edges /\ n \in 1..(LastSeq(e) + 1) /\ LastSeq(e) \in Nat
      /\ n <= LastSeq(e) /\ job[c].staged = {} /\ journal[e][n] = "intended"
      /\ inProgress = e /\ e = current + 1
  BY EdgeFacts DEF IInv, ApplyInv, ApplyPCs
<1>2. n \in Nat /\ n \in 1..LastSeq(e) /\ n - 1 \in 0..LastSeq(e)
  BY <1>1
<1>3. n \in Seqs
  BY <1>1, <1>2, EdgeFacts
<1>4. \A k \in 1..(n - 1) : journal[e][k] = "confirmed"
  BY <1>1, <1>3 DEF IInv, RowsArePrefix
<1>5. ASSUME NEW k \in Seqs, k > n PROVE journal[e][k] = "none"
  <2>1. n \in 1..(k - 1)
    BY <1>2, <1>5, EdgeFacts
  <2> QED
    BY <1>1, <1>5, <2>1 DEF IInv, RowsArePrefix
<1>6. ASSUME NEW k \in Seqs, journal[e][k] = "intended" PROVE k = n
  <2>1. k \in 1..(n - 1) \/ k = n \/ k > n
    BY <1>2, EdgeFacts
  <2> QED
    BY <1>4, <1>5, <1>6, <2>1
<1>7. written[c] = Unwritten
  BY DEF SchemaInv, ApplySchema
<1>8. Chain[e][n].obj \in Objects
  BY <1>1, <1>2, ChainFacts DEF Ops
<1>9. Chain[e][n].kind \in NonTransactional
  BY <1>1, <1>3 DEF SchemaInv, IntentsAutocommit
<1>10. Unsettled(Chain[e][n].obj)
  BY <1>1, <1>3 DEF Unsettled, IntendedRows
<1> QED
  BY <1>1, <1>2, <1>3, <1>4, <1>5, <1>6, <1>7, <1>8, <1>9, <1>10

\* A statement in autocommit, run to its end or cut short, touches the object
\* of the intent row only, and leaves an index as a build does.
LEMMA DuringIntent ==
  ASSUME IInv, SchemaInv, NEW c \in Clients, pc[c] = "exec",
         NEW s, objs' = [objs EXCEPT ![Op(c).obj] = s],
         \/ Op(c).kind # "create_index_concurrently"
         \/ s # "altered"
         \/ s = objs[Op(c).obj],
         UNCHANGED <<current, inProgress, boundary, journal, reversing, drifts>>
  PROVE  /\ NothingBelowBoundary' /\ IntentsAutocommit' /\ BuildsAreFresh'
         /\ JournalMatchesObjects'
<1> DEFINE e == job[c].edge
           n == job[c].seq
           op == Chain[e][n]
<1>1. /\ e \in Edges /\ n \in Seqs /\ inProgress = e
      /\ journal[e][n] = "intended"
      /\ \A k \in Seqs : journal[e][k] = "intended" => k = n
      /\ op.obj \in Objects /\ Unsettled(op.obj)
  BY IntentFacts
<1>2. NothingBelowBoundary' /\ IntentsAutocommit'
  BY DEF NothingBelowBoundary, IntentsAutocommit, HasRows, SchemaInv
<1>3. /\ op = Op(c)
      /\ \A o \in Objects : objs'[o] = IF o = op.obj THEN s ELSE objs[o]
  BY DEF IInv, TypeOK, Op
<1>4. ASSUME NEW o PROVE HalfReversed(o)' <=> HalfReversed(o)
  BY DEF HalfReversed, LastSeq
<1>5. PICK d \in Edges, m \in Seqs : d = e /\ m = n
  BY <1>1
<1>6. BuildsAreFresh'
  <2> SUFFICES ASSUME drifts = 0, Chain[d][m].kind = "create_index_concurrently",
                      ~HalfReversed(Chain[d][m].obj)'
               PROVE  objs'[Chain[d][m].obj] # "altered"
    BY Zenon, <1>1, <1>5 DEF BuildsAreFresh, IntendedRows
  <2>1. ~HalfReversed(Chain[d][m].obj)
    BY <1>4
  <2>2. d # 0 /\ inProgress = d /\ m \in IntendedRows(d)
    BY <1>1, <1>5, EdgeFacts DEF IntendedRows
  <2>3. objs[Chain[d][m].obj] # "altered"
    BY <2>1, <2>2 DEF SchemaInv, BuildsAreFresh
  <2>4. Op(c).kind = "create_index_concurrently" /\ op = Chain[d][m]
    BY <1>3, <1>5
  <2> QED
    BY <1>1, <1>3, <2>3, <2>4
<1>7. JournalMatchesObjects'
  <2> SUFFICES ASSUME drifts = 0, NEW o \in Objects, ~Unsettled(o)'
               PROVE  objs'[o] = Journalled'[o]
    BY DEF JournalMatchesObjects
  <2>1. ~Unsettled(o)
    BY <1>4 DEF Unsettled, IntendedRows
  <2>2. objs'[o] = objs[o]
    BY <1>1, <1>3, <2>1
  <2>3. Journalled' = Journalled
    BY DEF Journalled, ConfirmedRows
  <2> QED
    BY <2>1, <2>2, <2>3 DEF SchemaInv, JournalMatchesObjects
<1> QED
  BY <1>2, <1>6, <1>7

\* The op itself: what its kind leaves, whatever it found.
LEMMA ExecuteKeepsSchema ==
  ASSUME IInv, SchemaInv, NEW c \in Clients, ExecuteNonTransactionalOp(c)
  PROVE  SchemaInv'
<1> DEFINE e == job[c].edge
           n == job[c].seq
           op == Chain[e][n]
           s == ExecEffect(op.kind, objs[op.obj], Resumes(c))
<1>1. /\ pc[c] = "exec" /\ objs' = [objs EXCEPT ![op.obj] = s]
      /\ pc' = [pc EXCEPT ![c] = "confirm"]
      /\ UNCHANGED <<current, inProgress, boundary, journal, job, written,
                     reversing, drifts>>
  BY Zenon DEF ExecuteNonTransactionalOp, Op, Goto, position, history
<1>2. /\ e \in Edges /\ n \in 1..LastSeq(e) /\ n \in Seqs /\ inProgress = e
      /\ journal[e][n] = "intended" /\ written[c] = Unwritten
      /\ op.obj \in Objects /\ op.kind \in NonTransactional
  BY Zenon, <1>1, IntentFacts
<1>3. op.kind = "create_index_concurrently" /\ s = "altered"
        => s = objs[op.obj]
  BY Zenon DEF ExecEffect, Effect
<1>4. /\ NothingBelowBoundary' /\ IntentsAutocommit' /\ BuildsAreFresh'
      /\ JournalMatchesObjects'
  <2>1. objs' = [objs EXCEPT ![Op(c).obj] = s]
    BY <1>1 DEF Op
  <2>2. \/ Op(c).kind # "create_index_concurrently"
        \/ s # "altered" \/ s = objs[Op(c).obj]
    BY Zenon, <1>3 DEF Op
  <2> HIDE DEF s
  <2> QED
    BY <1>1, <2>1, <2>2, DuringIntent
<1>5. ASSUME drifts = 0, ~HalfReversed(op.obj) PROVE s = Stages[e][n][op.obj]
  <2>1. op.kind = "create_index_concurrently" => objs[op.obj] # "altered"
    BY Zenon, <1>2, <1>5, EdgeFacts DEF SchemaInv, BuildsAreFresh, IntendedRows
  <2>2. s = Effect(op.kind, Stages[e][n - 1][op.obj])
    BY Zenon, <1>2, <2>1 DEF ExecEffect, Rebuilds, Effect, NonTransactional
  <2> QED
    BY Zenon, <1>2, <2>2, StageStep
<1>6. ApplySchema(c)' /\ RollbackSchema(c)'
  <2>1. pc'[c] = "confirm" /\ written'[c] = Unwritten /\ job' = job
    BY <1>1, <1>2 DEF IInv, TypeOK
  <2>2. \A k \in job[c].pending : k >= n => journal[e][k] = "intended"
    BY Zenon, <1>1 DEF SchemaInv, ApplySchema, ApplyPCs
  <2>3. PICK d \in Edges, m \in Seqs : d = e /\ m = n
    BY <1>2
  <2>4. HalfReversed(Chain[d][m].obj)' <=> HalfReversed(Chain[d][m].obj)
    BY <1>1 DEF HalfReversed, LastSeq
  <2>5. Op(c)' = Chain[d][m]
    BY <2>1, <2>3 DEF Op
  <2>6. drifts' = 0 /\ ~HalfReversed(Chain[d][m].obj)'
          => objs'[Chain[d][m].obj] = Stages[d][m][Chain[d][m].obj]
    BY Zenon, <1>1, <1>2, <1>5, <2>3, <2>4 DEF IInv, TypeOK
  <2>7. drifts' = 0 /\ ~HalfReversed(Op(c).obj)' => 
          objs'[Op(c)'.obj] = Stages[d][m][Op(c)'.obj]
    BY <2>5, <2>6 DEF HalfReversed
  <2> QED
    BY Zenon, <1>1, <2>1, <2>2, <2>3, <2>7 DEF ApplySchema, RollbackSchema, RollbackPCs
<1>7. \A d \in Clients : d # c => ApplySchema(d)' /\ RollbackSchema(d)'
  <2>1. \A d \in Clients : d # c => pc'[d] = pc[d] /\ written'[d] = written[d]
    BY <1>1 DEF IInv, TypeOK
  <2> QED
    BY <1>1, <2>1, OthersSchema
<1> QED
  BY <1>4, <1>6, <1>7 DEF SchemaInv

\* The row is confirmed: the journal now vouches for the op's object as well.
LEMMA ConfirmIntentKeepsSchema ==
  ASSUME IInv, SchemaInv, NEW c \in Clients, ConfirmIntentOp(c)
  PROVE  SchemaInv'
<1> DEFINE e == job[c].edge
           n == job[c].seq
           op == Chain[e][n]
<1>1. /\ pc[c] = "confirm" /\ pc[c] # "idle" /\ pc[c] \in ApplyPCs
      /\ journal' = [journal EXCEPT ![e][n] = "confirmed"]
      /\ \/ n = LastSeq(e) /\ current' = e /\ inProgress' = 0
         \/ n # LastSeq(e) /\ current' = current /\ inProgress' = inProgress
      /\ job' = [job EXCEPT ![c].seq = @ + 1]
      /\ pc' = [pc EXCEPT ![c] = "op"]
      /\ UNCHANGED <<boundary, objs, written, reversing, drifts>>
  BY DEF ConfirmIntentOp, IsFinal, AdvanceChainPosition, Goto, ApplyPCs, position,
         history
<1>2. /\ e \in Edges /\ n \in Nat /\ n \in 1..LastSeq(e) /\ n \in Seqs
      /\ n - 1 \in 0..LastSeq(e)
      /\ inProgress = e /\ e = current + 1
      /\ journal[e][n] = "intended"
      /\ \A k \in 1..(n - 1) : journal[e][k] = "confirmed"
      /\ \A k \in Seqs : k > n => journal[e][k] = "none"
      /\ job[c].staged = {} /\ written[c] = Unwritten
      /\ op.obj \in Objects
  BY <1>1, IntentFacts
<1>3. /\ \A d \in Edges : d # e => journal'[d] = journal[d]
      /\ \A k \in Seqs : journal'[e][k] = IF k = n THEN "confirmed" ELSE journal[e][k]
  BY <1>1, <1>2 DEF IInv, TypeOK
<1>4. ASSUME NEW d \in Edges, NEW i \in Seqs
      PROVE  /\ journal[d][i] # "none" => journal'[d][i] # "none"
             /\ journal'[d][i] = "intended" => d # e /\ journal[d][i] = "intended"
             /\ journal[d][i] = "intended" => journal'[d][i] = "intended"
                                              \/ (d = e /\ i = n)
  <2>1. CASE d # e
    BY <1>3, <2>1
  <2>2. CASE d = e
    <3>1. i \in 1..(n - 1) \/ i = n \/ i > n
      BY <1>2, EdgeFacts
    <3> QED
      BY <1>2, <1>3, <2>2, <3>1
  <2> QED
    BY <2>1, <2>2
<1>5. NothingBelowBoundary'
  <2>1. ~(e <= boundary)
    BY <1>2, RevisionFacts DEF IInv, TypeOK, PositionMatchesJournal
  <2> QED
    BY <1>1, <1>2, <1>3, <2>1, WritingAboveBoundary DEF SchemaInv
<1>6. IntentsAutocommit'
  BY <1>4 DEF SchemaInv, IntentsAutocommit
<1>7. BuildsAreFresh'
  BY <1>1, <1>2, <1>4 DEF BuildsAreFresh, IntendedRows
<1>8. ASSUME NEW o, HalfReversed(o) PROVE HalfReversed(o)'
  <2>1. PICK d \in reversing : \E i \in 1..LastSeq(d) :
          journal[d][i] # "none" /\ Chain[d][i].obj = o
    BY <1>8 DEF HalfReversed
  <2>2. PICK i \in 1..LastSeq(d) : journal[d][i] # "none" /\ Chain[d][i].obj = o
    BY <2>1
  <2>3. d \in Edges /\ i \in Seqs
    BY <2>1, <2>2, EdgeFacts DEF IInv, TypeOK
  <2>4. journal'[d][i] # "none"
    BY <1>4, <2>2, <2>3
  <2>5. reversing' = reversing
    BY <1>1
  <2> QED
    BY <2>1, <2>2, <2>4, <2>5 DEF HalfReversed, LastSeq
<1>9. Journalled = Stages[e][n - 1]
  <2>1. \A k \in Seqs : k > n - 1 => journal[e][k] # "confirmed"
    BY <1>2, EdgeFacts
  <2>2. Cardinality(ConfirmedRows(e)) = n - 1
    BY <1>2, <2>1, PrefixCount DEF ConfirmedRows
  <2> QED
    BY <1>2, <2>2, EdgeFacts DEF Journalled
<1>10. Journalled' = Stages[e][n]
  <2>1. CASE n = LastSeq(e)
    BY <1>1, <1>2, <2>1, StageEnds DEF Journalled
  <2>2. CASE n # LastSeq(e)
    <3>1. LastSeq(e) \in Nat
      BY <1>2, EdgeFacts
    <3>2. \A k \in 1..n : journal'[e][k] = "confirmed"
      <4>1. \A k \in 1..n : k \in 1..(n - 1) \/ k = n
        BY <1>2
      <4>2. 1..n \subseteq 1..LastSeq(e)
        BY <1>2, <3>1
      <4>3. 1..n \subseteq Seqs
        BY <1>2, <4>2, EdgeFacts
      <4> QED
        BY <1>2, <1>3, <4>1, <4>3
    <3>3. \A k \in Seqs : k > n => journal'[e][k] # "confirmed"
      BY <1>2, <1>3, EdgeFacts
    <3>4. Cardinality({k \in Seqs : journal'[e][k] = "confirmed"}) = n
      <4>1. n \in 0..LastSeq(e)
        BY <1>2, <3>1
      <4> QED
        BY <1>2, <3>2, <3>3, <4>1, PrefixCount
    <3> QED
      BY <1>1, <1>2, <2>2, <3>4, EdgeFacts DEF Journalled, ConfirmedRows
  <2> QED
    BY <2>1, <2>2
<1>11. JournalMatchesObjects'
  <2> SUFFICES ASSUME drifts = 0, NEW o \in Objects, ~Unsettled(o)'
               PROVE  objs[o] = Stages[e][n][o]
    BY <1>1, <1>10 DEF JournalMatchesObjects
  <2>1. ~HalfReversed(o)
    BY <1>8 DEF Unsettled
  <2>2. CASE o = op.obj
    BY Zenon, <1>1, <2>1, <2>2 DEF SchemaInv, ApplySchema, Op
  <2>3. CASE o # op.obj
    <3>1. ~Unsettled(o)
      BY <1>4, <2>1, <2>3 DEF Unsettled, IntendedRows
    <3>2. objs[o] = Stages[e][n - 1][o]
      BY <1>9, <3>1 DEF SchemaInv, JournalMatchesObjects
    <3> QED
      BY <1>2, <2>3, <3>2, StageStep
  <2> QED
    BY <2>2, <2>3
<1>12. ApplySchema(c)' /\ RollbackSchema(c)'
  <2>1. job[c] \in Jobs /\ job[c].pending \subseteq Seqs /\ job[c].pending \subseteq Nat
    BY EdgeFacts DEF IInv, TypeOK, Jobs
  <2>2. /\ job'[c].seq = n + 1 /\ job'[c].edge = e /\ job'[c].staged = {}
        /\ job'[c].pending = job[c].pending
    BY <1>1, <1>2, <2>1 DEF IInv, TypeOK, Jobs
  <2>3. \A k \in job'[c].pending : ~(k >= job'[c].seq)
    <3>1. ASSUME NEW k \in job[c].pending, k >= n + 1 PROVE FALSE
      <4>1. k > n /\ k >= n /\ k \in Seqs
        BY <1>2, <2>1, <3>1
      <4>2. journal[e][k] = "intended"
        BY <1>1, <3>1, <4>1 DEF SchemaInv, ApplySchema
      <4> QED
        BY <1>2, <4>1, <4>2
    <3> QED
      BY <2>2, <3>1
  <2>4. pc'[c] = "op" /\ written'[c] = Unwritten
    BY <1>1, <1>2 DEF IInv, TypeOK
  <2> QED
    BY <2>2, <2>3, <2>4 DEF ApplySchema, RollbackSchema, RollbackPCs
<1>13. \A d \in Clients : d # c => ApplySchema(d)' /\ RollbackSchema(d)'
  <2>1. \A d \in Clients : d # c => pc'[d] = pc[d] /\ written'[d] = written[d]
    BY <1>1 DEF IInv, TypeOK
  <2> QED
    BY <1>1, <2>1, OthersSchema
<1> QED
  BY <1>5, <1>6, <1>7, <1>11, <1>12, <1>13 DEF SchemaInv

\* The end of an edge commits nothing: its last op has landed it.
LEMMA EndEdgeKeepsSchema ==
  ASSUME IInv, SchemaInv, NEW c \in Clients, EndEdge(c)
  PROVE  SchemaInv'
<1> DEFINE e == job[c].edge
<1>1. /\ pc[c] = "op" /\ pc[c] # "idle" /\ pc[c] \in ApplyPCs /\ ~InEdge(c)
      /\ objs' = View(c) /\ journal' = Journaled(c, 0, "none")
      /\ written' = [written EXCEPT ![c] = Unwritten]
      /\ UNCHANGED <<lock, position, outcome, history>>
  BY DEF EndEdge, ApplyPCs
<1>2. /\ job[c] \in Jobs /\ e \in Edges /\ e <= job[c].head
      /\ job[c].staged = {} /\ e = current /\ inProgress = 0
      /\ job[c].head \in Revisions
  BY <1>1, ApplyFacts DEF Jobs
<1>3. journal' = journal
  <2>1. [k \in Seqs |-> IF k = 0 THEN "none"
                        ELSE IF k \in job[c].staged THEN "confirmed"
                        ELSE journal[e][k]] = journal[e]
    BY <1>2, EdgeFacts DEF IInv, TypeOK
  <2> QED
    BY <1>1, <1>2, <2>1 DEF Journaled, IInv, TypeOK
<1>4. objs' = objs
  BY <1>1, <1>2, EmptyView DEF SchemaInv, ApplySchema, IInv
<1>5. written'[c] = Unwritten
  BY <1>1 DEF IInv, TypeOK
<1>6. ApplySchema(c)' /\ RollbackSchema(c)'
  <2>1. CASE Goto(c, "begin")
    <3>1. pc'[c] = "begin"
      BY <2>1 DEF Goto, IInv, TypeOK
    <3> QED
      BY <1>5, <3>1, BetweenEdges DEF ApplyPCs, RollbackPCs
  <2>2. CASE /\ ~(e < job[c].head) /\ Goto(c, "reconcile")
             /\ job' = [job EXCEPT ![c] = [NoJob EXCEPT !.head = job[c].head]]
    <3>1. pc'[c] = "reconcile" /\ job'[c].head = job[c].head
      BY <2>2 DEF Goto, IInv, TypeOK, NoJob
    <3>2. job[c].head = current
      BY <1>2, <2>2, RevisionFacts, EdgeFacts
    <3>3. current' = current /\ inProgress' = 0
      BY <1>1, <1>2 DEF position
    <3> QED
      BY <1>5, <3>1, <3>2, <3>3
        DEF ApplySchema, RollbackSchema, ApplyPCs, RollbackPCs
  <2> QED
    BY <2>1, <2>2 DEF EndEdge
<1>7. \A d \in Clients : d # c => ApplySchema(d)' /\ RollbackSchema(d)'
  <2>1. \A d \in Clients : d # c => pc'[d] = pc[d] /\ written'[d] = written[d]
    BY <1>1 DEF EndEdge, Goto, IInv, TypeOK
  <2> QED
    BY <1>1, <2>1, OthersSchema
<1>8. /\ NothingBelowBoundary' /\ IntentsAutocommit' /\ BuildsAreFresh'
      /\ JournalMatchesObjects'
  BY <1>1, <1>3, <1>4, UntouchedDatabase DEF SchemaInv, position, history
<1> QED
  BY <1>6, <1>7, <1>8 DEF SchemaInv
-----------------------------------------------------------------------------
(***************************************************************************)
(* Steps within an edge that is reversed.                                  *)
(***************************************************************************)

\* A rollback reverses every row its edge has, and each records a down-op.
LEMMA RowsReversed ==
  ASSUME IInv, NEW c \in Clients, pc[c] \in {"beginBack"} \union RollbackPCs
  PROVE  LET e == job[c].edge IN
         /\ e \in Edges /\ LastSeq(e) \in Nat
         /\ ReversibleRows(e) = {i \in Seqs : journal[e][i] # "none"}
         /\ \A i \in ReversibleRows(e) : i \in 1..LastSeq(e) /\ Chain[e][i].down
<1> DEFINE e == job[c].edge
<1>1. /\ e \in Edges /\ e = FirstStep /\ job[c].goal \in Nat
      /\ boundary <= job[c].goal /\ LastSeq(e) \in Nat
      /\ job[c].goal <= (IF inProgress = 0 THEN current - 1 ELSE current)
      /\ \A d \in Edges : d > job[c].goal => AllReversible(d)
  BY RollbackFacts, EdgeFacts DEF IInv, RollbackInv
<1>2. current \in Nat /\ boundary \in Nat /\ inProgress \in {0, current + 1}
  BY RevisionFacts DEF IInv, TypeOK, PositionMatchesJournal
<1>3. ASSUME NEW i \in Seqs, journal[e][i] # "none" PROVE i \in 1..LastSeq(e)
  <2>1. i <= LastSeq(e)
    BY <1>1, <1>3 DEF IInv, RowsArePrefix
  <2>2. i \in Nat \ {0}
    BY EdgeFacts
  <2> QED
    BY <1>1, <2>1, <2>2
<1>4. ReversibleRows(e) = {i \in Seqs : journal[e][i] # "none"}
  <2>1. CASE inProgress # 0
    BY <1>1, <2>1 DEF FirstStep, ReversibleRows, ConfirmedRows, IntendedRows,
                      IInv, TypeOK, RowStates
  <2>2. CASE inProgress = 0
    <3>1. e = current /\ e \in (boundary + 1)..current
      BY <1>1, <1>2, <2>2 DEF FirstStep
    <3>2. \A i \in 1..LastSeq(e) : journal[e][i] = "confirmed"
      BY <3>1 DEF IInv, PositionMatchesJournal, FullyConfirmed
    <3>3. e # inProgress
      BY <1>1, <2>2, EdgeFacts
    <3> QED
      BY <1>3, <3>2, <3>3 DEF ReversibleRows, ConfirmedRows
  <2> QED
    BY <2>1, <2>2
<1>5. AllReversible(e)
  <2>1. e > job[c].goal
    BY <1>1, <1>2, EdgeFacts DEF FirstStep
  <2> QED
    BY <1>1, <2>1
<1> QED
  BY <1>1, <1>3, <1>4, <1>5 DEF AllReversible

\* The rows in hand are the edge's, and they are a prefix of its ops.
LEMMA RowsInHand ==
  ASSUME IInv, SchemaInv, NEW c \in Clients, pc[c] \in RollbackPCs
  PROVE  LET e == job[c].edge
             n == job[c].seq IN
         /\ e \in Edges /\ n \in Nat /\ LastSeq(e) \in Nat /\ n \in 0..LastSeq(e)
         /\ job[c].rows = ReversibleRows(e)
         /\ job[c].rows = {i \in Seqs : journal[e][i] # "none"}
         /\ \A i \in job[c].rows : /\ i \in 1..LastSeq(e) /\ i \in Nat
                                   /\ Chain[e][i].down
                                   /\ Chain[e][i].obj \in Objects
         /\ n > 0 /\ ~HasDown(c) => \A i \in job[c].rows : ~(i >= n)
         /\ n > 0 /\ HasDown(c) => /\ n \in job[c].rows /\ n \in 1..LastSeq(e)
                                   /\ Op(c) = Chain[e][n] /\ Op(c).down
                                   /\ Op(c).obj \in Objects
<1> DEFINE e == job[c].edge
           n == job[c].seq
<1>1. /\ e \in Edges /\ n \in Nat /\ LastSeq(e) \in Nat /\ n \in 0..LastSeq(e)
  BY RollbackFacts, EdgeFacts
<1>2. job[c].rows = ReversibleRows(e)
  BY DEF SchemaInv, RollbackSchema
<1>3. /\ job[c].rows = {i \in Seqs : journal[e][i] # "none"}
      /\ \A i \in job[c].rows : i \in 1..LastSeq(e) /\ Chain[e][i].down
  BY <1>2, RowsReversed
<1>4. \A i \in 1..LastSeq(e) : Chain[e][i].obj \in Objects
  BY <1>1, ChainFacts DEF Ops
<1>5. ASSUME n > 0, ~HasDown(c), NEW i \in job[c].rows, i >= n PROVE FALSE
  <2>1. n \notin job[c].rows
    BY <1>3, <1>5 DEF HasDown, Op
  <2>2. n \in 1..(i - 1) /\ n \in Seqs /\ i \in Seqs
    <3>1. i \in 1..LastSeq(e) /\ i # n
      BY <1>3, <1>5, <2>1
    <3>2. n \in 1..LastSeq(e) /\ n \in 1..(i - 1)
      BY <1>1, <1>5, <3>1
    <3> QED
      BY <1>1, <3>1, <3>2, EdgeFacts
  <2>3. journal[e][n] = "confirmed"
    BY <1>1, <1>3, <1>5, <2>2 DEF IInv, RowsArePrefix
  <2> QED
    BY <1>3, <2>1, <2>2, <2>3
<1>6. \A i \in job[c].rows : i \in Nat
  BY <1>1, <1>3
<1>7. n > 0 /\ HasDown(c) => n \in job[c].rows /\ Op(c) = Chain[e][n] /\ Op(c).down
  BY DEF HasDown, Op
<1> QED
  BY <1>1, <1>2, <1>3, <1>4, <1>5, <1>6, <1>7

\* Reading the rows: nothing is reversed yet.
LEMMA BeginReverseKeepsSchema ==
  ASSUME IInv, SchemaInv, NEW c \in Clients, BeginReverse(c)
  PROVE  SchemaInv'
<1> DEFINE e == job[c].edge
<1>1. /\ pc[c] = "beginBack" /\ pc[c] # "idle"
      /\ job' = [job EXCEPT ![c] = [@ EXCEPT !.seq = LastSeq(e),
                                             !.rows = ReversibleRows(e)]]
      /\ pc' = [pc EXCEPT ![c] = "back"]
      /\ UNCHANGED <<current, inProgress, boundary, journal, objs, written,
                     reversing, drifts>>
  BY DEF BeginReverse, Goto, position, history
<1>2. /\ pc'[c] = "back" /\ job'[c].seq = LastSeq(e) /\ job'[c].edge = e
      /\ job'[c].rows = ReversibleRows(e)
  BY <1>1 DEF IInv, TypeOK, Jobs
<1>3. written'[c] = Unwritten
  BY <1>1 DEF SchemaInv, ApplySchema
<1>4. \A k \in ReversibleRows(e) : ~(k > LastSeq(e))
  BY <1>1, RowsReversed
<1>5. PICK g \in Edges : g = e
  BY <1>1, RowsReversed
<1>6. ApplySchema(c)' /\ RollbackSchema(c)'
  <2>1. ReversibleRows(g)' = ReversibleRows(g)
    BY <1>1 DEF ReversibleRows, ConfirmedRows, IntendedRows
  <2>2. job'[c].edge = g /\ job'[c].rows = ReversibleRows(g)'
    BY <1>2, <1>5, <2>1
  <2>3. job'[c].rows = ReversibleRows(job[c].edge)'
    BY <2>2
  <2>4. RollbackSchema(c)'
    BY <1>2, <1>3, <1>4, <2>3 DEF RollbackSchema, Unwritten
  <2>5. ApplySchema(c)'
    BY <1>2 DEF ApplySchema, ApplyPCs
  <2> QED
    BY <2>4, <2>5
<1>7. \A d \in Clients : d # c => ApplySchema(d)' /\ RollbackSchema(d)'
  <2>1. \A d \in Clients : d # c => pc'[d] = pc[d] /\ written'[d] = written[d]
    BY <1>1 DEF IInv, TypeOK
  <2> QED
    BY <1>1, <2>1, OthersSchema
<1> QED
  BY <1>1, <1>6, <1>7, UntouchedDatabase DEF SchemaInv

\* Going one row down: the rows in hand are still the edge's.
LEMMA SteppingBack ==
  ASSUME IInv, SchemaInv, NEW c \in Clients, pc[c] \in RollbackPCs,
         job' = [job EXCEPT ![c].seq = @ - 1], UNCHANGED <<journal, inProgress>>
  PROVE  /\ job'[c].seq = job[c].seq - 1 /\ job'[c].edge = job[c].edge
         /\ job'[c].rows = job[c].rows
         /\ job'[c].rows = ReversibleRows(job[c].edge)'
<1>1. /\ job'[c].seq = job[c].seq - 1 /\ job'[c].edge = job[c].edge
      /\ job'[c].rows = job[c].rows
  BY DEF IInv, TypeOK, Jobs
<1>2. PICK d \in Edges : d = job[c].edge /\ job[c].rows = ReversibleRows(d)
  BY RowsInHand
<1>3. ReversibleRows(d)' = ReversibleRows(d)
  BY DEF ReversibleRows, ConfirmedRows, IntendedRows
<1>4. job'[c].edge = d /\ job'[c].rows = ReversibleRows(d)'
  BY <1>1, <1>2, <1>3
<1> QED
  BY <1>1, <1>4

\* A row of a non-op, or one already passed: there is none of the edge below.
LEMMA SkipUnrecordedKeepsSchema ==
  ASSUME IInv, SchemaInv, NEW c \in Clients, SkipUnrecordedRow(c)
  PROVE  SchemaInv'
<1> DEFINE e == job[c].edge
           n == job[c].seq
<1>1. /\ pc[c] = "back" /\ pc[c] # "idle" /\ pc[c] \in RollbackPCs /\ n > 0
      /\ ~HasDown(c) /\ job' = [job EXCEPT ![c].seq = @ - 1]
      /\ UNCHANGED <<current, inProgress, boundary, journal, objs, pc, written,
                     reversing, drifts>>
  BY DEF SkipUnrecordedRow, RollbackPCs, position, history
<1>2. /\ n \in Nat /\ \A i \in job[c].rows : i \in Nat /\ ~(i >= n)
  BY <1>1, RowsInHand
<1>3. /\ job'[c].seq = n - 1 /\ job'[c].edge = e /\ job'[c].rows = job[c].rows
      /\ job'[c].rows = ReversibleRows(job[c].edge)'
  BY <1>1, SteppingBack
<1>4. \A i \in job[c].rows : ~(i > n - 1) /\ ~(i > n)
  BY <1>2
<1>5. \A o \in Objects : written[c][o] = "unwritten"
  BY <1>1, <1>4 DEF SchemaInv, RollbackSchema
<1>6. ApplySchema(c)' /\ RollbackSchema(c)'
  BY <1>1, <1>3, <1>4, <1>5 DEF ApplySchema, RollbackSchema, ApplyPCs
<1>7. \A d \in Clients : d # c => ApplySchema(d)' /\ RollbackSchema(d)'
  BY <1>1, OthersSchema
<1> QED
  BY <1>1, <1>6, <1>7, UntouchedDatabase DEF SchemaInv

\* One more row reversed: an object no op further down touches is restored.
LEMMA RowReversed ==
  ASSUME DownOpsRestore, IInv, SchemaInv, NEW c \in Clients,
         pc[c] \in RollbackPCs, job[c].seq > 0, HasDown(c),
         View(c)' = [View(c) EXCEPT ![Op(c).obj] = Effect(Down(c), @)],
         drifts = 0, NEW o \in Objects, NEW k \in job[c].rows,
         k > job[c].seq - 1, Chain[job[c].edge][k].obj = o,
         ~Touched(job[c].edge, job[c].seq - 1, o)
  PROVE  View(c)'[o] = Models[job[c].edge - 1][o]
<1> DEFINE e == job[c].edge
           n == job[c].seq
           op == Chain[e][n]
<1>1. /\ e \in Edges /\ n \in Nat /\ LastSeq(e) \in Nat
      /\ n \in job[c].rows /\ n \in 1..LastSeq(e)
      /\ Op(c) = op /\ op.down /\ op.obj \in Objects /\ k \in Nat
  BY RowsInHand
<1>2. View(c) \in [Objects -> ObjectStates]
  BY ViewType DEF IInv
<1>3. View(c)'[o] = IF o = op.obj THEN Effect(DownKind(op.kind), View(c)[o])
                                  ELSE View(c)[o]
  BY Zenon, <1>1, <1>2 DEF Down
<1>4. CASE o = op.obj
  <2>1. Effect(DownKind(op.kind), View(c)[o]) = Models[e - 1][o]
    <3>1. \A t \in ObjectStates :
            Effect(DownKind(op.kind), t) = Models[e - 1][op.obj]
      BY Zenon, <1>1, <1>4 DEF DownOpsRestore
    <3> QED
      BY Zenon, <1>2, <1>4, <3>1
  <2> QED
    BY Zenon, <1>3, <1>4, <2>1
<1>5. CASE o # op.obj
  <2>1. k > n
    <3>1. k # n
      BY <1>5
    <3> QED
      BY <1>1, <3>1
  <2>2. ~Touched(e, n, o)
    <3>1. \A i \in 1..n : i \in 1..(n - 1) \/ i = n
      BY <1>1
    <3> QED
      BY <1>5, <3>1 DEF Touched
  <2>3. View(c)[o] = Models[e - 1][o]
    BY <2>1, <2>2 DEF SchemaInv, RollbackSchema
  <2> QED
    BY <1>3, <1>5, <2>3
<1> QED
  BY <1>4, <1>5

\* A transactional down-op in the open segment.
LEMMA ReverseOpKeepsSchema ==
  ASSUME DownOpsRestore, IInv, SchemaInv, NEW c \in Clients, ReverseOp(c)
  PROVE  SchemaInv'
<1> DEFINE e == job[c].edge
           n == job[c].seq
           s == Effect(Down(c), View(c)[Op(c).obj])
<1>1. /\ pc[c] = "back" /\ pc[c] # "idle" /\ pc[c] \in RollbackPCs /\ n > 0
      /\ HasDown(c) /\ job' = [job EXCEPT ![c].seq = @ - 1]
      /\ written' = [written EXCEPT ![c][Op(c).obj] = s]
      /\ UNCHANGED <<current, inProgress, boundary, journal, objs, pc,
                     reversing, drifts>>
  BY DEF ReverseOp, RollbackPCs, position, history
<1>2. /\ e \in Edges /\ n \in Nat /\ n \in 1..LastSeq(e) /\ n \in job[c].rows
      /\ Op(c) = Chain[e][n] /\ Op(c).down /\ Op(c).obj \in Objects
      /\ \A i \in job[c].rows : i \in Nat
  BY <1>1, RowsInHand
<1>3. /\ job'[c].seq = n - 1 /\ job'[c].edge = e /\ job'[c].rows = job[c].rows
      /\ job'[c].rows = ReversibleRows(job[c].edge)'
  BY <1>1, SteppingBack
<1>4. s \in ObjectStates
  <2>1. View(c)[Op(c).obj] \in ObjectStates
    BY <1>2, ViewType DEF IInv
  <2>2. Down(c) \in OpKinds \union {"unalter", "vacuous"}
    BY <1>2, OpFacts DEF IInv, InEdge
  <2> QED
    BY <2>1, <2>2, EffectType
<1>5. View(c)' = [View(c) EXCEPT ![Op(c).obj] = s]
  <2>1. TypeOK /\ objs' = objs /\ written' = [written EXCEPT ![c][Op(c).obj] = s]
    BY <1>1 DEF IInv
  <2> HIDE DEF s
  <2> QED
    BY Zenon, <1>2, <1>4, <2>1, WrittenView
<1>6. RollbackSchema(c)'
  <2>1. ASSUME NEW o \in Objects, written'[c][o] # "unwritten"
        PROVE  \E k \in job[c].rows : k > n - 1 /\ Chain[e][k].obj = o
    <3>1. CASE o = Op(c).obj
      BY <1>2, <3>1
    <3>2. CASE o # Op(c).obj
      <4>1. written[c][o] # "unwritten"
        BY <1>1, <2>1, <3>2 DEF IInv, TypeOK
      <4>2. PICK k \in job[c].rows : k > n /\ Chain[e][k].obj = o
        BY <1>1, <4>1 DEF SchemaInv, RollbackSchema
      <4>3. k > n - 1
        BY <1>2, <4>2
      <4> QED
        BY <4>2, <4>3
    <3> QED
      BY <3>1, <3>2
  <2>2. ASSUME drifts' = 0, NEW o \in Objects, NEW k \in job[c].rows,
               k > n - 1, Chain[e][k].obj = o, ~Touched(e, n - 1, o)
        PROVE  View(c)'[o] = Models[e - 1][o]
    BY <1>1, <1>5, <2>2, RowReversed
  <2> QED
    BY <1>3, <2>1, <2>2 DEF RollbackSchema
<1>7. ApplySchema(c)'
  BY <1>1 DEF ApplySchema, ApplyPCs
<1>8. \A d \in Clients : d # c => ApplySchema(d)' /\ RollbackSchema(d)'
  <2>1. \A d \in Clients : d # c => pc'[d] = pc[d] /\ written'[d] = written[d]
    BY <1>1 DEF IInv, TypeOK
  <2> QED
    BY <1>1, <2>1, OthersSchema
<1> QED
  BY <1>1, <1>6, <1>7, <1>8, UntouchedDatabase DEF SchemaInv

\* Down-ops are committed: the objects they touch are those of rows of an edge
\* now marked as half reversed.
LEMMA ReversingMarks ==
  ASSUME IInv, SchemaInv, NEW c \in Clients, pc[c] \in RollbackPCs,
         UNCHANGED <<current, inProgress, boundary, journal, drifts>>,
         reversing' = reversing \union {job[c].edge},
         \A o \in Objects : objs'[o] # objs[o] =>
            \E k \in job[c].rows : Chain[job[c].edge][k].obj = o
  PROVE  /\ NothingBelowBoundary' /\ IntentsAutocommit' /\ BuildsAreFresh'
         /\ JournalMatchesObjects'
<1> DEFINE e == job[c].edge
<1>1. /\ e \in Edges
      /\ job[c].rows = {i \in Seqs : journal[e][i] # "none"}
      /\ \A i \in job[c].rows : i \in 1..LastSeq(e)
  BY RowsInHand
<1>2. NothingBelowBoundary' /\ IntentsAutocommit'
  BY DEF NothingBelowBoundary, IntentsAutocommit, HasRows, SchemaInv
<1>3. ASSUME NEW o, HalfReversed(o) PROVE HalfReversed(o)'
  BY <1>3 DEF HalfReversed, LastSeq
<1>4. ASSUME NEW o \in Objects, ~HalfReversed(o)' PROVE objs'[o] = objs[o]
  <2>1. SUFFICES ASSUME NEW k \in job[c].rows, Chain[e][k].obj = o
                 PROVE  HalfReversed(o)'
    BY <1>4
  <2>2. PICK d \in Edges : d = e
    BY <1>1
  <2>3. d \in reversing' /\ k \in 1..LastSeq(d) /\ journal'[d][k] # "none"
        /\ Chain[d][k].obj = o
    BY <1>1, <2>1, <2>2
  <2> QED
    BY <2>3 DEF HalfReversed, LastSeq
<1>5. BuildsAreFresh'
  <2> SUFFICES ASSUME inProgress # 0, drifts = 0,
                      NEW i \in Seqs, journal[inProgress][i] = "intended",
                      Chain[inProgress][i].kind = "create_index_concurrently",
                      NEW o, o = Chain[inProgress][i].obj, ~HalfReversed(o)'
               PROVE  objs'[o] # "altered"
    BY DEF BuildsAreFresh, IntendedRows
  <2>1. inProgress \in Edges
    BY RevisionFacts DEF IInv, TypeOK
  <2>2. i \in 1..LastSeq(inProgress)
    <3>1. i <= LastSeq(inProgress)
      BY <2>1 DEF IInv, RowsArePrefix
    <3>2. i \in Nat \ {0} /\ LastSeq(inProgress) \in Nat
      BY <2>1, EdgeFacts
    <3> QED
      BY <3>1, <3>2
  <2>3. o \in Objects
    BY <2>1, <2>2, ChainFacts DEF Ops
  <2>4. ~HalfReversed(o) /\ objs'[o] = objs[o]
    BY <1>3, <1>4, <2>3
  <2> QED
    BY <2>4 DEF SchemaInv, BuildsAreFresh, IntendedRows
<1>6. JournalMatchesObjects'
  <2> SUFFICES ASSUME drifts = 0, NEW o \in Objects, ~Unsettled(o)'
               PROVE  objs'[o] = Journalled'[o]
    BY DEF JournalMatchesObjects
  <2>1. ~HalfReversed(o)' /\ ~Unsettled(o)
    BY <1>3 DEF Unsettled, IntendedRows
  <2>2. objs'[o] = objs[o]
    BY <1>4, <2>1
  <2>3. Journalled' = Journalled
    BY DEF Journalled, ConfirmedRows
  <2> QED
    BY <2>1, <2>2, <2>3 DEF SchemaInv, JournalMatchesObjects
<1> QED
  BY <1>2, <1>5, <1>6

\* The open segment is committed before a down-op that cannot join it.
LEMMA BreakSegmentKeepsSchema ==
  ASSUME IInv, SchemaInv, NEW c \in Clients, BreakSegment(c)
  PROVE  SchemaInv'
<1> DEFINE e == job[c].edge
           n == job[c].seq
<1>1. /\ pc[c] = "back" /\ pc[c] # "idle" /\ pc[c] \in RollbackPCs
      /\ objs' = View(c)
      /\ reversing' = IF written[c] = Unwritten THEN reversing
                      ELSE reversing \union {e}
      /\ written' = [written EXCEPT ![c] = Unwritten]
      /\ pc' = [pc EXCEPT ![c] = "execBack"]
      /\ UNCHANGED <<current, inProgress, boundary, journal, job, drifts>>
  BY DEF BreakSegment, RollbackPCs, Goto, position
<1>2. /\ NothingBelowBoundary' /\ IntentsAutocommit' /\ BuildsAreFresh'
      /\ JournalMatchesObjects'
  <2>1. CASE written[c] = Unwritten
    <3>1. objs' = objs
      BY <1>1, <2>1, EmptyView DEF IInv
    <3> QED
      BY <1>1, <2>1, <3>1, UntouchedDatabase DEF SchemaInv
  <2>2. CASE written[c] # Unwritten
    <3>1. ASSUME NEW o \in Objects, objs'[o] # objs[o]
          PROVE  \E k \in job[c].rows : Chain[e][k].obj = o
      <4>1. written[c][o] # "unwritten"
        BY <1>1, <3>1 DEF View
      <4> QED
        BY <1>1, <4>1 DEF SchemaInv, RollbackSchema
    <3> QED
      BY <1>1, <2>2, <3>1, ReversingMarks
  <2> QED
    BY <2>1, <2>2
<1>3. pc'[c] = "execBack" /\ written'[c] = Unwritten
  BY <1>1 DEF IInv, TypeOK
<1>4. View(c)' = View(c)
  <2>1. \A o \in Objects : written'[c][o] = "unwritten"
    BY <1>3 DEF Unwritten
  <2>2. View(c)' = [o \in Objects |-> objs'[o]]
    BY <2>1 DEF View
  <2> QED
    BY <1>1, <2>2, ViewType DEF IInv
<1>5. ReversibleRows(e)' = ReversibleRows(e)
  BY <1>1 DEF ReversibleRows, ConfirmedRows, IntendedRows
<1>6. ApplySchema(c)' /\ RollbackSchema(c)'
  <2>1. job'[c].rows = ReversibleRows(job[c].edge)'
    BY <1>1, <1>5 DEF SchemaInv, RollbackSchema
  <2>2. \A o \in Objects : written'[c][o] = "unwritten"
    BY <1>3 DEF Unwritten
  <2>3. drifts' = 0 => \A o \in Objects : \A k \in job[c].rows :
             k > n /\ Chain[e][k].obj = o /\ ~Touched(e, n, o)
               => View(c)'[o] = Models[e - 1][o]
    BY <1>1, <1>4 DEF SchemaInv, RollbackSchema
  <2>4. RollbackSchema(c)'
    BY <1>1, <2>1, <2>2, <2>3 DEF RollbackSchema
  <2>5. ApplySchema(c)'
    BY <1>3 DEF ApplySchema, ApplyPCs
  <2> QED
    BY <2>4, <2>5
<1>7. \A d \in Clients : d # c => ApplySchema(d)' /\ RollbackSchema(d)'
  <2>1. \A d \in Clients : d # c => pc'[d] = pc[d] /\ written'[d] = written[d]
    BY <1>1 DEF IInv, TypeOK
  <2> QED
    BY <1>1, <2>1, OthersSchema
<1> QED
  BY <1>2, <1>6, <1>7 DEF SchemaInv

\* A down-op in autocommit.
LEMMA ReverseNonTransactionalKeepsSchema ==
  ASSUME DownOpsRestore, IInv, SchemaInv, NEW c \in Clients,
         ReverseNonTransactionalOp(c)
  PROVE  SchemaInv'
<1> DEFINE e == job[c].edge
           n == job[c].seq
           s == Effect(Down(c), objs[Op(c).obj])
<1>1. /\ pc[c] = "execBack" /\ pc[c] # "idle" /\ pc[c] \in RollbackPCs
      /\ objs' = [objs EXCEPT ![Op(c).obj] = s]
      /\ reversing' = reversing \union {e}
      /\ job' = [job EXCEPT ![c].seq = @ - 1]
      /\ pc' = [pc EXCEPT ![c] = "back"]
      /\ UNCHANGED <<current, inProgress, boundary, journal, written, drifts>>
  BY DEF ReverseNonTransactionalOp, RollbackPCs, Goto, position
<1>2. n > 0 /\ HasDown(c)
  BY <1>1, RollbackFacts
<1>3. /\ e \in Edges /\ n \in Nat /\ n \in job[c].rows
      /\ Op(c) = Chain[e][n] /\ Op(c).obj \in Objects
  BY <1>1, <1>2, RowsInHand
<1>4. /\ job'[c].seq = n - 1 /\ job'[c].edge = e /\ job'[c].rows = job[c].rows
      /\ job'[c].rows = ReversibleRows(job[c].edge)'
  BY <1>1, SteppingBack
<1>5. /\ NothingBelowBoundary' /\ IntentsAutocommit' /\ BuildsAreFresh'
      /\ JournalMatchesObjects'
  <2>1. ASSUME NEW o \in Objects, objs'[o] # objs[o]
        PROVE  \E k \in job[c].rows : Chain[e][k].obj = o
    <3>1. o = Op(c).obj
      BY <1>1, <2>1 DEF IInv, TypeOK
    <3> QED
      BY <1>3, <3>1
  <2> QED
    BY <1>1, <2>1, ReversingMarks
<1>6. written[c] = Unwritten /\ written'[c] = Unwritten
  BY <1>1 DEF SchemaInv, ApplySchema
<1>7. View(c) = objs /\ View(c)' = objs'
  <2>1. View(c) = objs
    BY <1>6, EmptyView DEF IInv
  <2>2. \A o \in Objects : written'[c][o] = "unwritten"
    BY <1>6 DEF Unwritten
  <2>3. View(c)' = [o \in Objects |-> objs'[o]]
    BY <2>2 DEF View
  <2>4. objs' = [o \in Objects |-> objs'[o]]
    BY <1>1 DEF IInv, TypeOK
  <2> QED
    BY <2>1, <2>3, <2>4
<1>8. RollbackSchema(c)'
  <2>1. \A o \in Objects : written'[c][o] = "unwritten"
    BY <1>6 DEF Unwritten
  <2>2. ASSUME drifts' = 0, NEW o \in Objects, NEW k \in job[c].rows,
               k > n - 1, Chain[e][k].obj = o, ~Touched(e, n - 1, o)
        PROVE  View(c)'[o] = Models[e - 1][o]
    <3>1. View(c)' = [View(c) EXCEPT ![Op(c).obj] = Effect(Down(c), @)]
      BY <1>1, <1>7
    <3> QED
      BY <1>1, <1>2, <2>2, <3>1, RowReversed
  <2> QED
    BY <1>4, <2>1, <2>2 DEF RollbackSchema
<1>9. ApplySchema(c)'
  <2>1. pc'[c] = "back"
    BY <1>1 DEF IInv, TypeOK
  <2> QED
    BY <2>1 DEF ApplySchema, ApplyPCs
<1>10. \A d \in Clients : d # c => ApplySchema(d)' /\ RollbackSchema(d)'
  <2>1. \A d \in Clients : d # c => pc'[d] = pc[d] /\ written'[d] = written[d]
    BY <1>1 DEF IInv, TypeOK
  <2> QED
    BY <1>1, <2>1, OthersSchema
<1> QED
  BY <1>5, <1>8, <1>9, <1>10 DEF SchemaInv

\* The confirmed rows of an edge are its first ops, however many.
LEMMA ConfirmedPrefix ==
  ASSUME TypeOK, RowsArePrefix, NEW e \in Edges
  PROVE  \E n \in 0..LastSeq(e) : /\ ConfirmedRows(e) = 1..n
                                  /\ Cardinality(ConfirmedRows(e)) = n
<1> DEFINE T == {k \in 1..(LastSeq(e) + 1) : k \notin ConfirmedRows(e)}
<1>1. LastSeq(e) \in Nat /\ 1..LastSeq(e) \subseteq Seqs /\ Seqs \subseteq Nat \ {0}
  BY EdgeFacts
<1>2. \A i \in ConfirmedRows(e) : i \in Seqs /\ i <= LastSeq(e)
  BY DEF ConfirmedRows, RowsArePrefix
<1>3. T \subseteq Nat
  BY <1>1
<1>4. T # {}
  <2>1. LastSeq(e) + 1 \in T
    BY <1>1, <1>2
  <2> QED
    BY <2>1
<1>5. PICK m \in T : \A k \in T : m <= k
  <2> HIDE DEF T
  <2> QED
    BY <1>3, <1>4, LeastNatural
<1>6. m \in 1..(LastSeq(e) + 1) /\ m \notin ConfirmedRows(e)
  BY <1>5
<1>7. ASSUME NEW k \in 1..(m - 1) PROVE k \in ConfirmedRows(e)
  <2>1. k \in 1..(LastSeq(e) + 1) /\ ~(m <= k)
    BY <1>1, <1>6
  <2> QED
    BY <1>5, <2>1
<1>8. ASSUME NEW i \in ConfirmedRows(e) PROVE i \in 1..(m - 1)
  <2>1. i \in Nat \ {0} /\ i \in Seqs /\ i <= LastSeq(e) /\ journal[e][i] = "confirmed"
    BY <1>1, <1>2 DEF ConfirmedRows
  <2>2. ~(m <= i)
    <3>1. SUFFICES ASSUME m <= i, m # i PROVE FALSE
      BY <1>6
    <3>2. m \in 1..(i - 1) /\ m \in 1..LastSeq(e)
      BY <1>1, <1>6, <2>1, <3>1
    <3>3. journal[e][m] = "confirmed"
      BY <2>1, <3>2 DEF RowsArePrefix
    <3> QED
      BY <1>1, <1>6, <3>2, <3>3 DEF ConfirmedRows
  <2> QED
    BY <1>6, <2>1, <2>2
<1>9. ConfirmedRows(e) = 1..(m - 1)
  BY <1>7, <1>8
<1>10. m - 1 \in 0..LastSeq(e) /\ m - 1 \in Nat
  BY <1>1, <1>6
<1>11. Cardinality(1..(m - 1)) = m - 1
  BY <1>10, FS_Interval
<1> QED
  BY <1>9, <1>10, <1>11

\* The objects of an edge that none of its rows touches are as the parent
\* revision has them.
LEMMA OutsideTheRows ==
  ASSUME IInv, SchemaInv, drifts = 0, NEW c \in Clients, pc[c] \in RollbackPCs,
         NEW o \in Objects, ~Unsettled(o),
         \A k \in job[c].rows : Chain[job[c].edge][k].obj # o
  PROVE  objs[o] = Models[job[c].edge - 1][o]
<1> DEFINE e == job[c].edge
<1>1. /\ e \in Edges /\ e = FirstStep
      /\ job[c].rows = {i \in Seqs : journal[e][i] # "none"}
  BY RowsInHand, RollbackFacts
<1>2. PICK n \in 0..LastSeq(e) : /\ ConfirmedRows(e) = 1..n
                                 /\ Cardinality(ConfirmedRows(e)) = n
  BY <1>1, ConfirmedPrefix DEF IInv
<1>3. ~Touched(e, n, o)
  <2>1. \A k \in 1..n : k \in Seqs /\ journal[e][k] = "confirmed"
    BY <1>2 DEF ConfirmedRows
  <2> QED
    BY <1>1, <2>1 DEF Touched
<1>4. Stages[e][n][o] = Models[e - 1][o]
  BY <1>1, <1>2, <1>3, UntouchedStays
<1>5. Journalled = Stages[e][n]
  <2>1. CASE inProgress # 0
    BY <1>1, <1>2, <2>1 DEF Journalled, FirstStep
  <2>2. CASE inProgress = 0
    <3>1. e = current /\ e \in (boundary + 1)..current
      <4>1. e = current /\ job[c].goal \in Nat /\ boundary <= job[c].goal
            /\ job[c].goal <= current - 1
        BY <1>1, <2>2, RollbackFacts DEF FirstStep, IInv, RollbackInv
      <4>2. current \in Nat /\ boundary \in Nat
        BY RevisionFacts DEF IInv, TypeOK
      <4> QED
        BY <4>1, <4>2
    <3>2. LastSeq(e) \in 1..LastSeq(e) /\ LastSeq(e) \in Nat
      BY <1>1, EdgeFacts
    <3>3. LastSeq(e) \in ConfirmedRows(e)
      <4>1. journal[e][LastSeq(e)] = "confirmed"
        BY <3>1, <3>2 DEF IInv, PositionMatchesJournal, FullyConfirmed
      <4> QED
        BY <1>1, <4>1, EdgeFacts DEF ConfirmedRows
    <3>4. n = LastSeq(e)
      BY <1>2, <3>2, <3>3
    <3> QED
      BY <1>1, <2>2, <3>1, <3>4, StageEnds DEF Journalled
  <2> QED
    BY <2>1, <2>2
<1> QED
  BY <1>4, <1>5 DEF SchemaInv, JournalMatchesObjects

\* The edge is off the journal: the objects are as its parent revision has them.
LEMMA DeleteRolledBackOpsKeepsSchema ==
  ASSUME IInv, SchemaInv, NEW c \in Clients, DeleteRolledBackOps(c)
  PROVE  SchemaInv'
<1> DEFINE e == job[c].edge
<1>1. /\ pc[c] = "back" /\ pc[c] # "idle" /\ pc[c] \in RollbackPCs
      /\ job[c].seq = 0 /\ objs' = View(c)
      /\ journal' = [journal EXCEPT ![e] = [i \in Seqs |-> "none"]]
      /\ current' = TargetAfter(e) /\ inProgress' = 0 /\ boundary' = boundary
      /\ reversing' = reversing \ {e} /\ drifts' = drifts
  BY DEF DeleteRolledBackOps, RollbackPCs, AdvanceChainPosition
<1>2. /\ e \in Edges /\ e = FirstStep
      /\ job[c].rows = {i \in Seqs : journal[e][i] # "none"}
      /\ \A i \in job[c].rows : i \in 1..LastSeq(e) /\ i \in Nat
  BY <1>1, RowsInHand, RollbackFacts
<1>3. current' = e - 1
  <2>1. current \in Nat /\ inProgress \in {0, current + 1}
    BY RevisionFacts DEF IInv, TypeOK, PositionMatchesJournal
  <2>2. CASE inProgress # 0
    BY <1>1, <1>2, <2>1, <2>2 DEF FirstStep, TargetAfter
  <2>3. CASE inProgress = 0
    BY <1>1, <1>2, <2>3, EdgeFacts DEF TargetAfter
  <2> QED
    BY <2>2, <2>3
<1>4. /\ \A i \in Seqs : journal'[e][i] = "none"
      /\ \A d \in Edges : d # e => journal'[d] = journal[d]
  BY <1>1, <1>2 DEF IInv, TypeOK
<1>5. NothingBelowBoundary'
  <2> SUFFICES ASSUME NEW d \in Edges, d <= boundary, NEW i \in Seqs
               PROVE  journal'[d][i] = "none"
    BY <1>1 DEF NothingBelowBoundary, HasRows
  <2>1. journal[d][i] = "none"
    BY DEF SchemaInv, NothingBelowBoundary, HasRows
  <2> QED
    BY <1>4, <2>1
<1>6. IntentsAutocommit'
  <2> SUFFICES ASSUME NEW d \in Edges, NEW i \in Seqs, journal'[d][i] = "intended"
               PROVE  Chain[d][i].kind \in NonTransactional
    BY DEF IntentsAutocommit
  <2>1. journal[d][i] = "intended"
    BY <1>4
  <2> QED
    BY <2>1 DEF SchemaInv, IntentsAutocommit
<1>7. BuildsAreFresh'
  BY <1>1 DEF BuildsAreFresh
<1>8. JournalMatchesObjects'
  <2> SUFFICES ASSUME drifts = 0, NEW o \in Objects, ~Unsettled(o)'
               PROVE  View(c)[o] = Models[e - 1][o]
    BY <1>1, <1>3 DEF JournalMatchesObjects, Journalled
  <2>1. CASE \E k \in job[c].rows : Chain[e][k].obj = o
    <3>1. PICK k \in job[c].rows : Chain[e][k].obj = o
      BY <2>1
    <3>2. k > job[c].seq /\ ~Touched(e, job[c].seq, o)
      BY <1>1, <1>2 DEF Touched
    <3> QED
      BY <1>1, <3>1, <3>2 DEF SchemaInv, RollbackSchema
  <2>2. CASE ~ \E k \in job[c].rows : Chain[e][k].obj = o
    <3>1. written[c][o] = "unwritten"
      BY <1>1, <2>2 DEF SchemaInv, RollbackSchema
    <3>2. View(c)[o] = objs[o]
      BY <3>1, UnwrittenView
    <3>3. ASSUME HalfReversed(o) PROVE HalfReversed(o)'
      <4>1. PICK d \in reversing : \E i \in 1..LastSeq(d) :
              journal[d][i] # "none" /\ Chain[d][i].obj = o
        BY <3>3 DEF HalfReversed
      <4>2. PICK i \in 1..LastSeq(d) : journal[d][i] # "none" /\ Chain[d][i].obj = o
        BY <4>1
      <4>3. d \in Edges /\ i \in Seqs
        BY <4>1, <4>2, EdgeFacts DEF IInv, TypeOK
      <4>4. d # e
        BY <1>2, <2>2, <4>2, <4>3
      <4>5. d \in reversing' /\ journal'[d][i] # "none"
        BY <1>1, <1>4, <4>1, <4>2, <4>3, <4>4
      <4> QED
        BY <4>2, <4>5 DEF HalfReversed, LastSeq
    <3>4. ASSUME NEW d \in Edges, NEW i \in Seqs, journal[d][i] = "intended",
                 Chain[d][i].obj = o
          PROVE  journal'[d][i] = "intended"
      <4>1. d # e
        BY <1>2, <2>2, <3>4
      <4> QED
        BY <1>4, <3>4, <4>1
    <3>5. ~Unsettled(o)
      BY <3>3, <3>4 DEF Unsettled, IntendedRows
    <3> QED
      BY <1>1, <2>2, <3>2, <3>5, OutsideTheRows
  <2> QED
    BY <2>1, <2>2
<1>9. \A d \in Clients : ApplySchema(d)' /\ RollbackSchema(d)'
  <2>1. CASE Release(c, "rolledBack")
    BY <1>1, <2>1, ReleaseKeepsClients
  <2>2. CASE /\ Goto(c, "beginBack")
             /\ written' = [written EXCEPT ![c] = Unwritten]
    <3>1. \A d \in Clients : d # c => pc'[d] = pc[d] /\ written'[d] = written[d]
      BY <2>2 DEF Goto, IInv, TypeOK
    <3>2. pc'[c] = "beginBack" /\ written'[c] = Unwritten
      BY <2>2 DEF Goto, IInv, TypeOK
    <3> QED
      BY <1>1, <3>1, <3>2, OthersSchema, BetweenEdges DEF ApplyPCs, RollbackPCs
  <2> QED
    BY <2>1, <2>2 DEF DeleteRolledBackOps
<1> QED
  BY <1>5, <1>6, <1>7, <1>8, <1>9 DEF SchemaInv
-----------------------------------------------------------------------------
(***************************************************************************)
(* What goes wrong.                                                        *)
(***************************************************************************)

\* A command dies: at most the statement it was running in autocommit leaves
\* something behind, on an object that was unsettled before or is from now on.
LEMMA AbortKeepsSchema ==
  ASSUME IInv, SchemaInv, NEW c \in Clients, Abort(c)
  PROVE  SchemaInv'
<1>1. /\ pc[c] # "idle" /\ Release(c, "failed")
      /\ UNCHANGED <<current, inProgress, boundary, journal, drifts>>
  BY DEF Abort, position
<1>2. \A d \in Clients : ApplySchema(d)' /\ RollbackSchema(d)'
  BY <1>1, ReleaseKeepsClients
<1>3. CASE UNCHANGED <<objs, reversing>>
  BY <1>1, <1>2, <1>3, UntouchedDatabase DEF SchemaInv
<1>4. CASE pc[c] = "exec"
  <2>1. reversing' = reversing
    BY <1>4 DEF Abort
  <2>2. PICK s \in Torn(Op(c).kind, objs[Op(c).obj], Resumes(c)) :
          objs' = [objs EXCEPT ![Op(c).obj] = s]
    <3>1. CASE objs' = objs
      <4>1. objs' = [objs EXCEPT ![Op(c).obj] = objs[Op(c).obj]]
        BY <3>1 DEF IInv, TypeOK
      <4>2. objs[Op(c).obj] \in Torn(Op(c).kind, objs[Op(c).obj], Resumes(c))
        BY DEF Torn
      <4> QED
        BY <4>1, <4>2
    <3>2. CASE objs' # objs
      BY <1>4, <3>2 DEF Abort
    <3> QED
      BY <3>1, <3>2
  <2>3. \/ Op(c).kind # "create_index_concurrently"
        \/ s # "altered"
        \/ s = objs[Op(c).obj]
    BY DEF Torn
  <2> QED
    BY <1>1, <1>2, <1>4, <2>1, <2>2, <2>3, DuringIntent DEF SchemaInv
<1>5. CASE pc[c] = "execBack"
  <2>1. pc[c] \in RollbackPCs /\ reversing' = reversing \union {job[c].edge}
    BY <1>5 DEF Abort, RollbackPCs
  <2>2. PICK s : objs' = [objs EXCEPT ![Op(c).obj] = s]
    BY <1>5 DEF Abort
  <2>3. job[c].seq \in job[c].rows
    BY <1>5, RollbackFacts DEF RollbackPCs, HasDown
  <2>4. ASSUME NEW o \in Objects, objs'[o] # objs[o]
        PROVE  \E k \in job[c].rows : Chain[job[c].edge][k].obj = o
    BY <2>2, <2>3, <2>4 DEF IInv, TypeOK, Op
  <2> QED
    BY <1>1, <1>2, <2>1, <2>4, ReversingMarks DEF SchemaInv
<1> QED
  BY <1>3, <1>4, <1>5 DEF Abort

\* Once somebody has changed the database by hand nothing is claimed of it.
LEMMA DriftKeepsSchema ==
  ASSUME IInv, SchemaInv, NEW o \in Objects, Drift(o)
  PROVE  SchemaInv'
<1>1. /\ drifts' # 0
      /\ UNCHANGED <<lock, position, journal, pc, job, written, reversing>>
  BY DEF Drift, IInv, TypeOK
<1>2. NothingBelowBoundary' /\ IntentsAutocommit'
  BY <1>1 DEF NothingBelowBoundary, IntentsAutocommit, HasRows, position, SchemaInv
<1>3. BuildsAreFresh' /\ JournalMatchesObjects'
  BY <1>1 DEF BuildsAreFresh, JournalMatchesObjects
<1>4. ASSUME NEW c \in Clients PROVE ApplySchema(c)' /\ RollbackSchema(c)'
  <2>1. ApplySchema(c) /\ RollbackSchema(c)
    BY DEF SchemaInv
  <2>2. ApplySchema(c)'
    BY <1>1, <2>1 DEF ApplySchema, ApplyPCs, position
  <2>3. PICK d : d = job[c].edge
    OBVIOUS
  <2>4. ReversibleRows(d)' = ReversibleRows(d)
    BY <1>1 DEF ReversibleRows, ConfirmedRows, IntendedRows, position
  <2>5. pc[c] \in RollbackPCs => job'[c].rows = ReversibleRows(job[c].edge)'
    BY <1>1, <2>1, <2>3, <2>4 DEF RollbackSchema
  <2>6. RollbackSchema(c)'
    BY <1>1, <2>1, <2>5 DEF RollbackSchema, RollbackPCs
  <2> QED
    BY <2>2, <2>6
<1> QED
  BY <1>2, <1>3, <1>4 DEF SchemaInv
-----------------------------------------------------------------------------
(***************************************************************************)
(* The theorems.                                                           *)
(***************************************************************************)

\* Every step keeps the claims about the schema.
LEMMA NextSchema ==
  ASSUME DownOpsRestore
  PROVE  IInv /\ SchemaInv /\ [Next]_vars => SchemaInv'
<1> SUFFICES ASSUME IInv, SchemaInv, [Next]_vars PROVE SchemaInv'
  OBVIOUS
<1>1. ASSUME NEW c \in Clients, AcquireAdvisoryLock(c) PROVE SchemaInv'
  BY <1>1, AcquireKeepsSchema
<1>2. ASSUME NEW c \in Clients, ApplyStep(c) PROVE SchemaInv'
  BY <1>2, PlanningKeepsSchema, BeginEdgeKeepsSchema, SkipConfirmedKeepsSchema,
     StageOpKeepsSchema, LandEdgeKeepsSchema, IntendOpKeepsSchema,
     ExecuteKeepsSchema, ConfirmIntentKeepsSchema, EndEdgeKeepsSchema
    DEF ApplyStep
<1>3. ASSUME NEW c \in Clients, RollbackStep(c) PROVE SchemaInv'
  BY <1>3, PlanningKeepsSchema, BeginReverseKeepsSchema,
     SkipUnrecordedKeepsSchema, ReverseOpKeepsSchema, BreakSegmentKeepsSchema,
     ReverseNonTransactionalKeepsSchema, DeleteRolledBackOpsKeepsSchema
    DEF RollbackStep
<1>4. ASSUME NEW c \in Clients, Refuse(c) PROVE SchemaInv'
  BY <1>4, PlanningKeepsSchema
<1>5. ASSUME NEW c \in Clients, Abort(c) PROVE SchemaInv'
  BY <1>5, AbortKeepsSchema
<1>6. ASSUME NEW o \in Objects, Drift(o) PROVE SchemaInv'
  BY <1>6, DriftKeepsSchema
<1>7. CASE UNCHANGED vars
  <2>1. UNCHANGED <<current, inProgress, boundary, journal, objs, pc, job,
                    written, reversing, drifts>>
    BY <1>7 DEF vars, position, history
  <2>2. ASSUME NEW c \in Clients PROVE ApplySchema(c)' /\ RollbackSchema(c)'
    <3>1. ApplySchema(c) /\ RollbackSchema(c)
      BY DEF SchemaInv
    <3>2. ApplySchema(c)'
      <4>1. /\ View(c)' = View(c) /\ Op(c)' = Op(c)
            /\ HalfReversed(Op(c).obj)' <=> HalfReversed(Op(c).obj)
        BY <2>1 DEF View, Op, HalfReversed, LastSeq
      <4>2. \A o \in Objects : Unsettled(o)' <=> Unsettled(o)
        <5>1. \A o \in Objects : HalfReversed(o)' <=> HalfReversed(o)
          BY <2>1 DEF HalfReversed, LastSeq
        <5> QED
          BY <2>1, <5>1 DEF Unsettled, IntendedRows
      <4> QED
        BY Zenon, <2>1, <3>1, <4>1, <4>2 DEF ApplySchema, ApplyPCs
    <3>3. RollbackSchema(c)'
      BY <2>1, <3>1 DEF RollbackSchema, RollbackPCs, View, ReversibleRows,
                        ConfirmedRows, IntendedRows, Touched
    <3> QED
      BY <3>2, <3>3
  <2> QED
    BY <2>1, <2>2, UntouchedDatabase DEF SchemaInv
<1> QED
  BY <1>1, <1>2, <1>3, <1>4, <1>5, <1>6, <1>7 DEF Next, Step

\* The inductive invariant about the schema, for every chain whose down-ops
\* restore what their ops changed.
THEOREM SchemaInvariant == DownOpsRestore => (Spec => [](IInv /\ SchemaInv))
<1> SUFFICES ASSUME DownOpsRestore PROVE Spec => [](IInv /\ SchemaInv)
  OBVIOUS
<1>1. Init => IInv /\ SchemaInv
  BY InitInvariant, InitSchema
<1>2. IInv /\ SchemaInv /\ [Next]_vars => (IInv /\ SchemaInv)'
  BY NextInvariant, NextSchema
<1> QED
  BY <1>1, <1>2, PTL DEF Spec

\* Through every crash, resume and rollback, what the journal says of an object
\* is so, unless an op on it is under way or its edge half reversed.
THEOREM JournalIsTrue == DownOpsRestore => (Spec => []JournalMatchesObjects)
<1> SUFFICES ASSUME DownOpsRestore PROVE Spec => []JournalMatchesObjects
  OBVIOUS
<1>1. Spec => [](IInv /\ SchemaInv)
  BY SchemaInvariant
<1>2. IInv /\ SchemaInv => JournalMatchesObjects
  BY DEF SchemaInv
<1> QED
  BY <1>1, <1>2, PTL

\* A quiet database is at its revision: intent rows belong to the edge in
\* progress, and there is none.
LEMMA QuietIsAtRevision == IInv /\ SchemaInv => QuietAtRevision
<1> SUFFICES ASSUME IInv, NothingBelowBoundary, JournalMatchesObjects,
                    inProgress = 0, drifts = 0, reversing = {}
             PROVE  objs = Models[current]
  BY DEF SchemaInv, QuietAtRevision
<1>1. ASSUME NEW o \in Objects PROVE ~Unsettled(o)
  <2>1. ~HalfReversed(o)
    BY DEF HalfReversed
  <2>2. ASSUME NEW e \in Edges, NEW i \in Seqs, journal[e][i] = "intended"
        PROVE  FALSE
    <3>1. i \in 1..LastSeq(e)
      <4>1. i <= LastSeq(e)
        BY <2>2 DEF IInv, RowsArePrefix
      <4>2. i \in Nat \ {0} /\ LastSeq(e) \in Nat
        BY EdgeFacts
      <4> QED
        BY <4>1, <4>2
    <3>2. ~(e <= boundary)
      BY <2>2 DEF NothingBelowBoundary, HasRows
    <3>3. ~(e > current)
      BY <2>2, EdgeFacts DEF IInv, PositionMatchesJournal, HasRows
    <3>4. e \in (boundary + 1)..current
      BY <3>2, <3>3, EdgeFacts, RevisionFacts DEF IInv, TypeOK
    <3>5. journal[e][i] = "confirmed"
      BY <3>1, <3>4 DEF IInv, PositionMatchesJournal, FullyConfirmed
    <3> QED
      BY <2>2, <3>5
  <2> QED
    BY <2>1, <2>2 DEF Unsettled, IntendedRows
<1>2. \A o \in Objects : objs[o] = Models[current][o]
  BY <1>1 DEF JournalMatchesObjects, Journalled
<1>3. objs \in [Objects -> ObjectStates] /\ Models[current] \in [Objects -> ObjectStates]
  BY ModelsType DEF IInv, TypeOK
<1> QED
  BY <1>2, <1>3

\* Only the reconciliation after an apply says "applied" or "diverged".
LEMMA WhoReports ==
  ASSUME IInv, SchemaInv, Next, NEW c \in Clients, outcome'[c] # outcome[c],
         outcome'[c] \in {"applied", "diverged"}
  PROVE  /\ ReconcileAfterApply(c)
         /\ outcome'[c] = IF objs = Models[job[c].head] THEN "applied" ELSE "diverged"
<1> USE DEF IInv, TypeOK
<1>1. ASSUME NEW d \in Clients, AcquireAdvisoryLock(d) PROVE FALSE
  BY <1>1 DEF AcquireAdvisoryLock
<1>2. ASSUME NEW d \in Clients, NEW report \in {"upToDate", "failed", "rolledBack"},
             Release(d, report)
      PROVE  FALSE
  BY <1>2 DEF Release
<1>3. ASSUME NEW d \in Clients, ApplyStep(d)
      PROVE  d = c /\ ReconcileAfterApply(c)
  <2>1. CASE ReconcileAfterApply(d)
    BY <2>1 DEF ReconcileAfterApply, Release
  <2>2. CASE FindApplyPath(d)
    BY <1>2, <2>2 DEF FindApplyPath
  <2>3. CASE \/ EnsureChainStructures(d) \/ BeginEdge(d) \/ SkipConfirmedOp(d)
             \/ StageOp(d) \/ LandEdge(d) \/ IntendOp(d)
             \/ ExecuteNonTransactionalOp(d) \/ ConfirmIntentOp(d) \/ EndEdge(d)
    BY <2>3 DEF EnsureChainStructures, BeginEdge, SkipConfirmedOp, StageOp,
       LandEdge, IntendOp, ExecuteNonTransactionalOp, ConfirmIntentOp, EndEdge
  <2> QED
    BY <1>3, <2>1, <2>2, <2>3 DEF ApplyStep
<1>4. ASSUME NEW d \in Clients, RollbackStep(d) PROVE FALSE
  <2>1. CASE PlanChainRollback(d)
    BY <1>2, <2>1 DEF PlanChainRollback
  <2>2. CASE DeleteRolledBackOps(d)
    BY <1>2, <2>2 DEF DeleteRolledBackOps
  <2>3. CASE \/ BeginReverse(d) \/ SkipUnrecordedRow(d) \/ ReverseOp(d)
             \/ BreakSegment(d) \/ ReverseNonTransactionalOp(d)
    BY <2>3 DEF BeginReverse, SkipUnrecordedRow, ReverseOp, BreakSegment,
       ReverseNonTransactionalOp
  <2> QED
    BY <1>4, <2>1, <2>2, <2>3 DEF RollbackStep
<1>5. ASSUME NEW d \in Clients, Refuse(d) \/ Abort(d) PROVE FALSE
  BY <1>2, <1>5 DEF Refuse, Abort
<1>6. ASSUME NEW o \in Objects, Drift(o) PROVE FALSE
  BY <1>6 DEF Drift
<1>7. ReconcileAfterApply(c)
  BY <1>1, <1>3, <1>4, <1>5, <1>6 DEF Next, Step
<1> QED
  BY <1>7 DEF ReconcileAfterApply, Release

\* A command's report is so when it is made.
THEOREM ReportsTrue == DownOpsRestore => (Spec => ReportsAreTrue)
<1> SUFFICES ASSUME DownOpsRestore PROVE Spec => ReportsAreTrue
  OBVIOUS
<1>1. Spec => [](IInv /\ SchemaInv /\ QuietAtRevision)
  BY SchemaInvariant, QuietIsAtRevision, PTL
<1>2. ASSUME IInv, SchemaInv, QuietAtRevision, QuietAtRevision', [Next]_vars,
             NEW c \in Clients,
             outcome'[c] # outcome[c]
      PROVE  /\ outcome'[c] = "applied" => objs' = Models[current'] /\ inProgress' = 0
             /\ outcome'[c] = "diverged" => drifts # 0 \/ reversing # {}
             /\ outcome'[c] \in {"upToDate", "rolledBack"}
                  /\ inProgress' = 0 /\ reversing' = {} /\ drifts' = 0
                    => objs' = Models[current']
  <2>1. Next
    BY <1>2 DEF vars
  <2>3. inProgress' = 0 /\ reversing' = {} /\ drifts' = 0 => objs' = Models[current']
    BY <1>2 DEF QuietAtRevision
  <2>4. CASE outcome'[c] \in {"applied", "diverged"}
    <3>1. /\ ReconcileAfterApply(c)
          /\ outcome'[c] = IF objs = Models[job[c].head] THEN "applied" ELSE "diverged"
      BY <1>2, <2>1, <2>4, WhoReports
    <3>2. job[c].head = current /\ inProgress = 0
      BY <1>2, <3>1 DEF SchemaInv, ApplySchema, ReconcileAfterApply
    <3>3. objs' = objs /\ current' = current /\ inProgress' = inProgress
      BY <3>1 DEF ReconcileAfterApply, position
    <3>4. inProgress = 0 /\ drifts = 0 /\ reversing = {} => objs = Models[current]
      BY <1>2 DEF QuietAtRevision
    <3> QED
      BY <3>1, <3>2, <3>3, <3>4
  <2> QED
    BY <2>3, <2>4
<1>3. IInv /\ SchemaInv /\ QuietAtRevision /\ QuietAtRevision' /\ [Next]_vars =>
        [\A c \in Clients :
           outcome'[c] # outcome[c] =>
             /\ outcome'[c] = "applied" => objs' = Models[current'] /\ inProgress' = 0
             /\ outcome'[c] = "diverged" => drifts # 0 \/ reversing # {}
             /\ outcome'[c] \in {"upToDate", "rolledBack"}
                  /\ inProgress' = 0 /\ reversing' = {} /\ drifts' = 0
                    => objs' = Models[current']]_vars
  BY <1>2
<1> QED
  BY <1>1, <1>3, PTL DEF Spec, ReportsAreTrue
-----------------------------------------------------------------------------
(***************************************************************************)
(* Chains whose down-ops all run inside the reversal's transaction, in a   *)
(* database nobody changes by hand.                                        *)
(***************************************************************************)

\* The rollback of such a chain never leaves its one transaction: a row whose
\* down-op could not join it comes with a row that records none, and the
\* pre-check has refused the edge.
LEMMA DownOpsJoin ==
  ASSUME DownOpsTransactional, IInv, SchemaInv, NEW c \in Clients,
         pc[c] \in RollbackPCs, job[c].seq > 0, HasDown(c)
  PROVE  Down(c) \notin NonTransactional
<1> DEFINE e == job[c].edge
           n == job[c].seq
<1>1. /\ e \in Edges /\ n \in Nat /\ n \in job[c].rows /\ n \in 1..LastSeq(e)
      /\ Op(c) = Chain[e][n] /\ Op(c).down /\ LastSeq(e) \in Nat
      /\ job[c].rows = {i \in Seqs : journal[e][i] # "none"}
      /\ \A i \in job[c].rows : Chain[e][i].down
  BY RowsInHand
<1> SUFFICES ASSUME Down(c) \in NonTransactional PROVE FALSE
  OBVIOUS
<1>2. PICK j \in 1..(n - 1) : ~Chain[e][j].down
  BY <1>1 DEF DownOpsTransactional, Down
<1>3. j \in Seqs
  <2>1. j \in 1..LastSeq(e)
    BY <1>1, <1>2
  <2> QED
    BY <1>1, <2>1, EdgeFacts
<1>4. journal[e][j] = "confirmed"
  BY <1>1, <1>2 DEF IInv, RowsArePrefix
<1> QED
  BY <1>1, <1>2, <1>3, <1>4

\* No edge is ever half reversed.
LEMMA StaysWhole ==
  ASSUME DownOpsTransactional, IInv, SchemaInv, WholeEdges, [Next]_vars
  PROVE  WholeEdges'
<1> USE DEF WholeEdges
<1>1. ASSUME NEW c \in Clients, AcquireAdvisoryLock(c) PROVE WholeEdges'
  BY <1>1 DEF AcquireAdvisoryLock, Goto, history, IInv, TypeOK
<1>2. ASSUME NEW c \in Clients, NEW report, Release(c, report),
             reversing' \subseteq reversing
      PROVE  WholeEdges'
  BY <1>2 DEF Release, Goto, IInv, TypeOK
<1>3. ASSUME NEW c \in Clients, ApplyStep(c) PROVE WholeEdges'
  <2>1. CASE FindApplyPath(c)
    BY <1>2, <2>1 DEF FindApplyPath, Goto, history, IInv, TypeOK
  <2>2. CASE ReconcileAfterApply(c)
    BY <1>2, <2>2 DEF ReconcileAfterApply, history
  <2>3. CASE EnsureChainStructures(c) \/ BeginEdge(c) \/ SkipConfirmedOp(c)
    BY <2>3 DEF EnsureChainStructures, BeginEdge, SkipConfirmedOp, Goto, history,
       IInv, TypeOK
  <2>4. CASE StageOp(c) \/ LandEdge(c) \/ IntendOp(c)
    BY <2>4 DEF StageOp, LandEdge, IntendOp, Goto, history, IInv, TypeOK
  <2>5. CASE ExecuteNonTransactionalOp(c) \/ ConfirmIntentOp(c) \/ EndEdge(c)
    BY <2>5 DEF ExecuteNonTransactionalOp, ConfirmIntentOp, EndEdge, Goto, history,
       IInv, TypeOK
  <2> QED
    BY <1>3, <2>1, <2>2, <2>3, <2>4, <2>5 DEF ApplyStep
<1>4. ASSUME NEW c \in Clients, RollbackStep(c) PROVE WholeEdges'
  <2>1. CASE PlanChainRollback(c)
    BY <1>2, <2>1 DEF PlanChainRollback, Goto, history, IInv, TypeOK
  <2>2. CASE BeginReverse(c) \/ SkipUnrecordedRow(c) \/ ReverseOp(c)
    BY <2>2 DEF BeginReverse, SkipUnrecordedRow, ReverseOp, Goto, history,
       IInv, TypeOK
  <2>3. CASE BreakSegment(c)
    BY <2>3, DownOpsJoin DEF BreakSegment, RollbackPCs
  <2>4. CASE ReverseNonTransactionalOp(c)
    BY <2>4 DEF ReverseNonTransactionalOp
  <2>5. CASE DeleteRolledBackOps(c)
    <3>1. reversing' \subseteq reversing
      BY <2>5 DEF DeleteRolledBackOps
    <3> QED
      BY <1>2, <2>5, <3>1 DEF DeleteRolledBackOps, Goto, IInv, TypeOK
  <2> QED
    BY <1>4, <2>1, <2>2, <2>3, <2>4, <2>5 DEF RollbackStep
<1>5. ASSUME NEW c \in Clients, Refuse(c) PROVE WholeEdges'
  BY <1>2, <1>5 DEF Refuse, history
<1>6. ASSUME NEW c \in Clients, Abort(c) PROVE WholeEdges'
  BY <1>2, <1>6 DEF Abort
<1>7. ASSUME NEW o \in Objects, Drift(o) PROVE WholeEdges'
  BY <1>7 DEF Drift
<1>8. CASE UNCHANGED vars
  BY <1>8 DEF vars, history
<1> QED
  BY <1>1, <1>3, <1>4, <1>5, <1>6, <1>7, <1>8 DEF Next, Step

\* A database at rest with no edge in progress is exactly at the revision its
\* position names.
THEOREM AtRest ==
  DownOpsRestore /\ DownOpsTransactional => (Spec => []AtRestAtRevision)
<1> SUFFICES ASSUME DownOpsRestore, DownOpsTransactional
             PROVE  Spec => []AtRestAtRevision
  OBVIOUS
<1>1. Spec => [](IInv /\ SchemaInv)
  BY SchemaInvariant
<1>2. Init => WholeEdges
  BY DEF Init, WholeEdges
<1>3. IInv /\ SchemaInv /\ WholeEdges /\ [Next]_vars => WholeEdges'
  BY StaysWhole
<1>4. QuietAtRevision /\ WholeEdges => AtRestAtRevision
  BY DEF QuietAtRevision, WholeEdges, AtRestAtRevision
<1> QED
  BY <1>1, <1>2, <1>3, <1>4, QuietIsAtRevision, PTL DEF Spec

\* What a step may do to the position, and what becomes of the objects where
\* it starts a move.
LEMMA PositionSteps ==
  ASSUME IInv, Next
  PROVE  \/ current' = current /\ inProgress' = inProgress
         \/ /\ inProgress = 0 /\ inProgress' = current + 1 /\ current' = current
            /\ current < Len(Chain) /\ objs' = objs
         \/ inProgress # 0 /\ inProgress' = 0 /\ current' = inProgress
         \/ inProgress # 0 /\ inProgress' = 0 /\ current' = current
         \/ /\ inProgress = 0 /\ inProgress' = 0 /\ current' = current - 1
            /\ current > boundary
<1>1. current \in Nat /\ boundary \in Nat /\ inProgress \in {0, current + 1}
  BY RevisionFacts DEF IInv, TypeOK, PositionMatchesJournal
<1>2. ASSUME NEW c \in Clients, ApplyStep(c),
             current' # current \/ inProgress' # inProgress
      PROVE  \/ /\ inProgress = 0 /\ inProgress' = current + 1
                /\ current' = current /\ current < Len(Chain) /\ objs' = objs
             \/ inProgress # 0 /\ inProgress' = 0 /\ current' = inProgress
  <2>1. CASE BeginEdge(c)
    <3>1. job[c].edge = current + 1 /\ job[c].edge \in Edges
      BY <2>1 DEF BeginEdge, IInv, ApplyInv
    <3>2. inProgress' = current + 1 /\ current' = current /\ objs' = objs
      BY <2>1, <3>1 DEF BeginEdge
    <3>3. current < Len(Chain)
      BY <1>1, <3>1, ChainFacts
    <3> QED
      BY <1>1, <1>2, <3>2, <3>3
  <2>2. CASE LandEdge(c)
    <3>1. pc[c] \in ApplyPCs /\ InEdge(c)
      BY <2>2 DEF LandEdge, AtFreshOp, ApplyPCs
    <3>2. inProgress = job[c].edge /\ job[c].edge \in Edges
      BY <3>1, ApplyFacts
    <3> QED
      BY <2>2, <3>2, EdgeFacts DEF LandEdge, AdvanceChainPosition
  <2>3. CASE ConfirmIntentOp(c)
    <3>1. inProgress = job[c].edge /\ job[c].edge \in Edges
      BY <2>3, EdgeFacts DEF ConfirmIntentOp, IInv, ApplyInv, ApplyPCs
    <3> QED
      BY <1>2, <2>3, <3>1, EdgeFacts
        DEF ConfirmIntentOp, AdvanceChainPosition, position
  <2>4. CASE \/ EnsureChainStructures(c) \/ FindApplyPath(c) \/ SkipConfirmedOp(c)
             \/ StageOp(c) \/ IntendOp(c) \/ ExecuteNonTransactionalOp(c)
             \/ EndEdge(c) \/ ReconcileAfterApply(c)
    BY <1>2, <2>4 DEF EnsureChainStructures, FindApplyPath, SkipConfirmedOp,
       StageOp, IntendOp, ExecuteNonTransactionalOp, EndEdge,
       ReconcileAfterApply, position
  <2> QED
    BY <1>2, <2>1, <2>2, <2>3, <2>4 DEF ApplyStep
<1>3. ASSUME NEW c \in Clients, RollbackStep(c),
             current' # current \/ inProgress' # inProgress
      PROVE  \/ inProgress # 0 /\ inProgress' = 0 /\ current' = current
             \/ /\ inProgress = 0 /\ inProgress' = 0 /\ current' = current - 1
                /\ current > boundary
  <2>1. DeleteRolledBackOps(c)
    BY <1>3 DEF RollbackStep, PlanChainRollback, BeginReverse, SkipUnrecordedRow,
       ReverseOp, BreakSegment, ReverseNonTransactionalOp, position
  <2>2. pc[c] \in RollbackPCs
    BY <2>1 DEF DeleteRolledBackOps, RollbackPCs
  <2>3. /\ job[c].edge \in Edges /\ job[c].edge = FirstStep /\ job[c].goal \in Nat
        /\ boundary <= job[c].goal
        /\ job[c].goal <= (IF inProgress = 0 THEN current - 1 ELSE current)
    BY <2>2, RollbackFacts DEF IInv, RollbackInv
  <2>4. inProgress' = 0 /\ current' = TargetAfter(job[c].edge)
    BY <2>1 DEF DeleteRolledBackOps, AdvanceChainPosition
  <2> QED
    BY <1>1, <2>3, <2>4, EdgeFacts DEF FirstStep, TargetAfter
<1>4. ASSUME NEW c \in Clients, AcquireAdvisoryLock(c) \/ Refuse(c) \/ Abort(c)
      PROVE  current' = current /\ inProgress' = inProgress
  BY <1>4 DEF AcquireAdvisoryLock, Refuse, Abort, position
<1>5. ASSUME NEW o \in Objects, Drift(o)
      PROVE  current' = current /\ inProgress' = inProgress
  BY <1>5 DEF Drift, position
<1> QED
  BY <1>2, <1>3, <1>4, <1>5 DEF Next, Step

\* Nobody changes the database by hand when the bound does not let him.
LEMMA NoDrift ==
  ASSUME MaxDrifts = 0, IInv, drifts = 0, [Next]_vars
  PROVE  drifts' = 0
<1>1. ASSUME NEW c \in Clients, ApplyStep(c) PROVE drifts' = 0
  BY <1>1 DEF ApplyStep, history, EnsureChainStructures, FindApplyPath, BeginEdge,
     SkipConfirmedOp, StageOp, LandEdge, IntendOp, ExecuteNonTransactionalOp,
     ConfirmIntentOp, EndEdge, ReconcileAfterApply
<1>2. ASSUME NEW c \in Clients, RollbackStep(c) PROVE drifts' = 0
  BY <1>2 DEF RollbackStep, history, PlanChainRollback, BeginReverse,
     SkipUnrecordedRow, ReverseOp, BreakSegment, ReverseNonTransactionalOp,
     DeleteRolledBackOps
<1>3. ASSUME NEW c \in Clients, AcquireAdvisoryLock(c) \/ Refuse(c) \/ Abort(c)
      PROVE  drifts' = 0
  BY <1>3 DEF AcquireAdvisoryLock, Refuse, Abort, history
<1>4. ASSUME NEW o \in Objects PROVE ~Drift(o)
  BY DEF Drift
<1>5. CASE UNCHANGED vars
  BY <1>5 DEF vars, history
<1> QED
  BY <1>1, <1>2, <1>3, <1>4, <1>5 DEF Next, Step

\* Each step of the commands is a step of the ledger, or none of its business.
LEMMA StepImplementsLedger ==
  ASSUME IInv, IInv', QuietAtRevision, QuietAtRevision', WholeEdges, WholeEdges',
         drifts = 0, drifts' = 0, boundary' = boundary, [Next]_vars
  PROVE  [Ledger!Next]_(Ledger!ledger)
<1> USE DEF Ledger!ledger
<1>1. objs' \in [Objects -> ObjectStates]
  BY DEF IInv, TypeOK
<1>2. /\ inProgress = 0 => objs = Models[current]
      /\ inProgress' = 0 => objs' = Models[current']
  BY DEF QuietAtRevision, WholeEdges
<1>3. CASE UNCHANGED vars
  BY <1>3 DEF vars, position
<1>4. CASE Next /\ current' = current /\ inProgress' = inProgress
  <2>1. CASE inProgress = 0
    BY <1>2, <1>4, <2>1
  <2>2. CASE inProgress # 0
    <3>1. Ledger!Move
      BY <1>1, <1>4, <2>2 DEF Ledger!Move
    <3> QED
      BY <3>1 DEF Ledger!Next
  <2> QED
    BY <2>1, <2>2
<1>5. CASE /\ inProgress = 0 /\ inProgress' = current + 1 /\ current' = current
           /\ current < Len(Chain) /\ objs' = objs
  <2>1. Ledger!Begin
    BY <1>5 DEF Ledger!Begin
  <2> QED
    BY <2>1 DEF Ledger!Next
<1>6. CASE inProgress # 0 /\ inProgress' = 0 /\ current' = inProgress
  <2>1. Ledger!Arrive
    BY <1>2, <1>6 DEF Ledger!Arrive
  <2> QED
    BY <2>1 DEF Ledger!Next
<1>7. CASE inProgress # 0 /\ inProgress' = 0 /\ current' = current
  <2>1. Ledger!Return
    BY <1>2, <1>7 DEF Ledger!Return
  <2> QED
    BY <2>1 DEF Ledger!Next
<1>8. CASE /\ inProgress = 0 /\ inProgress' = 0 /\ current' = current - 1
           /\ current > boundary
  <2>1. Ledger!Retreat
    BY <1>2, <1>8 DEF Ledger!Retreat
  <2> QED
    BY <2>1 DEF Ledger!Next
<1> QED
  BY <1>3, <1>4, <1>5, <1>6, <1>7, <1>8, PositionSteps

\* On such a chain, without changes by hand, the commands keep the promise of
\* RevisionLedger whatever dies and is retried.
THEOREM LedgerImplemented ==
  DownOpsRestore /\ DownOpsTransactional /\ MaxDrifts = 0
    => (Spec => ImplementsLedger)
<1> SUFFICES ASSUME DownOpsRestore, DownOpsTransactional, MaxDrifts = 0
             PROVE  Spec => ImplementsLedger
  OBVIOUS
<1>1. Spec => [](IInv /\ SchemaInv)
  BY SchemaInvariant
<1>2. Init => WholeEdges /\ drifts = 0
  BY DEF Init, WholeEdges
<1>3. IInv /\ SchemaInv /\ WholeEdges /\ [Next]_vars => WholeEdges'
  BY StaysWhole
<1>4. IInv /\ drifts = 0 /\ [Next]_vars => (drifts = 0)'
  BY NoDrift
<1>5. Init => Ledger!Init
  BY DEF Init, Ledger!Init
<1>6. /\ IInv /\ IInv' /\ QuietAtRevision /\ QuietAtRevision'
      /\ WholeEdges /\ WholeEdges' /\ drifts = 0 /\ (drifts = 0)'
      /\ [Next]_vars /\ [boundary' = boundary /\ current' >= boundary]_vars
      => [Ledger!Next]_(Ledger!ledger)
  <2>1. [boundary' = boundary /\ current' >= boundary]_vars => boundary' = boundary
    BY DEF vars, position
  <2> QED
    BY <2>1, StepImplementsLedger
<1> QED
  BY <1>1, <1>2, <1>3, <1>4, <1>5, <1>6, QuietIsAtRevision, BoundaryStays, PTL
    DEF Spec, ImplementsLedger, Ledger!Spec, BoundaryFrozen
=============================================================================

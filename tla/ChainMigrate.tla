---------------------------- MODULE ChainMigrate ----------------------------
(***************************************************************************)
(* One database under `migrate apply` and `migrate rollback`                *)
(* (internal/migrate/apply_chain.go, rollback_chain.go, tracking_chain.go). *)
(*                                                                         *)
(* Several clients, each a process with its own connection and its own     *)
(* checkout of the chain, run the two commands against the same database.  *)
(* A command takes the session advisory lock, reads the chain position,    *)
(* works through one edge after another and releases the lock.  It may die *)
(* or fail between any two statements; the operator then runs it again.    *)
(*                                                                         *)
(* The chain is linear here: revision r is what edge r produces, revision  *)
(* 0 is genesis.  Which edges a position needs when the chain forks, is    *)
(* squashed or rebased is the subject of ChainStore.                       *)
(***************************************************************************)
EXTENDS Naturals, FiniteSets, Sequences

CONSTANTS
  Clients,      \* the processes that run migrate commands
  NoClient,     \* nobody: the holder of the free advisory lock
  Objects,      \* the schema objects the ops touch
  Chain,        \* Chain[e] is the op sequence of edge e
  Stages,       \* Stages[e][k]: the schema after the first k ops of edge e
  MaxOps,       \* no edge has more ops than this
  Floors,       \* the revisions a database may have been baselined at
  Checkouts,    \* the heads of the clients' checkouts (prefixes of Chain)
  Commands,     \* the commands operators issue
  MaxAborts,    \* bound: commands that die or fail for an outside reason
  MaxDrifts     \* bound: changes made to the database outside pgdesign

Edges == 1..Len(Chain)
Revisions == 0..Len(Chain)
Seqs == 1..MaxOps
LastSeq(e) == Len(Chain[e])

(***************************************************************************)
(* What an object looks like: "valid" is as its creation leaves it,        *)
(* "altered" as one alteration (or one run of a backfill) leaves it, and   *)
(* "invalid" is an INVALID index or data transformed twice.                *)
(***************************************************************************)
ObjectStates == {"absent", "valid", "altered", "invalid"}
RowStates == {"none", "intended", "confirmed"}

NonTransactional ==
  {"create_index_concurrently", "drop_index_concurrently",
   "alter_enum_add_value"}
OpKinds == NonTransactional \union {"create", "drop", "alter", "backfill"}

(***************************************************************************)
(* down is TRUE when the op's journal row records a down-op.  PostgreSQL    *)
(* cannot drop an enum value, so adding one never does.                    *)
(***************************************************************************)
Ops == {op \in [kind : OpKinds, obj : Objects, down : BOOLEAN] :
          op.kind = "alter_enum_add_value" => ~op.down}

ASSUME ClientsAssumption == NoClient \notin Clients
ASSUME ChainAssumption ==
  /\ MaxOps \in Nat
  /\ Chain \in Seq(Seq(Ops))
  /\ \A e \in 1..Len(Chain) : Len(Chain[e]) \in 1..MaxOps
ASSUME BoundsAssumption ==
  /\ MaxAborts \in Nat /\ MaxDrifts \in Nat
  /\ Floors \subseteq 0..Len(Chain)
  /\ Checkouts \subseteq 1..Len(Chain)
  /\ Commands \subseteq {"apply", "rollback"}

-----------------------------------------------------------------------------
(***************************************************************************)
(* The domain check an op declares, when PostgreSQL accepts its statement, *)
(* and what the statement leaves behind.                                   *)
(***************************************************************************)
Precondition(kind, s) ==
  /\ kind \in {"create", "create_index_concurrently"} => s = "absent"
  /\ kind \in {"drop", "drop_index_concurrently", "alter_enum_add_value"}
       => s # "absent"
  /\ kind = "alter" => s = "valid"

SqlAccepts(kind, s) ==
  /\ kind \in {"create", "create_index_concurrently"} => s = "absent"
  /\ kind \in {"drop", "alter", "unalter", "backfill", "alter_enum_add_value"}
       => s # "absent"

Effect(kind, s) ==
  CASE kind \in {"create", "create_index_concurrently", "unalter"} -> "valid"
    [] kind \in {"drop", "drop_index_concurrently"}                -> "absent"
    [] kind \in {"alter", "alter_enum_add_value"}                  -> "altered"
    [] kind = "backfill" -> IF s = "valid" THEN "altered" ELSE "invalid"
    [] kind = "vacuous"  -> s

\* The op a journal row records to undo an op of the given kind.  The declared
\* inverse of a data change is a bare comment: data is not restored.
DownKind(kind) ==
  CASE kind = "create"                    -> "drop"
    [] kind = "drop"                      -> "create"
    [] kind = "alter"                     -> "unalter"
    [] kind = "backfill"                  -> "vacuous"
    [] kind = "create_index_concurrently" -> "drop_index_concurrently"
    [] kind = "drop_index_concurrently"   -> "create_index_concurrently"

\* Mutant: a resumed index build is run again like any other statement.
RebuildsNever(kind, resume) == FALSE

\* A resumed CREATE INDEX CONCURRENTLY keeps a valid index and otherwise
\* drops what is there and builds again; the other kinds just run again.
Rebuilds(kind, resume) == resume /\ kind = "create_index_concurrently"

ExecAccepts(kind, s, resume) == Rebuilds(kind, resume) \/ SqlAccepts(kind, s)

\* Mutant: CREATE INDEX IF NOT EXISTS, which keeps an INVALID index too.
ExecEffectIfNotExists(kind, s, resume) ==
  IF Rebuilds(kind, resume) /\ s # "absent" THEN s ELSE Effect(kind, s)

ExecEffect(kind, s, resume) ==
  IF Rebuilds(kind, resume) /\ s \in {"valid", "altered"}
    THEN s ELSE Effect(kind, s)

\* What a statement running in autocommit may leave when it is cut short.
\* A resumed build has a second statement, the DROP, to be cut after.
Torn(kind, s, resume) ==
  CASE kind = "create_index_concurrently" ->
         IF s \in {"valid", "altered"} \/ ~ExecAccepts(kind, s, resume)
           THEN {s} ELSE {s, "absent", "invalid"}
    [] kind = "drop_index_concurrently" ->
         IF s = "absent" THEN {s} ELSE {s, "invalid"}
    [] OTHER -> {s, ExecEffect(kind, s, resume)}

(***************************************************************************)
(* The schema revision r's manifest describes.  The ops of an edge lead    *)
(* from the manifest of its parent to the manifest of its target.          *)
(***************************************************************************)
Models ==
  [r \in Revisions |-> IF r = 0 THEN [o \in Objects |-> "absent"]
                                ELSE Stages[r][LastSeq(r)]]

ASSUME StagesAssumption ==
  /\ Stages \in [Edges -> [0..MaxOps -> [Objects -> ObjectStates]]]
  /\ \A e \in Edges : Stages[e][0] = Models[e - 1]
  /\ \A e \in Edges : \A k \in 1..LastSeq(e) :
       LET op == Chain[e][k] IN
         Stages[e][k] =
           [Stages[e][k - 1] EXCEPT ![op.obj] = Effect(op.kind, @)]
-----------------------------------------------------------------------------
VARIABLES
  \* the database
  lock,         \* the client holding the session advisory lock
  tracked,      \* the three managed structures exist
  current,      \* chain_position.current_revision
  inProgress,   \* chain_position.in_progress_edge; 0 is NULL
  boundary,     \* chain_position.boundary_revision
  journal,      \* pgdesign_migration_ops: journal[e][seq]
  objs,         \* the committed state of every schema object
  \* the clients
  pc,           \* where in its command each client is
  job,          \* its local variables
  written,      \* the objects its open transaction has written
  outcome,      \* what its last finished command reported
  \* history
  reversing,    \* edges with a committed down-op, not yet off the journal
  aborts, drifts

position == <<tracked, current, inProgress, boundary>>
history == <<reversing, aborts, drifts>>
vars == <<lock, position, journal, objs, pc, job, written, outcome, history>>

Unwritten == [o \in Objects |-> "unwritten"]

\* head and goal: where the command wants to go.  edge, seq: where it is.
\* rows, pending: the rows it read (confirmed or reversible; intended).
\* staged: the rows its open transaction has written.
Jobs == [head : Revisions, goal : Revisions, edge : Revisions, seq : Nat,
         rows : SUBSET Seqs, pending : SUBSET Seqs, staged : SUBSET Seqs]

NoJob == [head |-> 0, goal |-> 0, edge |-> 0, seq |-> 0,
          rows |-> {}, pending |-> {}, staged |-> {}]

Outcomes == {"none", "applied", "upToDate", "diverged", "rolledBack", "failed"}

ApplyPCs == {"op", "exec", "confirm"}
RollbackPCs == {"back", "execBack"}
PCs == {"idle", "ensure", "plan", "begin", "reconcile", "planBack", "beginBack"}
         \union ApplyPCs \union RollbackPCs

\* A fresh database, or one BaselineChain has just stamped at a revision.
Init ==
  /\ lock = NoClient
  /\ boundary \in Floors
  /\ tracked = (boundary # 0)
  /\ current = boundary
  /\ inProgress = 0
  /\ journal = [e \in Edges |-> [i \in Seqs |-> "none"]]
  /\ objs = Models[boundary]
  /\ pc = [c \in Clients |-> "idle"]
  /\ job = [c \in Clients |-> NoJob]
  /\ written = [c \in Clients |-> Unwritten]
  /\ outcome = [c \in Clients |-> "none"]
  /\ reversing = {}
  /\ aborts = 0
  /\ drifts = 0
-----------------------------------------------------------------------------
Op(c) == Chain[job[c].edge][job[c].seq]
Down(c) == DownKind(Op(c).kind)
InEdge(c) == job[c].seq \in 1..LastSeq(job[c].edge)
IsFinal(c) == job[c].seq = LastSeq(job[c].edge)
Resumes(c) == job[c].seq \in job[c].pending

\* The objects as client c's open transaction sees them.
View(c) ==
  [o \in Objects |-> IF written[c][o] = "unwritten" THEN objs[o]
                                                    ELSE written[c][o]]

Goto(c, label) == pc' = [pc EXCEPT ![c] = label]

\* The deferred tx.Rollback and ReleaseAdvisoryLock of either command.
Release(c, report) ==
  /\ lock' = NoClient
  /\ Goto(c, "idle")
  /\ job' = [job EXCEPT ![c] = NoJob]
  /\ written' = [written EXCEPT ![c] = Unwritten]
  /\ outcome' = [outcome EXCEPT ![c] = report]

\* Mutant: the rows of the ops before it in the segment are lost.
JournaledAlone(c, i, status) ==
  [journal EXCEPT ![job[c].edge] =
     [k \in Seqs |-> IF k = i THEN status ELSE journal[job[c].edge][k]]]

\* Client c's edge with the rows its transaction wrote, and row i as given.
Journaled(c, i, status) ==
  [journal EXCEPT ![job[c].edge] =
     [k \in Seqs |-> IF k = i THEN status
                     ELSE IF k \in job[c].staged THEN "confirmed"
                     ELSE journal[job[c].edge][k]]]

\* Mutant: the edge stays marked in progress.
AdvanceChainPositionOnly(revision) ==
  current' = revision /\ UNCHANGED <<tracked, inProgress, boundary>>

AdvanceChainPosition(revision) ==
  /\ current' = revision
  /\ inProgress' = 0
  /\ UNCHANGED <<tracked, boundary>>

ConfirmedRows(e) == {i \in Seqs : journal[e][i] = "confirmed"}
IntendedRows(e) == {i \in Seqs : journal[e][i] = "intended"}
-----------------------------------------------------------------------------
(***************************************************************************)
(* ApplyChain                                                              *)
(***************************************************************************)

\* pg_try_advisory_lock; a client that does not get it just reports so.
AcquireAdvisoryLock(c) ==
  /\ pc[c] = "idle"
  /\ lock = NoClient
  /\ lock' = c
  /\ \/ "apply" \in Commands /\ Goto(c, "ensure")
     \/ "rollback" \in Commands /\ Goto(c, "planBack")
  /\ outcome' = [outcome EXCEPT ![c] = "none"]
  /\ UNCHANGED <<position, journal, objs, job, written, history>>

\* A fresh database gets the structures and a position at genesis.
EnsureChainStructures(c) ==
  /\ pc[c] = "ensure"
  /\ tracked' = TRUE
  /\ Goto(c, "plan")
  /\ UNCHANGED <<lock, current, inProgress, boundary, journal, objs, job,
                 written, outcome, history>>

\* Mutant: off by one, a path is looked for from the head itself.
EdgesRemainInclusive(h) == current <= h

EdgesRemain(h) == current < h

\* Read the position and ask the path-finder for the edges to the head.
FindApplyPath(c) ==
  /\ pc[c] = "plan"
  /\ \E h \in Checkouts :
       \/ /\ EdgesRemain(h)
          /\ Goto(c, "begin")
          /\ job' = [job EXCEPT ![c] = [NoJob EXCEPT !.head = h,
                                                     !.edge = current + 1]]
          /\ UNCHANGED <<lock, written, outcome>>
       \/ /\ current = h
          /\ Release(c, "upToDate")
       \/ /\ current > h
          /\ Release(c, "failed")      \* NoPathError: off this checkout's chain
  /\ UNCHANGED <<position, journal, objs, history>>

BeginEdge(c) ==
  /\ pc[c] = "begin"
  /\ job' = [job EXCEPT ![c] =
                [@ EXCEPT !.seq = 1,
                          !.rows = ConfirmedRows(job[c].edge),
                          !.pending = IntendedRows(job[c].edge)]]
  /\ inProgress' = job[c].edge
  /\ Goto(c, "op")
  /\ UNCHANGED <<lock, tracked, current, boundary, journal, objs, written,
                 outcome, history>>

AtFreshOp(c) == pc[c] = "op" /\ InEdge(c) /\ job[c].seq \notin job[c].rows

SkipConfirmedOp(c) ==
  /\ pc[c] = "op" /\ InEdge(c)
  /\ job[c].seq \in job[c].rows
  /\ job' = [job EXCEPT ![c].seq = @ + 1]
  /\ UNCHANGED <<lock, position, journal, objs, pc, written, outcome, history>>

RunsInSegment(c) ==
  LET s == View(c)[Op(c).obj] IN
    /\ Op(c).kind \notin NonTransactional
    /\ Precondition(Op(c).kind, s)
    /\ SqlAccepts(Op(c).kind, s)

InSegment(c) ==
  [written EXCEPT ![c][Op(c).obj] = Effect(Op(c).kind, View(c)[Op(c).obj])]

\* A transactional op before the last: checked, executed and journaled in
\* the segment transaction, which stays open.
StageOp(c) ==
  /\ AtFreshOp(c) /\ ~IsFinal(c)
  /\ RunsInSegment(c)
  /\ written' = InSegment(c)
  /\ job' = [job EXCEPT ![c] = [@ EXCEPT
                             !.staged = job[c].staged \union {job[c].seq},
                             !.seq = job[c].seq + 1]]
  /\ UNCHANGED <<lock, position, journal, objs, pc, outcome, history>>

\* The last op, transactional: its segment also advances the position.
LandEdge(c) ==
  /\ AtFreshOp(c) /\ IsFinal(c)
  /\ RunsInSegment(c)
  /\ objs' = [View(c) EXCEPT ![Op(c).obj] = Effect(Op(c).kind, @)]
  /\ journal' = Journaled(c, job[c].seq, "confirmed")
  /\ AdvanceChainPosition(job[c].edge)
  /\ written' = [written EXCEPT ![c] = Unwritten]
  /\ job' = [job EXCEPT ![c] = [@ EXCEPT !.staged = {},
                                         !.seq = job[c].seq + 1]]
  /\ UNCHANGED <<lock, pc, outcome, history>>

\* A non-transactional op: fresh, its precondition is checked and its intent
\* row written; fresh or resumed, the open segment is committed first.
IntendOp(c) ==
  /\ AtFreshOp(c)
  /\ Op(c).kind \in NonTransactional
  /\ ~Resumes(c) => Precondition(Op(c).kind, View(c)[Op(c).obj])
  /\ objs' = View(c)
  /\ journal' = Journaled(c, job[c].seq, "intended")
  /\ written' = [written EXCEPT ![c] = Unwritten]
  /\ job' = [job EXCEPT ![c].staged = {}]
  /\ Goto(c, "exec")
  /\ UNCHANGED <<lock, position, outcome, history>>

ExecuteNonTransactionalOp(c) ==
  /\ pc[c] = "exec"
  /\ ExecAccepts(Op(c).kind, objs[Op(c).obj], Resumes(c))
  /\ objs' = [objs EXCEPT ![Op(c).obj] = ExecEffect(Op(c).kind, @, Resumes(c))]
  /\ Goto(c, "confirm")
  /\ UNCHANGED <<lock, position, journal, job, written, outcome, history>>

\* Confirm the intent row, and advance the position with it when it is last.
ConfirmIntentOp(c) ==
  /\ pc[c] = "confirm"
  /\ journal' = [journal EXCEPT ![job[c].edge][job[c].seq] = "confirmed"]
  /\ \/ IsFinal(c) /\ AdvanceChainPosition(job[c].edge)
     \/ ~IsFinal(c) /\ UNCHANGED position
  /\ job' = [job EXCEPT ![c].seq = @ + 1]
  /\ Goto(c, "op")
  /\ UNCHANGED <<lock, objs, written, outcome, history>>

\* The end of applyEdge: commit a residual segment, go on to the next edge.
EndEdge(c) ==
  /\ pc[c] = "op" /\ ~InEdge(c)
  /\ objs' = View(c)
  /\ journal' = Journaled(c, 0, "none")
  /\ written' = [written EXCEPT ![c] = Unwritten]
  /\ IF job[c].edge < job[c].head
       THEN /\ Goto(c, "begin")
            /\ job' = [job EXCEPT ![c] = [NoJob EXCEPT !.head = job[c].head,
                                                       !.edge = job[c].edge + 1]]
       ELSE /\ Goto(c, "reconcile")
            /\ job' = [job EXCEPT ![c] = [NoJob EXCEPT !.head = job[c].head]]
  /\ UNCHANGED <<lock, position, outcome, history>>

\* Mutant: the live schema is not looked at.
ReconcileAfterApplyBlindly(c) ==
  /\ pc[c] = "reconcile"
  /\ Release(c, "applied")
  /\ UNCHANGED <<position, journal, objs, history>>

\* ReconcileAfterApply: the live database against the head's model.
ReconcileAfterApply(c) ==
  /\ pc[c] = "reconcile"
  /\ Release(c, IF objs = Models[job[c].head] THEN "applied" ELSE "diverged")
  /\ UNCHANGED <<position, journal, objs, history>>
-----------------------------------------------------------------------------
(***************************************************************************)
(* RollbackChain                                                           *)
(***************************************************************************)

\* Mutant: only confirmed rows are reversed.
ReversibleRowsConfirmed(e) == ConfirmedRows(e)

\* The rows rollback reverses: an in-progress edge's intents count as well.
ReversibleRows(e) ==
  ConfirmedRows(e) \union (IF e = inProgress THEN IntendedRows(e) ELSE {})

\* Mutants: no pre-check of the down-ops, none of the boundary.
AllReversibleUnchecked(e) == TRUE
AboveBoundaryUnchecked(goal) == TRUE

\* Every row of the edge records a down-op.
AllReversible(e) == \A i \in ReversibleRows(e) : Chain[e][i].down

\* The path down to revision goal does not start an edge at the boundary.
AboveBoundary(goal) == \A e \in (goal + 1)..current : e # boundary

\* The edges to reverse down to revision goal, in an h-edge checkout, are
\* known, clear of the boundary and reversible.
MayRollBack(h, goal) ==
  LET steps == (goal + 1)..current \union ({inProgress} \ {0}) IN
    /\ tracked
    /\ steps # {}
    /\ \A e \in steps : e <= h
    /\ AboveBoundary(goal)
    /\ \A e \in steps : AllReversible(e)

FirstStep == IF inProgress # 0 THEN inProgress ELSE current

\* Either `rollback` (one step) or `rollback --to goal`.
PlanChainRollback(c) ==
  /\ pc[c] = "planBack"
  /\ \E h \in Checkouts, goal \in 0..current :
       \/ /\ MayRollBack(h, goal)
          /\ Goto(c, "beginBack")
          /\ job' = [job EXCEPT ![c] = [NoJob EXCEPT !.goal = goal,
                                                     !.edge = FirstStep]]
          /\ UNCHANGED <<lock, written, outcome>>
       \/ /\ ~MayRollBack(h, goal)
          /\ Release(c, "failed")
  /\ UNCHANGED <<position, journal, objs, history>>

\* reverseEdge: load the edge's rows, start at the highest seq.
BeginReverse(c) ==
  /\ pc[c] = "beginBack"
  /\ job' = [job EXCEPT ![c] = [@ EXCEPT !.seq = LastSeq(job[c].edge),
                                         !.rows = ReversibleRows(job[c].edge)]]
  /\ Goto(c, "back")
  /\ UNCHANGED <<lock, position, journal, objs, written, outcome, history>>

HasDown(c) == job[c].seq \in job[c].rows /\ Op(c).down

\* Mutant: the loop does not move on.
SkipUnrecordedRowInPlace(c) ==
  /\ pc[c] = "back" /\ job[c].seq > 0
  /\ ~HasDown(c)
  /\ UNCHANGED vars

SkipUnrecordedRow(c) ==
  /\ pc[c] = "back" /\ job[c].seq > 0
  /\ ~HasDown(c)
  /\ job' = [job EXCEPT ![c].seq = @ - 1]
  /\ UNCHANGED <<lock, position, journal, objs, pc, written, outcome, history>>

\* A transactional down-op joins the open segment.
ReverseOp(c) ==
  /\ pc[c] = "back" /\ job[c].seq > 0
  /\ HasDown(c)
  /\ Down(c) \notin NonTransactional
  /\ SqlAccepts(Down(c), View(c)[Op(c).obj])
  /\ written' =
       [written EXCEPT ![c][Op(c).obj] = Effect(Down(c), View(c)[Op(c).obj])]
  /\ job' = [job EXCEPT ![c].seq = @ - 1]
  /\ UNCHANGED <<lock, position, journal, objs, pc, outcome, history>>

\* A non-transactional down-op commits the open segment before it runs.
BreakSegment(c) ==
  /\ pc[c] = "back" /\ job[c].seq > 0
  /\ HasDown(c)
  /\ Down(c) \in NonTransactional
  /\ objs' = View(c)
  /\ reversing' = IF written[c] = Unwritten THEN reversing
                  ELSE reversing \union {job[c].edge}
  /\ written' = [written EXCEPT ![c] = Unwritten]
  /\ Goto(c, "execBack")
  /\ UNCHANGED <<lock, position, journal, job, outcome, aborts, drifts>>

ReverseNonTransactionalOp(c) ==
  /\ pc[c] = "execBack"
  /\ SqlAccepts(Down(c), objs[Op(c).obj])
  /\ objs' = [objs EXCEPT ![Op(c).obj] = Effect(Down(c), @)]
  /\ reversing' = reversing \union {job[c].edge}
  /\ job' = [job EXCEPT ![c].seq = @ - 1]
  /\ Goto(c, "back")
  /\ UNCHANGED <<lock, position, journal, written, outcome, aborts, drifts>>

\* An edge in progress has not moved the position yet.
TargetAfter(e) == IF e = inProgress THEN current ELSE e - 1

\* The last segment: delete the edge's rows and step the position back.
DeleteRolledBackOps(c) ==
  LET e == job[c].edge
      targetAfter == TargetAfter(e) IN
  /\ pc[c] = "back" /\ job[c].seq = 0
  /\ objs' = View(c)
  /\ journal' = [journal EXCEPT ![e] = [i \in Seqs |-> "none"]]
  /\ AdvanceChainPosition(targetAfter)
  /\ reversing' = reversing \ {e}
  /\ IF job[c].goal < targetAfter
       THEN /\ Goto(c, "beginBack")
            /\ job' = [job EXCEPT ![c] = [NoJob EXCEPT !.goal = job[c].goal,
                                                       !.edge = targetAfter]]
            /\ written' = [written EXCEPT ![c] = Unwritten]
            /\ UNCHANGED <<lock, outcome>>
       ELSE Release(c, "rolledBack")
  /\ UNCHANGED <<aborts, drifts>>
-----------------------------------------------------------------------------
(***************************************************************************)
(* What goes wrong                                                         *)
(***************************************************************************)

\* The database refuses the next op: its precondition or its statement fails.
Refused(c) ==
  \/ /\ AtFreshOp(c)
     /\ IF Op(c).kind \in NonTransactional
          THEN /\ ~Resumes(c)
               /\ ~Precondition(Op(c).kind, View(c)[Op(c).obj])
          ELSE ~RunsInSegment(c)
  \/ /\ pc[c] = "exec"
     /\ ~ExecAccepts(Op(c).kind, objs[Op(c).obj], Resumes(c))
  \/ /\ pc[c] = "back" /\ job[c].seq > 0 /\ HasDown(c)
     /\ Down(c) \notin NonTransactional
     /\ ~SqlAccepts(Down(c), View(c)[Op(c).obj])
  \/ /\ pc[c] = "execBack"
     /\ ~SqlAccepts(Down(c), objs[Op(c).obj])

Refuse(c) ==
  /\ Refused(c)
  /\ Release(c, "failed")
  /\ UNCHANGED <<position, journal, objs, history>>

\* The process dies, its connection drops or a statement fails (lock_timeout,
\* disk, cancel): the open transaction rolls back and the session lock goes.
\* Only a statement running in autocommit may leave something behind.
Abort(c) ==
  /\ pc[c] # "idle"
  /\ aborts < MaxAborts
  /\ aborts' = aborts + 1
  /\ Release(c, "failed")
  /\ \/ /\ pc[c] \notin {"exec", "execBack"}
        /\ UNCHANGED <<objs, reversing>>
     \/ /\ pc[c] = "exec"
        /\ \E s \in Torn(Op(c).kind, objs[Op(c).obj], Resumes(c)) :
             objs' = [objs EXCEPT ![Op(c).obj] = s]
        /\ UNCHANGED reversing
     \/ /\ pc[c] = "execBack"
        /\ \E s \in Torn(Down(c), objs[Op(c).obj], FALSE) :
             objs' = [objs EXCEPT ![Op(c).obj] = s]
        /\ reversing' = reversing \union {job[c].edge}
  /\ UNCHANGED <<position, journal, drifts>>

\* Somebody changes the database by hand.  An object the open transaction has
\* written is locked until that transaction ends.
Drift(o) ==
  /\ drifts < MaxDrifts
  /\ drifts' = drifts + 1
  /\ \A c \in Clients : written[c][o] = "unwritten"
  /\ \E s \in {"absent", "valid", "altered"} \ {objs[o]} :
       objs' = [objs EXCEPT ![o] = s]
  /\ UNCHANGED <<lock, position, journal, pc, job, written, outcome,
                 reversing, aborts>>
-----------------------------------------------------------------------------
ApplyStep(c) ==
  \/ EnsureChainStructures(c) \/ FindApplyPath(c) \/ BeginEdge(c)
  \/ SkipConfirmedOp(c) \/ StageOp(c) \/ LandEdge(c)
  \/ IntendOp(c) \/ ExecuteNonTransactionalOp(c) \/ ConfirmIntentOp(c)
  \/ EndEdge(c) \/ ReconcileAfterApply(c)

RollbackStep(c) ==
  \/ PlanChainRollback(c) \/ BeginReverse(c) \/ SkipUnrecordedRow(c)
  \/ ReverseOp(c) \/ BreakSegment(c) \/ ReverseNonTransactionalOp(c)
  \/ DeleteRolledBackOps(c)

Step(c) == ApplyStep(c) \/ RollbackStep(c) \/ Refuse(c)

Next ==
  \/ \E c \in Clients : AcquireAdvisoryLock(c) \/ Step(c) \/ Abort(c)
  \/ \E o \in Objects : Drift(o)

Spec == Init /\ [][Next]_vars

(***************************************************************************)
(* A command in hand goes on until it ends; a free lock is taken by some   *)
(* client sooner or later, because operators retry a failed apply.         *)
(***************************************************************************)
Fairness ==
  /\ \A c \in Clients : WF_vars(Step(c))
  /\ WF_vars(\E c \in Clients : AcquireAdvisoryLock(c))

FairSpec == Spec /\ Fairness
-----------------------------------------------------------------------------
(***************************************************************************)
(* Properties                                                              *)
(***************************************************************************)

\* Every variable holds a value of its kind: the columns of the tracking
\* structures within their CHECK constraints, each client at a known step.
TypeOK ==
  /\ lock \in Clients \union {NoClient}
  /\ tracked \in BOOLEAN
  /\ current \in Revisions
  /\ inProgress \in Revisions
  /\ boundary \in Revisions
  /\ journal \in [Edges -> [Seqs -> RowStates]]
  /\ objs \in [Objects -> ObjectStates]
  /\ pc \in [Clients -> PCs]
  /\ job \in [Clients -> Jobs]
  /\ written \in [Clients -> [Objects -> ObjectStates \union {"unwritten"}]]
  /\ outcome \in [Clients -> Outcomes]
  /\ reversing \subseteq Edges
  /\ aborts \in Nat
  /\ drifts \in Nat

HasRows(e) == \E i \in Seqs : journal[e][i] # "none"
FullyConfirmed(e) == \A i \in 1..LastSeq(e) : journal[e][i] = "confirmed"

\* The position and the journal never disagree (advanceChainPosition shares
\* the final op's transaction, deleteRolledBackOps the last reversal's): from
\* the boundary to the current revision every edge is confirmed op by op, no
\* edge beyond it has a row unless it is the one marked in progress, and that
\* one is always the next edge or none.
PositionMatchesJournal ==
  /\ boundary <= current
  /\ inProgress \in {0, current + 1}
  /\ \A e \in (boundary + 1)..current : FullyConfirmed(e)
  /\ \A e \in Edges : e > current /\ HasRows(e) => e = inProgress

\* An intent row is the frontier of its edge: all rows before it are confirmed
\* and there are none after it, so a resume (loadEdgeOpStatus) can trust that
\* what it skips is a prefix and that one op at most may be half done.
IntentIsFrontier ==
  \A e \in Edges, i \in Seqs :
    journal[e][i] = "intended" =>
      /\ \A k \in 1..(i - 1) : journal[e][k] = "confirmed"
      /\ \A k \in Seqs : k > i => journal[e][k] = "none"

\* What the journal says of the schema.
Journalled ==
  IF inProgress = 0 THEN Models[current]
  ELSE Stages[inProgress][Cardinality(ConfirmedRows(inProgress))]

\* The objects an edge under reversal may already have lost: those of its ops
\* that have a row.
HalfReversed(o) ==
  \E e \in reversing : \E i \in 1..LastSeq(e) :
    journal[e][i] # "none" /\ Chain[e][i].obj = o

\* The objects some op has started on and the journal does not yet vouch for:
\* those of an op with an intent row, and those of an edge under reversal.
Unsettled(o) ==
  \/ \E e \in Edges : \E i \in IntendedRows(e) : Chain[e][i].obj = o
  \/ HalfReversed(o)

\* The journal tells the truth about the schema through every crash, resume
\* and rollback: an object that is settled looks exactly as the confirmed ops
\* leave it, so no op with a row was lost and none without a row, or with one,
\* ran again.
JournalMatchesObjects ==
  drifts = 0 => \A o \in Objects : ~Unsettled(o) => objs[o] = Journalled[o]

\* A database at rest, with no edge in progress, is exactly at the revision
\* its position names: a command that died left an edge wholly applied, wholly
\* reversed or marked in progress.
AtRestAtRevision ==
  lock = NoClient /\ inProgress = 0 /\ drifts = 0 => objs = Models[current]

\* The database keeps the promise of RevisionLedger: it is at a revision and
\* looks like it, or is marked as moving to the next (checked on a chain whose
\* down-ops are transactional, without drift).
Ledger ==
  INSTANCE RevisionLedger
    WITH Top <- Len(Chain), Shapes <- [Objects -> ObjectStates],
         Shape <- Models, rev <- current, next <- inProgress,
         floor <- boundary, shape <- objs

ImplementsLedger == Ledger!Spec

\* What a command reports is so.  "applied" is said of a database that looks
\* like the head; a database found diverged after its apply was changed by
\* hand or has an edge half reversed; "up to date" and "rolled back" leave no
\* such surprise either.
ReportsAreTrue ==
  [][\A c \in Clients :
       outcome'[c] # outcome[c] =>
         /\ outcome'[c] = "applied" => objs' = Models[current'] /\ inProgress' = 0
         /\ outcome'[c] = "diverged" => drifts # 0 \/ reversing # {}
         /\ outcome'[c] \in {"upToDate", "rolledBack"}
              /\ inProgress' = 0 /\ reversing' = {} /\ drifts' = 0
                => objs' = Models[current']]_vars

\* Rollback never takes the database below the revision it was adopted at,
\* and nothing moves that boundary.
BoundaryFrozen == [][boundary' = boundary /\ current' >= boundary]_vars

\* Once confirmed, an op that records no down-op is there to stay: whatever is
\* rolled back, the pre-check refuses before the first effect.
IrreversibleStays ==
  [][\A e \in Edges : \A i \in 1..LastSeq(e) :
       journal[e][i] = "confirmed" /\ ~Chain[e][i].down
         => journal'[e][i] = "confirmed"]_vars

\* Whatever happens to a command, it ends and lets go of the lock.
CommandsEnd == \A c \in Clients : lock = c ~> lock # c

\* However often the operators' applies die, once they stop dying one of them
\* brings the database to the head of the chain.
ApplyLands == <>[](current = Len(Chain) /\ inProgress = 0)
-----------------------------------------------------------------------------
(***************************************************************************)
(* Why the journal and the position agree: the inductive invariant of      *)
(* ChainMigrateProofs.                                                     *)
(***************************************************************************)

\* The lock is held by the one client inside a command.
LockHeld ==
  \A c \in Clients :
    /\ pc[c] # "idle" <=> lock = c
    /\ pc[c] = "idle" => job[c] = NoJob

\* The rows of an edge are a prefix of its ops, confirmed up to the last one.
RowsArePrefix ==
  \A e \in Edges, i \in Seqs :
    journal[e][i] # "none" =>
      i <= LastSeq(e) /\ \A k \in 1..(i - 1) : journal[e][k] = "confirmed"

\* An edge's last op is confirmed only in the transaction that lands the edge.
LastOpLands ==
  \A e \in Edges : journal[e][LastSeq(e)] = "confirmed" => e <= current

\* What client c knows of the edge it applies is still so.
ApplyInv(c) ==
  LET j == job[c] IN
    /\ pc[c] \in {"begin"} \union ApplyPCs =>
         j.edge \in Edges /\ j.edge <= j.head
    /\ pc[c] = "begin" => j.edge = current + 1 /\ j.staged = {}
    /\ pc[c] \in ApplyPCs =>
         /\ j.seq \in 1..(LastSeq(j.edge) + 1)
         /\ j.staged \subseteq 1..(j.seq - 1)
         /\ j.rows \subseteq ConfirmedRows(j.edge)
         /\ \A k \in 1..(j.seq - 1) :
              k \in j.staged \/ journal[j.edge][k] = "confirmed"
         /\ IF j.seq <= LastSeq(j.edge)
              THEN inProgress = j.edge /\ j.edge = current + 1
              ELSE inProgress = 0 /\ j.edge = current /\ j.staged = {}
    /\ pc[c] = "op" =>
         \A k \in ConfirmedRows(j.edge) : k >= j.seq => k \in j.rows
    /\ pc[c] \in {"exec", "confirm"} =>
         /\ j.seq <= LastSeq(j.edge)
         /\ j.staged = {}
         /\ journal[j.edge][j.seq] = "intended"

\* What client c knows of the edge it reverses is still so: the pre-check holds
\* for that edge and for those to come.
RollbackInv(c) ==
  LET j == job[c] IN
    pc[c] \in {"beginBack"} \union RollbackPCs =>
      /\ j.edge \in Edges
      /\ j.edge = FirstStep
      /\ j.goal >= boundary
      /\ j.goal <= (IF inProgress = 0 THEN current - 1 ELSE current)
      /\ \A e \in Edges : e > j.goal => AllReversible(e)
      /\ pc[c] \in RollbackPCs => j.seq \in 0..LastSeq(j.edge)
      /\ pc[c] = "execBack" => j.seq > 0 /\ HasDown(c)

IInv ==
  /\ TypeOK
  /\ LockHeld
  /\ PositionMatchesJournal
  /\ RowsArePrefix
  /\ LastOpLands
  /\ \A c \in Clients : ApplyInv(c) /\ RollbackInv(c)
-----------------------------------------------------------------------------
(***************************************************************************)
(* Why the journal and the schema agree: the inductive invariant of        *)
(* ChainSchemaProofs, and what it asks of the chain.                       *)
(***************************************************************************)

\* Ops 1..n of edge e touch object o.
Touched(e, n, o) == \E k \in 1..n : Chain[e][k].obj = o

\* The recorded down-ops restore the schema: the down-op of the first op of an
\* edge on an object, the last to run when the edge is reversed, leaves that
\* object as the parent revision has it.  (Not so for a chain that transforms
\* existing data and records an inverse of that: the inverse does nothing.)
DownOpsRestore ==
  \A e \in Edges : \A k \in 1..LastSeq(e) :
    LET op == Chain[e][k] IN
      op.down /\ ~Touched(e, k - 1, op.obj) =>
        \A s \in ObjectStates :
          Effect(DownKind(op.kind), s) = Models[e - 1][op.obj]

\* No edge that can be reversed has a down-op that runs outside a transaction:
\* such an op comes after one that records no down-op at all.
DownOpsTransactional ==
  \A e \in Edges : \A k \in 1..LastSeq(e) :
    Chain[e][k].down /\ DownKind(Chain[e][k].kind) \in NonTransactional =>
      \E j \in 1..(k - 1) : ~Chain[e][j].down

\* The edges below the boundary were never applied here.
NothingBelowBoundary == \A e \in Edges : e <= boundary => ~HasRows(e)

\* Only an op that runs outside a transaction leaves an intent row.
IntentsAutocommit ==
  \A e \in Edges, i \in Seqs :
    journal[e][i] = "intended" => Chain[e][i].kind \in NonTransactional

\* An index under construction is absent, invalid or built, never altered: so a
\* resumed build may keep it when it is valid.
BuildsAreFresh ==
  inProgress # 0 /\ drifts = 0 =>
    \A i \in IntendedRows(inProgress) :
      LET op == Chain[inProgress][i] IN
        op.kind = "create_index_concurrently" /\ ~HalfReversed(op.obj)
          => objs[op.obj] # "altered"

\* What the transaction of client c, applying an edge, has done and knows.
ApplySchema(c) ==
  LET j == job[c] IN
    /\ pc[c] \notin {"op", "back"} => written[c] = Unwritten
    /\ pc[c] \in ApplyPCs =>
         \A k \in j.pending : k >= j.seq => journal[j.edge][k] = "intended"
    /\ pc[c] = "op" =>
         /\ \A k \in j.staged : journal[j.edge][k] = "none"
         /\ j.staged = {} => written[c] = Unwritten
         /\ j.staged # {} /\ drifts = 0 =>
              \A o \in Objects :
                ~Unsettled(o) => View(c)[o] = Stages[j.edge][j.seq - 1][o]
    /\ pc[c] = "confirm" /\ drifts = 0 /\ ~HalfReversed(Op(c).obj) =>
         objs[Op(c).obj] = Stages[j.edge][j.seq][Op(c).obj]
    /\ pc[c] = "reconcile" => j.head = current /\ inProgress = 0

\* What the transaction of client c, reversing an edge, has restored.
RollbackSchema(c) ==
  LET j == job[c] IN
    pc[c] \in RollbackPCs =>
      /\ j.rows = ReversibleRows(j.edge)
      /\ \A o \in Objects : written[c][o] # "unwritten" =>
           \E k \in j.rows : k > j.seq /\ Chain[j.edge][k].obj = o
      /\ drifts = 0 =>
           \A o \in Objects : \A k \in j.rows :
             k > j.seq /\ Chain[j.edge][k].obj = o /\ ~Touched(j.edge, j.seq, o)
               => View(c)[o] = Models[j.edge - 1][o]

SchemaInv ==
  /\ NothingBelowBoundary
  /\ IntentsAutocommit
  /\ BuildsAreFresh
  /\ JournalMatchesObjects
  /\ \A c \in Clients : ApplySchema(c) /\ RollbackSchema(c)

\* With no edge in progress, none half reversed and no change made by hand, the
\* database is at the revision its position names.
QuietAtRevision ==
  inProgress = 0 /\ drifts = 0 /\ reversing = {} => objs = Models[current]

\* No edge is half reversed, or about to be.
WholeEdges == reversing = {} /\ \A c \in Clients : pc[c] # "execBack"
=============================================================================

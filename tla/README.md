# pgdesign: formal models

pgdesign keeps a PostgreSQL schema as TOML files and derives everything else from them: SQL,
code, diagrams and migrations. Four parts of it are modelled here.

- **The migration chain** (`internal/migrate`, `internal/chain`) changes live databases and the
  files every colleague shares, runs outside transactions where PostgreSQL demands it, and has
  to come back from a crash at any point. This is where data can be lost, and the largest part
  of this directory: `ChainMigrate` (inside an edge) and `ChainStore` (the graph of edges).
- **From a schema change to an edge** (`internal/diff`, `internal/migrate/generate.go`): which
  ops a change becomes, in which order, and what PostgreSQL makes of them: `SchemaPlan`.
- **The normal-form audit** (`internal/fd`, `internal/audit`): an algorithm on functional
  dependencies, checked and proved against the textbook: `NormalForms`.
- **The audit jobs of the server** (`internal/serve`): concurrent jobs with limits, deadlines,
  cancellation and a shared pool: `AuditJobs`.

## The system

| Component | State it keeps | Operations | What makes it correct |
|---|---|---|---|
| **apply** (`apply_chain.go`, `tracking_chain.go`, `state.go`, `reconcile.go`) | per database: advisory lock, `pgdesign_chain_position` (current revision, edge in progress, boundary), `pgdesign_migration_ops` (one row per op, `intended` or `confirmed`), the schema itself | create the structures, pick a path, run each edge op by op in segments, intend/execute/confirm concurrent statements, advance, reconcile | position, journal and schema agree after any crash; every op takes effect exactly once; a retried apply gets there |
| **rollback** (`rollback_chain.go`) | the same | plan backwards, check that all ops are reversible, run the recorded down-ops in reverse, delete the rows, step back | never below the boundary, never half way into a range that cannot be reversed |
| **chain store** (`chain_generate.go`, `squash_chain.go`, `rebase.go`, `remap.go`, `chain_manifest.go`, `consistency.go`) | files shared through git: live edges, archived edges, revision manifests, the rebase remap | generate, squash, rebase: several file writes each, no transaction around them | a database at any revision of the past still finds a path to the head; nothing is orphaned |
| **path-finder** (`path_finder.go`, `internal/chain/edge.go`) | none | canonicalise through the remap, find heads, choose a path | total and deterministic; the chosen path leads to the head's schema |
| **adoption** (`upgrade.go`, `baseline.go`) | position and journal rows of a legacy or unmanaged database | verify, then stamp in one transaction | what is stamped is what is there |
| **self-contained ops** (`selfcontained_*.go`, `sql_gen.go`, `predicate_derive.go`) | content-addressed op bodies | render SQL, derive preconditions and the inverse | the inverse undoes; the precondition is violated when and only when the world has drifted |
| **differ and rename gate** (`internal/diff`, order from `internal/model`, `internal/graph`) | none | match objects by name, order them, ask about plausible renames | no column is emptied because it was renamed |
| **diff to ops** (`generate.go`, `chain_generate.go`, `phase.go`) | none | order the ops of a schema change and give each its down | the ops lead to the desired schema, simulated and in the database, and back; no op refers to what does not exist yet |
| **object store, revisions** (`internal/objstore`, `internal/rev`, `internal/enc`) | content-addressed files | put, get, hash | equal content, equal id |
| **functional dependencies and audit** (`internal/fd`, `internal/audit`) | none | closure, candidate keys, minimal cover, normal-form checks, decompositions | the results are what the definitions say |
| **server** (`internal/serve`) | audit jobs under a mutex, a connection pool | start, poll, cancel, evict; the body of a job | limits hold, a running job is never evicted, connections come back, every job ends |
| **test databases** (`internal/testdb`) | templates shared between processes | acquire, clone, drop | one builder per template |
| **imports** (`internal/imports`) | a lock file of pinned surfaces | load, check, update | what is pinned is what is used |
| model, parser, validation, introspection, SQL, generators, configuration, command line | none that outlives a call | pure functions or read-only queries | tested by the repository's own property tests |

Components meet in four places. `apply` and `rollback` share one database with every other
client that runs them, kept apart by a session advisory lock that PostgreSQL drops when a
client dies. They read the chain store, which `generate`, `squash` and `rebase` change on
somebody else's machine and git brings over whenever it likes. And the tracking structures
are written by apply, rollback, upgrade and baseline alike, through the one set of writers
in `tracking_chain.go`. The generator writes the edges the chain store keeps and apply runs: an
op list that PostgreSQL refuses, or whose downs do not undo it, surfaces only there.

What is hard here, and hard to test: crashes between two statements, of which only some
share a transaction; statements that leave something behind when cut short (an INVALID
index); rows read once and used in a loop that writes them; two clients with checkouts of
different heads; an abort of an edge half done; file operations cut short after the first
file; a graph of edges in which squashing and rebasing create parallel paths; an op list whose
order must satisfy every kind of reference at once; loops that change the list they reason
from; and jobs that are cancelled, expire and finish at the same moment.
`PROJECT.json` lists each of these hazards at its line with the properties that watch it.

## Modules

| Module | What it is |
|---|---|
| `ChainMigrate` | one database under `migrate apply` and `migrate rollback`, any number of clients |
| `RevisionLedger` | what those commands promise, in five actions and no crashes |
| `MCChainMigrate` | the chains the runs use |
| `ChainMigrateProofs` | the theorems about the position and the journal of `ChainMigrate` |
| `ChainSchemaProofs` | the theorems about its schema, and that it implements `RevisionLedger` |
| `ChainGraph` | edges, heads, the remap and the path-finder, as operators |
| `ChainStore` | the chain on disk under `generate`, `squash` and `rebase`, and databases migrated along it |
| `RevisionLine` | what a chain without branches promises a database, in two actions |
| `MCChainStore` | the edits the runs use |
| `ChainGraphProofs` | lemmas about simulation, the remap, heads, walks and the path-finder |
| `ChainStoreProofs` | the theorems about `ChainStore`, and that it implements `RevisionLine` |
| `Recursion` | least and greatest numbers, induction up to a bound, recursive functions |
| `SchemaDiff` | two schemas and what differs: canonical order, differ, rename gate, as operators |
| `PostgresDDL` | which DDL statements PostgreSQL refuses and what they leave behind |
| `SchemaPlan` | a schema change on its way through the diff, the gate, the generator and the database, and back |
| `MCSchemaPlan` | the catalog of objects and the schema pairs of the runs |
| `SchemaPlanProofs` | the theorems that a generated edge reproduces its endpoint and that its downs undo it |
| `FuncDeps` | functional dependencies: closure, minimal cover, projection, as operators |
| `NormalForms` | the audit of one table, loop by loop |
| `MCNormalForms` | the tables the runs audit |
| `NormalFormsProofs` | the theorems about `NormalForms` |
| `AuditJobs` | the job manager of the server and the body of an audit job |
| `AuditJobsProofs` | the theorems about `AuditJobs` |

`ChainMigrate` is the inside of one edge, with its transactions, rows and crashes;
`ChainStore` is the graph of edges, where an edge is applied in one step and only its
ops and endpoints matter. They meet in the position: what `ChainMigrate` numbers,
`ChainStore` finds in the files. `SchemaPlan` makes the ops that `ChainMigrate` takes as the
constant `Chain`: there a statement has the effect its kind has on one object, in `SchemaPlan` it is
accepted or refused for what other objects refer to. The three are not composed; the audit and
its jobs share nothing with them.

### ChainMigrate

The chain is linear and revisions are numbered: edge `r` leads from revision `r - 1` to
revision `r`, and `0` is genesis. `Chain[e]` is the op sequence of an edge, `Models[r]` the
schema of a manifest, and `Stages[e][k]` what the first `k` ops of edge `e` lead to.

| Variable | In the code |
|---|---|
| `lock` | `pg_try_advisory_lock(hashtext('pgdesign_migrate'))` |
| `tracked` | the three managed structures exist |
| `current`, `inProgress`, `boundary` | the row of `pgdesign_chain_position`; `0` for `''` and for NULL |
| `journal[e][i]` | the row `(edge_id, seq)` of `pgdesign_migration_ops` |
| `objs` | the committed schema: each object absent, valid, altered, or invalid (an INVALID index; data transformed twice) |
| `pc`, `job` | where a client is in its command, and its local variables |
| `written` | what its open transaction (the segment) has changed so far |
| `outcome` | what its last command reported |
| `reversing` | history: edges some of whose down-ops are committed and whose rows are still there |
| `aborts`, `drifts` | the bounded counters of failures and of changes made by hand |

A step of a client is one stretch of code between two points at which the database could be
left as it is. The statements of an open transaction are separate steps (`StageOp`), since
the client can die between them, and they become visible together (`LandEdge`, `IntendOp`,
`EndEdge`). The rows are read in `BeginEdge` with the marker set in the same step: both are
single statements of one client that holds the lock, and nothing else writes them. A
concurrent op takes three steps, `IntendOp`, `ExecuteNonTransactionalOp` and
`ConfirmIntentOp`, and only the second may leave something behind when cut short (`Torn`).

A concurrent index build that is resumed keeps a valid index and rebuilds an invalid or
absent one; every other statement just runs again, as in `executeNonTransactionalOp`. A row
records a down-op unless its op cannot be inverted, which the constant `Chain` says of each
op; the kinds that never can are excluded by `Ops`. The declared inverse of a data change is
a comment and does nothing.

Failures are explicit: `Refuse` when a precondition or a statement is refused by what is in
the database, `Abort` when the process dies, the connection drops or a statement fails for a
reason outside the model, `Drift` when somebody changes an object by hand.

### RevisionLedger and the refinement

`RevisionLedger` knows a revision, the revision a move leads to, the floor and the shape of
the schema. While a move is announced the shape may be anything; otherwise it is exactly
that of the revision. `ChainMigrate` implements it under the mapping `rev <- current`,
`next <- inProgress`, `shape <- objs`, checked by TLC as the property `ImplementsLedger`,
on chains whose rows record no concurrent down-op: with one, a rollback leaves the promise
(see the disagreements under Findings).

### ChainGraph and ChainStore

A revision is its content, the set of schema objects its manifest lists, as the code's
revisions are hashes of their content. Genesis is the empty set; every model has its header
(`Meta`), so no other revision is empty. An edge is a record of its endpoints, its ops and
its slug, which is its identity in the code too (`Edge.ID` leaves the consolidation marker
out; the model keeps it, with the superseded edges, in `supersedes`).

| Variable | In the code |
|---|---|
| `live`, `archive`, `manifests` | `migrations/chain/`, `migrations/archive/`, `migrations/revisions/` |
| `supersedes` | the consolidation edges and the edge ids each supersedes |
| `remap` | `migrations/remap.json` |
| `queue` | the file writes the command under way has still to do, in its order |
| `theirs` | the edges a colleague has generated on a branch |
| `pos`, `schema`, `path` | of each database: its position, its schema, what the apply under way has left to run |
| `wanted` | the edits no edge makes yet; each is made once |
| `published`, `merged`, `crashes` | history and bounds |

A command reads the files, decides, and from then on only writes: that is one action
(`Generate`, `Squash`, `Rebase`) that fills `queue`, and `WriteNext` for each write.
`CutShort` empties the queue. Each write is atomic, as `writeFileAtomic` and `os.Rename`
are; the sequence is not. Databases plan and apply at any time, between two writes as well.
An apply takes its path once and runs it whatever happens to the files (`PlanApply`,
`ApplyEdge`); an op the schema does not admit is refused (`RefuseEdge`). A revision or edge
reference given on the command line is any live endpoint. Two commands at once in one
checkout, object payloads (content-addressed, never changed), model classes and the schema
check after an apply (see `ChainMigrate`) are left out.

`ChainHeads` looks for heads without the remap and `FindHeads` with it, as the code does.
`FindPath` is a set: what the code settles by comparing edge ids, which are hashes, may go
either way.

`RevisionLine` is a line of schemas that grows, and databases that move forward along it.
`ChainStore` implements it under `line <- <<Genesis>> \o published`, `at <- schema`, as long
as nobody branches: squashing does not show.

### SchemaDiff, PostgresDDL and SchemaPlan

A schema is a function from the objects it declares to their version, 1 or 2; the two versions
of an object differ in one aspect (a column its type, its collation, its default or NOT NULL; an
index its columns or whether it is unique; a function its body or its signature; ...), and `Uses`
says what each version refers to. Columns, constraints, indexes, triggers and policies have an
owner. 0 is a version neither schema asks for: a default `''`, or the text of an expression in
quotes.

| In the modules | In the code |
|---|---|
| `InOrder`, `TopoSort` | `Canonicalize`, `TopoSortStable`: by name, by dependencies, cycles at the end |
| `Added`, `Removed`, `Changed`, `ChangedTables`, `Parts...` | the differ: `matchObjects`, `diffTables`, `diffColumns`, `diffFKs`, ... |
| `Plausible`, `Stale`, `Undeclared`, `GatePasses` | the column rename gate of `ResolveRenames` |
| `TypeOps`, `CreateOps`, `ChangeOps`, `DropOps`, `EdgeOps` | `GenerateMigration` in its order, `GenerateEdge`: DDL, then DML |
| `Step(do, o, to, down)` | a `DDLOp` with its `DownOp`; no down is `Irreversible` |
| `Rendered` | what the op holds of a definition: `makeIndexOp`, `opAddColumn`, `formatDefault` |
| `Backfill` | `BuildDMLOp` with `dmlDownSQL`: a declared inverse that does nothing |
| `Key` | `enc.Key`: kind, schema and name, of a function its signature too |
| `Simulate`, `ApplyOp`, `Manifest` | `opSimulator`, `BuildManifest` |
| `Accepts`, `Effect` | PostgreSQL: references by identity, what DROP refuses and CASCADE takes, NOT NULL against the rows |

| Variable | In the code |
|---|---|
| `old`, `new`, `declared` | head schema, desired schema, the project's rename declarations |
| `edge`, `pos` | the ops of the edge, how many of them are applied |
| `db` | the objects of the database: version, objects used, and whose data a column holds |
| `filled` | whether the tables of the old schema hold rows, with NULLs where the schema admits them |
| `phase` | where the change is: diff, generate, up, landed, down, or how it ended |

The actions follow a change through `generate`, `apply` and `rollback`: `ResolveRenames`,
`Generate`, `ApplyNext` and `Land`, then `Rollback`, `UndoNext` and `Revert` if every op has a
down. The down of a backfill restores no data and runs as nothing ("vacuous"), so an edge that makes
an existing column NOT NULL is undone like any other; what is claimed of it is the schema, and
which column holds whose data, not the values that were NULL. Several properties name what the
generator has no op for (`Unplanned`), what it renders differently (`Quoted`, `Defaulted`), what it
leaves out (`Stripped`) or what it takes along (`Casualties`); each of these is a disagreement
listed below, and the property says that there is no other. `FailsForAReason` says the same about
failures: it compares what happened with a schedule (`Stages`, `Slots`) that says, of any two
objects, whose turn comes first.

Since an object has one aspect, a unique index whose columns change as well, which is created
again and comes out plain like any other, and a column whose type changes together with its
collation, are not among the changes. Foreign keys use unique constraints and primary keys, never
a unique index.

Left out of the plan: a column's array marker and its statistics target, table renames, partitions, append-only guards and state machines (both
are rendered from the table), comments, exclusion constraints, generated and identity columns,
indexes on materialized views, extensions, and the expand/contract phases.

### FuncDeps and NormalForms

A dependency has one dependent: every algorithm of `internal/fd` reads `X -> {A, B}` as two.
Dependencies on no column are left out. `FuncDeps` holds the operators; `Closure` is the least
closed superset there. The loop that computes it is modelled once, inside the search for
candidate keys, where it is checked and proved equal to the operator.

The code returns a closure as a list, which it searches by halving while it appends to it, and
sorts after each scan (`fd.go:50-62`): a column may be in it more than once. Wherever the list is
read as a set (`isSubset`, `contains` on the sorted result) that makes no difference. `projectFDs`
reads it as a list and makes a dependency for each occurrence, which step 3 of `MinimalCover` then
drops together. So `ProjectFDs` asks `ClosureList`, the list the loop leaves (`Scanned`, with the
binary search `Found`), whether it repeats a column. Two occurrences stand for more of them. The
column lists of components may repeat a column in the same way; the model has them as sets, as
their readers do.

| Variable | In the code |
|---|---|
| `declared` | `tbl.Dependencies` |
| `size`, `untried`, `keys` | `CandidateKeys`: the size, the combinations left, the keys found |
| `combo`, `result`, `next`, `changed` | `Closure`: its argument, `result`, the index of the inner loop, `changed` |
| `fds`, `visit`, `cover` | `MinimalCover`: `decomposed`, the loop indices, `result` |
| `tables` | `suggestDecomposition`: the suggested tables |
| `pending`, `parts` | `BCNFDecompose`: the calls to make, the components made |

A step is one turn of a loop. `check2NF`, `check3NF` and `checkBCNF` are operators over the
keys, `Suggest` is the end of `auditTable`. The keys are computed once and cached in the table.

### AuditJobs

Jobs are numbered in the order of their starts, which is the order of `StartedAt`, since both
are taken under the lock.

| Variable | In the code |
|---|---|
| `jobs`, `running` | `auditJobManager.jobs`, `auditJobManager.running` |
| `status`, `ctx` | a job's `Status` and its context |
| `at`, `todo`, `result` | where the job's goroutine is, the tables left, what `runAudit` returned |
| `held` | connections of `s.pool` |
| `asking` | `cancel` between the look-up under the lock and the call without it |

`Start` and `Finish` are what happens under the lock; `LookUp` and `CallCancel` are the two
halves of a cancellation, which any step may come between; `Expire` is the hard timeout; the
other actions are the body of a job, one for each statement at which it can wait or stop.
`discover.Discover` takes no context, so it ends only when the database answers.

## Runs

| Run | What it shows |
|---|---|
| `apply_rollback` | On a chain with transactional down-ops, two clients, of which one has an older checkout, apply and roll back and die up to three times; a database starts fresh or baselined at revision 1. All safety properties, the refinement, and that every command ends. |
| `apply_rollback_torn` | The same on a chain whose rows record concurrent down-ops, with one change made by hand: what is settled is as the journal says, and no report is a lie, though a rollback commits in segments. |
| `apply_retried` | Liveness: applies die up to three times, wherever they are, and one of the following reaches the head. |
| `squash_line` | A chain of four edges, each needing the one before, with every squash there is, nested ones included, and one command or apply cut short. The database is always served, every path it may be given runs on its schema and ends at the head's, "up to date" is true, the checker is content, `RevisionLine` is implemented and the database arrives. |
| `rebase_fork` | Main line and branch, merged at any time, squashed, rebased either way. No database is orphaned, the checker is content, no file is lost, each fork of two heads has a tail, a rebase leaves one head. |
| `rebase_skips_kept` | Finding: databases at the fork point bypass the kept branch. |
| `reverted_change` | Finding: a change back to an earlier schema leaves no head. |
| `schema_plan` | Every change two edits long in a catalog of 29 objects, and every first edge, with and without rows: the simulated edge ends at the desired manifest, short of the keys nothing plans for; an edge that lands leaves the desired schema, short of what its ops leave out, and no column's data is lost; undoing it, a backfill included, restores, short of a view outrun by a rename; an edge fails for one of the reasons stated and, having one, never lands. |
| `plan_default` | Finding: an expression default becomes a quoted string. |
| `normal_forms` | The audit of every table of the bound: keys, cover, verdicts and suggestions against their definitions. |
| `bcnf_components` | Finding: a component that is not in BCNF. |
| `audit_jobs` | Four jobs on one connection, cancelled and expiring at any moment: the limits, the records kept, the verdict, the connection, and that every job ends. |

**Bounds.** The `ChainMigrate` runs use two clients at most, three edges of two or three ops and
three objects. Three edges are the least at which a rollback has an edge to cross, an edge to
stop at and a boundary below it; three ops are the least at which a concurrent op stands between
two transactional ones, which is where segments break. The two chains cover every kind of op.
`MaxAborts` bounds the commands that die: two within one op are what it takes to resume a
resumed statement, and a third hits the next command. `MaxDrifts` bounds changes by hand.

The `ChainStore` runs use one database, since databases only read the files and do not see each
other, and four edits (`Edits`): the least with which a squash can cover a squash and a further
edge stays, and with which both sides of a fork can have two edges. `MaxCrashes` bounds the
commands and applies that are cut short. The edits of `squash_line` must run in their order, so
a path that loses or swaps one is refused at once. The edits of `rebase_fork` are two like
pairs, and the run takes states that differ by the exchange of the pairs for one
(`PairsAlike`); it checks no liveness. It has no command cut short: the code makes no promise
for a rebase that dies before it wrote the remap, and databases are orphaned then (listed as a
hazard). It does not check `PathLeadsHome`, which is the finding, nor `UpToDateIsTrue`: a
database at the rebased-away head is up to date through the remap without the kept branch's
changes, which `rebase_db_test.go` names as a known limit ("a 3-way-merge concern that is out
of scope").

`SchemaPlan` uses one catalog, two tables with a cycle of foreign keys and at least one object
of every kind and every kind of reference the generator has to order, and all pairs of schemas
that `MaxEdits = 2` edits lead to: an object that is new or gone, with what refers to it, or in
its other version before or after. Two is the least at which an object that comes can need one
that changes, or one that goes can be used by one that changes. `RenamedPairs` adds a rename
to two edits, without the constraints and indexes on the column, whose own changes would leave
no way back. 239,719 states.

`NormalForms` uses four columns: every list of up to two dependencies, every list of three over
three columns, and every set of three with at most two columns on the left over four. Four
columns and three dependencies are the least at which a component has to be split twice and a
projection has two dependents, and a closure repeats a column whose dependency is then lost
(`RepeatedColumnIsLost`; of five columns `ImpliedColumnIsLost`, both assumptions TLC evaluates, as
it does `ListsAreClosures`). 370,694 states.

`AuditJobs` uses `MaxConcurrent = 2`, `MaxRetained = 3`, one connection and `MaxStarts = 4`: the
least at which a record is evicted while others run, and jobs wait for each other's connection.
`MaxTables = 1` is one turn of the loop and its exits; `Unwanted` are the two jobs that may be
cancelled, the one evicted first and one that is not. 266 thousand states.

**Deadlock** is checked in the `ChainMigrate` runs. It is off where the model has an end: the
edits run out (`ChainStore`), the change is applied, refused or undone (`SchemaPlan`), the audit
is over (`NormalForms`), the starts run out (`AuditJobs`).

**Fairness.** `ChainMigrate`: `WF_vars(Step(c))`, a client inside a command goes on, until the
command returns, the database refuses it or it dies; `WF_vars(\E c : AcquireAdvisoryLock(c))`,
as long as the lock is free, some operator runs the command again, since the engine itself never
retries. `CommandsEnd` needs only the first. `ApplyLands` needs both, and needs that the
operators only apply, that the client has the whole chain, and that failures stop.

`ChainStore`: `DatabasesArrive` needs that a command under way goes on and that databases are
migrated now and then (`WF_vars(WriteNext)`, `WF_vars(PlanApply(d))`, `WF_vars(ApplyEdge(d))`);
nobody has to generate or squash. A fork, where a database waits for a person, is excepted, and
`NeverForkedAlone` says that there is none unless a command was cut short.

`AuditJobs`: goroutines are scheduled and what takes the context returns by its end
(`WF_vars(Step(j))`), deadlines pass (`WF_vars(Expire(j))`), and the database answers the
queries of `Discover` (`WF_vars(Discover(j))`). Without the last `JobsEnd` fails: the hard
timeout ends the context, which `Discover` does not take, although `jobs.go` gives the timeout
as the bound that keeps a stuck job from running for ever. Nobody has to start or to cancel a
job, and the server may stop between two steps of a client.

## Proofs

### ChainMigrateProofs

For every set of clients, every chain (any length, any ops that `Ops` admits, whatever they do
to objects) and any number of failures:

- `InductiveInvariant`: `Spec => []IInv`.
- `TypeCorrect`, `PositionAgrees`, `FrontierHolds`: the type invariant and the two safety
  invariants of the journal, which the runs check.
- `OneCommandAtATime`: two clients are never inside a command together.
- `BoundaryStays` and `IrreversibleOpsStay`: the two action properties.

The assumptions are the named ones of `ChainMigrate`: the free lock's holder is no client,
every edge has between one and `MaxOps` ops, `Stages` is what the ops lead to.

**The argument.** `PositionMatchesJournal` is not inductive: a client about to commit the
last op of an edge will advance the position, and whether the rows then agree depends on
what that client remembers. `IInv` adds what each client knows. `LockHeld` says that the one
client inside a command holds the lock, so that no other client's knowledge is disturbed by
its steps. `ApplyInv` says what it knows of the edge it applies: all ops before `seq` are
confirmed or staged in the open segment, `rows` is a subset of the confirmed rows and
contains those still ahead, and the edge is the one after the position until its last op is
confirmed. `RollbackInv` says that the pre-check still holds of the edge under reversal and
of those to come, and that the goal is not below the boundary. `RowsArePrefix` and
`LastOpLands` are the facts about rows these rest on. The proof has one lemma per action;
`OthersIdle`, `StayingInside` and `LeavingCommand` settle the other clients once and for
all, and `CommitKeepsPrefix`, `LandingKeepsPosition`, `WritingKeepsPosition` and
`SteppingBackKeepsInvariant` are the four ways the journal changes.

### ChainSchemaProofs

What the schema looks like depends on what down-ops do, which the code does not promise: the
recorded inverse of a data change is a comment, and some ops have no inverse. Two operators of
`ChainMigrate` say what a theorem needs of the chain; `ASSUME ChainsRestore` in
`MCChainMigrate` checks that the chains of the runs are of this kind.

- `DownOpsRestore`: the down-op of the first op of an edge on an object leaves it as the parent
  revision has it.
- `DownOpsTransactional`: an edge that can be reversed has no down-op that PostgreSQL runs
  outside a transaction, so that a rollback of an edge is one segment.

Under the first, for every chain, set of clients and number of crashes and changes by hand:

- `SchemaInvariant`: `Spec => [](IInv /\ SchemaInv)`.
- `JournalIsTrue`: what is settled is as the confirmed rows say (`JournalMatchesObjects`).
- `ReportsTrue`: "applied" and "rolled back" are true of the schema (`ReportsAreTrue`).

Under both:

- `AtRest`: at rest the schema is that of the position (`AtRestAtRevision`).
- `LedgerImplemented`: without changes by hand, `Spec => ImplementsLedger`, the refinement.

**The argument.** `JournalMatchesObjects` compares two committed things, and is kept only if
what an open segment will commit is right as well. `SchemaInv` adds that: `ApplySchema` says
that the client's view is `Stages` up to the op before the one it is at, as long as something
is staged, and `RollbackSchema` that every object touched by an op already reversed, and by none
still to reverse, is as in the parent revision. `IntentsAutocommit` and `BuildsAreFresh` are what
a resumed intent rests on: an index that is found valid is the one to build. Every exception
(`Unsettled`, `HalfReversed`) is an object about which the journal speaks of a statement under
way. The refinement maps `BeginEdge` to the announcement of a move, `LandEdge` and `EndEdge` to
its end, and every statement in between to a change of shape while the move is announced.

### Recursion

Induction theorems that take a predicate as a parameter cannot be used here. `Recursion` derives
what takes their place from the natural numbers and from finite sets: a nonempty set of naturals
has a least member, and a greatest one if it is bounded (`LeastNatural`, `GreatestNatural`); a set
that contains 0 and with `n` also `n + 1` contains everything up to the bound (`Induction`, the
predicate as a set); a recursive function on `0..n` satisfies its equation
(`RecursiveFunction`); and a list of lists, put together, has the elements of its parts
(`FlattenConcats`, `FlattenElements`).

### ChainGraphProofs and ChainStoreProofs

`ChainGraphProofs` holds what needs no state: `Simulate` and `Runs` of concatenated op lists,
`Canon`, heads, and the path-finder as it is defined: the paths it chooses from are walks over
the files, and the search that spreads over the edges ends with a set no edge leaves.

For every set of objects, edits, databases and commands, with any number of commands cut short:

- `StoreInvariant`, `TypeCorrect`, `EdgesConsistent`: the files are well formed. Every edge's
  endpoints have manifests, its ops lead from the one to the other, what is superseded is kept.
- `NeverForked`: nobody meets a fork before a branch is merged (`NeverForkedAlone`).

Where nobody rebases (`"rebase" \notin Commands`), and with branches:

- `UpToDate`: "up to date" is true (`UpToDateIsTrue`).
- `PathsLeadHome`: every path the path-finder may choose runs on the schema of the database and
  ends at the head's (`PathLeadsHome`).
- `CheckerSatisfied`: the checker has nothing to report (`ChainConsistent`).
- `NothingForgottenEver`: if no command is cut short, nothing is lost (`NothingForgotten`).
- `Served`: if no schema returns, every database on the chain is led to a head
  (`ServedThroughout`).
- `LineImplemented`: if nobody branches either, `Spec => ImplementsLine`, the refinement.

The hypotheses are where the code ends. With a rebase `PathLeadsHome` is false (finding 1), and
so is `UpToDateIsTrue`. `NothingReturns(rank)` says that some rank of the schemas rises with every
edit that runs: no schema returns. Without it `ServedThroughout` is false (finding 2), and
`ASSUME NothingReturnsHere` in `MCChainStore` gives such a rank for the edits of the runs. A
squash cut short may leave an edge live beside its consolidation; an edit is then made twice,
and the argument for `NothingForgotten` (`EditsOnce`) ends there.

**The argument.** The properties speak of the files as they are, and the files change write by
write, so every part of an invariant speaks of what is queued as well (`ToWrite`, `ToArchive`,
`Coming`). `StoreInv` is the order of writes (`ManifestsFirst`) and that known edges reproduce
their endpoints. `PlainInv` adds that edges run where they start and that a database has the
schema its position names; then a walk in the graph is a run of its ops. `EditsInv` is why the
checker is content with consolidations: each edit is made by one edge of the chain to come
(`EditsOnce`), what is archived makes some of the edits of an edge that makes more, and so no
new edge equals an old one and no edge is superseded twice (`EdgesOnce`). `AloneInv` says that
the chain to come is one line, and that what a squash moves is a stretch of it, moved from its
start (`OneLine`, `StretchMoves`): half moved, the leftovers end where the consolidation ends.
`ForwardInv` is why there is a way to a head from everywhere: an edge ends where another one starts, or
where a live one does (`LedOn`), edges rise in rank, and a greatest rank among the ends exists.
`LineInv` says that the published revisions are the targets of the edges, in the order of their
rank: hence an edge that is applied leads forward along the line.

### NormalFormsProofs

For every list of columns and every declared list of dependencies, from the one assumption
`ColumnsAssumption` (the columns are a nonempty list without repetition, tables declare lists
of dependencies over them):

- `InductiveInvariant`, `TypeCorrect`.
- `KeysTheorem`: the search finds exactly the minimal superkeys.
- `ReductionTheorem`: step 2 of the minimal cover never changes what the list implies.
- `SilenceTheorem`: if no declared dependency violates BCNF, or 3NF, no implied one does; and
  what is in 3NF is in 2NF.
- `CoverTheorem`: dependencies without a circle get a minimal cover (`CoverIsCanonical`), unless
  step 2 has made two of them equal.
- `SplitInvariant`, `SuggestionsTheorem`: what the audit suggests can be used
  (`SuggestionsAreSound`).

**The argument.** `KeysAreCandidateKeys` says nothing until the search is over. `IInv` adds
that the keys found so far are minimal superkeys (`KeysAreMinimal`), that every superkey among
the combinations already visited contains one of them (`VisitedHasKey`), and, for the loop
inside, that `result` lies between the combination and its closure and that an unchanged scan
up to `next` is closed under the dependencies before `next` (`ScanKnows`). At the end of a scan
without a change the result is closed, hence the closure (`ClosureReached`).
`DroppingKeepsMeaning` is the step of the reduction: a set that is closed under the shorter
dependency is closed under the longer one, and the other way round because the shorter one was
implied. The silence of the checks needs no invariant beyond the keys: the closure of a set
that is no superkey grows only by declared dependencies that are not from superkeys either.

`CoverInv` says what steps 2 and 3 have done so far: no column that was visited is extraneous any
more, although the list went on changing, and the cover is what is `Needed` of the list up to the
visit. Why dropping all redundant dependencies at once loses nothing is `CoverMeansAll`. Take a set
closed under the cover and not under the list. Without a circle, one of the columns it lacks
depends on columns it has only. Of the dependencies of the list that add this column take one
whose closure is least: it was dropped, so there is another one inside its closure, whose closure
is then the same; and two determinants that determine each other and can spare no column are equal
where there is no circle (`ReducedAlike`), so the two were twins.

`SplitInv` says of the relations still to look at and of the components that no column is missing,
that one of them holds a key (`Whole`), and that their dependencies are about their columns and
follow from the declared ones (`Implied`). The lemmas before it say what `MinimalCover` and
`ProjectFDs` return, for every list: `Recursion` gives the equations of their loops, and the sorted
list holds what it sorts because the order is strict and total (`FDBeforeStrict`, `SortedList`). A
lost dependency is one the projections do not imply, and what they imply the components enforce
(`KeptIsEnforced`). The synthesis covers the columns because a column that no dependency of the
cover adds is in every key; a table of it is in 3NF because its determinant is one of its keys,
and a dependency inside it that breaks 3NF would make one of the cover redundant (`GroupIn3NF`).

### SchemaPlanProofs

For every catalog of objects, every pair of schemas and every set of declared renames:

- `TopoSortComplete`: the stable topological sort lists every object it is given, once, and no
  other, cycles included. A table the sort lost would be a table the generator forgets.
- `PlanInvariant`: only renames the gate let pass reach the generator.
- `EdgeTheorem`: the ops of a generated edge, simulated on the manifest of the schema it starts
  from, give the manifest of the desired schema, but for the objects there is no op for, which
  stay as they were, and the functions whose signature changes, whose former key stays beside the
  new one (`EdgeSimulates`). The run checks 29 objects and two edits; the theorem has neither
  bound.
- `UndoInvariant`: while an edge all of whose ops have a down is applied, no reference in the
  database dangles; while it is undone, the database is the one there was at that op on the way
  up, with what was altered later as it was before.
- `UndoTheorem`: undoing such an edge stops at nothing but a view outrun by a rename, and gives
  the database there was before it, apart from the defaults (`UndoRestores`), with rows in the
  tables or without. An edge with a backfill is such an edge.

The assumptions are `Catalog` (the parts of a table have it as their owner, what changes of an
object is an aspect of its kind, uses and rename candidates are objects of the catalog; a table
uses nothing but through its parts, a domain no column; collation, NOT NULL, a literal default,
WITH parameters and uniqueness leave what an object uses as it was) and `PairsAreSchemas` (no reference dangles and no
part lacks its table, which validation sees to before a diff).

**The argument for the edge.** An op touches the key of one object, or of the table it belongs to,
and leaves the others alone (`ApplyOpKey`). What it leaves at its key is the desired contents,
whatever was there before, or, for a drop, nothing: so only the last op on a key counts, and a key
no op is about stays as it was (`SimulateSettles`). `Settles(s, K)` says of a list of ops that `K`
are the keys it touches and that each of them is left as the desired schema has it (`SetAgain`): a
drop of an object that stays is followed by another op on its key. That is closed under
concatenation, and the keys add up (`BothSettle`, `EachSettles`). So each operation of the
generator is looked at alone (`CreateSettles`, `DropPartSettles`, `RecreateSettles`, ...), then
the ops of a kind, of a table (`ChangeTableSettles`, `NewTableSettles`) and of the edge
(`EdgeOpsSettle`). The keys it settles are `Settled`. It remains to see that these are the right
ones: the differ reports everything that came, went or changed (`DiffComplete`, `PartsComplete`,
`ChangedTablesComplete`); a column that a rename takes out of the list is of a table the rename
itself touches, because both ends of a declared pair have one owner (`ColumnsStirred`, which needs
the gate: `GatePasses` is why `PlanInv` is part of the proof); what is `Settled` has an op
(`SettledIsPlanned`), and what is not `Settled` and differs is `Unplanned` (`OthersStay`). A key
holds the signature of a function, and every op holds the new one: where the signature changes, the
former key is touched by no op (`KeptIs`), and all other objects have one key for both versions
(`SameKey`).

**The argument for the way back.** Where every op has a down there are five kinds of steps
(`Undone`): creations of objects the old schema lacks, alterations that have a value to return to
(`Restorable`), declared renames, validations, and backfills. `Undoes(s)` says of a list that its steps are
of these kinds unless one has no down, which is again closed under concatenation, and
`EdgeOpsUndo` finds it of all ops of the generator. `UndoRestores` is not inductive, and the
database alone is not enough to make it so: what a down does depends on what was there when its op
ran. So `UndoInv` speaks of the databases `D` the ops lead through (`Passes`): each accepted the
next op, none has a reference that dangles or an object without its owner, and nothing of the old
schema is missing but the former names of renamed columns (`Sound`). On the way back the database
at an op is not what `D` has there, but that with all objects that are altered later in the edge
in their former version (`Rewound`), which use other objects than they did on the way up. A lemma
for each kind (`CreateUndone`, `AlterUndone`, `RenameUndone`), joined in `StepUndone`, carries the
invariant one op back, whatever was altered later. A new object can be dropped because a version
that is restored uses objects of the old schema only, and a CASCADE takes nothing but the object
itself (`CascadeAlone`); a former version is accepted because all it uses is still there, unless
it is a column under its former name, and of the objects that are altered only a view can name one
(`RestorableIs`, `Outrun`). At the end all that was altered has its former version, and the
columns of `Defaulted`, each of which has an alteration (`EdgeAlters`), the default their down
sets.

### AuditJobsProofs

For all bounds with `MaxConcurrent <= MaxRetained` (`Bounds`) and any number of jobs:
`Invariance`, `TypeCorrect`, `CapacityTheorem`, `RetentionTheorem`, `CancellationTheorem`,
`ConnectionTheorem`: all safety properties of the run.

**The argument.** The four properties are inductive together with `StatusFollowsGoroutine`
(a record says running exactly while its goroutine is at work; ids not started are untouched)
and `TablesLeft`. The two lemmas that count are `EvictionMakesRoom`: since fewer than
`MaxConcurrent` records run and `MaxRetained` are kept, a finished one exists, so eviction
removes exactly one; and `EvictedIsOld`: all records older than the evicted one run, so it has at
least `MaxRetained - MaxConcurrent + 1` successors.

### Only model-checked

Of `ChainStore`: what a rebase does (`ForkHasTail`, `RebaseResolves`), and `ServedThroughout`,
`ChainConsistent` and `NothingForgotten` where somebody rebases; the theorems stop before it. Of
`SchemaPlan`: what PostgreSQL makes of an edge on the way up (`LandsAtNew`, `DataKept`,
`FailsForAReason`), drops and CASCADE included: there the order of all ops counts, not one op and
its down.
Liveness (`CommandsEnd`, `ApplyLands`, `DatabasesArrive`, `JobsEnd`) is out of the prover's reach.

## Findings

1. After a rebase the shortest path from the fork point is the archived tail, which the remap
   leads to the new head: the kept branch is skipped (`rebase_skips_kept`).
2. A schema that returns to an earlier content closes a cycle, and a cycle has no head
   (`reverted_change`).
3. A default expression added to an existing table is rendered in quotes, against "written
   as-is into DDL" (`plan_default`).
4. Step 3 of `MinimalCover` drops both of two equal dependencies, and `projectFDs` makes equal
   ones whenever a determinant has two dependents, or its closure repeats a column: BCNF components
   that are not in BCNF, and dependencies reported as lost that are not (`bcnf_components`).

Other places where the code and what is written about it part, met while modelling and not
shown by a run of their own. Where a property would run into one, its definition excepts it
by name.

- The applied view lists an edge when all its rows so far are confirmed
  (`tracking_chain.go:58`), between two segments too; the comment at `apply_chain.go:319` says
  it never shows a partial edge.
- A rollback across a concurrent down-op commits in segments without a mark
  (`rollback_chain.go:303-311`); law L8 of `docs/architecture-laws.md` asks for atomicity or an
  intent. `AtRestAtRevision` is checked only on chains without such down-ops.
- The abort of an edge whose concurrent drop was intended but never ran is refused
  (`rollback_chain.go:308`): the down-op builds an index that is still there.
- A squash that is cut short leaves live edges beside their consolidation; later squashes may
  then nest (`squash_chain.go:265` asks live consolidations only), and the leftovers can become
  a second head: `NeverForkedAlone` needs its `crashes = 0`.
- A removed function is looked up in the desired schema, where it is not, and is never dropped
  (`generate.go:1625`); an enum that loses a value and a primary key that changes have no op.
  `consistency.go:15-16` expects an edge to reproduce its endpoint; `EdgeSimulates` excepts
  these (`Unplanned`).
- A function whose signature changes is dropped by an op that holds the new definition
  (`generate.go:1483`): the simulator deletes the new signature's key, which is not there, and the
  former key stays (`consistency.go:217`), again against `consistency.go:15-16`. A rebase records
  such a manifest (`rebase.go:118`). `EdgeSimulates` excepts the key.
- A unique index is created as one that is not: `makeIndexOp` (`generate.go:1699-1716`) and
  `opCreateIndex` (`sql_gen.go:438-451`) leave `Unique` out. Whether an existing index is unique is
  never compared (`diff.go:1176-1186`), though the revision encodes it (`enc/encode.go:199`):
  `diff.go:165` counts on an empty diff meaning an equal revision. `LandsAtNew` and
  `EdgeSimulates` except both.
- A column added to an existing table loses its collation (`opAddColumn`, `sql_gen.go:328-342`).
  `LandsAtNew` excepts it (`Stripped`).
- The declared inverse of a backfill does nothing (`chain_generate.go:140-142`): a rollback leaves
  the values it filled in, as the comment there says.
- The backfill comes after SET NOT NULL (`chain_generate.go:96`), although `generate.go:643-646`
  says that it precedes it.
- The down of a default that was added sets the default `''` (`generate.go:697-709`).
- A view's former query is restored before the rename of a column is undone
  (`generate.go:1332-1350`): where it names the column by its former name, the rollback stops
  there, although `selfcontained_inventory.go:24` declares the down the inverse. `UndoRestores`
  excepts these views (`Outrun`).
- Tables whose foreign keys form a cycle fail to be created (`FailsForAReason`, `TooEarly`);
  `apply_chain.go:17-18` speaks of cycle-safe DDL.
- Drops of views come after drops of tables, although the comment at `generate.go:1552` says
  before; a changed unique or check constraint is added before the one of its name is dropped; a
  function with a new signature is dropped by that signature.
- A composite type or domain that is dropped and created again takes columns of its type along
  with CASCADE (`Casualties`).
- The hard timeout of an audit job cannot end a discovery (see fairness); `handlers.go:713` says
  that it stops promptly.

## Not modelled, and what is left

- `ChainStore`: two branches open at a time, and what a cut-short rebase leaves.
- Adoption: upgrade and baseline against a concurrent apply, and the reachability rule of a
  re-baseline. `ChainMigrate` starts from what a baseline stamps.
- The composition: an edge in progress that a squash or rebase takes off the path.
- Proofs: `ChainStore` with rebases; what an edge makes of the database on the way up.
- The legacy engine of semver files, which the chain replaces; the template cache of
  `internal/testdb`; the lock file of `internal/imports`.
- Of the plan: what the section on `SchemaPlan` lists.
- Text generation, parsing, configuration, command line and read-only introspection: they keep
  no state that a step could leave inconsistent, and what could be said of them is the text they
  produce.

## Running

    tlc -workers 2 -config ApplyRollback.cfg MCChainMigrate.tla
    tlc -workers 2 -config SquashLine.cfg MCChainStore.tla
    tlc -workers 2 -config SchemaPlan.cfg MCSchemaPlan.tla
    tlc -workers 2 -config NormalForms.cfg MCNormalForms.tla
    tlc -workers 2 -config AuditJobs.cfg AuditJobs.tla
    tlapm ChainMigrateProofs.tla
    tlapm ChainSchemaProofs.tla
    tlapm Recursion.tla
    tlapm ChainGraphProofs.tla
    tlapm ChainStoreProofs.tla
    tlapm NormalFormsProofs.tla
    tlapm SchemaPlanProofs.tla
    tlapm AuditJobsProofs.tla

----------------------------- MODULE SchemaPlan -----------------------------
(***************************************************************************)
(* From a schema change to a chain edge and to a changed database:         *)
(* GenerateMigration and GenerateEdge of internal/migrate, the simulation  *)
(* of an edge on its from-manifest, and what PostgreSQL makes of its ops   *)
(* one after the other, forwards and, by their recorded downs, backwards.  *)
(*                                                                         *)
(* The versions of an object are 1 and 2; 0 is a state neither schema asks *)
(* for.  Version 2 is the one with more: one more enum value, a domain     *)
(* check, row security, NOT NULL, a default, ...                           *)
(***************************************************************************)
EXTENDS PostgresDDL, TLC

CONSTANTS Pairs   \* the schema changes examined, << from, to >>

ASSUME PairsAreSchemas == \A p \in Pairs : IsSchema(p[1]) /\ IsSchema(p[2])

VARIABLES old, new,   \* the head schema and the desired one
          declared,   \* the column renames the project declares
          filled,     \* do the tables of the old schema hold rows with NULLs?
          edge,       \* the ops of the edge
          pos,        \* how many of them are applied
          db,         \* the database: its objects
          phase

vars == <<old, new, declared, filled, edge, pos, db, phase>>

Phases == {"diff", "generate", "up", "landed", "down",  \* on its way
           "refused", "failed", "reverted", "stuck"}    \* at its end

(***************************************************************************)
(* Ops.  An op with its recorded down: at most one op, none where it is    *)
(* irreversible.                                                           *)
(***************************************************************************)
Op(do, o, to) == [do |-> do, id |-> o, to |-> to]
Step(do, o, to, down) == [up |-> Op(do, o, to), down |-> down]

\* What the op holds of the desired version: of an expression its text, which
\* is then quoted; of a column all but its collation; of an index all but that
\* it is unique.  What is created with its table is rendered by the table.
Rendered(o, v) ==
  CASE v = 2 /\ Aspect[o] = "expression" -> 0
    [] v = 2 /\ Aspect[o] \in {"collation", "uniqueness"} -> 1
    [] OTHER -> v

Create(o) == << Step("create", o, Rendered(o, new[o]), << Op("drop", o, new[o]) >>) >>
Drop(o) == << Step("drop", o, old[o], << >>) >>
Recreate(o) == Drop(o) \o Create(o)
Alter(o, down) == << Step("alter", o, new[o], down) >>
Back(o) == << Op("alter", o, old[o]) >>

\* NOT VALID first, then the scan; its inverse validates once more.
AddFK(f) == Create(f) \o << Step("validate", f, new[f],
                                 << Op("validate", f, new[f]) >>) >>

Each(Ops(_), s) == FlattenSeq([i \in DOMAIN s |-> Ops(s[i])])
All(Ops(_), find(_, _, _), kind) == Each(Ops, find(old, new, kind))

(***************************************************************************)
(* Types.  An enum value can be added; for one that goes there is no op.   *)
(***************************************************************************)
ChangeEnum(o) == IF new[o] = 2 THEN Alter(o, << >>) ELSE << >>

\* Mutant: nothing is done about a check that goes.
ChangeDomainOnlyAdds(o) ==
  IF Aspect[o] = "base" THEN Recreate(o)
  ELSE IF new[o] = 2 THEN Alter(o, Back(o)) ELSE << >>

ChangeDomain(o) == IF Aspect[o] = "base" THEN Recreate(o)
                   ELSE Alter(o, IF new[o] = 2 THEN Back(o) ELSE << >>)

\* The dropped function is given by its new signature.
ChangeFunction(o) ==
  IF Aspect[o] = "signature"
  THEN << Step("drop", o, new[o], << >>) >> \o Create(o)
  ELSE Alter(o, << >>)

(***************************************************************************)
(* Tables.                                                                 *)
(***************************************************************************)
\* What happened to the parts of a kind: added, removed, changed.
Add(t, kind) == PartsAdded(old, new, t, kind)
Rem(t, kind) == PartsRemoved(old, new, t, kind)
Alt(t, kind) == PartsChanged(old, new, t, kind)

\* A table is created with its columns; row security is a separate op.
NewTable(t) ==
  LET secured == Aspect[t] = "rls" /\ new[t] = 2
  IN << Step("create", t, IF secured THEN 1 ELSE new[t],
             << Op("drop", t, new[t]) >>) >>
     \o Each(AddFK, Add(t, "fk"))
     \o Each(Create, Add(t, "index"))
     \o Each(Create, Add(t, "unique"))
     \o Each(Create, Add(t, "check"))
     \o Each(Create, Add(t, "trigger"))
     \o (IF secured THEN Alter(t, << Op("alter", t, 1) >>) ELSE << >>)
     \o Each(Create, Add(t, "policy"))

\* The down of a default restores the one before it: '' where there was none.
ChangeColumn(c) ==
  LET former == IF new[c] = 2 THEN 0 ELSE Rendered(c, old[c])
  IN CASE Aspect[c] \in {"type", "collation"} -> Alter(c, << >>)
       [] Aspect[c] = "notnull" -> Alter(c, Back(c))
       [] Aspect[c] \in {"default", "expression"} ->
            << Step("alter", c, Rendered(c, new[c]),
                    << Op("alter", c, former) >>) >>

\* Mutant: the down sets the parameters the index already has.
ChangeIndexForGood(o) ==
  IF Aspect[o] = "with" THEN Alter(o, << Op("alter", o, new[o]) >>)
  ELSE Recreate(o)

ChangeIndex(o) == IF Aspect[o] = "with" THEN Alter(o, Back(o)) ELSE Recreate(o)

Rename(p) == << Step("rename", p[1], p[2], << Op("rename", p[2], p[1]) >>) >>

\* What the declarations pair is neither added nor removed any more.
Paired == UNION {ToSet(p) : p \in declared}
Unpaired(s) == Among(s, Ids \ Paired)

RenameOps(t) == Each(Rename, Among(Alike, {p \in declared : Owner[p[1]] = t}))

ColumnOps(t) == RenameOps(t)
                \o Each(Create, Unpaired(Add(t, "column")))
                \o Each(ChangeColumn, Alt(t, "column"))

FKOps(t) == Each(AddFK, Add(t, "fk"))
            \o Each(Drop, Rem(t, "fk"))
            \o Each(LAMBDA f : Drop(f) \o AddFK(f), Alt(t, "fk"))

IndexOps(t) == Each(Create, Add(t, "index"))
               \o Each(Drop, Rem(t, "index"))
               \o Each(ChangeIndex, Alt(t, "index"))

\* A changed constraint is one that was added and one that was removed.
ConstraintOps(t, kind) == Each(Create, Add(t, kind) \o Alt(t, kind))
                          \o Each(Drop, Rem(t, kind) \o Alt(t, kind))

\* Triggers and policies.
GuardOps(t, kind) == Each(Create, Add(t, kind))
                     \o Each(Drop, Rem(t, kind))
                     \o Each(Recreate, Alt(t, kind))

SecurityOps(t) == IF Differs(old, new, t) /\ Aspect[t] = "rls"
                  THEN Alter(t, Back(t)) ELSE << >>

ChangeTable(t) ==
  ColumnOps(t) \o FKOps(t) \o IndexOps(t)
  \o ConstraintOps(t, "unique") \o ConstraintOps(t, "check")
  \o Each(Drop, Unpaired(Rem(t, "column")))
  \o GuardOps(t, "trigger") \o SecurityOps(t) \o GuardOps(t, "policy")

(***************************************************************************)
(* A removed function is looked up in the desired schema, where it is not: *)
(* the op then stands for the drop of the append-only guard.               *)
(***************************************************************************)
DropFunction(o) == << Step("drop_guard", o, old[o], << >>) >>

TypeOps == All(Create, Added, "enum")
           \o All(ChangeEnum, Changed, "enum")
           \o All(Create, Added, "composite")
           \o All(Recreate, Changed, "composite")
           \o All(Create, Added, "domain")
           \o All(ChangeDomain, Changed, "domain")

CreateOps == All(NewTable, Added, "table")
             \o All(Create, Added, "view")
             \o All(Create, Added, "matview")
             \o All(Create, Added, "sequence")
             \o All(Create, Added, "function")

ChangeOps == Each(ChangeTable, ChangedTables(old, new))
             \o All(LAMBDA o : Alter(o, Back(o)), Changed, "view")
             \o All(Recreate, Changed, "matview")
             \o All(LAMBDA o : Alter(o, << >>), Changed, "sequence")
             \o All(ChangeFunction, Changed, "function")

DropOps == All(Drop, Removed, "table")
           \o All(Drop, Removed, "view")
           \o All(Drop, Removed, "matview")
           \o All(Drop, Removed, "sequence")
           \o All(Drop, Removed, "enum")
           \o All(Drop, Removed, "composite")
           \o All(Drop, Removed, "domain")
           \o All(DropFunction, Removed, "function")

DDLOps == TypeOps \o CreateOps \o ChangeOps \o DropOps

\* The declared inverse of a backfill does nothing: no data is restored.
Backfill(c) == << Step("backfill", c, new[c], << Op("vacuous", c, new[c]) >>) >>

\* A backfill for each column that becomes NOT NULL.
Becoming(c) == Aspect[c] = "notnull" /\ new[c] = 2
DMLOps == Each(Backfill,
               Among(Changed(old, new, "column"), {c \in DOMAIN new : Becoming(c)}))

\* An edge holds the DDL ops, then the DML ops.
EdgeOps == DDLOps \o DMLOps

(***************************************************************************)
(* The consistency check of an edge: its ops, simulated on the manifest of *)
(* the old schema.  Nested ops carry the post-state of the owner.          *)
(***************************************************************************)
Content(s, k) == [o \in {k} \cup Parts(s, k) |-> s[o]]

\* The key of a function holds its signature: another one is another key.
Key(o, v) == << o, IF Aspect[o] = "signature" THEN v ELSE 1 >>
Keys(s) == {Key(o, s[o]) : o \in {p \in DOMAIN s : Top(p) = p}}
Manifest(s) == [key \in Keys(s) |-> Content(s, key[1])]

\* A drop is keyed by the definition its op holds.
ApplyOp(manifest, step) ==
  LET o == step.up.id
      k == Top(o)
      own == Key(k, new[k])
  IN CASE step.up.do \in {"drop_guard", "backfill"} -> manifest
       [] step.up.do = "drop" /\ o = k ->
            Restrict(manifest, DOMAIN manifest \ {Key(k, step.up.to)})
       [] OTHER -> IF k \in DOMAIN new
                   THEN [key \in DOMAIN manifest \cup {own} |->
                           IF key = own THEN Content(new, k) ELSE manifest[key]]
                   ELSE manifest

Simulate ==
  LET after[i \in 0..Len(edge)] ==
        IF i = 0 THEN Manifest(old) ELSE ApplyOp(after[i - 1], edge[i])
  IN after[Len(edge)]

(***************************************************************************)
(* A change of the schema, from the diff to the edge, to the database.     *)
(***************************************************************************)
Init == /\ \E pair \in Pairs : old = pair[1] /\ new = pair[2]
        /\ declared = {}
        /\ filled \in BOOLEAN
        /\ edge = << >>
        /\ pos = 0
        /\ db = Database(old)
        /\ phase = "diff"

\* The gate stands between the differ and the generator.
ResolveRenames(renames) ==
  /\ phase = "diff"
  /\ declared' = renames
  /\ phase' = IF GatePasses(old, new, renames) THEN "generate" ELSE "refused"
  /\ UNCHANGED <<old, new, filled, edge, pos, db>>

\* No ops, no edge.
Generate ==
  /\ phase = "generate"
  /\ edge' = EdgeOps
  /\ phase' = IF edge' = << >> THEN "refused" ELSE "up"
  /\ UNCHANGED <<old, new, declared, filled, pos, db>>

\* Columns without values in the rows there are: nullable ones, new ones.
Gaps == {c \in Ids : /\ filled
                     /\ Owner[c] \in DOMAIN old
                     /\ ~(c \in DOMAIN old /\ NotNull(c, old[c]))}

Run(op) == IF Accepts(db, new, Gaps, op)
           THEN db' = Effect(db, new, op)
           ELSE UNCHANGED db

ApplyNext ==
  /\ phase = "up" /\ pos < Len(edge)
  /\ LET op == edge[pos + 1].up
         ok == Accepts(db, new, Gaps, op)
     IN /\ Run(op)
        /\ pos' = IF ok THEN pos + 1 ELSE pos
        /\ phase' = IF ok THEN "up" ELSE "failed"
  /\ UNCHANGED <<old, new, declared, filled, edge>>

Land ==
  /\ phase = "up" /\ pos = Len(edge)
  /\ phase' = "landed"
  /\ UNCHANGED <<old, new, declared, filled, edge, pos, db>>

\* An op without a down makes its edge irreversible.
Invertible == \A i \in DOMAIN edge : edge[i].down # << >>

Rollback ==
  /\ phase = "landed" /\ Invertible
  /\ phase' = "down"
  /\ UNCHANGED <<old, new, declared, filled, edge, pos, db>>

UndoNext ==
  /\ phase = "down" /\ pos > 0
  /\ LET op == edge[pos].down[1]
         ok == Accepts(db, new, Gaps, op)
     IN /\ Run(op)
        /\ pos' = IF ok THEN pos - 1 ELSE pos
        /\ phase' = IF ok THEN "down" ELSE "stuck"
  /\ UNCHANGED <<old, new, declared, filled, edge>>

Revert ==
  /\ phase = "down" /\ pos = 0
  /\ phase' = "reverted"
  /\ UNCHANGED <<old, new, declared, filled, edge, pos, db>>

Next == \/ \E renames \in SUBSET ToSet(Alike) : ResolveRenames(renames)
        \/ Generate
        \/ ApplyNext
        \/ Land
        \/ Rollback
        \/ UndoNext
        \/ Revert

Spec == Init /\ [][Next]_vars

(***************************************************************************)
(* Properties.                                                             *)
(***************************************************************************)
\* What GenerateMigration has no op for: a function that goes, an enum that
\* loses a value, a table of which nothing changes but the primary key or
\* whether its indexes are unique.
Unplanned(o) ==
  \/ Kind[o] = "function" /\ o \in DOMAIN old \ DOMAIN new
  \/ Kind[o] = "enum" /\ Differs(old, new, o) /\ new[o] = 1
  \/ /\ Kind[o] = "table" /\ o \in DOMAIN old \cap DOMAIN new
     /\ Parts(old, o) = Parts(new, o) /\ Content(old, o) # Content(new, o)
     /\ \A p \in DOMAIN Content(new, o) :
          old[p] # new[p] => Aspect[p] \in {"pk", "uniqueness"}

Fresh == DOMAIN new \ DOMAIN old
Gone == DOMAIN old \ DOMAIN new
Altered == {o \in DOMAIN new \cap DOMAIN old : old[o] # new[o]}

\* The ops of an edge, simulated on the manifest it starts from, give the
\* manifest of the desired schema, but for the objects without an op, which
\* stay as they were, and for a function whose signature changes, which stays
\* under its former key, too (GenerateMigration against consistency.go's
\* check).
EdgeSimulates ==
  phase = "up" /\ pos = 0 =>
    LET left == {o \in DOMAIN old :
                   /\ Top(o) = o
                   /\ Unplanned(o) \/ (o \in Altered /\ Aspect[o] = "signature")}
        kept == {Key(o, old[o]) : o \in left}
    IN Simulate = [key \in Keys(new) \cup kept |->
                     IF key \in kept THEN Manifest(old)[key] ELSE Manifest(new)[key]]

\* DROP ... CASCADE of a type that is dropped and created again takes along
\* what uses it, columns included.
Retyped == {o \in Altered : Kind[o] = "composite" \/ Aspect[o] = "base"}
Casualties == Cascade(Database(old), Retyped) \ Retyped

\* Columns of tables that stay get an expression as a quoted string.
Quoted == {c \in Fresh \cup Altered :
             /\ Aspect[c] = "expression" /\ new[c] = 2
             /\ Owner[c] \in DOMAIN old}

\* A unique index is created as one that is not; a column added to a table that
\* stays has no collation.
Stripped == {o \in Fresh \ Paired :
               /\ new[o] = 2
               /\ \/ Aspect[o] = "uniqueness"
                  \/ Aspect[o] = "collation" /\ Owner[o] \in DOMAIN old}

\* An edge that applies in full leaves the database with the objects of the
\* desired schema in their versions there, but for quoted expressions and what
\* was stripped, and with those for which there is no op as they were.  Missing
\* are the casualties of re-created types.
LandsAtNew ==
  phase = "landed" =>
    LET spared == {f \in Gone : Kind[f] = "function"}
        fixed(o) == \/ Unplanned(o)
                    \/ Aspect[o] \in {"pk", "uniqueness"} /\ o \in DOMAIN old
        ver(o) == IF fixed(o) THEN old[o]
                  ELSE IF o \in Quoted THEN 0
                  ELSE IF o \in Stripped THEN 1 ELSE new[o]
    IN \A o \in Ids \ Casualties :
         IF o \in DOMAIN new \cup spared
         THEN /\ o \in DOMAIN db
              /\ db[o].ver = ver(o)
              /\ db[o].uses = VersionUses(o, ver(o))
         ELSE o \notin DOMAIN db

\* The data of a column survives: under its name where it is kept, under the
\* declared name where it is renamed.  A column never starts empty beside one
\* that went and was its equal (the rename gate).
DataKept ==
  phase = "landed" =>
    \A c \in Of(new, "column") \ Casualties :
      /\ c \in DOMAIN old => db[c].from = c
      /\ \A p \in declared : p[2] = c => db[c].from = p[1]
      /\ (\E p \in Plausible(old, new) : p[2] = c) => db[c].from # NoOwner

\* The down of a default that was added sets a default, '', instead of none;
\* that of an expression that was dropped sets a quoted string.
Defaulted == {c \in Altered : \/ Aspect[c] = "default" /\ new[c] = 2
                              \/ Aspect[c] = "expression"}

\* The changed views whose former query names a column by the name it had: the
\* query is restored before the rename is undone.
Outrun == {v \in Altered : /\ Kind[v] = "view"
                           /\ \E p \in declared : p[1] \in VersionUses(v, old[v])}

\* Undoing an edge all of whose ops have a down stops at none but the views
\* outrun by a rename, and gives the database before it, apart from the defaults.
UndoRestores ==
  /\ phase = "stuck" => edge[pos].up.id \in Outrun
  /\ phase = "reverted" =>
       db = [o \in DOMAIN old |->
               IF o \in Defaulted THEN Stored(o, 0, o) ELSE Database(old)[o]]

(***************************************************************************)
(* When an edge fails: the schedule the generator keeps to, as a moment    *)
(* for every object it creates, changes or drops.                          *)
(***************************************************************************)
\* Types, new tables with their parts, new views, ..., changed tables with
\* their parts, changed views, ..., drops.
Stages == [enum |-> << 1, 1, 18 >>, composite |-> << 2, 2, 19 >>,
           domain |-> << 3, 3, 20 >>, table |-> << 4, 9, 14 >>,
           view |-> << 5, 10, 15 >>, matview |-> << 6, 11, 16 >>,
           sequence |-> << 7, 12, 17 >>, function |-> << 8, 13, 21 >>]

\* The parts within a table.
Slots == [table |-> << 0, 19, 0 >>, column |-> << 1, 2, 15 >>,
          fk |-> << 3, 5, 4 >>, index |-> << 6, 8, 7 >>,
          unique |-> << 9, 9, 10 >>, check |-> << 11, 11, 12 >>,
          trigger |-> << 16, 18, 17 >>, policy |-> << 20, 22, 21 >>]

Case(o) == IF o \in Fresh THEN 1 ELSE IF o \in Gone THEN 3 ELSE 2

Moment(o) ==
  LET k == Top(o)
      order == InOrder(IF k \in Gone THEN old ELSE new, Kind[k])
  IN << Stages[Kind[k]][Case(k)],
        CHOOSE i \in DOMAIN order : order[i] = k,
        IF Kind[o] \in DOMAIN Slots THEN Slots[Kind[o]][Case(o)] ELSE 0 >>

Before(o, p) ==
  LET m == Moment(o)
      n == Moment(p)
  IN \E i \in 1..3 : m[i] < n[i] /\ \A j \in 1..(i - 1) : m[j] = n[j]

\* Something new is used before it is there.
TooEarly == \E o \in (Fresh \cup Altered) \ Quoted :
              \E u \in Uses[o][new[o]] \cap Fresh : ~Before(u, o)

\* Something goes before what used it: that is in its way or, with CASCADE, is
\* gone when its own turn comes.  The parts of a table go with it.
StillUsed == \E o \in Gone \ {p[1] : p \in declared}, u \in Gone \cup Altered :
               /\ Kind[o] # "function"
               /\ o \in Uses[u][old[u]]
               /\ Top(u) # Top(o) \/ Top(o) \notin Gone
               /\ ~Before(u, o)

\* The type or the collation of a column changes under a view or a policy.
TypePinned ==
  \E c \in Altered, p \in Ids :
    /\ Aspect[c] \in {"type", "collation"}
    /\ Kind[p] \in {"view", "matview", "trigger", "policy"}
    /\ \/ p \in DOMAIN old /\ c \in Uses[p][old[p]]
       \/ p \in Fresh /\ c \in Uses[p][new[p]] /\ Before(p, c)

\* A constraint is added under the name of the one it replaces.
NameTaken == \E o \in Altered : Kind[o] \in {"unique", "check"}

\* A function is dropped by the arguments it is about to have.
WrongSignature == \E o \in Altered : Aspect[o] = "signature"

\* NULLs in the rows: the backfill comes after SET NOT NULL.
RowsInTheWay == /\ filled
                /\ \E c \in Altered \cup Fresh :
                     NotNull(c, new[c]) /\ Owner[c] \in DOMAIN old

Snag == TooEarly \/ StillUsed \/ TypePinned \/ NameTaken
          \/ WrongSignature \/ RowsInTheWay

\* An edge that fails on the database it starts from fails for one of these
\* reasons or over the casualties of a type that was created again; one for
\* which there is such a reason never lands.
FailsForAReason == /\ phase = "failed" => Snag \/ Casualties # {}
                   /\ phase = "landed" => ~Snag

(***************************************************************************)
(* What the docs say and the code does not do.                             *)
(***************************************************************************)
\* default_expr is "written as-is into DDL" (docs/format-reference.md).
ExpressionAsIs ==
  phase = "landed" => \A c \in Of(new, "column") \cap DOMAIN db :
                        Aspect[c] = "expression" => db[c].ver = new[c]

=============================================================================

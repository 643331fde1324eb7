---------------------------- MODULE PostgresDDL ----------------------------
(***************************************************************************)
(* What PostgreSQL makes of a DDL statement, as far as the statements that *)
(* internal/migrate/sql_gen.go renders depend on it: which ones it refuses *)
(* and what they take along.                                               *)
(*                                                                         *)
(* A database maps its objects to their version, to the objects they use,  *)
(* by identity rather than by name, and, for a column, to the column whose *)
(* data it holds: itself, one it was renamed from, or none (NoOwner).      *)
(***************************************************************************)
EXTENDS SchemaDiff

VersionUses(o, v) == IF v = 0 THEN {} ELSE Uses[o][v]

Stored(o, v, from) == [ver |-> v, uses |-> VersionUses(o, v), from |-> from]

Database(s) == [o \in DOMAIN s |-> Stored(o, s[o], o)]

Users(db, S) == {o \in DOMAIN db \ S : db[o].uses \cap S # {}}

\* Everything that uses the objects, directly or not, and they themselves.
Cascade(db, S) ==
  LET more(T) == Users(db, T) \cup {o \in DOMAIN db \ T : Owner[o] \in T}
      taken[T \in SUBSET Ids] == IF more(T) = {} THEN T ELSE taken[T \cup more(T)]
  IN taken[S]

\* What a drop without CASCADE takes along: all parts of a table; of a column
\* the constraints and indexes on it.
Takes(db, o) ==
  {o} \cup CASE Kind[o] = "table" -> Parts(db, o)
             [] Kind[o] = "column" ->
                  {p \in Users(db, {o}) :
                     /\ Owner[p] = Owner[o]
                     /\ Kind[p] \in {"fk", "index", "unique", "check"}}
             [] OTHER -> {}

\* Domains and composite types are dropped with CASCADE.
Cascades(o) == Kind[o] \in {"domain", "composite"}

Dropped(db, o) == IF Cascades(o) THEN Cascade(db, {o}) ELSE Takes(db, o)

\* Columns a view, a trigger or a policy reads cannot change their type, which
\* the collation is declared with.
Pinned(db, c) ==
  \E o \in Users(db, {c}) : Kind[o] \in {"view", "matview", "trigger", "policy"}

\* The new schema gives the columns a table is created with.
Columns(s, o) == IF Kind[o] = "table" THEN PartsOf(s, o, "column") ELSE {}

NotNull(o, v) == Aspect[o] = "notnull" /\ v = 2

\* Rows without a value for the column, and nothing to fill in.
RowsRefuse(gaps, o, v) == NotNull(o, v) /\ o \in gaps

CanCreate(db, s, gaps, o, v) ==
  /\ o \notin DOMAIN db
  /\ Top(o) \in DOMAIN db \cup {o}
  /\ UNION {VersionUses(p, IF p = o THEN v ELSE s[p]) :
            p \in {o} \cup Columns(s, o)} \subseteq DOMAIN db
  /\ ~RowsRefuse(gaps, o, v)

\* A trigger is dropped IF EXISTS, a function by its signature.
CanDrop(db, o, v) ==
  IF o \notin DOMAIN db
  THEN Kind[o] = "trigger"
  ELSE /\ Aspect[o] = "signature" => db[o].ver = v
       /\ Cascades(o) \/ Users(db, Takes(db, o)) = {}

CanAlter(db, gaps, o, v) ==
  /\ o \in DOMAIN db
  /\ VersionUses(o, v) \subseteq DOMAIN db
  /\ Aspect[o] \in {"type", "collation"} => ~Pinned(db, o)
  /\ ~RowsRefuse(gaps, o, v)

Accepts(db, s, gaps, op) ==
  LET o == op.id
  IN CASE op.do = "create" -> CanCreate(db, s, gaps, o, op.to)
       [] op.do = "drop" -> CanDrop(db, o, op.to)
       [] op.do = "alter" -> CanAlter(db, gaps, o, op.to)
       [] op.do = "rename" -> o \in DOMAIN db /\ op.to \notin DOMAIN db
       [] op.do \in {"validate", "backfill"} -> o \in DOMAIN db
       [] op.do \in {"drop_guard", "vacuous"} -> TRUE

\* Who used the column by its old name uses it by its new one.
Renamed(db, a, b) ==
  LET name(o) == IF o = b THEN a ELSE o
      subst(S) == IF a \in S THEN (S \ {a}) \cup {b} ELSE S
  IN [o \in (DOMAIN db \ {a}) \cup {b} |->
        [db[name(o)] EXCEPT !.uses = subst(@)]]

Effect(db, s, op) ==
  LET o == op.id
  IN CASE op.do = "create" ->
            [p \in DOMAIN db \cup {o} \cup Columns(s, o) |->
               IF p \in DOMAIN db THEN db[p]
               ELSE Stored(p, IF p = o THEN op.to ELSE s[p], NoOwner)]
       [] op.do = "drop" -> Restrict(db, DOMAIN db \ Dropped(db, o))
       [] op.do = "alter" -> [db EXCEPT ![o] = Stored(o, op.to, @.from)]
       [] op.do = "rename" -> Renamed(db, o, op.to)
       [] OTHER -> db
=============================================================================

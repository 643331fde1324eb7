----------------------------- MODULE SchemaDiff -----------------------------
(***************************************************************************)
(* Two schemas and what differs: internal/diff (the differ and the rename  *)
(* gate), over the canonical order internal/model gives a schema.          *)
(*                                                                         *)
(* A schema is a function from the objects it declares to their versions.  *)
(* Two versions of an object differ in one aspect only; what a version     *)
(* refers to is Uses[o][version], in source or through the catalog.        *)
(***************************************************************************)
EXTENDS Integers, SequencesExt, FiniteSets

CONSTANTS Names,   \* the objects a schema may declare, in alphabetical order
          Kind,    \* [Ids -> Kinds]
          Owner,   \* the table of a column, constraint, ...; NoOwner for others
          Aspect,  \* what differs between the versions of an object
          Uses,    \* [Ids -> << objects version 1 uses, ... version 2 >>]
          Alike,   \* the pairs of columns of one table equal but for their name
          NoOwner

Ids == ToSet(Names)

Kinds == {"enum", "composite", "domain", "table", "column", "fk", "index",
          "unique", "check", "trigger", "policy", "view", "matview",
          "sequence", "function"}

\* Columns, constraints, indexes, triggers and policies are part of a table.
PartKinds == {"column", "fk", "index", "unique", "check", "trigger", "policy"}
Top(o) == IF Owner[o] = NoOwner THEN o ELSE Owner[o]

\* The aspects of a table, a column, an index and a function are the ones there
\* are ops for, and two for which there is none: the primary key of a table and
\* whether an index is unique.
AspectsOf(kind) ==
  CASE kind = "table" -> {"none", "rls", "pk"}
    [] kind = "column" -> {"none", "type", "collation", "notnull", "default",
                           "expression"}
    [] kind = "index" -> {"none", "shape", "with", "uniqueness"}
    [] kind = "function" -> {"none", "body", "signature"}
    [] OTHER -> STRING \ {"rls", "pk", "type", "collation", "notnull", "default",
                          "expression", "with", "uniqueness", "signature"}

\* A table uses nothing but through its parts, a domain no column, and what an
\* object uses does not change with its collation, its nullability, its literal
\* default, its WITH parameters or its uniqueness.
ASSUME Catalog ==
  /\ Names \in Seq(Ids) /\ IsInjective(Names) /\ NoOwner \notin Ids
  /\ Kind \in [Ids -> Kinds]
  /\ \A o \in Ids : IF Kind[o] \in PartKinds
                    THEN Owner[o] \in Ids /\ Kind[Owner[o]] = "table"
                    ELSE Owner[o] = NoOwner
  /\ \A o \in Ids : Aspect[o] \in AspectsOf(Kind[o])
  /\ \A o \in Ids : /\ Uses[o][1] \cup Uses[o][2] \subseteq Ids
                    /\ Kind[o] = "table" => Uses[o][1] \cup Uses[o][2] = {}
                    /\ Kind[o] = "domain" => \A u \in Uses[o][1] \cup Uses[o][2] :
                                               Kind[u] # "column"
                    /\ Aspect[o] \in {"collation", "notnull", "default", "with",
                                     "uniqueness"} => Uses[o][1] = Uses[o][2]
  /\ Alike \in Seq({p \in Ids \X Ids : /\ Kind[p[1]] = "column" /\ Kind[p[2]] = "column"
                                      /\ Owner[p[1]] = Owner[p[2]]})

\* References that dangle are errors of validation, before any diff.
IsSchema(s) == /\ DOMAIN s \subseteq Ids
               /\ \A o \in DOMAIN s : /\ s[o] \in IF Aspect[o] = "none" THEN {1} ELSE {1, 2}
                                      /\ Uses[o][s[o]] \subseteq DOMAIN s
                                      /\ Top(o) \in DOMAIN s

Of(s, kind) == {o \in DOMAIN s : Kind[o] = kind}
Parts(s, t) == {o \in DOMAIN s : Owner[o] = t}
PartsOf(s, t, kind) == Parts(s, t) \cap Of(s, kind)

(***************************************************************************)
(* Canonical order.                                                        *)
(***************************************************************************)
\* The members of s that are in S, in the order of s.
Among(s, S) == FlattenSeq([i \in DOMAIN s |-> IF s[i] \in S THEN << s[i] >> ELSE << >>])

ByName(S) == Among(Names, S)

\* Kahn's algorithm with a queue: its head is emitted, and what waited for
\* nothing else is queued by name.
Emit(k, deps) ==
  LET emitted == Append(k.out, Head(k.queue))
      freed == {o \in k.waiting : deps[o] \subseteq ToSet(emitted)}
  IN [out |-> emitted, queue |-> Tail(k.queue) \o ByName(freed),
      waiting |-> k.waiting \ freed]

\* Self-dependencies and dependencies from outside the set are ignored.  The
\* members of cycles come last, by name.
TopoSort(S, deps) ==
  LET inner == [o \in S |-> (deps[o] \cap S) \ {o}]
      free == {o \in S : inner[o] = {}}
      kahn[n \in 0..Cardinality(S)] ==
        IF n = 0 THEN [out |-> << >>, queue |-> ByName(free), waiting |-> S \ free]
        ELSE IF kahn[n - 1].queue = << >> THEN kahn[n - 1]
        ELSE Emit(kahn[n - 1], inner)
      last == kahn[Cardinality(S)]
  IN last.out \o ByName(last.waiting)

\* A table depends on the tables its foreign keys refer to.
TableDeps(s) == [t \in Of(s, "table") |->
                   UNION {Uses[f][s[f]] : f \in PartsOf(s, t, "fk")}]

Tables(s) == TopoSort(Of(s, "table"), TableDeps(s))

\* The order of a collection: views, materialized views and functions by what
\* they depend on, everything else by name.
InOrder(s, kind) ==
  CASE kind = "table" -> Tables(s)
    [] kind \in {"view", "matview", "function"} ->
         TopoSort(Of(s, kind), [o \in Of(s, kind) |-> Uses[o][s[o]]])
    [] OTHER -> ByName(Of(s, kind))

(***************************************************************************)
(* The differ matches objects by name: what is added and what is changed   *)
(* comes in the order of the desired schema, what is removed in that of    *)
(* the actual one.                                                         *)
(***************************************************************************)
\* Mutant: what is added is taken by name.
AddedByName(old, new, kind) == Among(ByName(Of(new, kind)), DOMAIN new \ DOMAIN old)

Added(old, new, kind) == Among(InOrder(new, kind), DOMAIN new \ DOMAIN old)

Removed(old, new, kind) == Among(InOrder(old, kind), DOMAIN old \ DOMAIN new)

\* Whether an index is unique is compared nowhere.
Differs(old, new, o) == /\ o \in DOMAIN old \cap DOMAIN new
                        /\ old[o] # new[o]
                        /\ Aspect[o] # "uniqueness"

Changed(old, new, kind) ==
  Among(InOrder(new, kind), {o \in DOMAIN new : Differs(old, new, o)})

\* Mutant: parts of the same name count as the same.
ChangedTablesByName(old, new) ==
  Among(Tables(new),
        {t \in DOMAIN old : Differs(old, new, t) \/ Parts(old, t) # Parts(new, t)})

\* Tables of both schemas, one of whose parts was added, removed or changed.
ChangedTables(old, new) ==
  Among(Tables(new),
        {t \in DOMAIN old : \/ Differs(old, new, t)
                            \/ Parts(old, t) # Parts(new, t)
                            \/ \E o \in Parts(new, t) : Differs(old, new, o)})

\* The parts of one kind of a changed table.
PartsAdded(old, new, t, kind) == Among(Added(old, new, kind), Parts(new, t))
PartsRemoved(old, new, t, kind) == Among(Removed(old, new, kind), Parts(old, t))
PartsChanged(old, new, t, kind) == Among(Changed(old, new, kind), Parts(new, t))

(***************************************************************************)
(* The rename gate, for columns.  A column that goes and one that comes    *)
(* with the same definition are a plausible rename: it has to be declared, *)
(* and what is declared has to be plausible.                               *)
(***************************************************************************)
Plausible(old, new) ==
  {p \in ToSet(Alike) :
     /\ {Top(p[1]), Top(p[2])} \subseteq DOMAIN old \cap DOMAIN new
     /\ p[1] \in DOMAIN old \ DOMAIN new
     /\ p[2] \in DOMAIN new \ DOMAIN old
     /\ old[p[1]] = new[p[2]]}

Stale(old, new, declared) == declared \ Plausible(old, new)

\* Mutant: only a project that declares renames is asked about them.
UndeclaredIfAny(old, new, declared) ==
  {p \in Plausible(old, new) :
     declared # {} /\ \A d \in declared : d[1] # p[1] /\ d[2] # p[2]}

\* Plausible pairs neither end of which a declaration has consumed.
Undeclared(old, new, declared) ==
  {p \in Plausible(old, new) : \A d \in declared : d[1] # p[1] /\ d[2] # p[2]}

GatePasses(old, new, declared) == /\ Stale(old, new, declared) = {}
                                  /\ Undeclared(old, new, declared) = {}
=============================================================================

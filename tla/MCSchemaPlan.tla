---------------------------- MODULE MCSchemaPlan ----------------------------
(***************************************************************************)
(* A catalog of objects with every kind of reference the generator orders, *)
(* and all pairs of schemas a few edits apart.                             *)
(***************************************************************************)
EXTENDS SchemaPlan

CONSTANTS MaxEdits

MCNames == << "a", "b", "c", "ck", "d", "dom", "dom2", "e", "f1",
              "f2", "fn", "fn2", "ix", "ix2", "k", "mood", "mv", "pair",
              "po", "sq", "t1", "t2", "tg", "uq", "ux", "v", "w", "x", "y" >>

MCKind ==
  [ ck |-> "check", a |-> "column", b |-> "column", c |-> "column",
    d |-> "column", e |-> "column", w |-> "column", x |-> "column", y |-> "column",
    dom |-> "domain", dom2 |-> "domain", f1 |-> "fk", f2 |-> "fk",
    fn |-> "function", fn2 |-> "function", ix |-> "index", ix2 |-> "index",
    k |-> "column", mood |-> "enum", mv |-> "matview", pair |-> "composite", po |-> "policy",
    sq |-> "sequence", t1 |-> "table", t2 |-> "table", tg |-> "trigger",
    uq |-> "unique", ux |-> "index", v |-> "view" ]

MCOwner ==
  [ ck |-> "t1", a |-> "t1", b |-> "t1", c |-> "t1", d |-> "t1", e |-> "t1",
    w |-> "t2", x |-> "t2", y |-> "t2", dom |-> "", dom2 |-> "", f1 |-> "t1", f2 |-> "t2",
    fn |-> "", fn2 |-> "", k |-> "t1", ix |-> "t1", ix2 |-> "t2", mood |-> "", mv |-> "",
    pair |-> "", po |-> "t1", sq |-> "", t1 |-> "", t2 |-> "", tg |-> "t2",
    uq |-> "t2", ux |-> "t2", v |-> "" ]

\* d |-> "notnull": its version 2 is NOT NULL, and so on.  The columns with a
\* default, c and k, are of type text: k numbers its rows from a sequence.
MCAspect ==
  [ ck |-> "shape", a |-> "none", b |-> "none", c |-> "default",
    d |-> "notnull", e |-> "type", w |-> "collation", x |-> "none", y |-> "type",
    dom |-> "base", dom2 |-> "check", f1 |-> "shape", f2 |-> "shape",
    fn |-> "signature", fn2 |-> "body", ix |-> "shape", ix2 |-> "with",
    k |-> "expression", mood |-> "grow", mv |-> "query", pair |-> "fields", po |-> "shape",
    sq |-> "start", t1 |-> "rls", t2 |-> "pk", tg |-> "shape",
    uq |-> "shape", ux |-> "uniqueness", v |-> "query" ]

Same(S) == << S, S >>

\* What the versions 1 and 2 use.
MCUses ==
  [ ck |-> Same({"a"}), a |-> Same({}), b |-> Same({}),
    c |-> Same({}), d |-> Same({}), e |-> << {"mood"}, {} >>,
    w |-> Same({}), x |-> Same({}), y |-> Same({"dom"}), dom |-> Same({}),
    dom2 |-> Same({"pair"}), f1 |-> Same({"a", "t2", "uq"}), f2 |-> Same({"x", "t1"}),
    fn |-> Same({}), fn2 |-> Same({}), ix |-> << {"a"}, {"b"} >>,
    ix2 |-> Same({"x"}), k |-> << {}, {"sq"} >>, mood |-> Same({}), mv |-> Same({"v"}),
    pair |-> Same({}), po |-> Same({"d"}), sq |-> Same({}),
    t1 |-> Same({}), t2 |-> Same({}), tg |-> Same({"fn2"}),
    uq |-> Same({"x"}), ux |-> Same({"w"}), v |-> << {"a", "c", "e", "t1"}, {"b", "t1"} >> ]

MCAlike == << <<"a", "b">>, <<"b", "a">> >>

\* The largest schema without the objects: what refers to them goes too.
RECURSIVE Largest(_)
Largest(s) ==
  LET fine == {o \in DOMAIN s : /\ Uses[o][s[o]] \subseteq DOMAIN s
                                /\ Top(o) \in DOMAIN s}
  IN IF fine = DOMAIN s THEN s ELSE Largest(Restrict(s, fine))

Without(absent, second) ==
  Largest([o \in Ids \ absent |->
             IF o \in second /\ Aspect[o] # "none" THEN 2 ELSE 1])

Marks == {"gone", "new", "was2", "is2"} \X Ids
Marked(e, mark) == {o \in Ids : <<mark, o>> \in e}

RECURSIVE Edits(_)
Edits(n) == IF n = 0 THEN {{}} ELSE {e \cup {m} : e \in Edits(n - 1), m \in Marks}

EditedPairs ==
  {<< Without(Marked(e, "new"), Marked(e, "was2")),
      Without(Marked(e, "gone"), Marked(e, "is2")) >> : e \in Edits(MaxEdits)}

\* A rename of a column that a view may read, and nothing else that would go
\* with it: such an edge can be undone.
RenamedPairs ==
  LET others == {"ck", "f1", "ix"}
  IN {<< Without({"b"} \cup others \cup Marked(e, "new"), Marked(e, "was2")),
         Without({"a"} \cup others \cup Marked(e, "gone"), Marked(e, "is2")) >> :
        e \in Edits(MaxEdits)}

\* The first edge of a chain starts from nothing.
GenesisPairs == {<< << >>, p[2] >> : p \in EditedPairs}

MCPairs == {p \in EditedPairs \cup RenamedPairs \cup GenesisPairs : p[1] # p[2]}
=============================================================================

--------------------------- MODULE RevisionLedger ---------------------------
(***************************************************************************)
(* What the migrate commands promise about one database, with no clients,  *)
(* no journal and no crashes in sight: it is at a revision of the chain,   *)
(* and looks like it; or it openly says that it is on its way to the next. *)
(* ChainMigrate implements this.                                           *)
(***************************************************************************)
EXTENDS Naturals

CONSTANTS
  Top,      \* the last revision of the chain; 0 is genesis
  Floors,   \* the revisions a database may be adopted at
  Shapes,   \* what a schema can look like
  Shape     \* Shape[r] is what revision r looks like

VARIABLES
  rev,      \* the revision the database is at
  next,     \* the revision it is moving to, or 0
  floor,    \* the revision it was adopted at
  shape     \* what its schema looks like

ledger == <<rev, next, floor, shape>>

Init ==
  /\ floor \in Floors
  /\ rev = floor
  /\ next = 0
  /\ shape = Shape[rev]

\* A move is announced before the schema changes, and only to the next revision.
Begin ==
  /\ next = 0 /\ rev < Top
  /\ next' = rev + 1
  /\ UNCHANGED <<rev, floor, shape>>

\* Under way the schema may look like anything.
Move ==
  /\ next # 0
  /\ shape' \in Shapes
  /\ UNCHANGED <<rev, next, floor>>

\* Arrival: the new revision and its schema appear together.
Arrive ==
  /\ next # 0
  /\ rev' = next /\ next' = 0 /\ shape' = Shape[next]
  /\ UNCHANGED floor

\* The move is called off.
Return ==
  /\ next # 0
  /\ next' = 0 /\ shape' = Shape[rev]
  /\ UNCHANGED <<rev, floor>>

\* A revision is undone in one step, never below the floor.
Retreat ==
  /\ next = 0 /\ rev > floor
  /\ rev' = rev - 1 /\ shape' = Shape[rev - 1]
  /\ UNCHANGED <<next, floor>>

Next == Begin \/ Move \/ Arrive \/ Return \/ Retreat

Spec == Init /\ [][Next]_ledger
=============================================================================

---------------------------- MODULE RevisionLine ----------------------------
(***************************************************************************)
(* What a chain without branches promises the databases migrated along it:  *)
(* the schema of a database is at any time one the line has had, and only   *)
(* moves forward along the line.  How edges are stored, consolidated and    *)
(* archived does not show.                                                  *)
(***************************************************************************)
EXTENDS Naturals, SequencesExt

CONSTANTS Databases, Objects

VARIABLES
  line,   \* the schemas of the project, oldest first
  at      \* the schema of each database

vars == <<line, at>>

Init ==
  /\ line = <<{}>>
  /\ at = [d \in Databases |-> {}]

Extend(s) ==
  /\ s \notin ToSet(line)
  /\ line' = Append(line, s)
  /\ UNCHANGED at

Advance(d) ==
  /\ \E i, j \in DOMAIN line :
       i < j /\ line[i] = at[d] /\ at' = [at EXCEPT ![d] = line[j]]
  /\ UNCHANGED line

Next ==
  \/ \E s \in SUBSET Objects : Extend(s)
  \/ \E d \in Databases : Advance(d)

Spec == Init /\ [][Next]_vars
=============================================================================

--------------------------- MODULE MCChainMigrate ---------------------------
(* Instances of ChainMigrate for TLC: the objects and the chains.           *)
EXTENDS ChainMigrate, SequencesExt

CONSTANTS c1, c2, table, index, data

MCClients == {c1, c2}
OneClient == {c1}
MCObjects == {table, index, data}

OpOf(kind, obj, down) == [kind |-> kind, obj |-> obj, down |-> down]

(***************************************************************************)
(* Chains as generate.go writes them: an edge that creates, one that        *)
(* changes an index (a drop without a recorded inverse, then a concurrent  *)
(* build of the same name), one that changes columns and moves data.       *)
(***************************************************************************)
CreateAll ==
  << OpOf("create", table, TRUE),
     OpOf("create", index, TRUE) >>

ReplaceIndex ==
  << OpOf("drop", index, FALSE),
     OpOf("create_index_concurrently", index, TRUE),
     OpOf("alter", table, TRUE) >>

MoveData ==
  << OpOf("create", data, TRUE),
     OpOf("backfill", data, TRUE) >>

ChainOneWayIndex == << CreateAll, ReplaceIndex, MoveData >>

(***************************************************************************)
(* Concurrent index ops whose rows record down-ops, and an enum value on a *)
(* server too old to add one in a transaction.                             *)
(***************************************************************************)
BuildIndex ==
  << OpOf("create", table, TRUE),
     OpOf("create_index_concurrently", index, TRUE),
     OpOf("alter", table, TRUE) >>

DropIndex ==
  << OpOf("create", data, TRUE),
     OpOf("drop_index_concurrently", index, TRUE) >>

ExtendEnum ==
  << OpOf("create", index, TRUE),
     OpOf("alter_enum_add_value", data, FALSE),
     OpOf("drop", table, FALSE) >>

ChainTwoWayIndex == << BuildIndex, DropIndex, ExtendEnum >>

(***************************************************************************)
(* The manifests an op sequence leads to, from an empty database.          *)
(***************************************************************************)
Applied(ops) ==
  FoldLeft(LAMBDA m, op : [m EXCEPT ![op.obj] = Effect(op.kind, @)],
           [o \in MCObjects |-> "absent"], ops)

StagesOf(chain) ==
  [e \in 1..Len(chain) |->
     [k \in 0..MaxOps |->
        Applied(FlattenSeq(SubSeq(chain, 1, e - 1)) \o
                SubSeq(chain[e], 1, IF k < Len(chain[e]) THEN k
                                                         ELSE Len(chain[e])))]]

StagesOneWayIndex == StagesOf(ChainOneWayIndex)
StagesTwoWayIndex == StagesOf(ChainTwoWayIndex)

(***************************************************************************)
(* The hypotheses of the theorems in ChainSchemaProofs hold of the chains: *)
(* DownOpsTransactional only where no concurrent op records a down-op.     *)
(***************************************************************************)
ASSUME ChainsRestore ==
  /\ DownOpsRestore
  /\ Chain = ChainOneWayIndex => DownOpsTransactional
=============================================================================

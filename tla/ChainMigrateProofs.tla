------------------------- MODULE ChainMigrateProofs -------------------------
(***************************************************************************)
(* Proofs about ChainMigrate for every set of clients, every chain and     *)
(* every bound: the journal and the chain position never disagree.         *)
(***************************************************************************)
EXTENDS ChainMigrate, TLAPS

-----------------------------------------------------------------------------
(***************************************************************************)
(* Facts about the chain and the operators on object states.               *)
(***************************************************************************)

\* The edges are a range of naturals, and each has ops within the bound.
LEMMA ChainFacts ==
  /\ Len(Chain) \in Nat
  /\ Edges \subseteq Nat \ {0}
  /\ \A e \in Edges : e \in 1..Len(Chain)
  /\ \A e \in Edges : Chain[e] \in Seq(Ops)
  /\ \A e \in Edges : LastSeq(e) \in Seqs
  /\ \A e \in Edges : LastSeq(e) \in Nat \ {0}
  /\ Seqs \subseteq Nat \ {0}
  /\ \A e \in Edges : 1..LastSeq(e) \subseteq Seqs
  /\ \A e \in Edges : \A k \in 1..LastSeq(e) : Chain[e][k] \in Ops
<1>1. Chain \in Seq(Seq(Ops)) /\ MaxOps \in Nat
  BY ChainAssumption DEF ChainAssumption
<1>2. Len(Chain) \in Nat
  BY <1>1
<1>3. \A e \in Edges : Chain[e] \in Seq(Ops)
  BY <1>1 DEF Edges
<1>4. \A e \in Edges : LastSeq(e) \in 1..MaxOps
  BY ChainAssumption DEF ChainAssumption, Edges, LastSeq
<1>5. \A e \in Edges : \A k \in 1..LastSeq(e) : Chain[e][k] \in Ops
  BY <1>3 DEF LastSeq
<1> QED
  BY <1>1, <1>2, <1>3, <1>4, <1>5 DEF Edges, Seqs

\* The arithmetic of edges and rows, without the ops.
LEMMA EdgeFacts ==
  /\ Edges \subseteq Nat \ {0}
  /\ Seqs \subseteq Nat \ {0}
  /\ \A e \in Edges : LastSeq(e) \in Seqs
  /\ \A e \in Edges : LastSeq(e) \in Nat /\ LastSeq(e) >= 1
  /\ \A e \in Edges : 1..LastSeq(e) \subseteq Seqs
<1>1. \A e \in Edges : LastSeq(e) \in Nat \ {0}
  BY ChainFacts
<1>2. \A e \in Edges : LastSeq(e) >= 1
  BY <1>1
<1> QED
  BY <1>1, <1>2, ChainFacts

\* A statement leaves an object in one of the known states.
LEMMA EffectType ==
  ASSUME NEW kind \in OpKinds \union {"unalter", "vacuous"},
         NEW s \in ObjectStates
  PROVE  Effect(kind, s) \in ObjectStates
BY DEF Effect, ObjectStates, OpKinds, NonTransactional

\* The recorded inverse of an op that has one is a known kind of op.
LEMMA DownKindType ==
  ASSUME NEW op \in Ops, op.down
  PROVE  DownKind(op.kind) \in OpKinds \union {"unalter", "vacuous"}
<1>1. op.kind \in OpKinds \ {"alter_enum_add_value"}
  BY DEF Ops
<1> QED
  BY <1>1 DEF DownKind, OpKinds, NonTransactional

\* Every manifest describes a schema.
LEMMA ModelsType == Models \in [Revisions -> [Objects -> ObjectStates]]
<1>0. Stages \in [Edges -> [0..MaxOps -> [Objects -> ObjectStates]]]
  BY Zenon, StagesAssumption DEF StagesAssumption
<1>1. \A r \in Revisions : r # 0 => Stages[r][LastSeq(r)] \in [Objects -> ObjectStates]
  <2> SUFFICES ASSUME NEW r \in Revisions, r # 0
               PROVE  Stages[r][LastSeq(r)] \in [Objects -> ObjectStates]
    OBVIOUS
  <2>1. r \in Edges
    BY ChainFacts DEF Revisions, Edges
  <2>2. LastSeq(r) \in 0..MaxOps
    BY <2>1, ChainFacts, ChainAssumption DEF Seqs, ChainAssumption
  <2> QED
    BY <1>0, <2>1, <2>2
<1>2. [o \in Objects |-> "absent"] \in [Objects -> ObjectStates]
  BY DEF ObjectStates
<1> QED
  BY <1>1, <1>2 DEF Models
-----------------------------------------------------------------------------
(***************************************************************************)
(* One client works at a time: what a step does to the others.             *)
(***************************************************************************)

\* While a client is inside a command every other client is idle.
LEMMA OthersIdle ==
  ASSUME LockHeld, NEW c \in Clients, pc[c] # "idle",
         NEW d \in Clients, d # c
  PROVE  pc[d] = "idle"
BY DEF LockHeld

\* An idle client claims nothing about the database.
LEMMA IdleClaimsNothing ==
  ASSUME NEW d \in Clients, pc'[d] = "idle"
  PROVE  ApplyInv(d)' /\ RollbackInv(d)'
BY DEF ApplyInv, RollbackInv, ApplyPCs, RollbackPCs

\* A client that goes on within its command disturbs no other.
LEMMA StayingInside ==
  ASSUME LockHeld, pc \in [Clients -> PCs], NEW c \in Clients,
         pc[c] # "idle", lock' = lock, NEW label \in PCs \ {"idle"},
         Goto(c, label),
         \A d \in Clients : d # c => job'[d] = job[d]
  PROVE  /\ LockHeld'
         /\ pc' \in [Clients -> PCs]
         /\ pc'[c] = label
         /\ \A d \in Clients : d # c => ApplyInv(d)' /\ RollbackInv(d)'
<1>1. pc' \in [Clients -> PCs] /\ pc'[c] = label
  BY DEF Goto
<1>2. ASSUME NEW d \in Clients, d # c
      PROVE  pc'[d] = "idle" /\ lock # d /\ job'[d] = NoJob
  BY <1>2, OthersIdle DEF Goto, LockHeld
<1>3. lock = c
  BY DEF LockHeld
<1>4. LockHeld'
  <2> SUFFICES ASSUME NEW d \in Clients
               PROVE  /\ pc'[d] # "idle" <=> lock' = d
                      /\ pc'[d] = "idle" => job'[d] = NoJob'
    BY DEF LockHeld
  <2> QED
    BY <1>1, <1>2, <1>3 DEF NoJob
<1> QED
  BY <1>1, <1>2, <1>4, IdleClaimsNothing

\* A client that ends its command leaves everybody idle.
LEMMA LeavingCommand ==
  ASSUME LockHeld, TypeOK, NEW c \in Clients, pc[c] # "idle",
         NEW report \in Outcomes, Release(c, report)
  PROVE  /\ LockHeld'
         /\ lock' \in Clients \union {NoClient}
         /\ pc' \in [Clients -> PCs]
         /\ \A d \in Clients : job'[d] = NoJob
         /\ DOMAIN job' = Clients
         /\ outcome' \in [Clients -> Outcomes]
         /\ \A d \in Clients : ApplyInv(d)' /\ RollbackInv(d)'
<1>1. pc' \in [Clients -> PCs] /\ outcome' \in [Clients -> Outcomes]
  BY DEF Release, Goto, TypeOK, PCs
<1>2. \A d \in Clients : pc'[d] = "idle" /\ job'[d] = NoJob
  BY OthersIdle DEF Release, Goto, TypeOK, LockHeld
<1>3. LockHeld'
  BY <1>2, ClientsAssumption DEF LockHeld, Release, ClientsAssumption, NoJob
<1>4. DOMAIN job' = Clients
  BY DEF Release, TypeOK
<1> QED
  BY <1>1, <1>2, <1>3, <1>4, IdleClaimsNothing DEF Release

\* The journal and the position agree as long as neither is touched.
LEMMA NothingRecorded ==
  ASSUME PositionMatchesJournal, RowsArePrefix, LastOpLands,
         UNCHANGED <<current, inProgress, boundary, journal>>
  PROVE  PositionMatchesJournal' /\ RowsArePrefix' /\ LastOpLands'
BY DEF PositionMatchesJournal, RowsArePrefix, LastOpLands, FullyConfirmed, HasRows
-----------------------------------------------------------------------------
(***************************************************************************)
(* Types.                                                                  *)
(***************************************************************************)
LEMMA RevisionFacts ==
  /\ 0 \in Revisions
  /\ Edges \subseteq Revisions
  /\ Revisions \subseteq Nat
  /\ \A r \in Revisions : r # 0 => r \in Edges
BY ChainFacts DEF Revisions, Edges

\* The local variables of a client between two edges, or of an idle one.
LEMMA JobTypes ==
  /\ NoJob \in Jobs
  /\ \A h \in Revisions, e \in Revisions :
       [NoJob EXCEPT !.head = h, !.edge = e] \in Jobs
  /\ \A h \in Revisions : [NoJob EXCEPT !.head = h] \in Jobs
  /\ \A g \in Revisions, e \in Revisions :
       [NoJob EXCEPT !.goal = g, !.edge = e] \in Jobs
BY RevisionFacts DEF NoJob, Jobs

\* The updates of the local variables within an edge.
LEMMA JobUpdates ==
  ASSUME NEW j \in Jobs
  PROVE  /\ j.seq \in Nat /\ j.edge \in Revisions
         /\ j.rows \subseteq Seqs /\ j.staged \subseteq Seqs
         /\ [j EXCEPT !.seq = @ + 1] \in Jobs
         /\ j.seq > 0 => [j EXCEPT !.seq = @ - 1] \in Jobs
         /\ \A S \in SUBSET Seqs :
              [j EXCEPT !.staged = S, !.seq = @ + 1] \in Jobs
         /\ \A S \in SUBSET Seqs : [j EXCEPT !.staged = S] \in Jobs
         /\ \A n \in Nat, R \in SUBSET Seqs :
              [j EXCEPT !.seq = n, !.rows = R] \in Jobs
         /\ \A n \in Nat, R \in SUBSET Seqs, P \in SUBSET Seqs :
              [j EXCEPT !.seq = n, !.rows = R, !.pending = P] \in Jobs
<1> USE DEF Jobs
<1>1. /\ j.seq \in Nat /\ j.edge \in Revisions
      /\ j.rows \subseteq Seqs /\ j.staged \subseteq Seqs
  OBVIOUS
<1>2. [j EXCEPT !.seq = @ + 1] \in Jobs
  BY <1>1
<1>3. ASSUME j.seq > 0 PROVE [j EXCEPT !.seq = @ - 1] \in Jobs
  <2>1. j.seq - 1 \in Nat
    BY <1>1, <1>3
  <2> QED
    BY <2>1
<1>4. \A S \in SUBSET Seqs : /\ [j EXCEPT !.staged = S] \in Jobs
                            /\ [j EXCEPT !.staged = S, !.seq = @ + 1] \in Jobs
  <2> SUFFICES ASSUME NEW S \in SUBSET Seqs
               PROVE  /\ [j EXCEPT !.staged = S] \in Jobs
                      /\ [j EXCEPT !.staged = S, !.seq = j.seq + 1] \in Jobs
    OBVIOUS
  <2>1. j.seq + 1 \in Nat
    BY <1>1
  <2> QED
    BY <2>1
<1>5. \A n \in Nat, R \in SUBSET Seqs : [j EXCEPT !.seq = n, !.rows = R] \in Jobs
  OBVIOUS
<1>6. \A n \in Nat, R \in SUBSET Seqs, P \in SUBSET Seqs :
        [j EXCEPT !.seq = n, !.rows = R, !.pending = P] \in Jobs
  OBVIOUS
<1> QED
  BY <1>1, <1>2, <1>3, <1>4, <1>5, <1>6

\* The op a client is at is one of the chain's.
LEMMA OpFacts ==
  ASSUME TypeOK, NEW c \in Clients, job[c].edge \in Edges, InEdge(c)
  PROVE  /\ Op(c) \in Ops
         /\ Op(c).kind \in OpKinds
         /\ Op(c).obj \in Objects
         /\ Op(c).down => Down(c) \in OpKinds \union {"unalter", "vacuous"}
<1>1. Op(c) \in Ops
  BY ChainFacts DEF Op, InEdge
<1>2. Op(c).kind \in OpKinds /\ Op(c).obj \in Objects
  BY <1>1 DEF Ops
<1> QED
  BY <1>1, <1>2, DownKindType DEF Down

\* A transaction sees every object in some state.
LEMMA ViewType ==
  ASSUME TypeOK, NEW c \in Clients
  PROVE  View(c) \in [Objects -> ObjectStates]
<1>1. \A o \in Objects : /\ written[c][o] \in ObjectStates \union {"unwritten"}
                         /\ objs[o] \in ObjectStates
  BY DEF TypeOK
<1> QED
  BY <1>1 DEF View

\* What a cut-off statement leaves is a known state.
LEMMA TornType ==
  ASSUME NEW kind \in OpKinds \union {"unalter", "vacuous"},
         NEW s \in ObjectStates, NEW resume \in BOOLEAN
  PROVE  /\ Torn(kind, s, resume) \subseteq ObjectStates
         /\ ExecEffect(kind, s, resume) \in ObjectStates
<1>1. ExecEffect(kind, s, resume) \in ObjectStates
  BY EffectType DEF ExecEffect
<1>2. {"absent", "invalid"} \subseteq ObjectStates
  BY DEF ObjectStates
<1> QED
  BY <1>1, <1>2 DEF Torn

\* Rewriting an edge's rows keeps the journal a journal.
LEMMA JournaledType ==
  ASSUME TypeOK, NEW c \in Clients, NEW i, NEW status \in RowStates
  PROVE  Journaled(c, i, status) \in [Edges -> [Seqs -> RowStates]]
BY DEF Journaled, TypeOK, RowStates

\* The initial state is well typed, and the invariant holds in it.
LEMMA InitInvariant == Init => IInv
<1> SUFFICES ASSUME Init PROVE IInv
  OBVIOUS
<1>1. boundary \in Revisions /\ current = boundary /\ inProgress = 0
  BY BoundsAssumption DEF Init, BoundsAssumption, Revisions
<1>2. \A e \in Edges, i \in Seqs : journal[e][i] = "none"
  BY DEF Init
<1>3. TypeOK
  <2>1. objs \in [Objects -> ObjectStates]
    BY <1>1, ModelsType DEF Init
  <2>2. job \in [Clients -> Jobs]
    BY JobTypes DEF Init
  <2>3. journal \in [Edges -> [Seqs -> RowStates]]
    BY DEF Init, RowStates
  <2> QED
    BY <1>1, <2>1, <2>2, <2>3, RevisionFacts
      DEF Init, TypeOK, PCs, Outcomes, Unwritten
<1>4. LockHeld
  BY ClientsAssumption DEF Init, LockHeld, ClientsAssumption
<1>5. PositionMatchesJournal /\ RowsArePrefix /\ LastOpLands
  BY <1>1, <1>2, RevisionFacts, ChainFacts
    DEF PositionMatchesJournal, RowsArePrefix, LastOpLands, HasRows
<1>6. \A c \in Clients : ApplyInv(c) /\ RollbackInv(c)
  BY DEF Init, ApplyInv, RollbackInv, ApplyPCs, RollbackPCs
<1> QED
  BY <1>3, <1>4, <1>5, <1>6 DEF IInv
-----------------------------------------------------------------------------
(***************************************************************************)
(* Steps that record nothing in the tracking structures.                   *)
(***************************************************************************)

\* Taking the lock.
LEMMA AcquireKeepsInvariant ==
  ASSUME IInv, NEW c \in Clients, AcquireAdvisoryLock(c)
  PROVE  IInv'
<1> USE DEF IInv
<1>1. \A d \in Clients : pc[d] = "idle" /\ job'[d] = NoJob
  BY ClientsAssumption DEF AcquireAdvisoryLock, LockHeld, ClientsAssumption
<1>2. pc' \in [Clients -> PCs] /\ pc'[c] \in {"ensure", "planBack"}
  BY DEF AcquireAdvisoryLock, Goto, TypeOK, PCs
<1>3. \A d \in Clients : d # c => pc'[d] = "idle"
  BY <1>1 DEF AcquireAdvisoryLock, Goto, TypeOK
<1>4. TypeOK'
  BY <1>2 DEF AcquireAdvisoryLock, TypeOK, position, history, Outcomes
<1>5. LockHeld'
  BY <1>1, <1>2, <1>3 DEF AcquireAdvisoryLock, LockHeld, NoJob
<1>6. PositionMatchesJournal' /\ RowsArePrefix' /\ LastOpLands'
  BY NothingRecorded DEF AcquireAdvisoryLock, position
<1>7. ApplyInv(c)' /\ RollbackInv(c)'
  BY <1>2 DEF ApplyInv, RollbackInv, ApplyPCs, RollbackPCs
<1> QED
  BY <1>3, <1>4, <1>5, <1>6, <1>7, IdleClaimsNothing

\* Ending a command without recording anything: refused, aborted, reported.
LEMMA QuietReleaseKeepsInvariant ==
  ASSUME IInv, NEW c \in Clients, pc[c] # "idle",
         NEW report \in Outcomes, Release(c, report),
         UNCHANGED <<position, journal>>,
         objs' \in [Objects -> ObjectStates], reversing' \subseteq Edges,
         aborts' \in Nat, drifts' \in Nat
  PROVE  IInv'
<1> USE DEF IInv
<1>1. PositionMatchesJournal' /\ RowsArePrefix' /\ LastOpLands'
  BY NothingRecorded DEF position
<1>2. job' \in [Clients -> Jobs]
  BY LeavingCommand, JobTypes DEF Release, TypeOK
<1>3. written' \in [Clients -> [Objects -> ObjectStates \union {"unwritten"}]]
  BY DEF Release, TypeOK, Unwritten
<1>4. TypeOK'
  BY <1>2, <1>3, LeavingCommand DEF TypeOK, position
<1> QED
  BY <1>1, <1>4, LeavingCommand

\* Creating the tracking structures.
LEMMA EnsureKeepsInvariant ==
  ASSUME IInv, NEW c \in Clients, EnsureChainStructures(c)
  PROVE  IInv'
<1> USE DEF IInv
<1>1. /\ LockHeld' /\ pc' \in [Clients -> PCs] /\ pc'[c] = "plan"
      /\ \A d \in Clients : d # c => ApplyInv(d)' /\ RollbackInv(d)'
  BY StayingInside DEF EnsureChainStructures, TypeOK, PCs
<1>2. TypeOK'
  BY <1>1 DEF EnsureChainStructures, TypeOK, history
<1>3. PositionMatchesJournal' /\ RowsArePrefix' /\ LastOpLands'
  BY NothingRecorded DEF EnsureChainStructures
<1>4. ApplyInv(c)' /\ RollbackInv(c)'
  BY <1>1 DEF ApplyInv, RollbackInv, ApplyPCs, RollbackPCs
<1> QED
  BY <1>1, <1>2, <1>3, <1>4

\* Choosing the edges to apply: the next one starts right after the position.
LEMMA FindApplyPathKeepsInvariant ==
  ASSUME IInv, NEW c \in Clients, FindApplyPath(c)
  PROVE  IInv'
<1> USE DEF IInv
<1>1. PICK h \in Checkouts :
        \/ /\ current < h
           /\ Goto(c, "begin")
           /\ job' = [job EXCEPT ![c] = [NoJob EXCEPT !.head = h,
                                                      !.edge = current + 1]]
           /\ UNCHANGED <<lock, written, outcome>>
        \/ Release(c, "upToDate")
        \/ Release(c, "failed")
  BY DEF FindApplyPath, EdgesRemain
<1>2. h \in Edges /\ h \in Revisions
  BY BoundsAssumption, RevisionFacts DEF BoundsAssumption, Edges
<1>3. ASSUME current < h, Goto(c, "begin"),
             job' = [job EXCEPT ![c] = [NoJob EXCEPT !.head = h,
                                                     !.edge = current + 1]],
             UNCHANGED <<lock, written, outcome>>
      PROVE  IInv'
  <2>1. current + 1 \in Edges /\ current + 1 <= h
    BY <1>2, <1>3, ChainFacts DEF TypeOK, Revisions, Edges
  <2>2. job'[c] \in Jobs /\ job'[c].edge = current + 1 /\ job'[c].head = h
        /\ job'[c].staged = {}
    BY <1>2, <1>3, <2>1, JobTypes, RevisionFacts DEF TypeOK, NoJob
  <2>3. /\ LockHeld' /\ pc' \in [Clients -> PCs] /\ pc'[c] = "begin"
        /\ \A d \in Clients : d # c => ApplyInv(d)' /\ RollbackInv(d)'
    <3>1. \A d \in Clients : d # c => job'[d] = job[d]
      BY <1>3 DEF TypeOK
    <3> QED
      BY <1>3, <3>1, StayingInside DEF FindApplyPath, TypeOK, PCs
  <2>4. TypeOK'
    BY <1>3, <2>2, <2>3 DEF FindApplyPath, TypeOK, position, history
  <2>5. PositionMatchesJournal' /\ RowsArePrefix' /\ LastOpLands'
    BY NothingRecorded DEF FindApplyPath, position
  <2>6. ApplyInv(c)' /\ RollbackInv(c)'
    BY <2>1, <2>2, <2>3
      DEF ApplyInv, RollbackInv, ApplyPCs, RollbackPCs, FindApplyPath, position
  <2> QED
    BY <2>3, <2>4, <2>5, <2>6
<1>4. CASE Release(c, "upToDate") \/ Release(c, "failed")
  BY <1>4, QuietReleaseKeepsInvariant
    DEF FindApplyPath, TypeOK, position, history, Outcomes
<1> QED
  BY <1>1, <1>3, <1>4

\* Passing over an op whose row is confirmed.
LEMMA SkipConfirmedKeepsInvariant ==
  ASSUME IInv, NEW c \in Clients, SkipConfirmedOp(c)
  PROVE  IInv'
<1> USE DEF IInv
<1>1. /\ pc'[c] = "op" /\ pc[c] = "op" /\ job[c].seq \in 1..LastSeq(job[c].edge)
      /\ job[c].seq \in job[c].rows
      /\ job' = [job EXCEPT ![c].seq = @ + 1]
  BY DEF SkipConfirmedOp, InEdge
<1>2. LastSeq(job[c].edge) \in Nat /\ job[c].edge \in Edges
  BY <1>1, ChainFacts, ChainAssumption
    DEF ApplyInv, ApplyPCs, Seqs, ChainAssumption
<1>3. TypeOK'
  <2>1. [job[c] EXCEPT !.seq = @ + 1] \in Jobs
    BY JobUpdates DEF TypeOK
  <2>2. job' \in [Clients -> Jobs]
    BY <1>1, <2>1 DEF TypeOK
  <2> QED
    BY <2>2 DEF SkipConfirmedOp, TypeOK, position, history
<1>4. LockHeld' /\ \A d \in Clients : d # c => ApplyInv(d)' /\ RollbackInv(d)'
  <2>1. \A d \in Clients : d # c => pc'[d] = "idle"
    BY <1>1, OthersIdle DEF SkipConfirmedOp
  <2>2. LockHeld'
    BY <1>1, <2>1 DEF SkipConfirmedOp, LockHeld, TypeOK, NoJob
  <2> QED
    BY <2>1, <2>2, IdleClaimsNothing
<1>5. PositionMatchesJournal' /\ RowsArePrefix' /\ LastOpLands'
  BY NothingRecorded DEF SkipConfirmedOp, position
<1>6. journal[job[c].edge][job[c].seq] = "confirmed"
  BY <1>1 DEF ApplyInv, ApplyPCs, ConfirmedRows
<1>7. job[c].seq # LastSeq(job[c].edge)
  BY <1>1, <1>2, <1>6, RevisionFacts
    DEF ApplyInv, ApplyPCs, LastOpLands, TypeOK, Revisions
<1>8. ApplyInv(c)'
  <2>1. job'[c] = [job[c] EXCEPT !.seq = @ + 1] /\ job[c] \in Jobs
    BY <1>1 DEF TypeOK
  <2>2. /\ job'[c].seq = job[c].seq + 1 /\ job'[c].edge = job[c].edge
        /\ job'[c].head = job[c].head /\ job'[c].rows = job[c].rows
        /\ job'[c].staged = job[c].staged
    BY <2>1 DEF Jobs
  <2>3. job'[c].seq <= LastSeq(job'[c].edge)
    BY <1>1, <1>2, <1>7, <2>2
  <2>4. ApplyInv(c)
    OBVIOUS
  <2>5. UNCHANGED <<current, inProgress, journal>>
    BY DEF SkipConfirmedOp, position
  <2>6. \A k \in 1..(job[c].seq + 1 - 1) :
          k \in job[c].staged \/ journal[job[c].edge][k] = "confirmed"
    <3>1. \A k \in 1..(job[c].seq - 1) :
            k \in job[c].staged \/ journal[job[c].edge][k] = "confirmed"
      BY <1>1 DEF ApplyInv, ApplyPCs
    <3> QED
      BY <1>1, <1>2, <1>6, <3>1
  <2>7. /\ inProgress = job[c].edge /\ job[c].edge = current + 1
        /\ job[c].staged \subseteq 1..(job[c].seq - 1)
        /\ job[c].rows \subseteq ConfirmedRows(job[c].edge)
        /\ job[c].edge <= job[c].head
        /\ \A k \in ConfirmedRows(job[c].edge) : k >= job[c].seq => k \in job[c].rows
    BY <1>1, <1>2 DEF ApplyInv, ApplyPCs
  <2>8. ConfirmedRows(job[c].edge) \subseteq Nat
    BY ChainAssumption DEF ConfirmedRows, Seqs, ChainAssumption
  <2>9. job'[c].staged \subseteq 1..(job'[c].seq - 1)
    BY <1>1, <1>2, <2>2, <2>7
  <2> QED
    BY <1>1, <1>2, <2>2, <2>3, <2>5, <2>6, <2>7, <2>8, <2>9
      DEF ApplyInv, ApplyPCs, LastSeq, ConfirmedRows
<1>9. RollbackInv(c)'
  BY <1>1 DEF RollbackInv, RollbackPCs
<1> QED
  BY <1>3, <1>4, <1>5, <1>8, <1>9
-----------------------------------------------------------------------------
(***************************************************************************)
(* The steps of applyEdge.                                                 *)
(***************************************************************************)

\* What holds while a client is in the loop over an edge's ops.
LEMMA ApplyFacts ==
  ASSUME IInv, NEW c \in Clients, pc[c] \in ApplyPCs
  PROVE  /\ pc[c] # "idle" /\ job[c] \in Jobs
         /\ job[c].edge \in Edges /\ job[c].edge <= job[c].head
         /\ LastSeq(job[c].edge) \in Nat /\ LastSeq(job[c].edge) \in Seqs
         /\ job[c].seq \in 1..(LastSeq(job[c].edge) + 1)
         /\ job[c].staged \subseteq 1..(job[c].seq - 1)
         /\ job[c].staged \subseteq Seqs
         /\ job[c].rows \subseteq ConfirmedRows(job[c].edge)
         /\ \A k \in 1..(job[c].seq - 1) :
              k \in job[c].staged \/ journal[job[c].edge][k] = "confirmed"
         /\ InEdge(c) => /\ job[c].seq \in Seqs
                         /\ inProgress = job[c].edge
                         /\ job[c].edge = current + 1
         /\ ~InEdge(c) => /\ inProgress = 0 /\ job[c].edge = current
                          /\ job[c].staged = {}
<1> USE DEF IInv
<1>1. job[c] \in Jobs /\ job[c].staged \subseteq Seqs
  BY JobUpdates DEF TypeOK
<1>2. ApplyInv(c)
  OBVIOUS
<1>3. /\ job[c].edge \in Edges
      /\ LastSeq(job[c].edge) \in Seqs /\ LastSeq(job[c].edge) \in Nat \ {0}
  BY <1>2, ChainFacts DEF ApplyInv
<1>4. InEdge(c) <=> job[c].seq <= LastSeq(job[c].edge)
  BY <1>2, <1>3 DEF InEdge, ApplyInv
<1>5. InEdge(c) => job[c].seq \in Seqs
  BY <1>2, <1>3, <1>4, ChainFacts DEF InEdge
<1> QED
  BY <1>1, <1>2, <1>3, <1>4, <1>5 DEF ApplyInv, ApplyPCs

\* Starting an edge: the rows read, the edge marked in progress.
LEMMA BeginEdgeKeepsInvariant ==
  ASSUME IInv, NEW c \in Clients, BeginEdge(c)
  PROVE  IInv'
<1> USE DEF IInv
<1> DEFINE e == job[c].edge
<1>1. /\ e \in Edges /\ e = current + 1 /\ e <= job[c].head
      /\ job[c].staged = {} /\ job[c] \in Jobs /\ pc[c] = "begin"
  BY DEF BeginEdge, ApplyInv, TypeOK
<1>2. /\ job' = [job EXCEPT ![c] = [job[c] EXCEPT !.seq = 1,
                                       !.rows = ConfirmedRows(e),
                                       !.pending = IntendedRows(e)]]
      /\ inProgress' = e
      /\ UNCHANGED <<lock, tracked, current, boundary, journal, objs, written,
                     outcome, history>>
  BY DEF BeginEdge
<1>3. job'[c] \in Jobs
  <2>1. ConfirmedRows(e) \in SUBSET Seqs /\ IntendedRows(e) \in SUBSET Seqs
    BY DEF ConfirmedRows, IntendedRows
  <2> QED
    BY <1>1, <1>2, <2>1, JobUpdates DEF TypeOK
<1>4. /\ job'[c].seq = 1 /\ job'[c].edge = e /\ job'[c].head = job[c].head
      /\ job'[c].staged = {} /\ job'[c].rows = ConfirmedRows(e)
  BY <1>1, <1>2 DEF Jobs, TypeOK
<1>5. /\ LockHeld' /\ pc' \in [Clients -> PCs] /\ pc'[c] = "op"
      /\ \A d \in Clients : d # c => ApplyInv(d)' /\ RollbackInv(d)'
  <2>1. \A d \in Clients : d # c => job'[d] = job[d]
    BY <1>2 DEF TypeOK
  <2> QED
    BY <1>1, <2>1, StayingInside DEF BeginEdge, TypeOK, PCs, ApplyPCs
<1>6. TypeOK'
  <2>1. job' \in [Clients -> Jobs]
    BY <1>2, <1>3 DEF TypeOK
  <2> QED
    BY <1>1, <1>2, <1>5, <2>1, RevisionFacts DEF TypeOK, history
<1>7. PositionMatchesJournal'
  BY <1>1, <1>2, ChainFacts
    DEF PositionMatchesJournal, FullyConfirmed, HasRows, TypeOK
<1>8. RowsArePrefix' /\ LastOpLands'
  BY <1>2 DEF RowsArePrefix, LastOpLands
<1>9. ApplyInv(c)'
  <2>1. LastSeq(e) \in Nat /\ 1 <= LastSeq(e)
    BY <1>1, EdgeFacts
  <2> QED
    BY <1>1, <1>2, <1>4, <1>5, <2>1
      DEF ApplyInv, ApplyPCs, ConfirmedRows, LastSeq
<1>10. RollbackInv(c)'
  BY <1>5 DEF RollbackInv, RollbackPCs
<1> QED
  BY <1>5, <1>6, <1>7, <1>8, <1>9, <1>10

\* The update of StageOp, for one op.
LEMMA StagingUpdate ==
  ASSUME NEW j \in Jobs, NEW S \in SUBSET Seqs
  PROVE  [j EXCEPT !.staged = S, !.seq = @ + 1] \in Jobs
BY JobUpdates

\* A transactional op that stays in the open segment.
LEMMA StageOpKeepsInvariant ==
  ASSUME IInv, NEW c \in Clients, StageOp(c)
  PROVE  IInv'
<1> USE DEF IInv
<1> DEFINE e == job[c].edge
           n == job[c].seq
<1>1. /\ pc[c] = "op" /\ pc[c] \in ApplyPCs /\ InEdge(c) /\ n # LastSeq(e)
  BY DEF StageOp, AtFreshOp, IsFinal, ApplyPCs
<1>2. /\ job' = [job EXCEPT ![c] = [@ EXCEPT !.staged = job[c].staged \union {n},
                                             !.seq = n + 1]]
      /\ UNCHANGED <<lock, position, journal, objs, pc, outcome, history>>
  BY DEF StageOp
<1>3. /\ job[c] \in Jobs /\ e \in Edges /\ LastSeq(e) \in Nat
      /\ n \in 1..LastSeq(e) /\ n \in Seqs /\ job[c].staged \subseteq 1..(n - 1)
      /\ job[c].staged \subseteq Seqs
  BY <1>1, ApplyFacts DEF InEdge
<1>4. job'[c] \in Jobs
  <2>1. job[c].staged \union {n} \in SUBSET Seqs
    BY <1>3
  <2>2. job'[c] = [job[c] EXCEPT !.staged = job[c].staged \union {n},
                                 !.seq = @ + 1]
    BY <1>2 DEF TypeOK
  <2>3. [job[c] EXCEPT !.staged = job[c].staged \union {n}, !.seq = @ + 1] \in Jobs
    BY <1>3, <2>1, StagingUpdate
  <2> QED
    BY <2>2, <2>3
<1>5. /\ job'[c].seq = n + 1 /\ job'[c].edge = e /\ job'[c].head = job[c].head
      /\ job'[c].staged = job[c].staged \union {n} /\ job'[c].rows = job[c].rows
  BY <1>2, <1>3 DEF Jobs, TypeOK
<1>6. LockHeld' /\ \A d \in Clients : d # c => ApplyInv(d)' /\ RollbackInv(d)'
  <2>1. \A d \in Clients : d # c => pc'[d] = "idle" /\ job'[d] = job[d]
    BY <1>1, <1>2, OthersIdle DEF TypeOK
  <2>2. LockHeld'
    BY <1>1, <1>2, <2>1 DEF LockHeld, NoJob
  <2> QED
    BY <2>1, <2>2, IdleClaimsNothing
<1>7. TypeOK'
  <2>1. job' \in [Clients -> Jobs]
    BY <1>2, <1>4 DEF TypeOK
  <2>2. written' \in [Clients -> [Objects -> ObjectStates \union {"unwritten"}]]
    <3>1. View(c)[Op(c).obj] \in ObjectStates /\ Op(c).kind \in OpKinds
      BY <1>1, <1>3, OpFacts, ViewType
    <3>2. Effect(Op(c).kind, View(c)[Op(c).obj]) \in ObjectStates
      BY <3>1, EffectType
    <3> QED
      BY <3>2 DEF StageOp, InSegment, TypeOK
  <2> QED
    BY <1>2, <2>1, <2>2 DEF TypeOK, position, history
<1>8. PositionMatchesJournal' /\ RowsArePrefix' /\ LastOpLands'
  BY <1>2, NothingRecorded DEF position
<1>9. ApplyInv(c)'
  <2>1. n + 1 \in 1..(LastSeq(e) + 1) /\ n + 1 <= LastSeq(e)
    BY <1>1, <1>3
  <2>2. job[c].staged \union {n} \subseteq 1..(n + 1 - 1)
    BY <1>3
  <2>3. \A k \in 1..(n + 1 - 1) :
          k \in job[c].staged \union {n} \/ journal[e][k] = "confirmed"
    BY <1>1, <1>3, ApplyFacts
  <2>4. /\ inProgress = e /\ e = current + 1 /\ e <= job[c].head
        /\ job[c].rows \subseteq ConfirmedRows(e)
    BY <1>1, ApplyFacts
  <2>5. \A k \in ConfirmedRows(e) : k >= n + 1 => k \in job[c].rows
    BY <1>1, <1>3, ChainAssumption
      DEF ApplyInv, ConfirmedRows, Seqs, ChainAssumption
  <2> QED
    BY <1>1, <1>2, <1>3, <1>5, <2>1, <2>2, <2>3, <2>4, <2>5
      DEF ApplyInv, ApplyPCs, position, ConfirmedRows, LastSeq
<1>10. RollbackInv(c)'
  BY <1>1, <1>2 DEF RollbackInv, RollbackPCs
<1> QED
  BY <1>6, <1>7, <1>8, <1>9, <1>10
-----------------------------------------------------------------------------
(***************************************************************************)
(* Committing a segment: the rows of the edge stay a prefix.               *)
(***************************************************************************)

\* The commit of a segment up to a fresh op at seq leaves the edge confirmed
\* before seq and empty after it.
LEMMA CommitKeepsPrefix ==
  ASSUME IInv, NEW c \in Clients, AtFreshOp(c),
         NEW status \in {"intended", "confirmed"},
         journal' = Journaled(c, job[c].seq, status)
  PROVE  /\ journal' \in [Edges -> [Seqs -> RowStates]]
         /\ \A e \in Edges : e # job[c].edge => journal'[e] = journal[e]
         /\ \A k \in 1..(job[c].seq - 1) : journal'[job[c].edge][k] = "confirmed"
         /\ journal'[job[c].edge][job[c].seq] = status
         /\ \A k \in Seqs : k > job[c].seq => journal'[job[c].edge][k] = "none"
         /\ \A k \in Seqs : journal[job[c].edge][k] = "confirmed"
                             => journal'[job[c].edge][k] = "confirmed"
         /\ RowsArePrefix'
<1> USE DEF IInv
<1> DEFINE e == job[c].edge
           n == job[c].seq
<1>1. /\ pc[c] = "op" /\ pc[c] \in ApplyPCs /\ InEdge(c)
      /\ n \notin job[c].rows
  BY DEF AtFreshOp, ApplyPCs
<1>2. /\ e \in Edges /\ LastSeq(e) \in Nat /\ n \in 1..LastSeq(e) /\ n \in Seqs
      /\ job[c].staged \subseteq 1..(n - 1) /\ job[c].staged \subseteq Seqs
      /\ \A k \in 1..(n - 1) : k \in job[c].staged \/ journal[e][k] = "confirmed"
  BY <1>1, ApplyFacts DEF InEdge
<1>3. journal' \in [Edges -> [Seqs -> RowStates]]
  BY JournaledType DEF RowStates
<1>4. journal' = [journal EXCEPT ![e] =
                    [k \in Seqs |-> IF k = n THEN status
                                    ELSE IF k \in job[c].staged THEN "confirmed"
                                    ELSE journal[e][k]]]
  BY DEF Journaled
<1>5. \A d \in Edges : d # e => journal'[d] = journal[d]
  BY <1>4 DEF TypeOK
<1>6. \A k \in Seqs : journal'[e][k] = IF k = n THEN status
                                    ELSE IF k \in job[c].staged THEN "confirmed"
                                    ELSE journal[e][k]
  BY <1>2, <1>4 DEF TypeOK
<1>7. \A k \in 1..(n - 1) : k \in Seqs /\ k # n
  BY <1>2, EdgeFacts
<1>8. \A k \in 1..(n - 1) : journal'[e][k] = "confirmed"
  BY <1>2, <1>6, <1>7
<1>9. journal[e][n] # "confirmed"
  BY <1>1, <1>2, EdgeFacts DEF ApplyInv, ConfirmedRows
<1>10. ASSUME NEW k \in Seqs, k > n
       PROVE  journal[e][k] = "none" /\ journal'[e][k] = "none"
  <2>1. n \in 1..(k - 1)
    BY <1>2, <1>10, EdgeFacts
  <2>2. journal[e][k] = "none"
    BY <1>2, <1>9, <2>1 DEF RowsArePrefix
  <2>3. k # n /\ k \notin job[c].staged
    BY <1>2, <1>10, EdgeFacts
  <2> QED
    BY <1>6, <2>2, <2>3
<1>11. \A k \in Seqs : journal[e][k] = "confirmed" => journal'[e][k] = "confirmed"
  BY <1>2, <1>6, <1>9
<1>12. RowsArePrefix'
  <2> SUFFICES ASSUME NEW d \in Edges, NEW i \in Seqs, journal'[d][i] # "none"
               PROVE  /\ i <= LastSeq(d)
                      /\ \A k \in 1..(i - 1) : journal'[d][k] = "confirmed"
    BY DEF RowsArePrefix, LastSeq
  <2>1. CASE d # e
    BY <1>5, <2>1 DEF RowsArePrefix
  <2>2. CASE d = e
    <3>1. i <= n
      BY <1>2, <1>10, <2>2, EdgeFacts
    <3>2. \A k \in 1..(i - 1) : k \in 1..(n - 1)
      BY <1>2, <3>1, EdgeFacts
    <3> QED
      BY <1>2, <1>8, <2>2, <3>1, <3>2, EdgeFacts
  <2> QED
    BY <2>1, <2>2
<1> QED
  BY <1>2, <1>3, <1>5, <1>6, <1>8, <1>10, <1>11, <1>12

\* The last op's transaction lands the edge.
LEMMA LandingKeepsPosition ==
  ASSUME IInv, NEW c \in Clients, pc[c] \in ApplyPCs, InEdge(c),
         NEW e, e = job[c].edge,
         \A d \in Edges : d # e => journal'[d] = journal[d],
         \A k \in 1..LastSeq(e) : journal'[e][k] = "confirmed",
         AdvanceChainPosition(e)
  PROVE  PositionMatchesJournal' /\ LastOpLands'
<1> USE DEF IInv
<1>1. e \in Edges /\ inProgress = e /\ e = current + 1
  BY ApplyFacts
<1>2. current' = e /\ inProgress' = 0 /\ boundary' = boundary
  BY DEF AdvanceChainPosition
<1>3. current \in Nat /\ boundary \in Nat
  BY RevisionFacts DEF TypeOK
<1>4. \A d \in (boundary + 1)..e : FullyConfirmed(d)'
  <2>1. ASSUME NEW d \in (boundary + 1)..e, d # e PROVE FullyConfirmed(d)'
    <3>1. d \in (boundary + 1)..current /\ d \in Edges
      BY <1>1, <1>3, <2>1, ChainFacts DEF Edges
    <3> QED
      BY <2>1, <3>1 DEF PositionMatchesJournal, FullyConfirmed, LastSeq
  <2>2. FullyConfirmed(e)'
    BY DEF FullyConfirmed, LastSeq
  <2> QED
    BY <2>1, <2>2
<1>5. \A d \in Edges : d > e => ~HasRows(d)'
  <2> SUFFICES ASSUME NEW d \in Edges, d > e PROVE ~HasRows(d)'
    OBVIOUS
  <2>1. d > current /\ d # inProgress /\ d # e
    BY <1>1, <1>3, EdgeFacts
  <2>2. ~HasRows(d)
    BY <2>1 DEF PositionMatchesJournal
  <2> QED
    BY <2>1, <2>2 DEF HasRows
<1>6. PositionMatchesJournal'
  BY <1>1, <1>2, <1>3, <1>4, <1>5 DEF PositionMatchesJournal
<1>7. LastOpLands'
  <2> SUFFICES ASSUME NEW d \in Edges, journal'[d][LastSeq(d)] = "confirmed"
               PROVE  d <= e
    BY <1>2 DEF LastOpLands, LastSeq
  <2>1. d # e => d <= current
    BY DEF LastOpLands
  <2> QED
    BY <1>1, <1>3, <2>1, EdgeFacts
<1> QED
  BY <1>6, <1>7

\* The last op of an edge, transactional.
LEMMA LandEdgeKeepsInvariant ==
  ASSUME IInv, NEW c \in Clients, LandEdge(c)
  PROVE  IInv'
<1> USE DEF IInv
<1> DEFINE e == job[c].edge
           n == job[c].seq
<1>1. /\ pc[c] = "op" /\ pc[c] \in ApplyPCs /\ InEdge(c) /\ n = LastSeq(e)
      /\ AtFreshOp(c) /\ journal' = Journaled(c, n, "confirmed")
      /\ AdvanceChainPosition(e)
      /\ job' = [job EXCEPT ![c] = [@ EXCEPT !.staged = {}, !.seq = n + 1]]
      /\ UNCHANGED <<lock, pc, outcome, history>>
  BY DEF LandEdge, AtFreshOp, IsFinal, ApplyPCs
<1>2. /\ job[c] \in Jobs /\ e \in Edges /\ LastSeq(e) \in Nat
      /\ n \in 1..LastSeq(e) /\ n \in Seqs /\ e <= job[c].head
      /\ job[c].rows \subseteq ConfirmedRows(e)
  BY <1>1, ApplyFacts DEF InEdge
<1>3. job'[c] = [job[c] EXCEPT !.staged = {}, !.seq = n + 1]
  BY <1>1 DEF TypeOK
<1>4. job'[c] \in Jobs
  <2>1. {} \in SUBSET Seqs
    OBVIOUS
  <2>2. [job[c] EXCEPT !.staged = {}, !.seq = job[c].seq + 1] \in Jobs
    BY <1>2, <2>1, JobUpdates
  <2> QED
    BY <1>3, <2>2
<1>5. /\ job'[c].seq = n + 1 /\ job'[c].edge = e /\ job'[c].head = job[c].head
      /\ job'[c].staged = {} /\ job'[c].rows = job[c].rows
  BY <1>2, <1>3 DEF Jobs
<1>6. LockHeld' /\ \A d \in Clients : d # c => ApplyInv(d)' /\ RollbackInv(d)'
  <2>1. \A d \in Clients : d # c => pc'[d] = "idle" /\ job'[d] = job[d]
    BY <1>1, OthersIdle DEF TypeOK
  <2>2. LockHeld'
    BY <1>1, <2>1 DEF LockHeld, NoJob
  <2> QED
    BY <2>1, <2>2, IdleClaimsNothing
<1>7. /\ journal' \in [Edges -> [Seqs -> RowStates]]
      /\ \A d \in Edges : d # e => journal'[d] = journal[d]
      /\ \A k \in 1..(n - 1) : journal'[e][k] = "confirmed"
      /\ journal'[e][n] = "confirmed"
      /\ \A k \in Seqs : journal[e][k] = "confirmed" => journal'[e][k] = "confirmed"
      /\ RowsArePrefix'
  BY Zenon, <1>1, CommitKeepsPrefix
<1>8. \A k \in 1..LastSeq(e) : journal'[e][k] = "confirmed"
  BY <1>1, <1>2, <1>7
<1>9. PositionMatchesJournal' /\ LastOpLands'
  BY <1>1, <1>7, <1>8, LandingKeepsPosition
<1>10. TypeOK'
  <2>1. job' \in [Clients -> Jobs]
    BY <1>1, <1>3, <1>4 DEF TypeOK
  <2>2. objs' \in [Objects -> ObjectStates]
    <3>1. View(c)[Op(c).obj] \in ObjectStates /\ Op(c).kind \in OpKinds
      BY <1>1, <1>2, OpFacts, ViewType
    <3>2. Effect(Op(c).kind, View(c)[Op(c).obj]) \in ObjectStates
      BY <3>1, EffectType
    <3> QED
      BY <3>2, ViewType DEF LandEdge
  <2>3. written' \in [Clients -> [Objects -> ObjectStates \union {"unwritten"}]]
    BY DEF LandEdge, TypeOK, Unwritten
  <2> QED
    BY <1>1, <1>2, <1>7, <2>1, <2>2, <2>3, RevisionFacts
      DEF TypeOK, AdvanceChainPosition, history
<1>11. ApplyInv(c)'
  <2>1. \A k \in 1..(n + 1 - 1) : journal'[e][k] = "confirmed"
    BY <1>1, <1>2, <1>8
  <2>2. job[c].rows \subseteq {k \in Seqs : journal'[e][k] = "confirmed"}
    BY <1>2, <1>7 DEF ConfirmedRows
  <2>3. \A k \in Seqs : k <= LastSeq(e) \/ journal'[e][k] = "none"
    <3>1. \A k \in Seqs : k > n => journal'[e][k] = "none"
      BY Zenon, <1>1, CommitKeepsPrefix
    <3> QED
      BY <1>1, <1>2, <3>1, EdgeFacts
  <2>4. current' = e /\ inProgress' = 0
    BY <1>1 DEF AdvanceChainPosition
  <2>5. \A k \in Seqs : journal'[e][k] = "confirmed" => ~(k >= n + 1)
    BY <1>1, <1>2, <2>3, EdgeFacts
  <2>6. n + 1 \in 1..(LastSeq(e) + 1) /\ ~(n + 1 <= LastSeq(e))
    BY <1>1, <1>2
  <2> QED
    BY <1>1, <1>2, <1>5, <2>1, <2>2, <2>4, <2>5, <2>6
      DEF ApplyInv, ApplyPCs, ConfirmedRows, LastSeq
<1>12. RollbackInv(c)'
  BY <1>1 DEF RollbackInv, RollbackPCs
<1> QED
  BY <1>6, <1>7, <1>9, <1>10, <1>11, <1>12

\* Rows written to the edge in progress leave the position alone, as long as
\* the last op's is not confirmed.
LEMMA WritingKeepsPosition ==
  ASSUME IInv, NEW c \in Clients, pc[c] \in ApplyPCs, InEdge(c),
         NEW e, e = job[c].edge,
         \A d \in Edges : d # e => journal'[d] = journal[d],
         journal'[e][LastSeq(e)] # "confirmed",
         UNCHANGED <<current, inProgress, boundary>>
  PROVE  PositionMatchesJournal' /\ LastOpLands'
<1> USE DEF IInv
<1>1. e \in Edges /\ inProgress = e /\ e = current + 1
  BY ApplyFacts
<1>2. current \in Nat /\ boundary \in Nat
  BY RevisionFacts DEF TypeOK
<1>3. ASSUME NEW d \in (boundary + 1)..current PROVE FullyConfirmed(d)'
  <2>1. d \in Edges /\ d # e
    BY <1>1, <1>2, ChainFacts DEF Edges
  <2> QED
    BY <1>2, <2>1 DEF PositionMatchesJournal, FullyConfirmed, LastSeq
<1>4. ASSUME NEW d \in Edges, d > current, HasRows(d)' PROVE d = inProgress
  BY <1>1, <1>4 DEF PositionMatchesJournal, HasRows
<1>5. PositionMatchesJournal'
  BY <1>3, <1>4 DEF PositionMatchesJournal
<1>6. LastOpLands'
  BY DEF LastOpLands, LastSeq
<1> QED
  BY <1>5, <1>6

\* A non-transactional op's intent.
LEMMA IntendOpKeepsInvariant ==
  ASSUME IInv, NEW c \in Clients, IntendOp(c)
  PROVE  IInv'
<1> USE DEF IInv
<1> DEFINE e == job[c].edge
           n == job[c].seq
<1>1. /\ pc[c] = "op" /\ pc[c] \in ApplyPCs /\ InEdge(c) /\ AtFreshOp(c)
      /\ journal' = Journaled(c, n, "intended")
      /\ job' = [job EXCEPT ![c].staged = {}]
      /\ UNCHANGED <<lock, position, outcome, history>>
  BY DEF IntendOp, AtFreshOp, ApplyPCs
<1>2. /\ job[c] \in Jobs /\ e \in Edges /\ LastSeq(e) \in Nat
      /\ n \in 1..LastSeq(e) /\ n \in Seqs /\ e <= job[c].head
      /\ job[c].rows \subseteq ConfirmedRows(e)
      /\ inProgress = e /\ e = current + 1
  BY <1>1, ApplyFacts DEF InEdge
<1>3. job'[c] = [job[c] EXCEPT !.staged = {}]
  BY <1>1 DEF TypeOK
<1>4. job'[c] \in Jobs
  <2>1. {} \in SUBSET Seqs
    OBVIOUS
  <2> QED
    BY <1>2, <1>3, <2>1, JobUpdates
<1>5. /\ job'[c].seq = n /\ job'[c].edge = e /\ job'[c].head = job[c].head
      /\ job'[c].staged = {} /\ job'[c].rows = job[c].rows
  BY <1>2, <1>3 DEF Jobs
<1>6. /\ LockHeld' /\ pc' \in [Clients -> PCs] /\ pc'[c] = "exec"
      /\ \A d \in Clients : d # c => ApplyInv(d)' /\ RollbackInv(d)'
  <2>1. \A d \in Clients : d # c => job'[d] = job[d]
    BY <1>1 DEF TypeOK
  <2> QED
    BY <1>1, <2>1, StayingInside DEF IntendOp, TypeOK, PCs, ApplyPCs
<1>7. /\ journal' \in [Edges -> [Seqs -> RowStates]]
      /\ \A d \in Edges : d # e => journal'[d] = journal[d]
      /\ \A k \in 1..(n - 1) : journal'[e][k] = "confirmed"
      /\ journal'[e][n] = "intended"
      /\ \A k \in Seqs : k > n => journal'[e][k] = "none"
      /\ \A k \in Seqs : journal[e][k] = "confirmed" => journal'[e][k] = "confirmed"
      /\ RowsArePrefix'
  BY Zenon, <1>1, CommitKeepsPrefix
<1>8. journal'[e][LastSeq(e)] # "confirmed"
  <2>1. n \in Nat /\ LastSeq(e) \in Nat /\ n <= LastSeq(e)
    BY <1>2
  <2>2. LastSeq(e) = n \/ LastSeq(e) > n
    BY ONLY <2>1
  <2>3. LastSeq(e) \in Seqs
    BY ONLY <1>2, EdgeFacts
  <2> QED
    BY <1>7, <2>2, <2>3
<1>9. PositionMatchesJournal' /\ LastOpLands'
  BY <1>1, <1>7, <1>8, WritingKeepsPosition DEF position
<1>10. TypeOK'
  <2>1. job' \in [Clients -> Jobs]
    BY <1>1, <1>3, <1>4 DEF TypeOK
  <2>2. objs' \in [Objects -> ObjectStates]
    BY ViewType DEF IntendOp
  <2>3. written' \in [Clients -> [Objects -> ObjectStates \union {"unwritten"}]]
    BY DEF IntendOp, TypeOK, Unwritten
  <2> QED
    BY <1>1, <1>6, <1>7, <2>1, <2>2, <2>3 DEF TypeOK, position, history
<1>11. ApplyInv(c)'
  <2>1. job[c].rows \subseteq {k \in Seqs : journal'[e][k] = "confirmed"}
    BY <1>2, <1>7 DEF ConfirmedRows
  <2>2. n \in 1..(LastSeq(e) + 1) /\ n <= LastSeq(e)
    BY <1>2
  <2> QED
    BY <1>1, <1>2, <1>5, <1>6, <1>7, <2>1, <2>2
      DEF ApplyInv, ApplyPCs, ConfirmedRows, LastSeq, position
<1>12. RollbackInv(c)'
  BY <1>6 DEF RollbackInv, RollbackPCs
<1> QED
  BY <1>6, <1>7, <1>9, <1>10, <1>11, <1>12

\* Running a concurrent statement: no row and no position is touched.
LEMMA ExecuteNonTransactionalKeepsInvariant ==
  ASSUME IInv, NEW c \in Clients, ExecuteNonTransactionalOp(c)
  PROVE  IInv'
<1> USE DEF IInv
<1>1. /\ pc[c] = "exec" /\ pc[c] \in ApplyPCs
      /\ UNCHANGED <<lock, position, journal, job, written, outcome, history>>
  BY DEF ExecuteNonTransactionalOp, ApplyPCs
<1>2. InEdge(c) /\ job[c].edge \in Edges
  BY <1>1, ApplyFacts DEF InEdge, ApplyInv
<1>3. /\ LockHeld' /\ pc' \in [Clients -> PCs] /\ pc'[c] = "confirm"
      /\ \A d \in Clients : d # c => ApplyInv(d)' /\ RollbackInv(d)'
  BY <1>1, StayingInside DEF ExecuteNonTransactionalOp, TypeOK, PCs, ApplyPCs
<1>4. TypeOK'
  <2>1. objs' \in [Objects -> ObjectStates]
    <3>1. objs[Op(c).obj] \in ObjectStates /\ Op(c).kind \in OpKinds
      BY <1>2, OpFacts DEF TypeOK
    <3>2. Resumes(c) \in BOOLEAN
      BY DEF Resumes
    <3>3. ExecEffect(Op(c).kind, objs[Op(c).obj], Resumes(c)) \in ObjectStates
      BY <3>1, <3>2, TornType
    <3> QED
      BY <3>3 DEF ExecuteNonTransactionalOp, TypeOK
  <2> QED
    BY <1>1, <1>3, <2>1 DEF TypeOK, position, history
<1>5. PositionMatchesJournal' /\ RowsArePrefix' /\ LastOpLands'
  BY <1>1, NothingRecorded DEF position
<1>6. ApplyInv(c)'
  BY <1>1, <1>3 DEF ApplyInv, ApplyPCs, ConfirmedRows, LastSeq, position
<1>7. RollbackInv(c)'
  BY <1>3 DEF RollbackInv, RollbackPCs
<1> QED
  BY <1>3, <1>4, <1>5, <1>6, <1>7

\* Confirming the intent, and landing the edge when the op is its last.
LEMMA ConfirmIntentKeepsInvariant ==
  ASSUME IInv, NEW c \in Clients, ConfirmIntentOp(c)
  PROVE  IInv'
<1> USE DEF IInv
<1> DEFINE e == job[c].edge
           n == job[c].seq
<1>1. /\ pc[c] = "confirm" /\ pc[c] \in ApplyPCs
      /\ journal' = [journal EXCEPT ![e][n] = "confirmed"]
      /\ job' = [job EXCEPT ![c].seq = @ + 1]
      /\ UNCHANGED <<lock, objs, written, outcome, history>>
  BY DEF ConfirmIntentOp, ApplyPCs
<1>2. n <= LastSeq(e) /\ job[c].staged = {} /\ journal[e][n] = "intended"
  BY <1>1 DEF ApplyInv
<1>3. /\ job[c] \in Jobs /\ e \in Edges /\ LastSeq(e) \in Nat /\ e <= job[c].head
      /\ n \in 1..LastSeq(e) /\ InEdge(c) /\ n \in Seqs /\ LastSeq(e) \in Seqs
      /\ job[c].rows \subseteq ConfirmedRows(e)
      /\ inProgress = e /\ e = current + 1
      /\ \A k \in 1..(n - 1) : journal[e][k] = "confirmed"
  BY <1>1, <1>2, ApplyFacts DEF InEdge
<1>4. job'[c] = [job[c] EXCEPT !.seq = @ + 1] /\ job'[c] \in Jobs
  BY <1>1, <1>3, JobUpdates DEF TypeOK
<1>5. /\ job'[c].seq = n + 1 /\ job'[c].edge = e /\ job'[c].head = job[c].head
      /\ job'[c].staged = {} /\ job'[c].rows = job[c].rows
  BY <1>2, <1>3, <1>4 DEF Jobs
<1>6. /\ LockHeld' /\ pc' \in [Clients -> PCs] /\ pc'[c] = "op"
      /\ \A d \in Clients : d # c => ApplyInv(d)' /\ RollbackInv(d)'
  <2>1. \A d \in Clients : d # c => job'[d] = job[d]
    BY <1>1 DEF TypeOK
  <2> QED
    BY <1>1, <2>1, StayingInside DEF ConfirmIntentOp, TypeOK, PCs, ApplyPCs
<1>7. journal' \in [Edges -> [Seqs -> RowStates]]
  BY <1>1 DEF TypeOK, RowStates
<1>8. /\ \A d \in Edges : d # e => journal'[d] = journal[d]
      /\ \A k \in Seqs : k # n => journal'[e][k] = journal[e][k]
      /\ journal'[e][n] = "confirmed"
  BY <1>1, <1>3 DEF TypeOK
<1>9. ASSUME NEW k \in Seqs, k > n PROVE journal[e][k] = "none" /\ journal'[e][k] = "none"
  <2>1. n \in 1..(k - 1) /\ k # n
    BY <1>3, <1>9, EdgeFacts
  <2> QED
    BY <1>2, <1>3, <1>8, <2>1 DEF RowsArePrefix
<1>10. \A k \in 1..n : journal'[e][k] = "confirmed"
  <2> SUFFICES ASSUME NEW k \in 1..n PROVE journal'[e][k] = "confirmed"
    OBVIOUS
  <2>1. n \in Nat /\ LastSeq(e) \in Nat /\ n <= LastSeq(e)
    BY <1>3
  <2>2. k = n \/ (k # n /\ k \in 1..(n - 1))
    BY ONLY <2>1
  <2>3. k \in Seqs
    <3>1. k \in 1..LastSeq(e)
      BY ONLY <2>1
    <3> QED
      BY ONLY <1>3, <3>1, EdgeFacts
  <2> QED
    BY <1>3, <1>8, <2>2, <2>3
<1>11. RowsArePrefix'
  <2> SUFFICES ASSUME NEW d \in Edges, NEW i \in Seqs, journal'[d][i] # "none"
               PROVE  /\ i <= LastSeq(d)
                      /\ \A k \in 1..(i - 1) : journal'[d][k] = "confirmed"
    BY DEF RowsArePrefix, LastSeq
  <2>1. CASE d # e
    BY <1>8, <2>1 DEF RowsArePrefix
  <2>2. CASE d = e
    <3>1. i <= n
      BY <1>3, <1>9, <2>2, EdgeFacts
    <3> QED
      BY <1>3, <1>10, <2>2, <3>1, EdgeFacts
  <2> QED
    BY <2>1, <2>2
<1>12. TypeOK' /\ PositionMatchesJournal' /\ LastOpLands'
       /\ (IF n = LastSeq(e) THEN current' = e /\ inProgress' = 0
                             ELSE UNCHANGED <<current, inProgress>>)
  <2>1. job' \in [Clients -> Jobs]
    BY <1>1, <1>4 DEF TypeOK
  <2>2. CASE n = LastSeq(e)
    <3>1. AdvanceChainPosition(e)
      BY <2>2 DEF ConfirmIntentOp, IsFinal
    <3>2. PositionMatchesJournal' /\ LastOpLands'
      BY <1>1, <1>3, <1>8, <1>10, <2>2, <3>1, LandingKeepsPosition
    <3> QED
      BY <1>1, <1>3, <1>6, <1>7, <2>1, <2>2, <3>1, <3>2, RevisionFacts
        DEF TypeOK, AdvanceChainPosition, history
  <2>3. CASE n # LastSeq(e)
    <3>1. UNCHANGED position
      BY <2>3 DEF ConfirmIntentOp, IsFinal
    <3>2. journal'[e][LastSeq(e)] # "confirmed"
      BY <1>3, <1>9, <2>3
    <3>3. PositionMatchesJournal' /\ LastOpLands'
      BY <1>1, <1>3, <1>8, <3>1, <3>2, WritingKeepsPosition DEF position
    <3> QED
      BY <1>1, <1>3, <1>6, <1>7, <2>1, <2>3, <3>1, <3>3
        DEF TypeOK, position, history
  <2> QED
    BY <2>2, <2>3
<1>13. ApplyInv(c)'
  <2>1. job[c].rows \subseteq {k \in Seqs : journal'[e][k] = "confirmed"}
    BY <1>2, <1>3, <1>8 DEF ConfirmedRows
  <2>2. \A k \in Seqs : journal'[e][k] = "confirmed" => ~(k >= n + 1)
    BY <1>3, <1>9, EdgeFacts
  <2>3. n + 1 \in 1..(LastSeq(e) + 1) /\ (n + 1 <= LastSeq(e) <=> n # LastSeq(e))
    BY <1>3
  <2>4. \A k \in 1..(n + 1 - 1) : journal'[e][k] = "confirmed"
    BY <1>3, <1>10
  <2> QED
    BY <1>3, <1>5, <1>6, <1>12, <2>1, <2>2, <2>3, <2>4
      DEF ApplyInv, ApplyPCs, ConfirmedRows, LastSeq
<1>14. RollbackInv(c)'
  BY <1>6 DEF RollbackInv, RollbackPCs
<1> QED
  BY <1>6, <1>11, <1>12, <1>13, <1>14

\* The end of an edge: nothing is left to commit.
LEMMA EndEdgeKeepsInvariant ==
  ASSUME IInv, NEW c \in Clients, EndEdge(c)
  PROVE  IInv'
<1> USE DEF IInv
<1> DEFINE e == job[c].edge
<1>1. /\ pc[c] = "op" /\ pc[c] \in ApplyPCs /\ ~InEdge(c)
      /\ journal' = Journaled(c, 0, "none")
      /\ UNCHANGED <<lock, position, outcome, history>>
  BY DEF EndEdge, ApplyPCs
<1>2. /\ job[c] \in Jobs /\ e \in Edges /\ e <= job[c].head
      /\ job[c].staged = {} /\ e = current
      /\ job[c].head \in Revisions
  BY <1>1, ApplyFacts DEF Jobs
<1>3. journal' = journal
  <2>1. [k \in Seqs |-> IF k = 0 THEN "none"
                        ELSE IF k \in job[c].staged THEN "confirmed"
                        ELSE journal[e][k]] = journal[e]
    BY <1>2, EdgeFacts DEF TypeOK
  <2> QED
    BY <1>1, <1>2, <2>1 DEF Journaled, TypeOK
<1>4. PositionMatchesJournal' /\ RowsArePrefix' /\ LastOpLands'
  BY <1>1, <1>3, NothingRecorded DEF position
<1>5. objs' \in [Objects -> ObjectStates]
      /\ written' \in [Clients -> [Objects -> ObjectStates \union {"unwritten"}]]
  BY ViewType DEF EndEdge, TypeOK, Unwritten
<1>6. ASSUME NEW label \in {"begin", "reconcile"}, Goto(c, label),
             NEW j \in Jobs, job' = [job EXCEPT ![c] = j],
             label = "begin" => /\ j.edge = current + 1 /\ j.staged = {}
                                /\ j.edge \in Edges /\ j.edge <= j.head
      PROVE  IInv'
  <2>1. /\ LockHeld' /\ pc' \in [Clients -> PCs] /\ pc'[c] = label
        /\ \A d \in Clients : d # c => ApplyInv(d)' /\ RollbackInv(d)'
    <3>1. \A d \in Clients : d # c => job'[d] = job[d]
      BY <1>6 DEF TypeOK
    <3>2. label \in PCs \ {"idle"}
      BY DEF PCs
    <3> QED
      BY <1>1, <1>6, <3>1, <3>2, StayingInside DEF TypeOK
  <2>2. job'[c] = j /\ job' \in [Clients -> Jobs]
    BY <1>6 DEF TypeOK
  <2>3. TypeOK'
    BY <1>1, <1>3, <1>5, <2>1, <2>2 DEF TypeOK, position, history
  <2>4. ApplyInv(c)' /\ RollbackInv(c)'
    BY <1>1, <1>6, <2>1, <2>2
      DEF ApplyInv, RollbackInv, ApplyPCs, RollbackPCs, position
  <2> QED
    BY <1>4, <2>1, <2>3, <2>4
<1>7. CASE e < job[c].head
  <2> DEFINE j == [NoJob EXCEPT !.head = job[c].head, !.edge = e + 1]
  <2>1. e + 1 \in Edges /\ e + 1 <= job[c].head
    BY <1>2, <1>7, ChainFacts DEF Edges, Revisions
  <2>2. j \in Jobs /\ j.edge = e + 1 /\ j.staged = {} /\ j.head = job[c].head
    BY <1>2, <2>1, JobTypes, RevisionFacts DEF NoJob
  <2>3. Goto(c, "begin") /\ job' = [job EXCEPT ![c] = j]
    BY <1>7 DEF EndEdge
  <2> QED
    BY <1>2, <1>6, <2>1, <2>2, <2>3
<1>8. CASE ~(e < job[c].head)
  <2>1. [NoJob EXCEPT !.head = job[c].head] \in Jobs
    BY <1>2, JobTypes
  <2>2. Goto(c, "reconcile")
        /\ job' = [job EXCEPT ![c] = [NoJob EXCEPT !.head = job[c].head]]
    BY <1>8 DEF EndEdge
  <2> QED
    BY <1>6, <2>1, <2>2
<1> QED
  BY <1>7, <1>8

\* The comparison with the head's model ends the command.
LEMMA ReconcileKeepsInvariant ==
  ASSUME IInv, NEW c \in Clients, ReconcileAfterApply(c)
  PROVE  IInv'
<1> USE DEF IInv
<1>1. PICK report \in Outcomes : Release(c, report)
  BY DEF ReconcileAfterApply, Outcomes
<1>2. pc[c] # "idle" /\ UNCHANGED <<position, journal, objs, history>>
  BY DEF ReconcileAfterApply
<1> QED
  BY <1>1, <1>2, QuietReleaseKeepsInvariant DEF TypeOK, history
-----------------------------------------------------------------------------
(***************************************************************************)
(* Rollback.                                                               *)
(***************************************************************************)

\* A client that works on through the edge it reverses, without touching the
\* position or the journal.
LEMMA ReversingKeepsInvariant ==
  ASSUME IInv, NEW c \in Clients, pc[c] \in {"beginBack"} \union RollbackPCs,
         NEW label \in RollbackPCs, Goto(c, label),
         NEW j \in Jobs, job' = [job EXCEPT ![c] = j],
         j.edge = job[c].edge, j.goal = job[c].goal,
         j.seq \in 0..LastSeq(j.edge), 
         label = "execBack" => /\ j.seq > 0 /\ j.seq \in j.rows
                               /\ Chain[j.edge][j.seq].down,
         UNCHANGED <<lock, position, journal, outcome, aborts, drifts>>,
         objs' \in [Objects -> ObjectStates],
         written' \in [Clients -> [Objects -> ObjectStates \union {"unwritten"}]],
         reversing' \subseteq Edges
  PROVE  IInv'
<1> USE DEF IInv
<1>1. /\ LockHeld' /\ pc' \in [Clients -> PCs] /\ pc'[c] = label
      /\ \A d \in Clients : d # c => ApplyInv(d)' /\ RollbackInv(d)'
  <2>1. \A d \in Clients : d # c => job'[d] = job[d]
    BY DEF TypeOK
  <2>2. pc[c] # "idle" /\ label \in PCs \ {"idle"}
    BY DEF PCs, RollbackPCs
  <2> QED
    BY <2>1, <2>2, StayingInside DEF TypeOK
<1>2. job'[c] = j /\ job' \in [Clients -> Jobs]
  BY DEF TypeOK
<1>3. TypeOK'
  BY <1>1, <1>2 DEF TypeOK, position
<1>4. PositionMatchesJournal' /\ RowsArePrefix' /\ LastOpLands'
  BY NothingRecorded DEF position
<1>5. ApplyInv(c)'
  BY <1>1 DEF ApplyInv, ApplyPCs, RollbackPCs
<1>6. RollbackInv(c)'
  <2>1. RollbackInv(c)
    OBVIOUS
  <2> QED
    BY <1>1, <1>2, <2>1
      DEF RollbackInv, RollbackPCs, position, FirstStep, AllReversible,
          ReversibleRows, ConfirmedRows, IntendedRows, LastSeq, HasDown, Op
<1> QED
  BY <1>1, <1>3, <1>4, <1>5, <1>6

\* What a client knows of the edge it reverses.
LEMMA RollbackFacts ==
  ASSUME IInv, NEW c \in Clients, pc[c] \in {"beginBack"} \union RollbackPCs
  PROVE  /\ job[c] \in Jobs
         /\ job[c].edge \in Edges /\ job[c].edge = FirstStep
         /\ job[c].goal \in Nat /\ job[c].goal \in Revisions
         /\ pc[c] \in RollbackPCs =>
              job[c].seq \in 0..LastSeq(job[c].edge) /\ job[c].seq \in Nat
         /\ pc[c] \in RollbackPCs /\ job[c].seq > 0 => InEdge(c)
         /\ pc[c] = "execBack" => job[c].seq > 0 /\ HasDown(c)
<1> USE DEF IInv
<1>1. job[c] \in Jobs
  BY DEF TypeOK
<1>2. job[c].edge \in Edges /\ job[c].edge = FirstStep
  BY DEF RollbackInv
<1>3. job[c].goal \in Revisions /\ job[c].goal \in Nat
  BY <1>1, RevisionFacts DEF Jobs
<1>4. pc[c] \in RollbackPCs => job[c].seq \in 0..LastSeq(job[c].edge)
  BY DEF RollbackInv
<1>5. LastSeq(job[c].edge) \in Nat
  BY <1>2, EdgeFacts
<1>6. job[c].seq \in 0..LastSeq(job[c].edge) /\ job[c].seq > 0 => InEdge(c)
  BY <1>5 DEF InEdge
<1>7. pc[c] = "execBack" => job[c].seq > 0 /\ HasDown(c)
  BY DEF RollbackInv, RollbackPCs
<1> QED
  BY <1>1, <1>2, <1>3, <1>4, <1>5, <1>6, <1>7

\* Within an edge, one row down is still within it.
LEMMA OneRowDown ==
  ASSUME IInv, NEW c \in Clients, pc[c] \in RollbackPCs, job[c].seq > 0
  PROVE  /\ [job[c] EXCEPT !.seq = @ - 1] \in Jobs
         /\ [job[c] EXCEPT !.seq = @ - 1].edge = job[c].edge
         /\ [job[c] EXCEPT !.seq = @ - 1].goal = job[c].goal
         /\ [job[c] EXCEPT !.seq = @ - 1].seq \in 0..LastSeq(job[c].edge)
<1>1. job[c] \in Jobs /\ job[c].edge \in Edges
      /\ job[c].seq \in 0..LastSeq(job[c].edge)
  BY RollbackFacts
<1>2. LastSeq(job[c].edge) \in Nat
  BY <1>1, EdgeFacts
<1>3. [job[c] EXCEPT !.seq = @ - 1] \in Jobs
  BY <1>1, JobUpdates
<1>4. /\ [job[c] EXCEPT !.seq = @ - 1].edge = job[c].edge
      /\ [job[c] EXCEPT !.seq = @ - 1].goal = job[c].goal
      /\ [job[c] EXCEPT !.seq = @ - 1].seq = job[c].seq - 1
  BY <1>1 DEF Jobs
<1>5. job[c].seq - 1 \in 0..LastSeq(job[c].edge)
  BY <1>1, <1>2
<1> QED
  BY <1>3, <1>4, <1>5

\* Settling which edges a rollback reverses: the pre-check.
LEMMA PlanChainRollbackKeepsInvariant ==
  ASSUME IInv, NEW c \in Clients, PlanChainRollback(c)
  PROVE  IInv'
<1> USE DEF IInv
<1>1. PICK h \in Checkouts, goal \in 0..current :
        \/ /\ MayRollBack(h, goal)
           /\ Goto(c, "beginBack")
           /\ job' = [job EXCEPT ![c] = [NoJob EXCEPT !.goal = goal,
                                                      !.edge = FirstStep]]
           /\ UNCHANGED <<lock, written, outcome>>
        \/ Release(c, "failed")
  BY DEF PlanChainRollback
<1>2. pc[c] = "planBack" /\ UNCHANGED <<position, journal, objs, history>>
  BY DEF PlanChainRollback
<1>3. /\ current \in Revisions /\ current \in Nat /\ inProgress \in Revisions
      /\ boundary \in Nat /\ boundary <= current /\ goal \in Nat
      /\ goal <= current
  BY <1>1, RevisionFacts DEF TypeOK, PositionMatchesJournal
<1>4. ASSUME MayRollBack(h, goal), Goto(c, "beginBack"),
             job' = [job EXCEPT ![c] = [NoJob EXCEPT !.goal = goal,
                                                     !.edge = FirstStep]],
             UNCHANGED <<lock, written, outcome>>
      PROVE  IInv'
  <2>1. inProgress = 0 => goal <= current - 1
    BY <1>3, <1>4 DEF MayRollBack
  <2>2. FirstStep \in Edges /\ FirstStep \in Revisions
    <3>1. current # 0 \/ inProgress # 0
      BY <1>3, <2>1
    <3> QED
      BY <1>3, <3>1, RevisionFacts DEF FirstStep
  <2>3. goal >= boundary
    <3>1. \A e \in (goal + 1)..current : e # boundary
      BY <1>4 DEF MayRollBack, AboveBoundary
    <3> QED
      BY <1>3, <3>1
  <2>4. \A e \in Edges : e > goal => \A i \in ReversibleRows(e) : Chain[e][i].down
    <3> SUFFICES ASSUME NEW e \in Edges, e > goal, NEW i \in ReversibleRows(e)
                 PROVE  Chain[e][i].down
      OBVIOUS
    <3>1. e \in Nat /\ i \in Seqs
      BY EdgeFacts DEF ReversibleRows, ConfirmedRows, IntendedRows
    <3>2. HasRows(e)
      BY <3>1 DEF HasRows, ReversibleRows, ConfirmedRows, IntendedRows
    <3>3. e <= current \/ (e = inProgress /\ inProgress # 0)
      BY <1>3, <3>1, <3>2, EdgeFacts DEF PositionMatchesJournal
    <3>4. e \in (goal + 1)..current \union ({inProgress} \ {0})
      BY <1>3, <3>1, <3>3
    <3> QED
      BY <1>4, <3>4 DEF MayRollBack, AllReversible
  <2>5. goal \in Revisions
    BY <1>3, ChainFacts DEF Revisions
  <2>6. [NoJob EXCEPT !.goal = goal, !.edge = FirstStep] \in Jobs
    BY <2>2, <2>5, JobTypes
  <2>7. job'[c].goal = goal /\ job'[c].edge = FirstStep
        /\ job' \in [Clients -> Jobs]
    BY <1>4, <2>6 DEF TypeOK, NoJob
  <2>8. /\ LockHeld' /\ pc' \in [Clients -> PCs] /\ pc'[c] = "beginBack"
        /\ \A d \in Clients : d # c => ApplyInv(d)' /\ RollbackInv(d)'
    <3>1. \A d \in Clients : d # c => job'[d] = job[d]
      BY <1>4 DEF TypeOK
    <3> QED
      BY <1>2, <1>4, <3>1, StayingInside DEF TypeOK, PCs
  <2>9. TypeOK'
    BY <1>2, <1>4, <2>7, <2>8 DEF TypeOK, position, history
  <2>10. PositionMatchesJournal' /\ RowsArePrefix' /\ LastOpLands'
    BY <1>2, NothingRecorded DEF position
  <2>11. ApplyInv(c)'
    BY <2>8 DEF ApplyInv, ApplyPCs
  <2>12. RollbackInv(c)'
    BY <1>2, <1>3, <2>1, <2>2, <2>3, <2>4, <2>7, <2>8
      DEF RollbackInv, RollbackPCs, position, FirstStep, AllReversible,
          ReversibleRows, ConfirmedRows, IntendedRows
  <2> QED
    BY <2>8, <2>9, <2>10, <2>11, <2>12
<1>5. CASE Release(c, "failed")
  BY <1>2, <1>5, QuietReleaseKeepsInvariant DEF TypeOK, history, Outcomes
<1> QED
  BY <1>1, <1>4, <1>5

\* Reading the rows of the edge to reverse.
LEMMA BeginReverseKeepsInvariant ==
  ASSUME IInv, NEW c \in Clients, BeginReverse(c)
  PROVE  IInv'
<1> DEFINE j == [job[c] EXCEPT !.seq = LastSeq(job[c].edge),
                               !.rows = ReversibleRows(job[c].edge)]
<1>1. pc[c] \in {"beginBack"} \union RollbackPCs
      /\ UNCHANGED <<lock, position, journal, objs, written, outcome, history>>
  BY DEF BeginReverse
<1>2. job[c] \in Jobs /\ job[c].edge \in Edges /\ TypeOK
  BY <1>1, RollbackFacts DEF IInv
<1>3. LastSeq(job[c].edge) \in Nat
  BY <1>2, EdgeFacts
<1>4. j \in Jobs
  <2>1. ReversibleRows(job[c].edge) \in SUBSET Seqs
    BY DEF ReversibleRows, ConfirmedRows, IntendedRows
  <2> QED
    BY <1>2, <1>3, <2>1, JobUpdates
<1>5. j.edge = job[c].edge /\ j.goal = job[c].goal
      /\ j.seq = LastSeq(job[c].edge)
  BY <1>2 DEF Jobs
<1>6. j.seq \in 0..LastSeq(j.edge)
  BY <1>3, <1>5
<1>7. "back" \in RollbackPCs /\ Goto(c, "back") /\ job' = [job EXCEPT ![c] = j]
  BY <1>2 DEF BeginReverse, RollbackPCs, TypeOK
<1> HIDE DEF j
<1> QED
  BY <1>1, <1>2, <1>4, <1>5, <1>6, <1>7, ReversingKeepsInvariant
    DEF TypeOK, history

\* A row without a down-op, one reversed in the segment, one reversed outside
\* it, and the commit before that.
LEMMA ReverseStepsKeepInvariant ==
  ASSUME IInv, NEW c \in Clients,
         \/ SkipUnrecordedRow(c) \/ ReverseOp(c) \/ BreakSegment(c)
         \/ ReverseNonTransactionalOp(c)
  PROVE  IInv'
<1> DEFINE d == [job[c] EXCEPT !.seq = @ - 1]
<1>1. pc[c] \in RollbackPCs /\ job[c].seq > 0
  BY DEF SkipUnrecordedRow, ReverseOp, BreakSegment, ReverseNonTransactionalOp,
         RollbackPCs, IInv, RollbackInv
<1>2. TypeOK /\ job[c] \in Jobs /\ job[c].edge \in Edges /\ InEdge(c)
      /\ job[c].seq \in 0..LastSeq(job[c].edge)
  BY <1>1, RollbackFacts DEF IInv
<1>3. d \in Jobs /\ d.edge = job[c].edge /\ d.goal = job[c].goal
      /\ d.seq \in 0..LastSeq(d.edge)
  BY <1>1, OneRowDown
<1>4. Op(c).obj \in Objects /\ View(c) \in [Objects -> ObjectStates]
  BY <1>2, OpFacts, ViewType
<1>5. ASSUME HasDown(c), NEW s \in ObjectStates
      PROVE  Effect(Down(c), s) \in ObjectStates
  BY <1>2, <1>5, OpFacts, EffectType DEF HasDown
<1>6. "back" \in RollbackPCs /\ "execBack" \in RollbackPCs
  BY DEF RollbackPCs
<1>7. reversing \union {job[c].edge} \subseteq Edges
  BY <1>2 DEF TypeOK
<1> HIDE DEF d
<1>8. CASE SkipUnrecordedRow(c)
  <2>1. Goto(c, "back") /\ job' = [job EXCEPT ![c] = d]
    BY <1>2, <1>8 DEF SkipUnrecordedRow, Goto, TypeOK, d
  <2> QED
    BY <1>1, <1>2, <1>3, <1>6, <1>8, <2>1, ReversingKeepsInvariant
      DEF SkipUnrecordedRow, TypeOK, history
<1>9. CASE ReverseOp(c)
  <2>1. Goto(c, "back") /\ job' = [job EXCEPT ![c] = d]
    BY <1>2, <1>9 DEF ReverseOp, Goto, TypeOK, d
  <2>2. written' \in [Clients -> [Objects -> ObjectStates \union {"unwritten"}]]
    <3>1. Effect(Down(c), View(c)[Op(c).obj]) \in ObjectStates
      BY <1>4, <1>5, <1>9 DEF ReverseOp
    <3> QED
      BY <1>2, <1>9, <3>1 DEF ReverseOp, TypeOK
  <2> QED
    BY <1>1, <1>2, <1>3, <1>6, <1>9, <2>1, <2>2, ReversingKeepsInvariant
      DEF ReverseOp, TypeOK, history
<1>10. CASE BreakSegment(c)
  <2>1. Goto(c, "execBack") /\ job' = [job EXCEPT ![c] = job[c]]
    BY <1>2, <1>10 DEF BreakSegment, TypeOK
  <2>2. written' \in [Clients -> [Objects -> ObjectStates \union {"unwritten"}]]
    BY <1>2, <1>10 DEF BreakSegment, TypeOK, Unwritten
  <2>4. job[c].seq \in job[c].rows /\ Chain[job[c].edge][job[c].seq].down
    BY <1>10 DEF BreakSegment, HasDown, Op
  <2>3. reversing' \subseteq Edges /\ objs' \in [Objects -> ObjectStates]
    BY <1>2, <1>4, <1>7, <1>10 DEF BreakSegment, TypeOK
  <2> QED
    BY <1>1, <1>2, <1>6, <1>10, <2>1, <2>2, <2>3, <2>4, ReversingKeepsInvariant
      DEF BreakSegment
<1>11. CASE ReverseNonTransactionalOp(c)
  <2>1. Goto(c, "back") /\ job' = [job EXCEPT ![c] = d]
    BY <1>2, <1>11 DEF ReverseNonTransactionalOp, TypeOK, d
  <2>2. reversing' \subseteq Edges
    BY <1>7, <1>11 DEF ReverseNonTransactionalOp
  <2>3. objs' \in [Objects -> ObjectStates]
    <3>1. HasDown(c)
      BY <1>11, RollbackFacts DEF ReverseNonTransactionalOp, RollbackPCs
    <3>2. Effect(Down(c), objs[Op(c).obj]) \in ObjectStates
      BY <1>2, <1>4, <1>5, <3>1 DEF TypeOK
    <3>3. objs' = [objs EXCEPT ![Op(c).obj] = Effect(Down(c), objs[Op(c).obj])]
      BY <1>11 DEF ReverseNonTransactionalOp
    <3>4. objs \in [Objects -> ObjectStates]
      BY <1>2 DEF TypeOK
    <3> QED
      BY ONLY <3>2, <3>3, <3>4
  <2>4. UNCHANGED <<lock, position, journal, written, outcome, aborts, drifts>>
        /\ written \in [Clients -> [Objects -> ObjectStates \union {"unwritten"}]]
    BY <1>2, <1>11 DEF ReverseNonTransactionalOp, TypeOK
  <2> QED
    BY <1>1, <1>3, <1>6, <2>1, <2>2, <2>3, <2>4, ReversingKeepsInvariant
<1> QED
  BY <1>8, <1>9, <1>10, <1>11

\* The end of an edge's reversal: the rows go and the position steps back in
\* one transaction.
LEMMA SteppingBackKeepsInvariant ==
  ASSUME IInv, NEW e \in Edges, e = FirstStep, NEW goal \in Nat,
         goal >= boundary,
         goal <= (IF inProgress = 0 THEN current - 1 ELSE current),
         NEW target, target = (IF e = inProgress THEN current ELSE e - 1),
         journal' = [journal EXCEPT ![e] = [i \in Seqs |-> "none"]],
         AdvanceChainPosition(target)
  PROVE  /\ target \in Revisions /\ goal <= target /\ target <= current
         /\ current' = target /\ inProgress' = 0 /\ boundary' = boundary
         /\ journal' \in [Edges -> [Seqs -> RowStates]]
         /\ PositionMatchesJournal' /\ RowsArePrefix' /\ LastOpLands'
<1> USE DEF IInv
<1>1. /\ current \in Nat /\ inProgress \in Revisions /\ boundary \in Nat
      /\ current <= Len(Chain) /\ Len(Chain) \in Nat /\ e \in Nat \ {0}
      /\ boundary <= current
  BY RevisionFacts, ChainFacts DEF TypeOK, Revisions, PositionMatchesJournal
<1>2. \/ e = inProgress /\ target = current
      \/ inProgress = 0 /\ e = current /\ target = current - 1
  BY <1>1 DEF FirstStep
<1>3. target \in Nat /\ goal <= target /\ target <= current /\ target \in 0..Len(Chain)
  BY <1>1, <1>2
<1>4. current' = target /\ inProgress' = 0 /\ boundary' = boundary
  BY DEF AdvanceChainPosition
<1>5. journal' \in [Edges -> [Seqs -> RowStates]]
  BY DEF TypeOK, RowStates
<1>6. /\ \A d \in Edges : d # e => journal'[d] = journal[d]
      /\ \A i \in Seqs : journal'[e][i] = "none"
  BY DEF TypeOK
<1>7. PositionMatchesJournal'
  <2>1. ASSUME NEW d \in (boundary + 1)..target
        PROVE  \A i \in 1..LastSeq(d) : journal'[d][i] = "confirmed"
    <3>1. d \in (boundary + 1)..current
      BY <1>1, <1>3
    <3>2. d \in Edges /\ d # e
      <4>1. d # e
        BY <1>1, <1>2, <1>3, <2>1 DEF PositionMatchesJournal
      <4>2. d \in 1..Len(Chain)
        BY <1>1, <3>1
      <4> QED
        BY <4>1, <4>2 DEF Edges
    <3> QED
      BY <1>6, <3>1, <3>2 DEF PositionMatchesJournal, FullyConfirmed
  <2>2. ASSUME NEW d \in Edges, d > target, NEW i \in Seqs,
               journal'[d][i] # "none"
        PROVE  FALSE
    <3>1. d # e /\ journal[d][i] # "none"
      BY <1>6, <2>2
    <3>2. d \in Nat /\ (d > current \/ d = current)
      BY <1>1, <1>2, <2>2, EdgeFacts
    <3>3. d > current
      BY <1>1, <1>2, <2>2, <3>1, <3>2
    <3>4. d = inProgress
      BY <3>1, <3>3 DEF PositionMatchesJournal, HasRows
    <3> QED
      BY <1>1, <1>2, <3>1, <3>2, <3>4, EdgeFacts
  <2>3. boundary <= target
    BY <1>1, <1>3
  <2> QED
    BY <1>4, <2>1, <2>2, <2>3
      DEF PositionMatchesJournal, FullyConfirmed, HasRows, LastSeq
<1>8. RowsArePrefix'
  BY <1>6 DEF RowsArePrefix, LastSeq
<1>9. LastOpLands'
  <2> SUFFICES ASSUME NEW d \in Edges, journal'[d][LastSeq(d)] = "confirmed"
               PROVE  d <= target
    BY <1>4 DEF LastOpLands, LastSeq
  <2>1. d # e
    BY <1>6, EdgeFacts
  <2>2. d <= current /\ d \in Nat
    BY <1>6, <2>1, EdgeFacts DEF LastOpLands
  <2> QED
    BY <1>1, <1>2, <2>1, <2>2
<1> QED
  BY <1>3, <1>4, <1>5, <1>7, <1>8, <1>9 DEF Revisions

\* The last transaction of an edge's reversal.
LEMMA DeleteRolledBackOpsKeepsInvariant ==
  ASSUME IInv, NEW c \in Clients, DeleteRolledBackOps(c)
  PROVE  IInv'
<1> USE DEF IInv
<1> DEFINE e == job[c].edge
           goal == job[c].goal
           target == IF e = inProgress THEN current ELSE e - 1
<1>1. /\ pc[c] \in RollbackPCs /\ pc[c] # "idle"
      /\ journal' = [journal EXCEPT ![e] = [i \in Seqs |-> "none"]]
      /\ AdvanceChainPosition(target)
      /\ objs' = View(c) /\ reversing' = reversing \ {e}
      /\ UNCHANGED <<aborts, drifts, tracked>>
  BY DEF DeleteRolledBackOps, TargetAfter, RollbackPCs, AdvanceChainPosition
<1>2. e \in Edges /\ e = FirstStep /\ goal \in Nat /\ goal \in Revisions
  BY <1>1, RollbackFacts
<1>3. /\ goal >= boundary
      /\ goal <= (IF inProgress = 0 THEN current - 1 ELSE current)
      /\ \A d \in Edges : d > goal => \A i \in ReversibleRows(d) : Chain[d][i].down
  BY <1>1 DEF RollbackInv, AllReversible
<1>4. /\ target \in Revisions /\ goal <= target /\ target <= current
      /\ current' = target /\ inProgress' = 0 /\ boundary' = boundary
      /\ journal' \in [Edges -> [Seqs -> RowStates]]
      /\ PositionMatchesJournal' /\ RowsArePrefix' /\ LastOpLands'
  BY <1>1, <1>2, <1>3, SteppingBackKeepsInvariant
<1>5. objs' \in [Objects -> ObjectStates]
  BY <1>1, ViewType
<1> HIDE DEF target
<1>6. CASE goal < target
  <2>1. /\ Goto(c, "beginBack")
        /\ job' = [job EXCEPT ![c] = [NoJob EXCEPT !.goal = goal,
                                                   !.edge = target]]
        /\ written' = [written EXCEPT ![c] = Unwritten]
        /\ UNCHANGED <<lock, outcome>>
    BY <1>6 DEF DeleteRolledBackOps, TargetAfter, target
  <2>2. [NoJob EXCEPT !.goal = goal, !.edge = target] \in Jobs
    BY <1>2, <1>4, JobTypes
  <2>3. job'[c].goal = goal /\ job'[c].edge = target
        /\ job' \in [Clients -> Jobs]
    BY <2>1, <2>2 DEF TypeOK, NoJob
  <2>4. /\ LockHeld' /\ pc' \in [Clients -> PCs] /\ pc'[c] = "beginBack"
        /\ \A d \in Clients : d # c => ApplyInv(d)' /\ RollbackInv(d)'
    <3>1. \A d \in Clients : d # c => job'[d] = job[d]
      BY <2>1 DEF TypeOK
    <3> QED
      BY <1>1, <2>1, <3>1, StayingInside DEF TypeOK, PCs
  <2>5. TypeOK'
    <3>1. written' \in [Clients -> [Objects -> ObjectStates \union {"unwritten"}]]
      BY <2>1 DEF TypeOK, Unwritten
    <3>2. boundary' \in Revisions /\ reversing' \subseteq Edges
          /\ tracked' \in BOOLEAN
      BY <1>1, <1>4 DEF TypeOK
    <3> QED
      BY <1>1, <1>4, <1>5, <2>1, <2>3, <2>4, <3>1, <3>2, RevisionFacts DEF TypeOK
  <2>6. ApplyInv(c)'
    BY <2>4 DEF ApplyInv, ApplyPCs
  <2>7. \A d \in Edges : {k \in Seqs : journal'[d][k] = "confirmed"}
                           \subseteq ReversibleRows(d)
    <3> SUFFICES ASSUME NEW d \in Edges, NEW k \in Seqs,
                        journal'[d][k] = "confirmed"
                 PROVE  journal[d][k] = "confirmed"
      BY DEF ReversibleRows, ConfirmedRows
    <3> QED
      BY <1>1 DEF TypeOK
  <2>8. \A d \in Edges : d > goal =>
          \A k \in Seqs : journal'[d][k] = "confirmed" => Chain[d][k].down
    BY <1>3, <2>7
  <2>9. target \in Edges /\ goal <= target - 1
    <3>1. target \in Nat /\ target # 0 /\ goal <= target - 1
      BY <1>2, <1>4, <1>6, RevisionFacts
    <3> QED
      BY <1>4, <3>1, RevisionFacts
  <2>10. \A d \in Edges : d # inProgress'
    BY <1>4, EdgeFacts
  <2>11. RollbackInv(c)'
    BY <1>3, <1>4, <2>3, <2>4, <2>8, <2>9, <2>10
      DEF RollbackInv, RollbackPCs, FirstStep, AllReversible, ReversibleRows,
          ConfirmedRows
  <2> QED
    BY <1>4, <2>4, <2>5, <2>6, <2>11
<1>7. CASE ~(goal < target)
  <2>1. Release(c, "rolledBack") /\ "rolledBack" \in Outcomes
    BY <1>7 DEF DeleteRolledBackOps, TargetAfter, Outcomes, target
  <2>2. job' \in [Clients -> Jobs]
    BY <1>1, <2>1, LeavingCommand, JobTypes DEF Release, TypeOK
  <2>3. written' \in [Clients -> [Objects -> ObjectStates \union {"unwritten"}]]
    BY <2>1 DEF Release, TypeOK, Unwritten
  <2>4. boundary' \in Revisions /\ reversing' \subseteq Edges
        /\ tracked' \in BOOLEAN
    BY <1>1, <1>4 DEF TypeOK
  <2>5. TypeOK'
    BY <1>1, <1>4, <1>5, <2>1, <2>2, <2>3, <2>4, LeavingCommand, RevisionFacts
      DEF TypeOK
  <2> QED
    BY <1>1, <1>4, <2>1, <2>5, LeavingCommand
<1> QED
  BY <1>6, <1>7
-----------------------------------------------------------------------------
(***************************************************************************)
(* What goes wrong.                                                        *)
(***************************************************************************)
\* A command the database refuses.
LEMMA RefuseKeepsInvariant ==
  ASSUME IInv, NEW c \in Clients, Refuse(c)
  PROVE  IInv'
<1>1. pc[c] # "idle"
  BY DEF Refuse, Refused, AtFreshOp
<1> QED
  BY <1>1, QuietReleaseKeepsInvariant
    DEF Refuse, IInv, TypeOK, history, Outcomes

\* A command that dies or fails.
LEMMA AbortKeepsInvariant ==
  ASSUME IInv, NEW c \in Clients, Abort(c)
  PROVE  IInv'
<1> USE DEF IInv
<1>1. /\ pc[c] # "idle" /\ Release(c, "failed") /\ "failed" \in Outcomes
      /\ UNCHANGED <<position, journal, drifts>> /\ aborts' = aborts + 1
  BY DEF Abort, Outcomes
<1>2. aborts' \in Nat /\ drifts' \in Nat
  BY <1>1 DEF TypeOK
<1>3. objs' \in [Objects -> ObjectStates] /\ reversing' \subseteq Edges
  <2>1. CASE UNCHANGED <<objs, reversing>>
    BY <2>1 DEF TypeOK
  <2>2. CASE pc[c] = "exec"
    <3>1. InEdge(c) /\ job[c].edge \in Edges
      BY <2>2, ApplyFacts DEF ApplyPCs, InEdge, ApplyInv
    <3>2. Op(c).kind \in OpKinds /\ Op(c).obj \in Objects
          /\ Resumes(c) \in BOOLEAN
      BY <3>1, OpFacts DEF Resumes
    <3>3. objs[Op(c).obj] \in ObjectStates
      BY <3>2 DEF TypeOK
    <3>4. PICK s \in Torn(Op(c).kind, objs[Op(c).obj], Resumes(c)) :
            objs' = [objs EXCEPT ![Op(c).obj] = s] \/ UNCHANGED objs
      BY <2>2 DEF Abort
    <3>5. s \in ObjectStates
      BY <3>2, <3>3, <3>4, TornType
    <3>6. UNCHANGED reversing
      BY <2>2 DEF Abort
    <3> QED
      BY <3>4, <3>5, <3>6 DEF TypeOK
  <2>3. CASE pc[c] = "execBack"
    <3>1. InEdge(c) /\ job[c].edge \in Edges /\ HasDown(c)
      BY <2>3, RollbackFacts DEF RollbackPCs
    <3>2. Down(c) \in OpKinds \union {"unalter", "vacuous"}
          /\ Op(c).obj \in Objects /\ FALSE \in BOOLEAN
      BY <3>1, OpFacts DEF HasDown
    <3>3. objs[Op(c).obj] \in ObjectStates
      BY <3>2 DEF TypeOK
    <3>4. PICK s \in Torn(Down(c), objs[Op(c).obj], FALSE) :
            objs' = [objs EXCEPT ![Op(c).obj] = s]
      BY <2>3 DEF Abort
    <3>5. s \in ObjectStates
      BY <3>2, <3>3, <3>4, TornType
    <3>6. reversing' = reversing \union {job[c].edge}
      BY <2>3 DEF Abort
    <3> QED
      BY <3>1, <3>4, <3>5, <3>6 DEF TypeOK
  <2> QED
    BY <2>1, <2>2, <2>3 DEF Abort
<1> QED
  BY <1>1, <1>2, <1>3, QuietReleaseKeepsInvariant

\* A step that leaves the clients, the position and the journal alone.
LEMMA UntouchedClaimsStay ==
  ASSUME IInv, UNCHANGED <<lock, position, journal, pc, job>>
  PROVE  /\ LockHeld' /\ PositionMatchesJournal' /\ RowsArePrefix' /\ LastOpLands'
         /\ \A c \in Clients : ApplyInv(c)' /\ RollbackInv(c)'
<1> USE DEF IInv
<1>1. LockHeld'
  BY DEF LockHeld, NoJob
<1>2. PositionMatchesJournal' /\ RowsArePrefix' /\ LastOpLands'
  BY NothingRecorded DEF position
<1>3. ASSUME NEW c \in Clients PROVE ApplyInv(c)' /\ RollbackInv(c)'
  <2>1. ApplyInv(c) /\ RollbackInv(c)
    OBVIOUS
  <2>2. ApplyInv(c)'
    BY <2>1 DEF ApplyInv, ApplyPCs, ConfirmedRows, LastSeq, position
  <2>3. RollbackInv(c)'
    BY <2>1 DEF RollbackInv, RollbackPCs, FirstStep, AllReversible,
                ReversibleRows, HasDown, Op, ConfirmedRows, IntendedRows, LastSeq, position
  <2> QED
    BY <2>2, <2>3
<1> QED
  BY <1>1, <1>2, <1>3

\* A change made outside pgdesign.
LEMMA DriftKeepsInvariant ==
  ASSUME IInv, NEW o \in Objects, Drift(o)
  PROVE  IInv'
<1>1. PICK s \in {"absent", "valid", "altered"} : objs' = [objs EXCEPT ![o] = s]
  BY DEF Drift
<1>2. TypeOK'
  BY <1>1 DEF Drift, IInv, TypeOK, position, ObjectStates
<1> QED
  BY <1>2, UntouchedClaimsStay DEF Drift, IInv
-----------------------------------------------------------------------------
(***************************************************************************)
(* The theorems.                                                           *)
(***************************************************************************)
\* Every step keeps the invariant.
LEMMA NextInvariant == IInv /\ [Next]_vars => IInv'
<1> SUFFICES ASSUME IInv, [Next]_vars PROVE IInv'
  OBVIOUS
<1>1. ASSUME NEW c \in Clients, AcquireAdvisoryLock(c) PROVE IInv'
  BY <1>1, AcquireKeepsInvariant
<1>2. ASSUME NEW c \in Clients, ApplyStep(c) PROVE IInv'
  BY <1>2, EnsureKeepsInvariant, FindApplyPathKeepsInvariant,
     BeginEdgeKeepsInvariant, SkipConfirmedKeepsInvariant, StageOpKeepsInvariant,
     LandEdgeKeepsInvariant, IntendOpKeepsInvariant,
     ExecuteNonTransactionalKeepsInvariant, ConfirmIntentKeepsInvariant,
     EndEdgeKeepsInvariant, ReconcileKeepsInvariant DEF ApplyStep
<1>3. ASSUME NEW c \in Clients, RollbackStep(c) PROVE IInv'
  BY <1>3, PlanChainRollbackKeepsInvariant, BeginReverseKeepsInvariant,
     ReverseStepsKeepInvariant, DeleteRolledBackOpsKeepsInvariant
    DEF RollbackStep
<1>4. ASSUME NEW c \in Clients, Refuse(c) PROVE IInv'
  BY <1>4, RefuseKeepsInvariant
<1>5. ASSUME NEW c \in Clients, Abort(c) PROVE IInv'
  BY <1>5, AbortKeepsInvariant
<1>6. ASSUME NEW o \in Objects, Drift(o) PROVE IInv'
  BY <1>6, DriftKeepsInvariant
<1>7. CASE UNCHANGED vars
  <2>1. TypeOK'
    BY <1>7 DEF vars, position, history, IInv, TypeOK
  <2> QED
    BY <1>7, <2>1, UntouchedClaimsStay DEF vars, IInv
<1> QED
  BY <1>1, <1>2, <1>3, <1>4, <1>5, <1>6, <1>7 DEF Next, Step

\* The inductive invariant holds in every reachable state.
THEOREM InductiveInvariant == Spec => []IInv
BY InitInvariant, NextInvariant, PTL DEF Spec

\* Every variable keeps its type.
THEOREM TypeCorrect == Spec => []TypeOK
<1>1. IInv => TypeOK
  BY DEF IInv
<1> QED
  BY <1>1, InductiveInvariant, PTL

\* However commands interleave, fail, die and are retried, the chain position
\* and the operation journal agree.
THEOREM PositionAgrees == Spec => []PositionMatchesJournal
<1>1. IInv => PositionMatchesJournal
  BY DEF IInv
<1> QED
  BY <1>1, InductiveInvariant, PTL

\* An intent row, wherever a command died, is the frontier of its edge.
THEOREM FrontierHolds == Spec => []IntentIsFrontier
<1>1. IInv => IntentIsFrontier
  <2> SUFFICES ASSUME IInv, NEW e \in Edges, NEW i \in Seqs,
                      journal[e][i] = "intended"
               PROVE  /\ \A k \in 1..(i - 1) : journal[e][k] = "confirmed"
                      /\ \A k \in Seqs : k > i => journal[e][k] = "none"
    BY DEF IntentIsFrontier
  <2>1. \A k \in 1..(i - 1) : journal[e][k] = "confirmed"
    BY DEF IInv, RowsArePrefix
  <2>2. ASSUME NEW k \in Seqs, k > i, journal[e][k] # "none" PROVE FALSE
    <3>1. i \in 1..(k - 1)
      BY <2>2, EdgeFacts
    <3> QED
      BY <2>2, <3>1 DEF IInv, RowsArePrefix
  <2> QED
    BY <2>1, <2>2
<1> QED
  BY <1>1, InductiveInvariant, PTL

\* At most one client is inside a command.
THEOREM OneCommandAtATime ==
  Spec => [](\A c, d \in Clients : pc[c] # "idle" /\ pc[d] # "idle" => c = d)
<1>1. IInv => (\A c, d \in Clients : pc[c] # "idle" /\ pc[d] # "idle" => c = d)
  BY DEF IInv, LockHeld
<1> QED
  BY <1>1, InductiveInvariant, PTL

\* Only rollback's last transaction takes rows off the journal.
LEMMA RowsOnlyGrow ==
  ASSUME IInv, Next,
         \A c \in Clients : ~DeleteRolledBackOps(c)
  PROVE  \A e \in Edges, i \in Seqs :
           journal[e][i] = "confirmed" => journal'[e][i] = "confirmed"
<1> SUFFICES ASSUME NEW e \in Edges, NEW i \in Seqs, journal[e][i] = "confirmed"
             PROVE  journal'[e][i] = "confirmed"
  OBVIOUS
<1> USE DEF IInv
<1>1. ASSUME NEW c \in Clients, NEW k, NEW status,
             journal' = Journaled(c, k, status), status # "confirmed",
             k \in Seqs => journal[job[c].edge][k] # "confirmed"
      PROVE  journal'[e][i] = "confirmed"
  BY <1>1 DEF Journaled, TypeOK
<1>2. ASSUME NEW c \in Clients, NEW k,
             journal' = Journaled(c, k, "confirmed")
      PROVE  journal'[e][i] = "confirmed"
  BY <1>2 DEF Journaled, TypeOK
<1>3. ASSUME NEW c \in Clients, IntendOp(c) PROVE journal'[e][i] = "confirmed"
  <2>1. /\ pc[c] = "op" /\ pc[c] \in ApplyPCs /\ InEdge(c)
        /\ job[c].seq \notin job[c].rows
        /\ journal' = Journaled(c, job[c].seq, "intended")
    BY <1>3 DEF IntendOp, AtFreshOp, ApplyPCs
  <2>2. journal[job[c].edge][job[c].seq] # "confirmed"
    <3>1. \A k \in ConfirmedRows(job[c].edge) : k >= job[c].seq => k \in job[c].rows
      BY <2>1 DEF ApplyInv
    <3>2. job[c].seq \in Seqs /\ job[c].seq \in Nat
      BY <2>1, ApplyFacts, EdgeFacts
    <3> QED
      BY <2>1, <3>1, <3>2 DEF ConfirmedRows
  <2> QED
    BY <1>1, <2>1, <2>2
<1>4. ASSUME NEW c \in Clients, EndEdge(c) PROVE journal'[e][i] = "confirmed"
  <2>1. 0 \notin Seqs /\ journal' = Journaled(c, 0, "none")
    BY <1>4, EdgeFacts DEF EndEdge
  <2> QED
    BY <1>1, <2>1
<1>5. ASSUME NEW c \in Clients, LandEdge(c) PROVE journal'[e][i] = "confirmed"
  BY <1>2, <1>5 DEF LandEdge
<1>6. ASSUME NEW c \in Clients, ConfirmIntentOp(c)
      PROVE  journal'[e][i] = "confirmed"
  BY Zenon, <1>6 DEF ConfirmIntentOp, TypeOK
<1>7. ASSUME NEW c \in Clients,
             \/ AcquireAdvisoryLock(c) \/ Refuse(c) \/ Abort(c)
             \/ EnsureChainStructures(c) \/ FindApplyPath(c) \/ BeginEdge(c)
             \/ SkipConfirmedOp(c) \/ StageOp(c)
             \/ ExecuteNonTransactionalOp(c) \/ ReconcileAfterApply(c)
             \/ PlanChainRollback(c) \/ BeginReverse(c) \/ SkipUnrecordedRow(c)
             \/ ReverseOp(c) \/ BreakSegment(c) \/ ReverseNonTransactionalOp(c)
      PROVE  journal' = journal
  BY <1>7 DEF AcquireAdvisoryLock, Refuse, Abort, EnsureChainStructures,
     FindApplyPath, BeginEdge, SkipConfirmedOp, StageOp,
     ExecuteNonTransactionalOp, ReconcileAfterApply, PlanChainRollback,
     BeginReverse, SkipUnrecordedRow, ReverseOp, BreakSegment,
     ReverseNonTransactionalOp
<1>8. ASSUME NEW o \in Objects, Drift(o) PROVE journal' = journal
  BY <1>8 DEF Drift
<1> QED
  BY <1>3, <1>4, <1>5, <1>6, <1>7, <1>8 DEF Next, Step, ApplyStep, RollbackStep

\* A confirmed op without a down-op is never taken off the journal: the
\* rollback that would have to do so is refused before its first effect.
THEOREM IrreversibleOpsStay == Spec => IrreversibleStays
<1>1. ASSUME IInv, [Next]_vars, NEW e \in Edges, NEW i \in 1..LastSeq(e),
             journal[e][i] = "confirmed", ~Chain[e][i].down
      PROVE  journal'[e][i] = "confirmed"
  <2>1. i \in Seqs
    BY EdgeFacts
  <2>2. ASSUME NEW c \in Clients, DeleteRolledBackOps(c)
        PROVE  journal'[e][i] = "confirmed"
    <3>1. pc[c] \in RollbackPCs
          /\ journal' = [journal EXCEPT ![job[c].edge] = [k \in Seqs |-> "none"]]
      BY <2>2 DEF DeleteRolledBackOps, RollbackPCs
    <3>2. i \in ReversibleRows(e)
      BY <1>1, <2>1 DEF ReversibleRows, ConfirmedRows
    <3>3. e # job[c].edge
      <4>1. /\ job[c].edge \in Edges /\ job[c].edge = FirstStep
            /\ job[c].goal \in Nat
        BY <1>1, <3>1, RollbackFacts
      <4>2. /\ job[c].goal <= (IF inProgress = 0 THEN current - 1 ELSE current)
            /\ \A d \in Edges : d > job[c].goal =>
                 \A k \in ReversibleRows(d) : Chain[d][k].down
        BY <1>1, <3>1 DEF IInv, RollbackInv, AllReversible
      <4>3. current \in Nat /\ inProgress \in {0, current + 1}
        BY <1>1, RevisionFacts DEF IInv, TypeOK, PositionMatchesJournal
      <4>4. job[c].edge > job[c].goal
        BY <4>1, <4>2, <4>3 DEF FirstStep
      <4> QED
        BY <1>1, <3>2, <4>2, <4>4
    <3> QED
      BY <1>1, <3>1, <3>3 DEF IInv, TypeOK
  <2>3. CASE Next /\ \A c \in Clients : ~DeleteRolledBackOps(c)
    BY <1>1, <2>1, <2>3, RowsOnlyGrow
  <2>4. CASE UNCHANGED vars
    BY <1>1, <2>4 DEF vars
  <2> QED
    BY <1>1, <2>2, <2>3, <2>4
<1>2. IInv /\ [Next]_vars =>
        [\A e \in Edges : \A i \in 1..LastSeq(e) :
           journal[e][i] = "confirmed" /\ ~Chain[e][i].down
             => journal'[e][i] = "confirmed"]_vars
  BY <1>1
<1> QED
  BY <1>2, InductiveInvariant, PTL DEF Spec, IrreversibleStays

\* Nothing moves the boundary, and no rollback goes below it.
THEOREM BoundaryStays == Spec => BoundaryFrozen
<1>1. ASSUME IInv, [Next]_vars PROVE boundary' = boundary /\ current' >= boundary
  <2>1. boundary' = boundary
    <3>1. ASSUME NEW c \in Clients, ApplyStep(c) PROVE boundary' = boundary
      BY <3>1 DEF ApplyStep, position, AdvanceChainPosition,
         EnsureChainStructures, FindApplyPath, BeginEdge, SkipConfirmedOp,
         StageOp, LandEdge, IntendOp, ExecuteNonTransactionalOp,
         ConfirmIntentOp, EndEdge, ReconcileAfterApply
    <3>2. ASSUME NEW c \in Clients, RollbackStep(c) PROVE boundary' = boundary
      BY <3>2 DEF RollbackStep, position, AdvanceChainPosition,
         PlanChainRollback, BeginReverse, SkipUnrecordedRow, ReverseOp,
         BreakSegment, ReverseNonTransactionalOp, DeleteRolledBackOps
    <3>3. ASSUME NEW c \in Clients,
                 AcquireAdvisoryLock(c) \/ Refuse(c) \/ Abort(c)
          PROVE  boundary' = boundary
      BY <3>3 DEF AcquireAdvisoryLock, Refuse, Abort, position
    <3>4. ASSUME NEW o \in Objects, Drift(o) PROVE boundary' = boundary
      BY <3>4 DEF Drift, position
    <3>5. CASE UNCHANGED vars
      BY <3>5 DEF vars, position
    <3> QED
      BY <1>1, <3>1, <3>2, <3>3, <3>4, <3>5 DEF Next, Step
  <2>2. boundary' <= current' /\ boundary' \in Nat /\ current' \in Nat
    <3>1. IInv'
      BY <1>1, NextInvariant
    <3>2. TypeOK' /\ PositionMatchesJournal'
      BY <3>1 DEF IInv
    <3> QED
      BY <3>2, ChainFacts DEF TypeOK, PositionMatchesJournal, Revisions
  <2> QED
    BY <2>1, <2>2
<1>2. IInv /\ [Next]_vars =>
        [boundary' = boundary /\ current' >= boundary]_vars
  BY <1>1
<1> QED
  BY <1>2, InductiveInvariant, PTL DEF Spec, BoundaryFrozen
=============================================================================

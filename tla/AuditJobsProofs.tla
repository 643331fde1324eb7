-------------------------- MODULE AuditJobsProofs --------------------------
(***************************************************************************)
(* Proofs about AuditJobs for every value of its bounds: the manager's     *)
(* count is exact, its two limits hold, what was started last is retained, *)
(* and the connections of the pool come back.                              *)
(***************************************************************************)
EXTENDS AuditJobs, FiniteSetTheorems, WellFoundedInduction, TLAPS

-----------------------------------------------------------------------------
\* A record says running exactly while its goroutine is at work, and ids
\* beyond the last start are untouched.
StatusFollowsGoroutine ==
  /\ \A j \in Ids : status[j] = "running" <=> at[j] \in Working
  /\ \A j \in Ids : j > started => at[j] = "unborn" /\ status[j] = "none"
  /\ \A j \in Ids : at[j] = "exited" => ctx[j] # "live"

\* Discover is under way only for a table that is still to be done.
TablesLeft == \A j \in Ids : at[j] = "discover" => todo[j] > 0

IInv == /\ TypeOK
        /\ StatusFollowsGoroutine
        /\ TablesLeft
        /\ CapacityKept
        /\ RecentJobsKept
        /\ CancelHonoured
        /\ ConnectionsReturned

\* The ids, the retained records and the jobs at work are finite sets.
LEMMA FiniteJobs ==
  ASSUME TypeOK
  PROVE  /\ IsFiniteSet(Ids) /\ IsFiniteSet(RunningJobs)
         /\ IsFiniteSet(jobs) /\ IsFiniteSet(held)
         /\ started \in Nat /\ jobs \subseteq Ids
<1>1. IsFiniteSet(Ids)
  BY FS_Interval, Bounds DEF Ids, Bounds
<1>2. started \in Nat /\ jobs \subseteq Ids /\ held \subseteq Ids
  BY Bounds DEF TypeOK, Ids, Bounds
<1>3. RunningJobs \subseteq Ids
  BY DEF RunningJobs
<1> QED
  BY <1>1, <1>2, <1>3, FS_Subset

\* A nonempty set of jobs has one that was started first.
LEMMA OldestExists ==
  ASSUME NEW S \in SUBSET Nat, S # {}
  PROVE  \E x \in S : \A y \in S : x <= y
<1>1. PICK x \in S : \A y \in S : ~(<<y, x>> \in OpToRel(<, Nat))
  BY WFMin, NatLessThanWellFounded
<1>2. \A y \in S : ~(y < x)
  BY <1>1 DEF OpToRel
<1> QED
  BY <1>2

\* At the bound evictLocked removes one record; below it, none.
LEMMA EvictionMakesRoom ==
  ASSUME TypeOK, CapacityKept, HasRoom
  PROVE  /\ Evicted \subseteq Finished
         /\ Cardinality(jobs \ Evicted) < MaxRetained
<1>0. /\ IsFiniteSet(jobs) /\ IsFiniteSet(RunningJobs) /\ jobs \subseteq Nat
      /\ Cardinality(jobs) \in Nat /\ Cardinality(RunningJobs) \in Nat
  BY FiniteJobs, FS_CardinalityType DEF Ids
<1>1. Evicted \subseteq Finished
  BY DEF Evicted
<1>2. CASE Cardinality(jobs) < MaxRetained
  <2>1. jobs \ Evicted = jobs
    BY <1>2 DEF Evicted
  <2> QED
    BY <2>1, <1>1, <1>2
<1>3. CASE ~(Cardinality(jobs) < MaxRetained)
  <2>1. Cardinality(RunningJobs) < Cardinality(jobs)
    BY <1>0, <1>3, Bounds DEF CapacityKept, HasRoom, Bounds
  <2>2. Finished # {}
    <3>1. SUFFICES ASSUME Finished = {} PROVE FALSE
      OBVIOUS
    <3>2. jobs \subseteq RunningJobs
      BY <3>1, FiniteJobs DEF Finished, RunningJobs
    <3>3. Cardinality(jobs) <= Cardinality(RunningJobs)
      BY <3>2, <1>0, FS_Subset
    <3> QED
      BY <3>3, <2>1, <1>0
  <2>3. PICK x \in Finished : \A y \in Finished : x <= y
    BY <2>2, <1>0, OldestExists DEF Finished
  <2>4. Evicted = {x}
    <3>1. Evicted = {j \in Finished : \A k \in Finished : j <= k}
      BY <1>3 DEF Evicted
    <3>2. Finished \subseteq Nat
      BY <1>0 DEF Finished
    <3>3. \A j \in Finished : (\A k \in Finished : j <= k) => j = x
      BY <2>3, <3>2
    <3> HIDE DEF Finished
    <3> QED
      BY <3>1, <3>3, <2>3
  <2>5. x \in jobs
    BY DEF Finished
  <2>6. Cardinality(jobs \ Evicted) = Cardinality(jobs) - 1
    BY <2>4, <2>5, <1>0, FS_RemoveElement
  <2> QED
    BY <2>6, <1>1, <1>0, Bounds DEF CapacityKept, Bounds
<1> QED
  BY <1>2, <1>3

\* Whatever is evicted was started before the last MaxRetained -
\* MaxConcurrent jobs: the older records that stay are running, and the
\* newer ones fill the rest of the table.
LEMMA EvictedIsOld ==
  ASSUME TypeOK, CapacityKept, HasRoom, NEW x \in Evicted
  PROVE  started - x >= MaxRetained - MaxConcurrent
<1> DEFINE Older == {k \in jobs : k < x}
           Newer == {k \in jobs : k > x}
<1>0. /\ IsFiniteSet(jobs) /\ IsFiniteSet(RunningJobs) /\ jobs \subseteq Nat
      /\ Cardinality(jobs) \in Nat /\ started \in Nat /\ jobs \subseteq Ids
      /\ Cardinality(RunningJobs) \in Nat
  BY FiniteJobs, FS_CardinalityType DEF Ids
<1>1. /\ x \in Finished /\ x \in jobs /\ x \in Nat /\ x <= started
      /\ Cardinality(jobs) >= MaxRetained
      /\ \A k \in Finished : x <= k
  <2>1. Cardinality(jobs) >= MaxRetained
    <3>1. ~(Cardinality(jobs) < MaxRetained)
      BY DEF Evicted
    <3> QED
      BY <3>1, <1>0, Bounds DEF Bounds
  <2>2. x \in Finished /\ \A k \in Finished : x <= k
    BY DEF Evicted
  <2>3. x \in jobs
    BY <2>2 DEF Finished
  <2>4. x \in 1..started
    BY <2>3 DEF TypeOK
  <2> QED
    BY <2>1, <2>2, <2>3, <2>4, <1>0
<1>2. Older \subseteq RunningJobs
  <2>1. ASSUME NEW k \in jobs, k < x PROVE status[k] = "running"
    <3>1. ~(x <= k)
      BY <1>0, <1>1, <2>1
    <3> QED
      BY <3>1, <1>1 DEF Finished
  <2> QED
    BY <2>1, <1>0 DEF RunningJobs
<1>3. IsFiniteSet(Older) /\ Cardinality(Older) <= Cardinality(RunningJobs)
  BY <1>0, <1>2, FS_Subset
<1>4. Newer \subseteq (x+1)..started
  <2>1. \A k \in jobs : k \in Nat /\ k <= started
    BY <1>0 DEF TypeOK
  <2>2. \A k \in Nat : k <= started /\ k > x => k \in (x+1)..started
    BY <1>1, <1>0
  <2> QED
    BY <2>1, <2>2
<1>5. IsFiniteSet((x+1)..started) /\ Cardinality((x+1)..started) = started - x
  <2>1. x + 1 \in Int /\ started \in Int
    BY <1>0, <1>1
  <2>2. /\ IsFiniteSet((x+1)..started)
        /\ Cardinality((x+1)..started)
             = IF x + 1 > started THEN 0 ELSE started - (x + 1) + 1
    BY <2>1, FS_Interval
  <2> QED
    BY <2>2, <1>0, <1>1
<1>6. IsFiniteSet(Newer) /\ Cardinality(Newer) <= started - x
  BY <1>4, <1>5, FS_Subset
<1>7. jobs = (Older \cup Newer) \cup {x}
  <2>1. \A k \in jobs : k < x \/ k > x \/ k = x
    BY <1>0, <1>1
  <2> QED
    BY <2>1, <1>1
<1>8. Older \cap Newer = {} /\ x \notin Older \cup Newer
  <2>1. \A k \in jobs : ~(k < x /\ k > x)
    BY <1>0, <1>1
  <2>2. ~(x < x) /\ ~(x > x)
    BY <1>1
  <2> QED
    BY <2>1, <2>2
<1>9. /\ IsFiniteSet(Older \cup Newer)
      /\ Cardinality(Older \cup Newer) = Cardinality(Older) + Cardinality(Newer)
  <2>1. Cardinality(Older) \in Nat /\ Cardinality(Newer) \in Nat
    BY <1>3, <1>6, FS_CardinalityType
  <2>2. Cardinality(Older \cap Newer) = 0
    BY <1>8, FS_EmptySet
  <2> HIDE DEF Older, Newer
  <2>3. /\ IsFiniteSet(Older \cup Newer)
        /\ Cardinality(Older \cup Newer)
             = Cardinality(Older) + Cardinality(Newer) - Cardinality(Older \cap Newer)
    BY <1>3, <1>6, FS_Union
  <2> QED
    BY <2>1, <2>2, <2>3
<1>10. Cardinality(jobs) = Cardinality(Older) + Cardinality(Newer) + 1
  BY <1>7, <1>8, <1>9, FS_AddElement
<1>11. Cardinality(RunningJobs) < MaxConcurrent
  BY DEF CapacityKept, HasRoom
<1>12. Cardinality(Older) \in Nat /\ Cardinality(Newer) \in Nat
  BY <1>3, <1>6, FS_CardinalityType
<1> HIDE DEF Older, Newer
<1> QED
  BY <1>0, <1>1, <1>3, <1>6, <1>10, <1>11, <1>12, Bounds DEF Bounds

-----------------------------------------------------------------------------
LEMMA InitIInv == Init => IInv
<1> SUFFICES ASSUME Init PROVE IInv
  OBVIOUS
<1> USE DEF Init
<1>1. TypeOK
  BY Bounds DEF TypeOK, Bounds, Terminal, Working
<1>2. StatusFollowsGoroutine
  BY DEF StatusFollowsGoroutine, Working
<1>3. CapacityKept
  <2>1. RunningJobs = {}
    BY DEF RunningJobs
  <2> QED
    BY <2>1, FS_EmptySet, Bounds DEF CapacityKept, Bounds
<1>4. RecentJobsKept
  BY DEF RecentJobsKept
<1>5. CancelHonoured /\ TablesLeft
  BY DEF CancelHonoured, TablesLeft
<1>6. ConnectionsReturned
  <2>1. {j \in Ids : at[j] \in {"tables", "discover"}} = {}
    OBVIOUS
  <2> QED
    BY <2>1, FS_EmptySet, Bounds DEF ConnectionsReturned, Bounds
<1> QED
  BY <1>1, <1>2, <1>3, <1>4, <1>5, <1>6 DEF IInv

\* Steps of a goroutine between its start and its end leave the records
\* alone, and with them everything said about the manager.
LEMMA ManagerUntouched ==
  ASSUME IInv, UNCHANGED record
  PROVE  CapacityKept' /\ RecentJobsKept'
<1>1. RunningJobs' = RunningJobs
  BY DEF RunningJobs, record
<1> QED
  BY <1>1 DEF IInv, CapacityKept, RecentJobsKept, record

\* The connections follow a step that keeps the jobs in their loops.
LEMMA LoopsUntouched ==
  ASSUME IInv, UNCHANGED held,
         \A j \in Ids : at'[j] \in {"tables", "discover"}
                         <=> at[j] \in {"tables", "discover"}
  PROVE  ConnectionsReturned'
BY DEF IInv, ConnectionsReturned

LEMMA TablesLeftKept ==
  ASSUME IInv, [Next]_vars
  PROVE  TablesLeft'
<1> USE DEF IInv, TypeOK, TablesLeft
<1>1. CASE Start
  BY <1>1 DEF Start
<1>2. ASSUME NEW j \in Ids, Step(j) PROVE TablesLeft'
  BY <1>2 DEF Step, Introspect, Acquire, Stop, LeaveLoop, NextTable, Audit,
              Finish, Return
<1>3. ASSUME NEW j \in Ids, Discover(j) PROVE TablesLeft'
  BY <1>3 DEF Discover
<1>4. ASSUME NEW j \in Ids, Expire(j) \/ LookUp(j) \/ CallCancel(j)
      PROVE  TablesLeft'
  BY <1>4 DEF Expire, LookUp, CallCancel
<1>5. CASE UNCHANGED vars
  BY <1>5 DEF vars
<1> QED
  BY <1>1, <1>2, <1>3, <1>4, <1>5 DEF Next

LEMMA StartIInv ==
  ASSUME IInv, Start
  PROVE  IInv'
<1> DEFINE n == started + 1
<1>0. /\ IInv /\ TypeOK /\ CapacityKept /\ HasRoom /\ StatusFollowsGoroutine
      /\ n \in Ids /\ started \in Nat /\ MaxStarts \in Nat
      /\ at[n] = "unborn" /\ status[n] = "none" /\ n \notin jobs
  BY SMTT(30), Bounds DEF IInv, Start, TypeOK, StatusFollowsGoroutine, Ids, Bounds
<1>1. TypeOK'
  <2>1. started' \in 0..MaxStarts
    BY <1>0 DEF Start, Ids
  <2>2. jobs' \subseteq 1..started'
    <3>1. \A k \in jobs : k \in 1..(started + 1)
      BY <1>0 DEF TypeOK
    <3>2. n \in 1..(started + 1)
      BY <1>0
    <3> QED
      BY <3>1, <3>2 DEF Start
  <2>3. running' \in Int
    BY <1>0 DEF TypeOK, Start
  <2> QED
    BY <2>1, <2>2, <2>3, <1>0 DEF TypeOK, Start, Working, Terminal
<1>2. StatusFollowsGoroutine'
  BY <1>0 DEF StatusFollowsGoroutine, Start, TypeOK, Ids, Working
<1>3. RunningJobs' = RunningJobs \cup {n} /\ n \notin RunningJobs
  BY <1>0 DEF RunningJobs, Start, TypeOK
<1>4. CapacityKept'
  <2>1. Cardinality(RunningJobs') = Cardinality(RunningJobs) + 1
    BY <1>0, <1>3, FiniteJobs, FS_AddElement
  <2>2. running' = Cardinality(RunningJobs')
    BY <1>0, <2>1 DEF CapacityKept, Start
  <2>3. running' <= MaxConcurrent
    BY <1>0, Bounds DEF HasRoom, Start, TypeOK, Bounds
  <2>4. Evicted \subseteq Finished /\ Cardinality(jobs \ Evicted) < MaxRetained
    BY <1>0, EvictionMakesRoom
  <2>5. RunningJobs' \subseteq jobs'
    <3>1. \A j \in RunningJobs : j \in jobs /\ j \notin Finished
      BY <1>0 DEF CapacityKept, RunningJobs, Finished
    <3> QED
      BY <3>1, <1>3, <2>4 DEF Start
  <2>6. Cardinality(jobs') <= MaxRetained
    <3>1. IsFiniteSet(jobs \ Evicted) /\ n \notin jobs \ Evicted
      BY <1>0, FiniteJobs, FS_Subset
    <3>2. Cardinality(jobs \ Evicted) \in Nat
      BY <3>1, FS_CardinalityType
    <3>3. Cardinality(jobs') = Cardinality(jobs \ Evicted) + 1
      BY <3>1, FS_AddElement DEF Start
    <3> QED
      BY <3>2, <3>3, <2>4, Bounds DEF Bounds
  <2> QED
    BY <2>2, <2>3, <2>5, <2>6 DEF CapacityKept
<1>5. RecentJobsKept'
  <2>1. SUFFICES ASSUME NEW j \in 1..(started + 1),
                        (started + 1) - j <= MaxRetained - MaxConcurrent
                 PROVE  j \in jobs'
    <3>1. started' = started + 1
      BY DEF Start
    <3> QED
      BY <3>1 DEF RecentJobsKept
  <2>2. CASE j = started + 1
    BY <2>2 DEF Start
  <2>3. CASE j # started + 1
    <3>0. MaxRetained \in Int /\ MaxConcurrent \in Int
      BY Bounds DEF Bounds
    <3>1. /\ j \in 1..started
          /\ started - j < MaxRetained - MaxConcurrent
          /\ started - j <= MaxRetained - MaxConcurrent
          /\ ~(started - j >= MaxRetained - MaxConcurrent)
      BY <2>1, <2>3, <1>0, <3>0
    <3>2. j \in jobs
      BY <3>1 DEF IInv, RecentJobsKept
    <3>3. j \notin Evicted
      BY <3>1, <1>0, EvictedIsOld
    <3> QED
      BY <3>2, <3>3 DEF Start
  <2> QED
    BY <2>2, <2>3
<1>6. CancelHonoured'
  BY <1>0 DEF IInv, CancelHonoured, Start, TypeOK
<1>7. ConnectionsReturned'
  <2>1. \A j \in Ids : at'[j] \in {"tables", "discover"}
                         <=> at[j] \in {"tables", "discover"}
    BY <1>0 DEF Start, TypeOK
  <2> QED
    BY <2>1, <1>0, LoopsUntouched DEF Start
<1>8. TablesLeft'
  BY TablesLeftKept DEF Next
<1> QED
  BY <1>1, <1>2, <1>4, <1>5, <1>6, <1>7, <1>8 DEF IInv

LEMMA FinishIInv ==
  ASSUME IInv, NEW j \in Ids, Finish(j)
  PROVE  IInv'
<1>0. /\ TypeOK /\ CapacityKept /\ StatusFollowsGoroutine /\ RecentJobsKept
      /\ at[j] = "returned" /\ status[j] = "running"
      /\ j \in RunningJobs
  BY DEF IInv, Finish, StatusFollowsGoroutine, Working, RunningJobs
<1>1. Verdict(j) \in Terminal
  BY DEF Verdict, Terminal
<1>2. TypeOK'
  BY <1>0, <1>1, Bounds DEF TypeOK, Finish, Bounds, Ids, Working
<1>3. StatusFollowsGoroutine'
  BY <1>0, <1>1 DEF StatusFollowsGoroutine, Finish, TypeOK, Working, Terminal
<1>4. RunningJobs' = RunningJobs \ {j}
  BY <1>0, <1>1 DEF RunningJobs, Finish, TypeOK, Terminal
<1>5. CapacityKept'
  <2>1. Cardinality(RunningJobs') = Cardinality(RunningJobs) - 1
    BY <1>0, <1>4, FiniteJobs, FS_RemoveElement
  <2>2. Cardinality(RunningJobs) \in Nat
    BY <1>0, FiniteJobs, FS_CardinalityType
  <2> QED
    BY <1>0, <1>4, <2>1, <2>2, Bounds DEF CapacityKept, Finish, Bounds
<1>6. RecentJobsKept'
  BY <1>0 DEF RecentJobsKept, Finish
<1>7. CancelHonoured'
  BY <1>0 DEF IInv, CancelHonoured, Finish, Verdict, TypeOK
<1>8. ConnectionsReturned'
  <2>1. \A k \in Ids : at'[k] \in {"tables", "discover"}
                         <=> at[k] \in {"tables", "discover"}
    BY <1>0 DEF Finish, TypeOK
  <2> QED
    BY <2>1, LoopsUntouched DEF Finish
<1>9. TablesLeft'
  BY TablesLeftKept DEF Next, Step
<1> QED
  BY <1>2, <1>3, <1>5, <1>6, <1>7, <1>8, <1>9 DEF IInv

\* The client and the clock: contexts and cancellations only.
LEMMA ContextIInv ==
  ASSUME IInv, NEW j \in Ids, Expire(j) \/ LookUp(j) \/ CallCancel(j)
  PROVE  IInv'
<1>0. TypeOK /\ StatusFollowsGoroutine /\ CancelHonoured /\ jobs \subseteq Ids
  BY FiniteJobs DEF IInv
<1>1. TypeOK'
  BY <1>0 DEF TypeOK, Expire, LookUp, CallCancel, record
<1>2. StatusFollowsGoroutine' /\ CancelHonoured'
  BY <1>0 DEF StatusFollowsGoroutine, CancelHonoured, TypeOK, Expire, LookUp,
              CallCancel, record, Working
<1>3. CapacityKept' /\ RecentJobsKept'
  BY ManagerUntouched DEF Expire, LookUp, CallCancel
<1>4. ConnectionsReturned'
  BY LoopsUntouched DEF Expire, LookUp, CallCancel
<1>5. TablesLeft'
  BY TablesLeftKept DEF Next
<1> QED
  BY <1>1, <1>2, <1>3, <1>4, <1>5 DEF IInv

\* The body of a job between its start and its return.
LEMMA BodyIInv ==
  ASSUME IInv, NEW j \in Ids,
         \/ Introspect(j) \/ Acquire(j) \/ Stop(j) \/ LeaveLoop(j)
         \/ NextTable(j) \/ Discover(j) \/ Audit(j)
  PROVE  IInv'
<1>0. TypeOK /\ StatusFollowsGoroutine /\ CancelHonoured /\ ConnectionsReturned
  BY DEF IInv
<1> USE DEF Introspect, Acquire, Stop, LeaveLoop, NextTable, Discover, Audit, Return
<1>1. at[j] \in Working /\ at[j] # "returned"
  BY DEF Working
<1>2. \E w \in Working : at' = [at EXCEPT ![j] = w]
  BY DEF Working
<1>3. UNCHANGED record /\ UNCHANGED <<ctx, asking>>
  OBVIOUS
<1>4. TypeOK'
  <2>1. at' \in [Ids -> {"unborn", "exited"} \cup Working]
    BY <1>0, <1>2 DEF TypeOK
  <2>2. todo' \in [Ids -> 0..MaxTables]
    <3>1. CASE Introspect(j)
      BY <3>1, <1>0 DEF TypeOK
    <3>2. CASE Discover(j)
      <4>1. todo[j] > 0
        BY <3>2 DEF IInv, TablesLeft
      <4> QED
        BY <4>1, <3>2, <1>0, Bounds DEF TypeOK, Bounds
    <3> QED
      BY <3>1, <3>2, <1>0 DEF TypeOK
  <2>3. result' \in [Ids -> {"none", "ok", "error"}]
    BY <1>0 DEF TypeOK
  <2>4. held' \subseteq Ids
    BY <1>0 DEF TypeOK
  <2> QED
    BY <2>1, <2>2, <2>3, <2>4, <1>0, <1>3 DEF TypeOK, record
<1>5. StatusFollowsGoroutine'
  <2>1. \A k \in Ids : at'[k] \in Working <=> at[k] \in Working
    BY <1>0, <1>1, <1>2 DEF TypeOK
  <2>2. \A k \in Ids : at'[k] = at[k] \/ at'[k] \in Working
    BY <1>0, <1>2 DEF TypeOK
  <2>3. \A k \in Ids : k > started => k # j
    BY <1>0, <1>1 DEF StatusFollowsGoroutine, Working
  <2>4. \A k \in Ids : k # j => at'[k] = at[k]
    BY <1>0, <1>2 DEF TypeOK
  <2>5. "exited" \notin Working
    BY DEF Working
  <2> HIDE DEF Introspect, Acquire, Stop, LeaveLoop, NextTable, Discover, Audit, Return
  <2> QED
    BY <2>1, <2>2, <2>3, <2>4, <2>5, <1>0, <1>3 DEF StatusFollowsGoroutine, record
<1>6. CapacityKept' /\ RecentJobsKept'
  BY <1>3, ManagerUntouched
<1>7. CancelHonoured'
  <2>1. \A k \in Ids : at'[k] = "exited" => at[k] = "exited"
    BY <1>0, <1>2 DEF TypeOK, Working
  <2> HIDE DEF Introspect, Acquire, Stop, LeaveLoop, NextTable, Discover, Audit, Return
  <2> QED
    BY <2>1, <1>0, <1>3 DEF CancelHonoured, record
<1>8. ConnectionsReturned'
  <2>1. CASE Introspect(j) \/ NextTable(j) \/ Discover(j) \/ Audit(j)
    <3>1. \A k \in Ids : at'[k] \in {"tables", "discover"}
                           <=> at[k] \in {"tables", "discover"}
      BY <2>1, <1>0 DEF TypeOK
    <3>2. UNCHANGED held
      BY <2>1
    <3> QED
      BY <3>1, <3>2, LoopsUntouched
  <2>2. CASE Acquire(j)
    <3>1. j \notin held
      BY <2>2, <1>0 DEF ConnectionsReturned
    <3>2. CASE UNCHANGED held
      <4>1. at' = [at EXCEPT ![j] = "audit"]
        BY <3>1, <3>2, <2>2
      <4>2. \A k \in Ids : at'[k] \in {"tables", "discover"}
                             <=> at[k] \in {"tables", "discover"}
        BY <4>1, <2>2, <1>0 DEF TypeOK
      <4> QED
        BY <4>2, <3>2, LoopsUntouched
    <3>3. CASE /\ Cardinality(held) < PoolSize
               /\ held' = held \cup {j}
               /\ at' = [at EXCEPT ![j] = "tables"]
      <4>1. held' = {k \in Ids : at'[k] \in {"tables", "discover"}}
        BY <3>3, <1>0 DEF TypeOK, ConnectionsReturned
      <4>2. Cardinality(held') = Cardinality(held) + 1 /\ Cardinality(held) \in Nat
        BY <3>1, <3>3, <1>0, FiniteJobs, FS_AddElement, FS_CardinalityType
      <4> QED
        BY <4>1, <4>2, <3>3, Bounds DEF ConnectionsReturned, Bounds
    <3> QED
      BY <3>2, <3>3, <2>2
  <2>3. CASE Stop(j) \/ LeaveLoop(j)
    <3>1. held' = held \ {j} /\ \E w \in {"returned", "audit"} :
                                   at' = [at EXCEPT ![j] = w]
      BY <2>3
    <3>2. held' = {k \in Ids : at'[k] \in {"tables", "discover"}}
      BY <3>1, <1>0 DEF TypeOK, ConnectionsReturned
    <3>3. /\ Cardinality(held') <= Cardinality(held)
          /\ Cardinality(held') \in Nat /\ Cardinality(held) \in Nat
      BY <3>1, <1>0, FiniteJobs, FS_Subset, FS_CardinalityType
    <3> QED
      BY <3>2, <3>3, <1>0, Bounds DEF ConnectionsReturned, Bounds
  <2> QED
    BY <2>1, <2>2, <2>3
<1>9. TablesLeft'
  BY TablesLeftKept DEF Next, Step
<1> QED
  BY <1>4, <1>5, <1>6, <1>7, <1>8, <1>9 DEF IInv

LEMMA NextIInv == IInv /\ [Next]_vars => IInv'
<1> SUFFICES ASSUME IInv, [Next]_vars PROVE IInv'
  OBVIOUS
<1>1. CASE Start
  BY <1>1, StartIInv
<1>2. ASSUME NEW j \in Ids, Step(j) PROVE IInv'
  BY <1>2, BodyIInv, FinishIInv DEF Step
<1>3. ASSUME NEW j \in Ids, Discover(j) PROVE IInv'
  BY <1>3, BodyIInv
<1>4. ASSUME NEW j \in Ids, Expire(j) \/ LookUp(j) \/ CallCancel(j) PROVE IInv'
  BY <1>4, ContextIInv
<1>5. CASE UNCHANGED vars
  BY <1>5 DEF vars, IInv, TypeOK, StatusFollowsGoroutine, TablesLeft, RunningJobs,
              CapacityKept, RecentJobsKept, CancelHonoured, ConnectionsReturned
<1> QED
  BY <1>1, <1>2, <1>3, <1>4, <1>5 DEF Next

-----------------------------------------------------------------------------
\* The invariant all the theorems of this module rest on.
THEOREM Invariance == Spec => []IInv
<1>1. Spec => Init /\ [][Next]_vars
  BY PTL DEF Spec
<1> QED
  BY <1>1, InitIInv, NextIInv, PTL

\* The variables keep their types (AuditJobs!TypeOK).
THEOREM TypeCorrect == Spec => []TypeOK
<1>1. IInv => TypeOK
  BY DEF IInv
<1> QED
  BY <1>1, Invariance, PTL

\* Whatever the limits are, the count of running jobs is exact, it and the
\* number of records stay within them, and a running job is always retained.
THEOREM CapacityTheorem == Spec => []CapacityKept
<1>1. IInv => CapacityKept
  BY DEF IInv
<1> QED
  BY <1>1, Invariance, PTL

\* The last MaxRetained - MaxConcurrent + 1 jobs started can be polled.
THEOREM RetentionTheorem == Spec => []RecentJobsKept
<1>1. IInv => RecentJobsKept
  BY DEF IInv
<1> QED
  BY <1>1, Invariance, PTL

\* A cancellation in time decides how the job ends.
THEOREM CancellationTheorem == Spec => []CancelHonoured
<1>1. IInv => CancelHonoured
  BY DEF IInv
<1> QED
  BY <1>1, Invariance, PTL

\* Connections are held exactly by the jobs in the loop over the tables, and
\* the pool is never overdrawn.
THEOREM ConnectionTheorem == Spec => []ConnectionsReturned
<1>1. IInv => ConnectionsReturned
  BY DEF IInv
<1> QED
  BY <1>1, Invariance, PTL
=============================================================================

----------------------------- MODULE AuditJobs -----------------------------
(***************************************************************************)
(* The audit jobs of the HTTP server: internal/serve/jobs.go (the manager) *)
(* and runAudit in internal/serve/handlers.go (the body of a job).  A POST *)
(* starts a job in a goroutine of its own, a GET polls it, a DELETE asks   *)
(* for its cancellation; the manager bounds how many run and how many      *)
(* records it keeps.  A job is named by its place in the order of starts,  *)
(* which is the order of StartedAt: both are taken under the lock.         *)
(***************************************************************************)
EXTENDS Integers, FiniteSets

CONSTANTS MaxConcurrent,  \* maxConcurrentAuditJobs
          MaxRetained,    \* maxRetainedAuditJobs
          PoolSize,       \* connections of the pool the audits share
          MaxTables,      \* bound: tables an introspection may find
          MaxStarts,      \* bound: jobs started in a behaviour
          Unwanted        \* bound: jobs a client may ask to cancel

ASSUME Bounds == /\ MaxConcurrent \in Nat \ {0}
                 /\ MaxRetained \in Nat
                 /\ MaxConcurrent <= MaxRetained
                 /\ PoolSize \in Nat \ {0}
                 /\ MaxTables \in Nat
                 /\ MaxStarts \in Nat
                 /\ Unwanted \subseteq 1..MaxStarts

Ids == 1..MaxStarts

VARIABLES started,  \* number of jobs created
          jobs,     \* ids of the records the manager retains
          status,   \* Status of each record, "none" before its start
          running,  \* the manager's count of running jobs
          ctx,      \* the job's context: live, cancelled, expired, released
          at,       \* where the goroutine of the job is
          todo,     \* tables whose dependencies are still to be discovered
          result,   \* what run returned
          held,     \* jobs that hold a connection of the pool
          asking    \* cancellations between the look-up and the call

record == <<started, jobs, status, running>>
vars == <<started, jobs, status, running, ctx, at, todo, result, held, asking>>

Terminal == {"done", "failed", "cancelled"}
Working == {"introspect", "acquire", "tables", "discover", "audit", "returned"}

Init == /\ started = 0
        /\ jobs = {}
        /\ status = [j \in Ids |-> "none"]
        /\ running = 0
        /\ ctx = [j \in Ids |-> "live"]
        /\ at = [j \in Ids |-> "unborn"]
        /\ todo = [j \in Ids |-> 0]
        /\ result = [j \in Ids |-> "none"]
        /\ held = {}
        /\ asking = {}

(***************************************************************************)
(* The manager.  Everything it does to its records is under the lock.      *)
(***************************************************************************)
Finished == {j \in jobs : status[j] # "running"}

\* Mutant: the newest finished job is evicted instead of the oldest.
EvictedNewest == IF Cardinality(jobs) < MaxRetained
                 THEN {}
                 ELSE {j \in Finished : \A k \in Finished : j >= k}

\* What evictLocked deletes: at the bound, the finished job started first.
Evicted == IF Cardinality(jobs) < MaxRetained
           THEN {}
           ELSE {j \in Finished : \A k \in Finished : j <= k}

\* Mutant: the bound is off by one.
HasRoomForOneMore == running <= MaxConcurrent

HasRoom == running < MaxConcurrent

\* start.  At capacity it answers 429 and changes nothing.
Start == /\ HasRoom
         /\ started < MaxStarts
         /\ started' = started + 1
         /\ jobs' = (jobs \ Evicted) \cup {started + 1}
         /\ status' = [status EXCEPT ![started + 1] = "running"]
         /\ running' = running + 1
         /\ at' = [at EXCEPT ![started + 1] = "introspect"]
         /\ UNCHANGED <<ctx, todo, result, held, asking>>

\* Mutant: the error is looked at before the cancellation.
VerdictErrorFirst(j) == IF result[j] = "error" THEN "failed"
                        ELSE IF ctx[j] = "cancelled" THEN "cancelled" ELSE "done"

\* The status the goroutine writes: cancellation first, then the error.
Verdict(j) == IF ctx[j] = "cancelled" THEN "cancelled"
              ELSE IF result[j] = "error" THEN "failed" ELSE "done"

\* run has returned: count, status and, deferred, the context's release.
\* What run returned goes with the goroutine.
Finish(j) == /\ at[j] = "returned"
             /\ running' = running - 1
             /\ status' = [status EXCEPT ![j] = Verdict(j)]
             /\ ctx' = [ctx EXCEPT ![j] = IF @ = "live" THEN "released" ELSE @]
             /\ at' = [at EXCEPT ![j] = "exited"]
             /\ result' = [result EXCEPT ![j] = "none"]
             /\ todo' = [todo EXCEPT ![j] = 0]
             /\ UNCHANGED <<started, jobs, held, asking>>

\* cancel finds the job under the lock ...
LookUp(j) == /\ j \in jobs \cap Unwanted
             /\ j \notin asking
             /\ asking' = asking \cup {j}
             /\ UNCHANGED <<record, ctx, at, todo, result, held>>

\* ... and cancels its context without it: the job may be gone by then.
CallCancel(j) == /\ j \in asking
                 /\ asking' = asking \ {j}
                 /\ ctx' = [ctx EXCEPT ![j] = IF @ = "live" THEN "cancelled"
                                              ELSE @]
                 /\ UNCHANGED <<record, at, todo, result, held>>

\* auditJobHardTimeout passes.
Expire(j) == /\ at[j] \in Working
             /\ ctx[j] = "live"
             /\ ctx' = [ctx EXCEPT ![j] = "expired"]
             /\ UNCHANGED <<record, at, todo, result, held, asking>>

(***************************************************************************)
(* The body of a job, runAudit.                                            *)
(***************************************************************************)
Done(j) == ctx[j] # "live"

Return(j, r) == /\ at' = [at EXCEPT ![j] = "returned"]
                /\ result' = [result EXCEPT ![j] = r]

\* introspect.Introspect(ctx): its queries fail when the context is done.
Introspect(j) == /\ at[j] = "introspect"
                 /\ \/ /\ at' = [at EXCEPT ![j] = "acquire"]
                       /\ \E n \in 0..MaxTables : todo' = [todo EXCEPT ![j] = n]
                       /\ UNCHANGED result
                    \/ /\ Return(j, "error")
                       /\ UNCHANGED todo
                 /\ UNCHANGED <<record, ctx, held, asking>>

\* Mutant: an acquisition that fails is tried again.
AcquireAgain(j) == /\ at[j] = "acquire"
                   /\ ~Done(j)
                   /\ Cardinality(held) < PoolSize
                   /\ held' = held \cup {j}
                   /\ at' = [at EXCEPT ![j] = "tables"]
                   /\ UNCHANGED <<record, ctx, todo, result, asking>>

\* pool.Acquire(ctx) waits for a connection or for the end of the context.
\* Without a connection the discovery is left out, silently.
Acquire(j) == /\ at[j] = "acquire"
              /\ \/ /\ ~Done(j)
                    /\ Cardinality(held) < PoolSize
                    /\ held' = held \cup {j}
                    /\ at' = [at EXCEPT ![j] = "tables"]
                 \/ /\ at' = [at EXCEPT ![j] = "audit"]
                    /\ UNCHANGED held
              /\ UNCHANGED <<record, ctx, todo, result, asking>>

\* Mutant: the early return inside the loop forgets the connection.
StopHolding(j) == /\ at[j] = "tables"
                  /\ todo[j] > 0
                  /\ Done(j)
                  /\ Return(j, "error")
                  /\ UNCHANGED <<record, ctx, todo, held, asking>>

\* The head of the loop over the tables: stop, leave the loop, or go on.
Stop(j) == /\ at[j] = "tables"
           /\ todo[j] > 0
           /\ Done(j)
           /\ held' = held \ {j}
           /\ Return(j, "error")
           /\ UNCHANGED <<record, ctx, todo, asking>>

LeaveLoop(j) == /\ at[j] = "tables"
                /\ todo[j] = 0
                /\ held' = held \ {j}
                /\ at' = [at EXCEPT ![j] = "audit"]
                /\ UNCHANGED <<record, ctx, todo, result, asking>>

NextTable(j) == /\ at[j] = "tables"
                /\ todo[j] > 0
                /\ ~Done(j)
                /\ at' = [at EXCEPT ![j] = "discover"]
                /\ UNCHANGED <<record, ctx, todo, result, held, asking>>

\* discover.Discover(conn, ...) takes no context: it returns when the
\* database has answered, and its errors become diagnostics.
Discover(j) == /\ at[j] = "discover"
               /\ todo' = [todo EXCEPT ![j] = @ - 1]
               /\ at' = [at EXCEPT ![j] = "tables"]
               /\ UNCHANGED <<record, ctx, result, held, asking>>

\* The last look at the context, and the audit itself.
Audit(j) == /\ at[j] = "audit"
            /\ Return(j, IF Done(j) THEN "error" ELSE "ok")
            /\ UNCHANGED <<record, ctx, todo, held, asking>>

\* What a goroutine does by itself, the database's answer left aside.
Step(j) == \/ Introspect(j) \/ Acquire(j) \/ Stop(j) \/ LeaveLoop(j)
           \/ NextTable(j) \/ Audit(j) \/ Finish(j)

Next == \/ Start
        \/ \E j \in Ids : \/ Step(j) \/ Discover(j) \/ Expire(j)
                          \/ LookUp(j) \/ CallCancel(j)

(***************************************************************************)
(* Goroutines are scheduled, contexts expire, and a statement that takes   *)
(* the context returns by its end at the latest.  A statement that takes   *)
(* none, WF_vars(Discover(j)), returns because the database answers.       *)
(***************************************************************************)
Spec == /\ Init /\ [][Next]_vars
        /\ \A j \in Ids : /\ WF_vars(Step(j)) /\ WF_vars(Expire(j))
                          /\ WF_vars(Discover(j))
-----------------------------------------------------------------------------
TypeOK == /\ started \in 0..MaxStarts
          /\ jobs \subseteq 1..started
          /\ status \in [Ids -> {"none", "running"} \cup Terminal]
          /\ running \in Int
          /\ ctx \in [Ids -> {"live", "cancelled", "expired", "released"}]
          /\ at \in [Ids -> {"unborn", "exited"} \cup Working]
          /\ todo \in [Ids -> 0..MaxTables]
          /\ result \in [Ids -> {"none", "ok", "error"}]
          /\ held \subseteq Ids
          /\ asking \subseteq Ids

RunningJobs == {j \in Ids : status[j] = "running"}

\* The manager's count is the number of records that say running, all of
\* them retained (evictLocked never takes one, so each can be polled and
\* cancelled); neither bound of jobs.go is ever exceeded.
CapacityKept == /\ running = Cardinality(RunningJobs)
                /\ running <= MaxConcurrent
                /\ RunningJobs \subseteq jobs
                /\ Cardinality(jobs) <= MaxRetained

\* Retention in terms of starts: the last MaxRetained - MaxConcurrent + 1
\* jobs started can be polled, however long the jobs before them run (60 and
\* one with the constants of jobs.go).  A job that outlasts that many later
\* starts may be evicted by the first start after it finishes.
RecentJobsKept == \A j \in 1..started :
                     started - j <= MaxRetained - MaxConcurrent => j \in jobs

\* A cancellation that came before the deadline and before the goroutine
\* took the lock decides the outcome, even when run had already returned.
CancelHonoured == \A j \in Ids :
                     at[j] = "exited" /\ ctx[j] = "cancelled"
                        => status[j] = "cancelled"

\* Every way out of the loop over the tables gives the connection back, so a
\* job that waits for one waits for a job that is still in its loop.
ConnectionsReturned == /\ held = {j \in Ids : at[j] \in {"tables", "discover"}}
                       /\ Cardinality(held) <= PoolSize

\* Every job that was started ends, and with it the place it takes.
JobsEnd == \A j \in Ids : at[j] = "introspect" ~> status[j] \in Terminal
=============================================================================

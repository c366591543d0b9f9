----------------------------- MODULE WorkerPool -----------------------------
(***************************************************************************)
(* Worker processes draining the job queue (EnrichmentWorker), with the    *)
(* reaper that recovers the jobs of workers that died (the first half of   *)
(* EnrichmentSweeper.tick).  A worker's steps are the database commands it *)
(* awaits; between two of them any other process may run.                  *)
(*                                                                         *)
(* Time enters only through locks: a lock left by a worker that is gone    *)
(* ages out; that of a worker still on its job ages out only when          *)
(* LeaseRespected is FALSE, i.e. when a job may outlast JOB_LOCK_TTL_MS.   *)
(***************************************************************************)
EXTENDS JobQueue

CONSTANTS
  MaxCrashes,       \* bound: crashes, failed fail() calls and overrun leases
  LeaseRespected,   \* no job outlasts its lock while its worker is alive
  RepliesArrive     \* complete() never throws after it has taken effect

ASSUME PoolAssumption ==
  /\ MaxCrashes \in Nat
  /\ LeaseRespected \in BOOLEAN /\ RepliesArrive \in BOOLEAN

VARIABLES
  worker,           \* per process: the next step of its loop and its job
  crashes           \* how often MaxCrashes has been drawn on

poolVars == <<jobs, tail, worker, crashes>>

\* requeue and bury: fail() has read the job and chosen its update.
Steps == {"idle", "claimed", "read", "wrote", "failing", "requeue", "bury"}

NoJob == 0
Idle  == [pc |-> "idle", job |-> NoJob]

PoolTypeOK ==
  /\ QueueTypeOK
  /\ worker \in [Workers -> [pc : Steps, job : JobIds \cup {NoJob}]]
  /\ crashes \in 0..MaxCrashes

PoolInit ==
  /\ QueueInit
  /\ worker = [w \in Workers |-> Idle]
  /\ crashes = 0

Busy(w)       == worker[w].pc # "idle"
On(w, j)      == Busy(w) /\ worker[w].job = j
Abandoned(j)  == jobs[j].status = "processing" /\ \A w \in Workers : ~On(w, j)

At(w, step)   == worker[w].pc = step
Move(w, step) == worker' = [worker EXCEPT ![w].pc = step]
Rest(w)       == worker' = [worker EXCEPT ![w] = Idle]

Mishap ==
  /\ crashes < MaxCrashes
  /\ crashes' = crashes + 1

-----------------------------------------------------------------------------
(* The worker's loop.                                                      *)

\* Some process enqueues a job.
Submit ==
  /\ \E e \in Entries, r \in Reasons, v \in Versions : Enqueue(e, r, v)
  /\ UNCHANGED <<worker, crashes>>

ClaimJob(w) ==
  /\ At(w, "idle")
  /\ \E j \in JobIds :
       /\ ClaimNext(w, j)
       /\ worker' = [worker EXCEPT ![w] = [pc |-> "claimed", job |-> j]]
  /\ UNCHANGED crashes

\* enrich(): findById, then one setIntelligence.
ReadEntry(w) ==
  /\ At(w, "claimed")
  /\ Move(w, "read")
  /\ UNCHANGED <<jobs, tail, crashes>>

WriteResult(w) ==
  /\ At(w, "read")
  /\ Move(w, "wrote")
  /\ UNCHANGED <<jobs, tail, crashes>>

CompleteJob(w) ==
  /\ At(w, "wrote")
  /\ Complete(worker[w].job)
  /\ Rest(w)
  /\ UNCHANGED crashes

\* complete() takes effect, then throws: the catch block treats it as failed.
LoseCompleteReply(w) ==
  /\ ~RepliesArrive
  /\ At(w, "wrote")
  /\ Complete(worker[w].job)
  /\ Move(w, "failing")
  /\ UNCHANGED crashes

\* findById, setIntelligence or complete() throws, or the entry is not found.
EnrichFails(w) ==
  /\ worker[w].pc \in {"claimed", "read", "wrote"}
  /\ Move(w, "failing")
  /\ UNCHANGED <<jobs, tail, crashes>>

\* Broken variant: the last attempt is not used.
LookupOffByOne(w) ==
  /\ At(w, "failing")
  /\ Move(w, IF jobs[worker[w].job].attempts + 1 < MaxAttempts THEN "requeue" ELSE "bury")
  /\ UNCHANGED <<jobs, tail, crashes>>

\* Broken variant: one attempt too many.
LookupOneMore(w) ==
  /\ At(w, "failing")
  /\ Move(w, IF jobs[worker[w].job].attempts <= MaxAttempts THEN "requeue" ELSE "bury")
  /\ UNCHANGED <<jobs, tail, crashes>>

\* fail(): findById, and the choice of its update.
FailLookup(w) ==
  /\ At(w, "failing")
  /\ Move(w, IF jobs[worker[w].job].attempts < MaxAttempts THEN "requeue" ELSE "bury")
  /\ UNCHANGED <<jobs, tail, crashes>>

\* A rejected update throws out of process(); the loop logs and goes on.
RequeueJob(w) ==
  /\ At(w, "requeue")
  /\ \/ Requeue(worker[w].job)
     \/ /\ KeyTaken(KeyOf(worker[w].job), worker[w].job)
        /\ UNCHANGED queueVars
  /\ Rest(w)
  /\ UNCHANGED crashes

BuryJob(w) ==
  /\ At(w, "bury")
  /\ Bury(worker[w].job)
  /\ Rest(w)
  /\ UNCHANGED crashes

-----------------------------------------------------------------------------
(* Faults, locks and the reaper.                                           *)

\* The process dies and is restarted; a claim whose reply is lost looks the
\* same.  A fail() that throws also leaves its job as it is.
Crash(w) ==
  /\ Busy(w)
  /\ Mishap
  /\ Rest(w)
  /\ UNCHANGED queueVars

LockAgesOut(j) ==
  /\ Abandoned(j)
  /\ LockExpires(j)
  /\ UNCHANGED <<worker, crashes>>

LeaseOverrun(w) ==
  /\ ~LeaseRespected
  /\ Busy(w)
  /\ LockExpires(worker[w].job)
  /\ Mishap
  /\ UNCHANGED worker

\* Broken variant: reclaims every processing job, whatever its lock.
ReapEverything ==
  /\ jobs' = [j \in JobIds |->
                IF jobs[j].status = "processing"
                  THEN [jobs[j] EXCEPT !.status = "pending", !.lock = "none", !.owner = Nobody]
                  ELSE jobs[j]]
  /\ UNCHANGED <<tail, worker, crashes>>

\* Broken variant: the reaper finds nothing.
ReapNothing == FALSE /\ UNCHANGED poolVars

Reap ==
  /\ \E j \in JobIds : Expired(j)
  /\ ReclaimStale
  /\ UNCHANGED <<worker, crashes>>

-----------------------------------------------------------------------------

WorkerStep(w) ==
  \/ ClaimJob(w)   \/ ReadEntry(w)         \/ WriteResult(w)
  \/ CompleteJob(w) \/ LoseCompleteReply(w) \/ EnrichFails(w)
  \/ FailLookup(w) \/ RequeueJob(w)        \/ BuryJob(w)

PoolNext ==
  \/ Submit
  \/ \E w \in Workers : WorkerStep(w) \/ Crash(w) \/ LeaseOverrun(w)
  \/ \E j \in JobIds : LockAgesOut(j)
  \/ Reap

PoolSpec == PoolInit /\ [][PoolNext]_poolVars

\* The steps that are left when no worker outlasts its lock and no reply is
\* lost: with LeaseRespected and RepliesArrive, PoolSpec is TimelyPoolSpec.
TimelyStep(w) ==
  \/ ClaimJob(w)    \/ ReadEntry(w)  \/ WriteResult(w)
  \/ CompleteJob(w) \/ EnrichFails(w)
  \/ FailLookup(w)  \/ RequeueJob(w) \/ BuryJob(w)

TimelyNext ==
  \/ Submit
  \/ \E w \in Workers : TimelyStep(w) \/ Crash(w)
  \/ \E j \in JobIds : LockAgesOut(j)
  \/ Reap

TimelyPoolSpec == PoolInit /\ [][TimelyNext]_poolVars

\* A live worker's loop never stops, time passes, and the sweeper's timer
\* always reschedules itself.
PoolFairness ==
  /\ \A w \in Workers : WF_poolVars(TimelyStep(w))
  /\ \A j \in JobIds : WF_poolVars(LockAgesOut(j))
  /\ WF_poolVars(Reap)

FairPoolSpec == TimelyPoolSpec /\ PoolFairness

-----------------------------------------------------------------------------
(* Properties.                                                             *)

(* No two workers are ever on the same job (README section 16; comment of  *)
(* EnrichmentWorker).  Claims are atomic, but reclaiming is not tied to    *)
(* the worker being gone: this needs LeaseRespected.                       *)
MutualExclusion ==
  \A v, w \in Workers : \A j \in JobIds : On(v, j) /\ On(w, j) => v = w

(* As long as a worker is on a job that is still processing, the lock is   *)
(* its own and fresh: complete() and fail(), which do not look at          *)
(* lockedBy, never touch a job that another worker has claimed.            *)
LeaseHeld ==
  \A w \in Workers : \A j \in JobIds :
    On(w, j) /\ Active(j) =>
      jobs[j].status = "processing" /\ jobs[j].lock = "fresh" /\ jobs[j].owner = w

(* A job is started at most MaxAttempts times, plus once for every time a  *)
(* worker vanished on it: the reaper does not look at attempts.            *)
RetryBudget == \A j \in JobIds : jobs[j].attempts <= MaxAttempts + crashes

(* A job is given up only after all its attempts.                          *)
FailedExhausted ==
  \A j \in JobIds : jobs[j].status = "failed" => jobs[j].attempts >= MaxAttempts

(* Every job a caller has enqueued is eventually finished or given up,     *)
(* although workers fail, crash and leave jobs behind.                     *)
JobsSettle == \A j \in JobIds : Active(j) ~> ~Active(j)

(* The pool keeps the promises of TaskLifecycle when leases are respected  *)
(* and replies arrive.                                                     *)
TaskState(j) ==
  CASE jobs[j].status = "absent"    -> "absent"
    [] jobs[j].status = "pending"   -> "waiting"
    [] jobs[j].status = "completed" -> "done"
    [] jobs[j].status = "failed"    -> "dead"
    [] OTHER -> IF Abandoned(j) THEN "orphaned" ELSE "running"

TaskOf(j) == [state  |-> TaskState(j),
              runner |-> IF TaskState(j) = "running" THEN jobs[j].owner ELSE Nobody,
              starts |-> jobs[j].attempts]

taskBar == [j \in JobIds |-> TaskOf(j)]

Promise == INSTANCE TaskLifecycle WITH
  Tasks <- JobIds, Runners <- Workers, NoRunner <- Nobody,
  MaxStarts <- MaxAttempts, task <- taskBar

KeepsPromise == Promise!TaskSpec
=============================================================================

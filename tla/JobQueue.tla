------------------------------ MODULE JobQueue ------------------------------
(***************************************************************************)
(* The job queue of the pipeline: MongoQueueService over the queue_jobs    *)
(* collection.  Each operator below is one database command of the         *)
(* service; MongoDB executes a single-document command atomically.         *)
(*                                                                         *)
(* The module also gives the queue a specification of its own, QueueSpec,  *)
(* in which any caller may issue any command at any time.  What holds      *)
(* there holds whatever the workers, sweepers and request handlers do.     *)
(*                                                                         *)
(* Job identifiers are numbered in createdAt order, so "oldest pending"    *)
(* is the least pending identifier.  lockedAt is abstracted to the age     *)
(* reclaimStale looks at: none (null), fresh, or expired (older than       *)
(* JOB_LOCK_TTL_MS).  The error text of a job is left out.                 *)
(***************************************************************************)
EXTENDS Naturals, Domain

CONSTANTS
  Workers,      \* worker processes
  Nobody,       \* lockedBy of an unlocked job
  MaxJobs,      \* bound: number of jobs ever inserted
  MaxAttempts,  \* WORKER_MAX_ATTEMPTS
  MaxClaims     \* bound: claims of one job in QueueSpec

ASSUME QueueAssumption ==
  /\ Nobody \notin Workers
  /\ MaxJobs \in Nat
  /\ MaxAttempts \in Nat \ {0}
  /\ MaxClaims \in Nat

VARIABLES
  jobs,         \* the collection, by identifier
  tail          \* number of jobs inserted so far

queueVars == <<jobs, tail>>

JobIds  == 1..MaxJobs
Live    == {"pending", "processing"}
Dead    == {"completed", "failed"}

Job == [entry    : Entries,
        reason   : Reasons,
        version  : Versions,
        status   : Live \cup Dead \cup {"absent"},
        attempts : Nat,
        lock     : {"none", "fresh", "expired"},
        owner    : Workers \cup {Nobody}]

NewJob(e, r, v) == [entry |-> e, reason |-> r, version |-> v,
                    status |-> "pending", attempts |-> 0,
                    lock |-> "none", owner |-> Nobody]

\* A slot of the collection no job has been inserted in.
Blank == [NewJob(CHOOSE e \in Entries : TRUE, "created", CHOOSE v \in Versions : TRUE)
            EXCEPT !.status = "absent"]

QueueTypeOK ==
  /\ jobs \in [JobIds -> Job]
  /\ tail \in 0..MaxJobs

QueueInit ==
  /\ jobs = [j \in JobIds |-> Blank]
  /\ tail = 0

-----------------------------------------------------------------------------
(* The idempotency key and the unique partial index over active jobs.      *)

\* Broken variant: the reason is left out of the key.
KeyWithoutReason(e, r, v) == <<e, v>>

IdempotencyKey(e, r, v) == <<e, r, v>>

KeyOf(j) == IdempotencyKey(jobs[j].entry, jobs[j].reason, jobs[j].version)

Active(j) == jobs[j].status \in Live

\* An active job other than j holds the key.
KeyTaken(key, j) == \E k \in JobIds \ {j} : Active(k) /\ KeyOf(k) = key

-----------------------------------------------------------------------------
(* Commands.                                                               *)

\* Insert a job; a duplicate active key is swallowed and nothing changes.
Enqueue(e, r, v) ==
  \/ /\ KeyTaken(IdempotencyKey(e, r, v), 0)
     /\ UNCHANGED queueVars
  \/ /\ ~KeyTaken(IdempotencyKey(e, r, v), 0)
     /\ tail < MaxJobs
     /\ tail' = tail + 1
     /\ jobs' = [jobs EXCEPT ![tail + 1] = NewJob(e, r, v)]

\* Broken variant: a job that is being processed can be claimed again.
ClaimActive(w, j) ==
  /\ Active(j)
  /\ jobs' = [jobs EXCEPT ![j].status = "processing", ![j].lock = "fresh", ![j].owner = w,
                          ![j].attempts = @ + 1]
  /\ UNCHANGED tail

\* findOneAndUpdate: the oldest pending job becomes w's.
ClaimNext(w, j) ==
  /\ jobs[j].status = "pending"
  /\ \A k \in JobIds : jobs[k].status = "pending" => j <= k
  /\ jobs' = [jobs EXCEPT ![j].status = "processing",
                          ![j].lock = "fresh",
                          ![j].owner = w,
                          ![j].attempts = @ + 1]
  /\ UNCHANGED tail

\* Broken variant: the lock outlives the job.
CompleteKeepingLock(j) ==
  /\ jobs' = [jobs EXCEPT ![j].status = "completed"]
  /\ UNCHANGED tail

\* updateOne by _id, whatever the job's status and owner are by now.
Complete(j) ==
  /\ jobs' = [jobs EXCEPT ![j].status = "completed",
                          ![j].lock = "none",
                          ![j].owner = Nobody]
  /\ UNCHANGED tail

\* Broken variant: the index lets a second active job in.
RequeueUnchecked(j) ==
  /\ jobs' = [jobs EXCEPT ![j].status = "pending",
                          ![j].lock = "none",
                          ![j].owner = Nobody]
  /\ UNCHANGED tail

\* fail() below the attempt limit.  When j is no longer active and its key
\* has been taken meanwhile, the unique index rejects the update.
Requeue(j) ==
  /\ ~KeyTaken(KeyOf(j), j)
  /\ jobs' = [jobs EXCEPT ![j].status = "pending",
                          ![j].lock = "none",
                          ![j].owner = Nobody]
  /\ UNCHANGED tail

\* fail() at the attempt limit.
Bury(j) ==
  /\ jobs' = [jobs EXCEPT ![j].status = "failed",
                          ![j].lock = "none",
                          ![j].owner = Nobody]
  /\ UNCHANGED tail

Expired(j) == jobs[j].status = "processing" /\ jobs[j].lock = "expired"

\* Broken variant: reclaimed jobs get a status of entries; updates are not validated.
ReclaimAsStale ==
  /\ jobs' = [j \in JobIds |->
                IF Expired(j)
                  THEN [jobs[j] EXCEPT !.status = "stale",
                                       !.lock = "none",
                                       !.owner = Nobody]
                  ELSE jobs[j]]
  /\ UNCHANGED tail

\* updateMany: every job locked for longer than the TTL goes back to pending.
ReclaimStale ==
  /\ jobs' = [j \in JobIds |->
                IF Expired(j)
                  THEN [jobs[j] EXCEPT !.status = "pending",
                                       !.lock = "none",
                                       !.owner = Nobody]
                  ELSE jobs[j]]
  /\ UNCHANGED tail

\* Time passes: j's lockedAt falls behind the reaper's cutoff.
LockExpires(j) ==
  /\ jobs[j].status = "processing" /\ jobs[j].lock = "fresh"
  /\ jobs' = [jobs EXCEPT ![j].lock = "expired"]
  /\ UNCHANGED tail

-----------------------------------------------------------------------------
(* Any caller, any command, any order: commands addressed to a job by its  *)
(* identifier are only issued for jobs some caller has claimed.            *)

Claimed(j) == jobs[j].attempts > 0

QueueStep ==
  \/ \E e \in Entries, r \in Reasons, v \in Versions : Enqueue(e, r, v)
  \/ \E w \in Workers, j \in JobIds : ClaimNext(w, j)
  \/ \E j \in JobIds : Claimed(j) /\ (Complete(j) \/ Requeue(j) \/ Bury(j))
  \/ \E j \in JobIds : LockExpires(j)
  \/ ReclaimStale

QueueNext == QueueStep /\ \A j \in JobIds : jobs'[j].attempts <= MaxClaims

QueueSpec == QueueInit /\ [][QueueNext]_queueVars

-----------------------------------------------------------------------------
(* Properties of the queue.                                                *)

(* At most one active job per idempotency key, although a late fail() may  *)
(* bring a finished job back (unique partial index, QueueJobModel.ts:47).  *)
UniqueActiveKey ==
  \A j, k \in JobIds : Active(j) /\ Active(k) /\ KeyOf(j) = KeyOf(k) => j = k

(* A job carries a lock exactly while it is processing, so the reaper's    *)
(* query on status and lockedAt sees every job a lost worker left behind.  *)
LockedIffProcessing ==
  \A j \in JobIds : /\ jobs[j].status = "processing" <=> jobs[j].lock # "none"
                    /\ jobs[j].status = "processing" <=> jobs[j].owner # Nobody
=============================================================================

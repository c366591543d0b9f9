--------------------------- MODULE JobQueueProofs ---------------------------
(***************************************************************************)
(* Proofs about the job queue, for any number of jobs and callers: what    *)
(* each command does to the collection, and that the unique index and the  *)
(* locks stay consistent whatever commands are issued.                     *)
(***************************************************************************)
EXTENDS JobQueue, TLAPS

-----------------------------------------------------------------------------
(* What a command does to the collection: exactly one slot changes.        *)

\* Every slot other than j is as it was.
OnlyChanges(j) == \A k \in JobIds \ {j} : jobs'[k] = jobs[k]

\* Slot j keeps its identity: a command that is not an insert never changes
\* the entry, reason or version of a job, hence not its key.
SameKey(j) == /\ jobs'[j].entry = jobs[j].entry
              /\ jobs'[j].reason = jobs[j].reason
              /\ jobs'[j].version = jobs[j].version

(* A claim takes one pending job, for w, with a fresh lock.                *)
LEMMA ClaimEffect ==
  ASSUME QueueTypeOK, NEW w \in Workers, NEW j \in JobIds, ClaimNext(w, j)
  PROVE  /\ QueueTypeOK' /\ OnlyChanges(j) /\ SameKey(j) /\ tail' = tail
         /\ jobs[j].status = "pending"
         /\ jobs'[j].status = "processing" /\ jobs'[j].lock = "fresh"
         /\ jobs'[j].owner = w /\ jobs'[j].attempts = jobs[j].attempts + 1
  BY DEF QueueTypeOK, ClaimNext, OnlyChanges, SameKey, Job, Live, Dead

\* complete(), and both updates of fail(), free the lock and set a status.
Settles(j, s) == jobs' = [jobs EXCEPT ![j].status = s, ![j].lock = "none", ![j].owner = Nobody]

(* A job that is settled changes nothing but its status, lock and owner.   *)
LEMMA SettleEffect ==
  ASSUME QueueTypeOK, NEW j \in JobIds, NEW s \in Live \cup Dead,
         Settles(j, s), tail' = tail
  PROVE  /\ QueueTypeOK' /\ OnlyChanges(j) /\ SameKey(j) /\ tail' = tail
         /\ jobs'[j].status = s /\ jobs'[j].lock = "none"
         /\ jobs'[j].owner = Nobody /\ jobs'[j].attempts = jobs[j].attempts
  BY DEF QueueTypeOK, OnlyChanges, SameKey, Job, Live, Dead, Settles

(* An insert fills the slot after the last; a duplicate changes nothing.   *)
LEMMA EnqueueEffect ==
  ASSUME QueueTypeOK, QueueAssumption,
         NEW e \in Entries, NEW r \in Reasons, NEW v \in Versions, Enqueue(e, r, v)
  PROVE  /\ QueueTypeOK'
         /\ \/ UNCHANGED queueVars
            \/ /\ tail + 1 \in JobIds /\ tail' = tail + 1 /\ OnlyChanges(tail + 1)
               /\ jobs'[tail + 1] = NewJob(e, r, v)
               /\ ~KeyTaken(IdempotencyKey(e, r, v), 0)
<1> USE DEF QueueTypeOK, Job, Live, Dead, JobIds, queueVars
<1>1. CASE UNCHANGED queueVars  BY <1>1
<1>2. CASE /\ ~KeyTaken(IdempotencyKey(e, r, v), 0)
           /\ tail < MaxJobs /\ tail' = tail + 1
           /\ jobs' = [jobs EXCEPT ![tail + 1] = NewJob(e, r, v)]
  <2>1. NewJob(e, r, v) \in Job  BY QueueAssumption DEF NewJob
  <2>2. tail + 1 \in JobIds      BY <1>2, QueueAssumption
  <2>3. jobs' \in [JobIds -> Job]  BY <1>2, <2>1, <2>2
  <2>4. tail' \in 0..MaxJobs       BY <1>2, QueueAssumption
  <2> QED BY <1>2, <2>2, <2>3, <2>4 DEF OnlyChanges
<1> QED BY <1>1, <1>2 DEF Enqueue

(* The lock of one processing job becomes expired.                         *)
LEMMA ExpiryEffect ==
  ASSUME QueueTypeOK, NEW j \in JobIds, LockExpires(j)
  PROVE  /\ QueueTypeOK' /\ OnlyChanges(j) /\ SameKey(j) /\ tail' = tail
         /\ jobs[j].status = "processing" /\ jobs'[j].status = "processing"
         /\ jobs'[j].lock = "expired" /\ jobs'[j].owner = jobs[j].owner
         /\ jobs'[j].attempts = jobs[j].attempts
  BY DEF QueueTypeOK, LockExpires, OnlyChanges, SameKey, Job, Live, Dead

(* The reaper changes exactly the jobs whose lock has expired.             *)
LEMMA ReapEffect ==
  ASSUME QueueTypeOK, QueueAssumption, ReclaimStale
  PROVE  /\ QueueTypeOK' /\ tail' = tail
         /\ \A j \in JobIds : ~Expired(j) => jobs'[j] = jobs[j]
         /\ \A j \in JobIds : SameKey(j) /\ jobs'[j].attempts = jobs[j].attempts
         /\ \A j \in JobIds : Expired(j) =>
              jobs'[j].status = "pending" /\ jobs'[j].lock = "none" /\ jobs'[j].owner = Nobody
<1>1. \A j \in JobIds : jobs[j] \in Job
  BY DEF QueueTypeOK
<1>2. \A j \in JobIds : jobs'[j] = IF Expired(j)
                  THEN [jobs[j] EXCEPT !.status = "pending", !.lock = "none", !.owner = Nobody]
                  ELSE jobs[j]
  BY DEF ReclaimStale
<1>3. ASSUME NEW j \in JobIds PROVE jobs'[j] \in Job
  <2>1. CASE Expired(j)
    <3>1. /\ jobs[j] \in Job
          /\ jobs'[j] = [jobs[j] EXCEPT !.status = "pending", !.lock = "none", !.owner = Nobody]
      BY <1>1, <1>2, <2>1
    <3> QED BY <3>1 DEF Job, Live, Dead
  <2>2. CASE ~Expired(j)  BY <1>1, <1>2, <2>2
  <2> QED BY <2>1, <2>2
<1>4. QueueTypeOK'
  BY <1>3 DEF QueueTypeOK, ReclaimStale
<1>5. \A j \in JobIds : ~Expired(j) => jobs'[j] = jobs[j]
  BY <1>2
<1>6. ASSUME NEW j \in JobIds, Expired(j)
      PROVE  /\ SameKey(j) /\ jobs'[j].attempts = jobs[j].attempts
             /\ jobs'[j].status = "pending" /\ jobs'[j].lock = "none" /\ jobs'[j].owner = Nobody
  BY <1>1, <1>2, <1>6 DEF Job, SameKey
<1>7. \A j \in JobIds : SameKey(j) /\ jobs'[j].attempts = jobs[j].attempts
  BY <1>5, <1>6 DEF SameKey
<1>8. tail' = tail
  BY DEF ReclaimStale
<1> QED BY <1>4, <1>5, <1>6, <1>7, <1>8

-----------------------------------------------------------------------------
(* The queue's invariants.                                                 *)

\* The commands of QueueStep, addressed to any job at all.
QueueCommand ==
  \/ \E e \in Entries, r \in Reasons, v \in Versions : Enqueue(e, r, v)
  \/ \E w \in Workers, j \in JobIds : ClaimNext(w, j)
  \/ \E j \in JobIds : Complete(j) \/ Requeue(j) \/ Bury(j)
  \/ \E j \in JobIds : LockExpires(j)
  \/ ReclaimStale

\* Slots after the last insert are empty.
FreshSlots == \A j \in JobIds : j > tail => jobs[j].status = "absent" /\ jobs[j].attempts = 0

QueueInv == QueueTypeOK /\ FreshSlots /\ UniqueActiveKey /\ LockedIffProcessing

(* Every way of settling a job is a Settles step, and a requeue only       *)
(* happens when no other active job holds the key.                         *)
LEMMA SettleCases ==
  ASSUME NEW j \in JobIds, Complete(j) \/ Requeue(j) \/ Bury(j)
  PROVE  /\ tail' = tail
         /\ \/ Settles(j, "completed") \/ Settles(j, "failed")
            \/ Settles(j, "pending") /\ ~KeyTaken(KeyOf(j), j)
  BY DEF Complete, Requeue, Bury, Settles

(* No command lets a second active job have the key of another.            *)
LEMMA KeysStayUnique ==
  ASSUME QueueAssumption, QueueTypeOK, UniqueActiveKey, QueueCommand
  PROVE  UniqueActiveKey'
<1> USE DEF UniqueActiveKey, Active, KeyOf, IdempotencyKey, Live
<1>1. ASSUME NEW e \in Entries, NEW r \in Reasons, NEW v \in Versions, Enqueue(e, r, v)
      PROVE  UniqueActiveKey'
  <2>1. CASE UNCHANGED queueVars
    BY <2>1 DEF queueVars
  <2>2. CASE ~ UNCHANGED queueVars
    <3>1. /\ OnlyChanges(tail + 1) /\ jobs'[tail + 1] = NewJob(e, r, v)
          /\ ~KeyTaken(<<e, r, v>>, 0)
      BY <1>1, <2>2, EnqueueEffect
    <3>2. \A k \in JobIds : ~(jobs[k].status \in Live /\ <<jobs[k].entry, jobs[k].reason, jobs[k].version>> = <<e, r, v>>)
      BY <3>1 DEF KeyTaken, JobIds
    <3> QED BY <3>1, <3>2 DEF OnlyChanges, NewJob
  <2> QED BY <2>1, <2>2
<1>2. ASSUME NEW w \in Workers, NEW j \in JobIds, ClaimNext(w, j)
      PROVE  UniqueActiveKey'
  BY <1>2, ClaimEffect DEF OnlyChanges, SameKey
<1>3. ASSUME NEW j \in JobIds, Complete(j) \/ Requeue(j) \/ Bury(j)
      PROVE  UniqueActiveKey'
  <2>1. CASE Settles(j, "completed") \/ Settles(j, "failed")
    <3>1. tail' = tail
      BY <1>3, SettleCases
    <3>2. OnlyChanges(j) /\ SameKey(j) /\ jobs'[j].status \notin Live
      <4>1. CASE Settles(j, "completed")  BY <3>1, <4>1, SettleEffect DEF Dead
      <4>2. CASE Settles(j, "failed")     BY <3>1, <4>2, SettleEffect DEF Dead
      <4> QED BY <2>1, <4>1, <4>2
    <3> QED BY <3>2 DEF OnlyChanges, SameKey
  <2>2. CASE Settles(j, "pending") /\ ~KeyTaken(KeyOf(j), j)
    <3>1. OnlyChanges(j) /\ SameKey(j)
      BY <1>3, <2>2, SettleCases, SettleEffect
    <3> QED BY <2>2, <3>1 DEF OnlyChanges, SameKey, KeyTaken
  <2> QED BY <1>3, <2>1, <2>2, SettleCases
<1>4. ASSUME NEW j \in JobIds, LockExpires(j)
      PROVE  UniqueActiveKey'
  BY <1>4, ExpiryEffect DEF OnlyChanges, SameKey
<1>5. CASE ReclaimStale
  BY <1>5, ReapEffect DEF SameKey, Expired
<1> QED BY <1>1, <1>2, <1>3, <1>4, <1>5 DEF QueueCommand

(* A lock and an owner go with the status processing, whatever happens.    *)
LEMMA LocksStayConsistent ==
  ASSUME QueueAssumption, QueueTypeOK, LockedIffProcessing, QueueCommand
  PROVE  LockedIffProcessing'
<1> USE DEF LockedIffProcessing
<1>1. ASSUME NEW e \in Entries, NEW r \in Reasons, NEW v \in Versions, Enqueue(e, r, v)
      PROVE  LockedIffProcessing'
  <2>1. CASE UNCHANGED queueVars
    BY <2>1 DEF queueVars
  <2>2. CASE ~ UNCHANGED queueVars
    <3>1. OnlyChanges(tail + 1) /\ jobs'[tail + 1] = NewJob(e, r, v)
      BY <1>1, <2>2, EnqueueEffect
    <3> QED BY <3>1 DEF OnlyChanges, NewJob
  <2> QED BY <2>1, <2>2
<1>2. ASSUME NEW w \in Workers, NEW j \in JobIds, ClaimNext(w, j)
      PROVE  LockedIffProcessing'
  BY <1>2, ClaimEffect, QueueAssumption DEF OnlyChanges
<1>3. ASSUME NEW j \in JobIds, Complete(j) \/ Requeue(j) \/ Bury(j)
      PROVE  LockedIffProcessing'
  <2>1. PICK s \in {"completed", "failed", "pending"} : Settles(j, s) /\ tail' = tail
    BY <1>3, SettleCases
  <2> QED BY <2>1, SettleEffect DEF OnlyChanges, Live, Dead
<1>4. ASSUME NEW j \in JobIds, LockExpires(j)
      PROVE  LockedIffProcessing'
  BY <1>4, ExpiryEffect DEF OnlyChanges
<1>5. CASE ReclaimStale
  BY <1>5, ReapEffect DEF Expired
<1> QED BY <1>1, <1>2, <1>3, <1>4, <1>5 DEF QueueCommand

(* Slots are filled in order, and a command addressed to a slot already    *)
(* filled leaves the empty ones alone.                                     *)
LEMMA SlotsStayFresh ==
  ASSUME QueueAssumption, QueueTypeOK, FreshSlots,
         \/ \E e \in Entries, r \in Reasons, v \in Versions : Enqueue(e, r, v)
         \/ \E w \in Workers, j \in JobIds : ClaimNext(w, j)
         \/ \E j \in 1..tail : Complete(j) \/ Requeue(j) \/ Bury(j)
         \/ \E j \in JobIds : LockExpires(j)
         \/ ReclaimStale
  PROVE  FreshSlots'
<1> USE DEF FreshSlots
<1>0. tail \in Nat /\ 1..tail \subseteq JobIds /\ \A j \in JobIds : j \in Nat
  BY QueueAssumption DEF QueueTypeOK, JobIds
<1>1. ASSUME NEW e \in Entries, NEW r \in Reasons, NEW v \in Versions, Enqueue(e, r, v)
      PROVE  FreshSlots'
  <2>1. CASE UNCHANGED queueVars
    BY <2>1 DEF queueVars
  <2>2. CASE ~ UNCHANGED queueVars
    <3>1. OnlyChanges(tail + 1) /\ tail' = tail + 1
      BY <1>1, <2>2, EnqueueEffect
    <3> QED BY <1>0, <3>1 DEF OnlyChanges
  <2> QED BY <2>1, <2>2
<1>2. ASSUME NEW w \in Workers, NEW j \in JobIds, ClaimNext(w, j)
      PROVE  FreshSlots'
  BY <1>2, ClaimEffect DEF OnlyChanges
<1>3. ASSUME NEW j \in 1..tail, Complete(j) \/ Requeue(j) \/ Bury(j)
      PROVE  FreshSlots'
  <2>1. j \in JobIds /\ ~(j > tail)
    BY <1>0
  <2>2. PICK s \in {"completed", "failed", "pending"} : Settles(j, s) /\ tail' = tail
    BY <1>3, <2>1, SettleCases
  <2>3. OnlyChanges(j)
    BY <2>1, <2>2, SettleEffect DEF Live, Dead
  <2> QED BY <2>1, <2>2, <2>3 DEF OnlyChanges
<1>4. ASSUME NEW j \in JobIds, LockExpires(j)
      PROVE  FreshSlots'
  BY <1>4, ExpiryEffect DEF OnlyChanges
<1>5. CASE ReclaimStale
  BY <1>5, ReapEffect DEF Expired
<1> QED BY <1>1, <1>2, <1>3, <1>4, <1>5

(* The type invariant is preserved by every command.                       *)
LEMMA QueueTypePreserved ==
  ASSUME QueueAssumption, QueueTypeOK, QueueCommand
  PROVE  QueueTypeOK'
<1>1. ASSUME NEW j \in JobIds, Complete(j) \/ Requeue(j) \/ Bury(j)
      PROVE  QueueTypeOK'
  <2>1. PICK s \in {"completed", "failed", "pending"} : Settles(j, s) /\ tail' = tail
    BY <1>1, SettleCases
  <2> QED BY <2>1, SettleEffect DEF Live, Dead
<1> QED BY <1>1, EnqueueEffect, ClaimEffect, ExpiryEffect, ReapEffect DEF QueueCommand

(* The empty collection satisfies the queue's invariant.                   *)
LEMMA QueueInitInv ==
  ASSUME QueueAssumption, QueueInit
  PROVE  QueueInv
<1>1. Blank \in Job
  BY QueueAssumption, DomainAssumption DEF Blank, NewJob, Job, Live, Dead, Reasons
<1>2. Blank.status = "absent" /\ Blank.attempts = 0 /\ Blank.lock = "none" /\ Blank.owner = Nobody
  BY DEF Blank, NewJob
<1>3. \A j \in JobIds : jobs[j] = Blank
  BY DEF QueueInit
<1>4. QueueTypeOK
  BY <1>1, QueueAssumption DEF QueueInit, QueueTypeOK
<1> QED BY <1>2, <1>3, <1>4
        DEF QueueInv, FreshSlots, UniqueActiveKey, Active, Live, LockedIffProcessing

(* Whatever callers do, the collection is well typed, at most one active   *)
(* job has a given key, and locks are carried exactly by processing jobs.  *)
THEOREM QueueCorrect == QueueSpec => [](QueueTypeOK /\ UniqueActiveKey /\ LockedIffProcessing)
<1> DEFINE I == QueueTypeOK /\ UniqueActiveKey /\ LockedIffProcessing
<1>1. QueueInit => I
  BY QueueAssumption, QueueInitInv DEF QueueInv
<1>2. I /\ [QueueNext]_queueVars => I'
  <2> SUFFICES ASSUME I, [QueueNext]_queueVars PROVE I'
    OBVIOUS
  <2>1. CASE QueueNext
    <3>1. QueueCommand
      BY <2>1 DEF QueueNext, QueueStep, QueueCommand
    <3> QED BY <3>1, QueueAssumption, QueueTypePreserved, KeysStayUnique, LocksStayConsistent
  <2>2. CASE UNCHANGED queueVars
    BY <2>2 DEF queueVars, QueueTypeOK, UniqueActiveKey, LockedIffProcessing, Active, KeyOf,
                IdempotencyKey
  <2> QED BY <2>1, <2>2
<1> QED BY <1>1, <1>2, PTL DEF QueueSpec
=============================================================================

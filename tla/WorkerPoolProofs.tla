-------------------------- MODULE WorkerPoolProofs --------------------------
(***************************************************************************)
(* Proofs about the worker pool, for any number of workers, jobs, attempts *)
(* and crashes.  The argument: a worker's job is processing or completed,  *)
(* so it cannot be claimed; under LeaseRespected it cannot be reclaimed    *)
(* either, so the worker is alone on it until it leaves it, and the pool   *)
(* implements TaskLifecycle.                                               *)
(***************************************************************************)
EXTENDS WorkerPool, JobQueueProofs

-----------------------------------------------------------------------------
(* Type correctness and the queue's invariants carry over to the pool.     *)

\* A worker that is busy has a job that was claimed: its slot is filled.
OnFilledSlot == \A w \in Workers : Busy(w) => worker[w].job \in 1..tail

BaseInv == PoolTypeOK /\ QueueInv /\ OnFilledSlot

(* A pool step is a queue command, addressed to a slot already filled, or  *)
(* leaves the queue alone.                                                 *)
LEMMA PoolStepCases ==
  ASSUME BaseInv, PoolNext
  PROVE  \/ UNCHANGED queueVars
         \/ \E e \in Entries, r \in Reasons, v \in Versions : Enqueue(e, r, v)
         \/ \E w \in Workers, j \in JobIds : ClaimNext(w, j)
         \/ \E j \in 1..tail : Complete(j) \/ Requeue(j) \/ Bury(j)
         \/ \E j \in JobIds : LockExpires(j)
         \/ ReclaimStale
<1> USE DEF queueVars
<1>1. CASE Submit  BY <1>1 DEF Submit
<1>2. ASSUME NEW w \in Workers, WorkerStep(w) \/ Crash(w) \/ LeaseOverrun(w)
      PROVE  \/ UNCHANGED queueVars
             \/ \E j \in JobIds : ClaimNext(w, j)
             \/ \E j \in 1..tail : Complete(j) \/ Requeue(j) \/ Bury(j)
             \/ \E j \in JobIds : LockExpires(j)
  <2>1. Busy(w) => worker[w].job \in 1..tail /\ worker[w].job \in JobIds
    BY QueueAssumption DEF BaseInv, OnFilledSlot, PoolTypeOK, QueueTypeOK, JobIds
  <2>2. CASE ClaimJob(w)           BY <2>2 DEF ClaimJob
  <2>3. CASE ReadEntry(w)          BY <2>3 DEF ReadEntry
  <2>4. CASE WriteResult(w)        BY <2>4 DEF WriteResult
  <2>5. CASE CompleteJob(w)        BY <2>1, <2>5 DEF CompleteJob, Busy, At
  <2>6. CASE LoseCompleteReply(w)  BY <2>1, <2>6 DEF LoseCompleteReply, Busy, At
  <2>7. CASE EnrichFails(w)        BY <2>7 DEF EnrichFails
  <2>8. CASE FailLookup(w)         BY <2>8 DEF FailLookup
  <2>9. CASE RequeueJob(w)         BY <2>1, <2>9 DEF RequeueJob, Busy, At
  <2>10. CASE BuryJob(w)           BY <2>1, <2>10 DEF BuryJob, Busy, At
  <2>11. CASE Crash(w)             BY <2>11 DEF Crash
  <2>12. CASE LeaseOverrun(w)      BY <2>1, <2>12 DEF LeaseOverrun
  <2> QED BY <1>2, <2>2, <2>3, <2>4, <2>5, <2>6, <2>7, <2>8, <2>9, <2>10, <2>11, <2>12
          DEF WorkerStep
<1>3. ASSUME NEW j \in JobIds, LockAgesOut(j)
      PROVE  LockExpires(j)
  BY <1>3 DEF LockAgesOut
<1>4. CASE Reap  BY <1>4 DEF Reap
<1> QED BY <1>1, <1>2, <1>3, <1>4 DEF PoolNext

(* The queue's invariant is kept by every pool step.                       *)
LEMMA PoolKeepsQueueInv ==
  ASSUME BaseInv, PoolNext
  PROVE  QueueInv'
<1>1. QueueTypeOK /\ FreshSlots /\ UniqueActiveKey /\ LockedIffProcessing /\ QueueAssumption
  BY QueueAssumption DEF BaseInv, QueueInv
<1>2. CASE UNCHANGED queueVars
  BY <1>1, <1>2 DEF queueVars, QueueInv, QueueTypeOK, FreshSlots, UniqueActiveKey,
                    LockedIffProcessing, Active, KeyOf, IdempotencyKey
<1>3. CASE ~ UNCHANGED queueVars
  <2>1. 1..tail \subseteq JobIds
    BY <1>1 DEF QueueTypeOK, QueueAssumption, JobIds
  <2>2. QueueCommand
    BY <1>3, <2>1, PoolStepCases DEF QueueCommand
  <2>3. FreshSlots'
    BY <1>1, <1>3, PoolStepCases, SlotsStayFresh
  <2> QED BY <1>1, <2>2, <2>3, QueueTypePreserved, KeysStayUnique, LocksStayConsistent
          DEF QueueInv
<1> QED BY <1>2, <1>3

(* The workers' part of the type invariant, and that their slots are       *)
(* filled, are kept by every pool step.                                    *)
LEMMA PoolKeepsWorkers ==
  ASSUME BaseInv, PoolNext
  PROVE  /\ worker' \in [Workers -> [pc : Steps, job : JobIds \cup {NoJob}]]
         /\ crashes' \in 0..MaxCrashes
         /\ OnFilledSlot'
<1> USE QueueAssumption, PoolAssumption
<1>0. /\ worker \in [Workers -> [pc : Steps, job : JobIds \cup {NoJob}]]
      /\ crashes \in 0..MaxCrashes /\ tail \in 0..MaxJobs /\ OnFilledSlot /\ QueueTypeOK
      /\ FreshSlots
  BY DEF BaseInv, PoolTypeOK, QueueTypeOK, QueueInv
<1>1. tail' \in 0..MaxJobs /\ tail' >= tail
  <2>1. QueueTypeOK'
    BY PoolKeepsQueueInv DEF QueueInv
  <2>2. tail' >= tail
    <3>1. UNCHANGED queueVars => tail' = tail
      BY DEF queueVars
    <3>2. ASSUME NEW e \in Entries, NEW r \in Reasons, NEW v \in Versions, Enqueue(e, r, v)
          PROVE  tail' >= tail
      BY <1>0, <3>1, <3>2, EnqueueEffect
    <3>3. ASSUME NEW j \in JobIds, Complete(j) \/ Requeue(j) \/ Bury(j)
          PROVE  tail' = tail
      BY <3>3, SettleCases
    <3>4. 1..tail \subseteq JobIds
      BY <1>0 DEF JobIds
    <3>5. ASSUME NEW w \in Workers, NEW j \in JobIds, ClaimNext(w, j)
          PROVE  tail' = tail
      BY <3>5 DEF ClaimNext
    <3>6. ASSUME NEW j \in JobIds, LockExpires(j)
          PROVE  tail' = tail
      BY <3>6 DEF LockExpires
    <3>7. ReclaimStale => tail' = tail
      BY DEF ReclaimStale
    <3>8. tail' = tail => tail' >= tail
      BY <1>0
    <3> QED BY <3>1, <3>2, <3>3, <3>4, <3>5, <3>6, <3>7, <3>8, PoolStepCases
  <2> QED BY <2>1, <2>2 DEF QueueTypeOK
<1>2. CASE worker' = worker /\ (crashes' = crashes \/ Mishap)
  BY <1>0, <1>1, <1>2 DEF OnFilledSlot, Busy, Mishap
<1>3. ASSUME NEW w \in Workers, NEW s \in Steps, Busy(w), Move(w, s), crashes' = crashes
      PROVE  /\ worker' \in [Workers -> [pc : Steps, job : JobIds \cup {NoJob}]]
             /\ crashes' \in 0..MaxCrashes /\ OnFilledSlot'
  BY <1>0, <1>1, <1>3 DEF OnFilledSlot, Busy, Move
<1>4. ASSUME NEW w \in Workers, Rest(w), crashes' = crashes \/ Mishap
      PROVE  /\ worker' \in [Workers -> [pc : Steps, job : JobIds \cup {NoJob}]]
             /\ crashes' \in 0..MaxCrashes /\ OnFilledSlot'
  BY <1>0, <1>1, <1>4 DEF OnFilledSlot, Busy, Rest, Idle, Steps, Mishap
<1>5. ASSUME NEW w \in Workers, ClaimJob(w)
      PROVE  /\ worker' \in [Workers -> [pc : Steps, job : JobIds \cup {NoJob}]]
             /\ crashes' \in 0..MaxCrashes /\ OnFilledSlot'
  <2>1. PICK j \in JobIds : /\ ClaimNext(w, j) /\ crashes' = crashes
                            /\ worker' = [worker EXCEPT ![w] = [pc |-> "claimed", job |-> j]]
    BY <1>5 DEF ClaimJob
  <2>2. j \in 1..tail
    BY <1>0, <2>1, ClaimEffect DEF FreshSlots, JobIds
  <2> QED BY <1>0, <1>1, <2>1, <2>2 DEF OnFilledSlot, Busy, Steps
<1>6. ASSUME NEW w \in Workers, WorkerStep(w) \/ Crash(w) \/ LeaseOverrun(w)
      PROVE  \/ ClaimJob(w)
             \/ Rest(w) /\ (crashes' = crashes \/ Mishap)
             \/ Busy(w) /\ crashes' = crashes /\ \E s \in Steps : Move(w, s)
             \/ worker' = worker /\ Mishap
  <2>1. CASE ReadEntry(w)          BY <2>1 DEF ReadEntry, Busy, At, Steps
  <2>2. CASE WriteResult(w)        BY <2>2 DEF WriteResult, Busy, At, Steps
  <2>3. CASE LoseCompleteReply(w)  BY <2>3 DEF LoseCompleteReply, Busy, At, Steps
  <2>4. CASE EnrichFails(w)        BY <2>4 DEF EnrichFails, Busy, At, Steps
  <2>5. CASE FailLookup(w)         BY <2>5 DEF FailLookup, Busy, At, Steps
  <2>6. CASE CompleteJob(w) \/ RequeueJob(w) \/ BuryJob(w) \/ Crash(w)
    BY <2>6 DEF CompleteJob, RequeueJob, BuryJob, Crash
  <2>7. CASE LeaseOverrun(w)       BY <2>7 DEF LeaseOverrun
  <2> QED BY <1>6, <2>1, <2>2, <2>3, <2>4, <2>5, <2>6, <2>7 DEF WorkerStep
<1> QED BY <1>2, <1>3, <1>4, <1>5, <1>6 DEF PoolNext, Submit, LockAgesOut, Reap

(* The base invariant is inductive.                                        *)
LEMMA BaseInvInductive ==
  /\ PoolInit => BaseInv
  /\ BaseInv /\ [PoolNext]_poolVars => BaseInv'
<1>1. PoolInit => BaseInv
  <2> SUFFICES ASSUME PoolInit PROVE BaseInv
    OBVIOUS
  <2>1. QueueInv
    BY QueueAssumption, QueueInitInv DEF PoolInit
  <2> QED BY <2>1, PoolAssumption
          DEF BaseInv, PoolTypeOK, QueueInv, PoolInit, Idle, Steps, OnFilledSlot, Busy
<1>2. ASSUME BaseInv, PoolNext PROVE BaseInv'
  BY <1>2, PoolKeepsQueueInv, PoolKeepsWorkers DEF BaseInv, PoolTypeOK, QueueInv
<1>3. ASSUME BaseInv, UNCHANGED poolVars PROVE BaseInv'
  BY <1>3 DEF poolVars, BaseInv, PoolTypeOK, QueueInv, QueueTypeOK, FreshSlots,
              UniqueActiveKey, LockedIffProcessing, OnFilledSlot, Busy, Active, KeyOf,
              IdempotencyKey
<1> QED BY <1>1, <1>2, <1>3

(* Nothing but overrun leases and lost replies tells the pool from the     *)
(* timely one: what is checked of FairPoolSpec is checked of PoolSpec.     *)
THEOREM PoolIsTimely ==
  ASSUME LeaseRespected, RepliesArrive
  PROVE  PoolSpec => TimelyPoolSpec
<1>1. PoolNext => TimelyNext
  BY LeaseRespected, RepliesArrive
  DEF PoolNext, TimelyNext, WorkerStep, TimelyStep, LoseCompleteReply, LeaseOverrun
<1>2. [PoolNext]_poolVars => [TimelyNext]_poolVars
  BY <1>1
<1> QED BY <1>2, PTL DEF PoolSpec, TimelyPoolSpec

(* The pool is type correct, with any faults: leases may overrun, replies  *)
(* may be lost.                                                            *)
THEOREM PoolTypeCorrect == PoolSpec => []PoolTypeOK
<1>1. BaseInv => PoolTypeOK
  BY DEF BaseInv
<1> QED BY <1>1, BaseInvInductive, PTL DEF PoolSpec

(* At most one active job per key, with any faults.                        *)
THEOREM PoolUniqueActiveKey == PoolSpec => []UniqueActiveKey
<1>1. BaseInv => UniqueActiveKey
  BY DEF BaseInv, QueueInv
<1> QED BY <1>1, BaseInvInductive, PTL DEF PoolSpec

-----------------------------------------------------------------------------
(* Mutual exclusion when leases are respected.                             *)

\* A worker's job carries its fresh lock, or a lost reply has hidden from
\* the worker that it is completed.
Held(w, j) == \/ jobs[j].status = "processing" /\ jobs[j].lock = "fresh" /\ jobs[j].owner = w
              \/ jobs[j].status = "completed"

WorkHeld == \A w \in Workers : \A j \in JobIds : On(w, j) => Held(w, j)

LeaseInv == BaseInv /\ MutualExclusion /\ WorkHeld

\* Workers other than w are where they were.
Alone(w) == \A v \in Workers \ {w} : worker'[v] = worker[v]

(* A job a worker is on is neither pending nor expired: it can be claimed  *)
(* or reclaimed by nobody else.                                            *)
LEMMA HeldIsOutOfReach ==
  ASSUME LeaseInv, NEW w \in Workers, NEW j \in JobIds, On(w, j)
  PROVE  jobs[j].status # "pending" /\ jobs[j].status # "failed" /\ ~Expired(j)
  BY DEF LeaseInv, WorkHeld, Held, Expired

(* A step that ends w's work on its job and leaves all other jobs alone.   *)
LEMMA RestKeepsLease ==
  ASSUME LeaseInv, NEW w \in Workers, Busy(w), Rest(w),
         \A k \in JobIds : k # worker[w].job => jobs'[k] = jobs[k]
  PROVE  MutualExclusion' /\ WorkHeld'
<1>1. /\ worker' = [worker EXCEPT ![w] = Idle] /\ worker'[w].pc = "idle"
      /\ \A v \in Workers \ {w} : worker'[v] = worker[v]
  BY DEF Rest, Idle, LeaseInv, BaseInv, PoolTypeOK
<1>2. \A v \in Workers : \A j \in JobIds : On(v, j)' => v # w /\ On(v, j)
  BY <1>1 DEF On, Busy
<1>3. MutualExclusion'
  BY <1>2 DEF LeaseInv, MutualExclusion
<1>4. ASSUME NEW v \in Workers, NEW j \in JobIds, On(v, j)'
      PROVE  Held(v, j)'
  <2>1. v # w /\ On(v, j)
    BY <1>2, <1>4
  <2>2. j # worker[w].job
    BY <2>1 DEF LeaseInv, MutualExclusion, On
  <2> QED BY <2>1, <2>2 DEF LeaseInv, WorkHeld, Held
<1> QED BY <1>3, <1>4 DEF WorkHeld

(* A step that moves w within its job and leaves all jobs alone, except    *)
(* that it may complete w's own.                                           *)
LEMMA MoveKeepsLease ==
  ASSUME LeaseInv, NEW w \in Workers, NEW s \in Steps, Busy(w), Move(w, s),
         \A k \in JobIds : jobs'[k] = jobs[k]
                           \/ (k = worker[w].job /\ jobs'[k].status = "completed")
  PROVE  MutualExclusion' /\ WorkHeld'
<1>1. \A v \in Workers : \A j \in JobIds : On(v, j)' => On(v, j)
  BY DEF Move, On, Busy, LeaseInv, BaseInv, PoolTypeOK
<1>2. MutualExclusion'
  BY <1>1 DEF LeaseInv, MutualExclusion
<1>3. WorkHeld'
  BY <1>1 DEF LeaseInv, WorkHeld, Held
<1> QED BY <1>2, <1>3

(* A step that leaves the workers alone, and every job one of them is on.  *)
LEMMA ElsewhereKeepsLease ==
  ASSUME LeaseInv, worker' = worker,
         \A w \in Workers : \A j \in JobIds : On(w, j) => jobs'[j] = jobs[j]
  PROVE  MutualExclusion' /\ WorkHeld'
<1>1. \A v \in Workers : \A j \in JobIds : On(v, j)' <=> On(v, j)
  BY DEF On, Busy
<1> QED BY <1>1 DEF LeaseInv, MutualExclusion, WorkHeld, Held

(* The lease invariant is inductive when leases are respected.             *)
LEMMA LeaseInvInductive ==
  ASSUME LeaseRespected
  PROVE  /\ PoolInit => LeaseInv
         /\ LeaseInv /\ [PoolNext]_poolVars => LeaseInv'
<1>1. PoolInit => LeaseInv
  BY BaseInvInductive DEF PoolInit, LeaseInv, MutualExclusion, WorkHeld, On, Busy, Idle
<1>2. ASSUME LeaseInv, PoolNext PROVE MutualExclusion' /\ WorkHeld'
  <2>0. QueueTypeOK /\ QueueAssumption /\ FreshSlots /\ OnFilledSlot /\ tail \in Nat
    BY <1>2, QueueAssumption DEF LeaseInv, BaseInv, PoolTypeOK, QueueInv, QueueTypeOK
  <2>1. CASE Submit
    <3>1. PICK e \in Entries, r \in Reasons, v \in Versions : Enqueue(e, r, v)
      BY <2>1 DEF Submit
    <3>2. \A j \in JobIds : j # tail + 1 => jobs'[j] = jobs[j]
      BY <2>0, <3>1, EnqueueEffect DEF OnlyChanges, queueVars
    <3>3. \A w \in Workers : ~On(w, tail + 1)
      BY <2>0 DEF OnFilledSlot, On
    <3> QED BY <1>2, <2>1, <3>2, <3>3, ElsewhereKeepsLease DEF Submit
  <2>2. ASSUME NEW w \in Workers, ClaimJob(w)
        PROVE  MutualExclusion' /\ WorkHeld'
    <3>1. PICK j \in JobIds : /\ ClaimNext(w, j)
                             /\ worker' = [worker EXCEPT ![w] = [pc |-> "claimed", job |-> j]]
      BY <2>2 DEF ClaimJob
    <3>2. /\ OnlyChanges(j) /\ jobs[j].status = "pending" /\ Held(w, j)'
      BY <2>0, <3>1, ClaimEffect DEF Held
    <3>3. \A v \in Workers : ~On(v, j)
      BY <1>2, <3>2, HeldIsOutOfReach
    <3>4. /\ worker'[w] = [pc |-> "claimed", job |-> j]
          /\ \A v \in Workers \ {w} : worker'[v] = worker[v]
      BY <1>2, <3>1 DEF LeaseInv, BaseInv, PoolTypeOK
    <3>5. \A v \in Workers : \A k \in JobIds :
            On(v, k)' => (v = w /\ k = j) \/ (v # w /\ k # j /\ On(v, k))
      BY <3>3, <3>4 DEF On, Busy
    <3>6. MutualExclusion'
      BY <1>2, <3>5 DEF LeaseInv, MutualExclusion
    <3>7. WorkHeld'
      BY <1>2, <3>2, <3>5 DEF LeaseInv, WorkHeld, Held, OnlyChanges
    <3> QED BY <3>6, <3>7
  <2>3. ASSUME NEW w \in Workers,
               ReadEntry(w) \/ WriteResult(w) \/ EnrichFails(w) \/ FailLookup(w)
        PROVE  MutualExclusion' /\ WorkHeld'
    <3>1. Busy(w) /\ jobs' = jobs /\ \E s \in Steps : Move(w, s)
      BY <2>3 DEF ReadEntry, WriteResult, EnrichFails, FailLookup, Busy, At, Steps
    <3> QED BY <1>2, <3>1, MoveKeepsLease
  <2>4. ASSUME NEW w \in Workers, LoseCompleteReply(w)
        PROVE  MutualExclusion' /\ WorkHeld'
    <3>1. Busy(w) /\ Complete(worker[w].job) /\ Move(w, "failing") /\ worker[w].job \in JobIds
      BY <2>0, <2>4 DEF LoseCompleteReply, Busy, At, OnFilledSlot, QueueTypeOK, QueueAssumption, JobIds
    <3>2. OnlyChanges(worker[w].job) /\ jobs'[worker[w].job].status = "completed"
      BY <2>0, <3>1, SettleEffect DEF Complete, Settles, Dead
    <3> QED BY <1>2, <3>1, <3>2, MoveKeepsLease DEF Steps, OnlyChanges
  <2>5. ASSUME NEW w \in Workers,
               CompleteJob(w) \/ RequeueJob(w) \/ BuryJob(w) \/ Crash(w)
        PROVE  MutualExclusion' /\ WorkHeld'
    <3>1. Busy(w) /\ Rest(w)
      BY <2>5 DEF CompleteJob, RequeueJob, BuryJob, Crash, Busy, At
    <3>2. worker[w].job \in JobIds
      BY <2>0, <3>1 DEF OnFilledSlot, QueueTypeOK, QueueAssumption, JobIds
    <3>3. \/ Complete(worker[w].job) \/ Requeue(worker[w].job) \/ Bury(worker[w].job)
          \/ jobs' = jobs
      BY <2>5 DEF CompleteJob, RequeueJob, BuryJob, Crash, queueVars
    <3>4. \A k \in JobIds : k # worker[w].job => jobs'[k] = jobs[k]
      <4>1. CASE jobs' = jobs
        BY <4>1
      <4>2. CASE Complete(worker[w].job) \/ Requeue(worker[w].job) \/ Bury(worker[w].job)
        <5>1. PICK s \in {"completed", "failed", "pending"} :
                Settles(worker[w].job, s) /\ tail' = tail
          BY <3>2, <4>2, SettleCases
        <5> QED BY <2>0, <3>2, <5>1, SettleEffect DEF Live, Dead, OnlyChanges
      <4> QED BY <3>3, <4>1, <4>2
    <3> QED BY <1>2, <3>1, <3>4, RestKeepsLease
  <2>6. ASSUME NEW j \in JobIds, LockAgesOut(j)
        PROVE  MutualExclusion' /\ WorkHeld'
    <3>1. OnlyChanges(j) /\ worker' = worker /\ \A w \in Workers : ~On(w, j)
      BY <2>0, <2>6, ExpiryEffect DEF LockAgesOut, Abandoned
    <3> QED BY <1>2, <3>1, ElsewhereKeepsLease DEF OnlyChanges
  <2>7. CASE Reap
    <3>1. worker' = worker /\ \A j \in JobIds : ~Expired(j) => jobs'[j] = jobs[j]
      BY <2>0, <2>7, ReapEffect DEF Reap
    <3> QED BY <1>2, <3>1, HeldIsOutOfReach, ElsewhereKeepsLease
  <2>8. \A w \in Workers : ~LeaseOverrun(w)
    BY LeaseRespected DEF LeaseOverrun
  <2> QED BY <1>2, <2>1, <2>2, <2>3, <2>4, <2>5, <2>6, <2>7, <2>8 DEF PoolNext, WorkerStep
<1>3. ASSUME LeaseInv, PoolNext PROVE LeaseInv'
  BY <1>2, <1>3, BaseInvInductive DEF LeaseInv
<1>4. ASSUME LeaseInv, UNCHANGED poolVars PROVE LeaseInv'
  <2>1. BaseInv'
    BY <1>4, BaseInvInductive DEF LeaseInv
  <2> QED BY <1>4, <2>1
          DEF LeaseInv, poolVars, MutualExclusion, WorkHeld, Held, On, Busy
<1> QED BY <1>1, <1>3, <1>4

(* No two workers are ever on the same job, and a worker's job is locked   *)
(* by that worker until it leaves it, provided no job outlasts its lock:   *)
(* crashes, failed updates and lost replies do not matter.                 *)
THEOREM PoolMutualExclusion ==
  ASSUME LeaseRespected
  PROVE  PoolSpec => [](MutualExclusion /\ LeaseHeld)
<1>1. LeaseInv => MutualExclusion /\ LeaseHeld
  BY DEF LeaseInv, WorkHeld, Held, LeaseHeld, Active, Live
<1>2. PoolInit => LeaseInv
  BY LeaseRespected, LeaseInvInductive
<1>3. LeaseInv /\ [PoolNext]_poolVars => LeaseInv'
  BY LeaseRespected, LeaseInvInductive
<1> QED BY <1>1, <1>2, <1>3, PTL DEF PoolSpec

-----------------------------------------------------------------------------
(* The retry budget.                                                       *)

\* A job waiting to be claimed, now or once its lock has aged out, has an
\* attempt left; a crash pays for the attempt it wastes.
InBudget(j) ==
  /\ jobs[j].attempts <= MaxAttempts + crashes
  /\ jobs[j].status = "pending" => jobs[j].attempts < MaxAttempts + crashes
  /\ Abandoned(j) => jobs[j].attempts < MaxAttempts + crashes
  /\ jobs[j].status = "failed" => jobs[j].attempts >= MaxAttempts

\* fail() acts on attempts it has read; nobody else changes them meanwhile.
Decided(w) ==
  /\ At(w, "requeue") => jobs[worker[w].job].attempts < MaxAttempts
  /\ At(w, "bury") => jobs[worker[w].job].attempts >= MaxAttempts

BudgetInv == /\ LeaseInv
             /\ \A j \in JobIds : InBudget(j)
             /\ \A w \in Workers : Decided(w)

(* A step that leaves the workers alone keeps the budget of every job it   *)
(* does not touch, and the decisions about those jobs.                     *)
LEMMA UntouchedBudget ==
  ASSUME BudgetInv, worker' = worker, crashes' = crashes,
         NEW j \in JobIds, jobs'[j] = jobs[j]
  PROVE  InBudget(j)' /\ \A w \in Workers : On(w, j) => Decided(w)'
  BY DEF BudgetInv, InBudget, Abandoned, On, Busy, Decided, At

(* The budget is kept by every pool step when leases are respected.        *)
LEMMA BudgetInvInductive ==
  ASSUME LeaseRespected
  PROVE  /\ PoolInit => BudgetInv
         /\ BudgetInv /\ [PoolNext]_poolVars => BudgetInv'
<1> USE QueueAssumption, PoolAssumption
<1>1. PoolInit => BudgetInv
  <2> SUFFICES ASSUME PoolInit PROVE BudgetInv
    OBVIOUS
  <2>1. LeaseInv
    BY LeaseRespected, LeaseInvInductive
  <2>2. \A j \in JobIds : jobs[j].attempts = 0 /\ jobs[j].status = "absent"
    BY DEF PoolInit, QueueInit, Blank, NewJob
  <2>3. crashes = 0 /\ \A w \in Workers : worker[w].pc = "idle"
    BY DEF PoolInit, Idle
  <2> QED BY <2>1, <2>2, <2>3 DEF BudgetInv, InBudget, Decided, At, Abandoned
<1>2. ASSUME BudgetInv, PoolNext
      PROVE  (\A j \in JobIds : InBudget(j)') /\ (\A w \in Workers : Decided(w)')
  <2>0. /\ LeaseInv /\ QueueTypeOK /\ FreshSlots /\ OnFilledSlot /\ tail \in Nat
        /\ crashes \in Nat /\ \A j \in JobIds : InBudget(j)
        /\ \A j \in JobIds : jobs[j].attempts \in Nat
        /\ worker \in [Workers -> [pc : Steps, job : JobIds \cup {NoJob}]]
        /\ \A w \in Workers : Decided(w)
        /\ \A w \in Workers : Busy(w) => worker[w].job \in JobIds
    BY <1>2 DEF BudgetInv, LeaseInv, BaseInv, PoolTypeOK, QueueInv, QueueTypeOK, Job,
                OnFilledSlot, JobIds
  <2>1. ASSUME NEW w \in Workers,
               \/ At(w, "claimed") /\ Move(w, "read")
               \/ At(w, "read") /\ Move(w, "wrote")
               \/ worker[w].pc \in {"claimed", "read", "wrote"} /\ Move(w, "failing"),
               UNCHANGED <<jobs, crashes>>
        PROVE  (\A j \in JobIds : InBudget(j)') /\ (\A v \in Workers : Decided(v)')
    <3>1. \A v \in Workers : \A j \in JobIds : On(v, j)' <=> On(v, j)
      BY <2>0, <2>1 DEF On, Busy, At, Move
    <3>2. \A j \in JobIds : InBudget(j)'
      BY <2>0, <2>1, <3>1 DEF InBudget, Abandoned
    <3>3. \A v \in Workers : Decided(v)'
      BY <2>0, <2>1 DEF Decided, At, Move
    <3> QED BY <3>2, <3>3
  <2>2. ASSUME NEW w \in Workers, FailLookup(w)
        PROVE  (\A j \in JobIds : InBudget(j)') /\ (\A v \in Workers : Decided(v)')
    <3>1. \A v \in Workers : \A j \in JobIds : On(v, j)' <=> On(v, j)
      BY <2>0, <2>2 DEF FailLookup, On, Busy, At, Move
    <3>2. \A j \in JobIds : InBudget(j)'
      BY <2>0, <2>2, <3>1 DEF FailLookup, InBudget, Abandoned
    <3>3. worker[w].job \in JobIds
      BY <2>0, <2>2 DEF FailLookup, At, Busy
    <3>4. \A v \in Workers : Decided(v)'
      BY <2>0, <2>2, <3>3 DEF FailLookup, Decided, At, Move
    <3> QED BY <3>2, <3>4
  <2>3. ASSUME NEW w \in Workers, ClaimJob(w)
        PROVE  (\A j \in JobIds : InBudget(j)') /\ (\A v \in Workers : Decided(v)')
    <3>1. PICK j \in JobIds : /\ ClaimNext(w, j) /\ crashes' = crashes
                             /\ worker' = [worker EXCEPT ![w] = [pc |-> "claimed", job |-> j]]
      BY <2>3 DEF ClaimJob
    <3>2. /\ OnlyChanges(j) /\ jobs[j].status = "pending" /\ jobs'[j].status = "processing"
          /\ jobs'[j].attempts = jobs[j].attempts + 1
      BY <2>0, <3>1, ClaimEffect
    <3>3. \A v \in Workers : ~On(v, j)
      BY <2>0, <3>2, HeldIsOutOfReach
    <3>4. /\ worker'[w] = [pc |-> "claimed", job |-> j]
          /\ \A v \in Workers \ {w} : worker'[v] = worker[v]
          /\ worker[w].pc = "idle"
      BY <2>0, <2>3, <3>1 DEF ClaimJob, At
    <3>5. InBudget(j)'
      <4>1. ~Abandoned(j)'
        BY <3>4 DEF Abandoned, On, Busy
      <4> QED BY <2>0, <3>1, <3>2, <4>1 DEF InBudget
    <3>6. ASSUME NEW k \in JobIds, k # j PROVE InBudget(k)'
      <4>1. jobs'[k] = jobs[k] /\ (Abandoned(k)' => Abandoned(k))
        BY <3>2, <3>4, <3>6 DEF OnlyChanges, Abandoned, On, Busy
      <4> QED BY <2>0, <3>1, <4>1 DEF InBudget
    <3>7. ASSUME NEW v \in Workers PROVE Decided(v)'
      <4>1. CASE v = w
        BY <3>4, <4>1 DEF Decided, At
      <4>2. CASE v # w
        <5>1. CASE Busy(v)
          <6>1. worker[v].job \in JobIds \ {j}
            BY <2>0, <3>3, <5>1 DEF On
          <6> QED BY <2>0, <3>2, <3>4, <4>2, <6>1 DEF Decided, At, OnlyChanges
        <5>2. CASE ~Busy(v)
          BY <3>4, <4>2, <5>2 DEF Decided, At, Busy
        <5> QED BY <5>1, <5>2
      <4> QED BY <4>1, <4>2
    <3> QED BY <3>5, <3>6, <3>7
  <2>4. ASSUME NEW w \in Workers, Busy(w), worker[w].job \in JobIds,
               CompleteJob(w) \/ LoseCompleteReply(w) \/ RequeueJob(w) \/ BuryJob(w) \/ Crash(w)
        PROVE  (\A j \in JobIds : InBudget(j)') /\ (\A v \in Workers : Decided(v)')
    <3>0. PICK own \in JobIds : own = worker[w].job
      BY <2>4
    <3>1. /\ \A v \in Workers \ {w} : worker'[v] = worker[v]
          /\ \/ worker'[w].pc = "idle"
             \/ worker'[w].pc = "failing" /\ worker'[w].job = own
          /\ crashes' \in Nat /\ crashes' >= crashes
      BY <2>0, <2>4, <3>0 DEF CompleteJob, LoseCompleteReply, RequeueJob, BuryJob, Crash, Rest, Move,
                        Idle, Mishap
    <3>2. /\ OnlyChanges(own) /\ jobs'[own].attempts = jobs[own].attempts
          /\ \/ jobs'[own].status = "completed"
             \/ At(w, "requeue") /\ jobs'[own].status = "pending"
             \/ At(w, "requeue") /\ jobs'[own].status = jobs[own].status
             \/ At(w, "bury") /\ jobs'[own].status = "failed"
             \/ jobs'[own].status = jobs[own].status /\ crashes' = crashes + 1
      <4>1. CASE CompleteJob(w) \/ LoseCompleteReply(w)
        <5>1. Settles(own, "completed") /\ tail' = tail
          BY <3>0, <4>1 DEF CompleteJob, LoseCompleteReply, Complete, Settles
        <5> QED BY <2>0, <2>4, <3>0, <5>1, SettleEffect DEF Dead
      <4>2. CASE RequeueJob(w)
        <5>1. CASE Requeue(own)
          <6>1. Settles(own, "pending") /\ tail' = tail
            BY <3>0, <5>1 DEF Requeue, Settles
          <6> QED BY <2>0, <2>4, <3>0, <4>2, <6>1, SettleEffect DEF Live, RequeueJob
        <5>2. CASE UNCHANGED queueVars
          BY <4>2, <5>2 DEF RequeueJob, queueVars, OnlyChanges
        <5> QED BY <3>0, <4>2, <5>1, <5>2 DEF RequeueJob
      <4>3. CASE BuryJob(w)
        <5>1. Settles(own, "failed") /\ tail' = tail
          BY <3>0, <4>3 DEF BuryJob, Bury, Settles
        <5> QED BY <2>0, <2>4, <3>0, <4>3, <5>1, SettleEffect DEF Dead, BuryJob
      <4>4. CASE Crash(w)
        BY <4>4 DEF Crash, Mishap, queueVars, OnlyChanges
      <4> QED BY <2>4, <4>1, <4>2, <4>3, <4>4
    <3>3. On(w, own) /\ jobs[own].status # "pending" /\ jobs[own].status # "failed"
      BY <2>0, <2>4, <3>0, HeldIsOutOfReach DEF On
    <3>4. InBudget(own)'
      <4>1. /\ jobs[own].attempts \in Nat /\ jobs[own].attempts <= MaxAttempts + crashes
            /\ At(w, "requeue") => jobs[own].attempts < MaxAttempts
            /\ At(w, "bury") => jobs[own].attempts >= MaxAttempts
        BY <2>0, <2>4, <3>0 DEF InBudget, Decided
      <4>2. CASE jobs'[own].status = "completed"
        BY <2>0, <3>1, <3>2, <4>1, <4>2 DEF InBudget, Abandoned
      <4>3. CASE At(w, "requeue") /\ jobs'[own].status \in {"pending", jobs[own].status}
        BY <2>0, <3>1, <3>2, <3>3, <4>1, <4>3 DEF InBudget
      <4>4. CASE At(w, "bury") /\ jobs'[own].status = "failed"
        BY <2>0, <3>1, <3>2, <4>1, <4>4 DEF InBudget, Abandoned
      <4>5. CASE jobs'[own].status = jobs[own].status /\ crashes' = crashes + 1
        BY <2>0, <3>1, <3>2, <3>3, <4>1, <4>5 DEF InBudget
      <4> QED BY <3>2, <4>2, <4>3, <4>4, <4>5
    <3>5. ASSUME NEW k \in JobIds, k # own PROVE InBudget(k)'
      <4>1. jobs'[k] = jobs[k]
        BY <3>2, <3>5 DEF OnlyChanges
      <4>2. Abandoned(k)' => Abandoned(k)
        BY <3>0, <3>1, <3>5, <4>1 DEF Abandoned, On, Busy
      <4> QED BY <2>0, <3>1, <4>1, <4>2 DEF InBudget
    <3>6. ASSUME NEW v \in Workers PROVE Decided(v)'
      <4>1. CASE v = w
        BY <3>1, <4>1 DEF Decided, At
      <4>2. CASE v # w /\ Busy(v)
        <5>1. worker[v].job \in JobIds /\ worker[v].job # own
          BY <2>0, <2>4, <3>0, <4>2 DEF LeaseInv, MutualExclusion, On
        <5>2. worker'[v] = worker[v] /\ jobs'[worker[v].job] = jobs[worker[v].job]
          BY <3>1, <3>2, <4>2, <5>1 DEF OnlyChanges
        <5>3. Decided(v)
          BY <2>0
        <5> QED BY <5>2, <5>3 DEF Decided, At
      <4>3. CASE v # w /\ ~Busy(v)
        BY <3>1, <4>3 DEF Decided, At, Busy
      <4> QED BY <4>1, <4>2, <4>3
    <3>7. \A j \in JobIds : InBudget(j)'
      BY <3>4, <3>5
    <3> QED BY <3>6, <3>7
  <2>5. CASE Submit
    <3>1. PICK e \in Entries, r \in Reasons, v \in Versions : Enqueue(e, r, v)
      BY <2>5 DEF Submit
    <3>2. worker' = worker /\ crashes' = crashes
      BY <2>5 DEF Submit
    <3>3. \A j \in JobIds : jobs'[j] = jobs[j] \/ (j = tail + 1 /\ jobs'[j] = NewJob(e, r, v))
      BY <2>0, <3>1, EnqueueEffect DEF OnlyChanges, queueVars
    <3>4. \A w \in Workers : \A j \in JobIds : On(w, j) => j # tail + 1
      BY <2>0 DEF OnFilledSlot, On
    <3>5. ASSUME NEW j \in JobIds PROVE InBudget(j)'
      <4>1. CASE jobs'[j] = jobs[j]
        BY <1>2, <3>2, <4>1, UntouchedBudget
      <4>2. CASE jobs'[j] = NewJob(e, r, v)
        <5>1. jobs'[j].attempts = 0 /\ jobs'[j].status = "pending"
          BY <4>2 DEF NewJob
        <5> QED BY <2>0, <3>2, <5>1 DEF InBudget, Abandoned
      <4> QED BY <3>3, <4>1, <4>2
    <3>6. ASSUME NEW w \in Workers PROVE Decided(w)'
      <4>1. CASE Busy(w)
        <5>1. On(w, worker[w].job) /\ worker[w].job \in JobIds
          BY <2>0, <4>1 DEF On
        <5> QED BY <1>2, <3>2, <3>3, <3>4, <5>1, UntouchedBudget
      <4>2. CASE ~Busy(w)
        BY <3>2, <4>2 DEF Decided, At, Busy
      <4> QED BY <4>1, <4>2
    <3> QED BY <3>5, <3>6
  <2>6. ASSUME NEW i \in JobIds, LockAgesOut(i)
        PROVE  (\A j \in JobIds : InBudget(j)') /\ (\A w \in Workers : Decided(w)')
    <3>1. /\ OnlyChanges(i) /\ jobs'[i].status = jobs[i].status
          /\ jobs'[i].attempts = jobs[i].attempts
          /\ worker' = worker /\ crashes' = crashes
      BY <2>0, <2>6, ExpiryEffect DEF LockAgesOut
    <3>2. \A j \in JobIds : /\ jobs'[j].status = jobs[j].status
                            /\ jobs'[j].attempts = jobs[j].attempts
      BY <3>1 DEF OnlyChanges
    <3>3. \A j \in JobIds : InBudget(j)'
      BY <2>0, <3>1, <3>2 DEF InBudget, Abandoned, On, Busy
    <3>4. ASSUME NEW w \in Workers PROVE Decided(w)'
      BY <2>0, <3>1, <3>2 DEF Decided, At, Busy
    <3> QED BY <3>3, <3>4
  <2>7. CASE Reap
    <3>1. /\ worker' = worker /\ crashes' = crashes
          /\ \A j \in JobIds : ~Expired(j) => jobs'[j] = jobs[j]
          /\ \A j \in JobIds : jobs'[j].attempts = jobs[j].attempts
          /\ \A j \in JobIds : Expired(j) => jobs'[j].status = "pending"
      BY <2>0, <2>7, ReapEffect DEF Reap
    <3>2. \A j \in JobIds : Expired(j) => Abandoned(j)
      BY <2>0, HeldIsOutOfReach DEF Abandoned, Expired
    <3>3. ASSUME NEW j \in JobIds PROVE InBudget(j)'
      <4>1. CASE Expired(j)
        BY <2>0, <3>1, <3>2, <4>1 DEF InBudget, Abandoned
      <4>2. CASE ~Expired(j)
        BY <1>2, <3>1, <4>2, UntouchedBudget
      <4> QED BY <4>1, <4>2
    <3>4. ASSUME NEW w \in Workers PROVE Decided(w)'
      BY <2>0, <3>1 DEF Decided, At, Busy
    <3> QED BY <3>3, <3>4
  <2>8. \A w \in Workers : ~LeaseOverrun(w)
    BY LeaseRespected DEF LeaseOverrun
  <2>9. ASSUME NEW w \in Workers,
               CompleteJob(w) \/ LoseCompleteReply(w) \/ RequeueJob(w) \/ BuryJob(w) \/ Crash(w)
        PROVE  Busy(w) /\ worker[w].job \in JobIds
    BY <2>0, <2>9 DEF CompleteJob, LoseCompleteReply, RequeueJob, BuryJob, Crash, Busy, At
  <2>10. ASSUME NEW w \in Workers, ReadEntry(w) \/ WriteResult(w) \/ EnrichFails(w)
         PROVE  (\A j \in JobIds : InBudget(j)') /\ (\A v \in Workers : Decided(v)')
    BY <2>1, <2>10 DEF ReadEntry, WriteResult, EnrichFails
  <2> QED BY <1>2, <2>2, <2>3, <2>4, <2>5, <2>6, <2>7, <2>8, <2>9, <2>10
          DEF PoolNext, WorkerStep
<1>3. ASSUME BudgetInv, PoolNext PROVE BudgetInv'
  BY <1>2, <1>3, LeaseRespected, LeaseInvInductive DEF BudgetInv
<1>4. ASSUME BudgetInv, UNCHANGED poolVars PROVE BudgetInv'
  <2>1. LeaseInv'
    BY <1>4, LeaseRespected, LeaseInvInductive DEF BudgetInv
  <2> QED BY <1>4, <2>1 DEF BudgetInv, poolVars, InBudget, Decided, Abandoned, On, Busy, At
<1> QED BY <1>1, <1>3, <1>4

(* A job is started at most MaxAttempts times, plus once per crash, and is *)
(* given up only when its attempts are used up.                            *)
THEOREM PoolRetryBudget ==
  ASSUME LeaseRespected
  PROVE  PoolSpec => [](RetryBudget /\ FailedExhausted)
<1>1. BudgetInv => RetryBudget /\ FailedExhausted
  BY DEF BudgetInv, InBudget, RetryBudget, FailedExhausted
<1>2. PoolInit => BudgetInv
  BY LeaseRespected, BudgetInvInductive
<1>3. BudgetInv /\ [PoolNext]_poolVars => BudgetInv'
  BY LeaseRespected, BudgetInvInductive
<1> QED BY <1>1, <1>2, <1>3, PTL DEF PoolSpec
-----------------------------------------------------------------------------
(* The pool implements TaskLifecycle when no job outlasts its lock and no  *)
(* reply of complete() is lost.  Every worker's job is then processing and *)
(* its own, so that each command of the pool is one step of the task it is *)
(* on.                                                                     *)

\* With no lost reply a worker never is on a job that has been completed.
OnProcessing == \A w \in Workers : Busy(w) => jobs[worker[w].job].status = "processing"

RefInv == BudgetInv /\ OnProcessing

(* What the invariant says of a worker that is on a job.                   *)
LEMMA OwnTask ==
  ASSUME RefInv, NEW w \in Workers, NEW j \in JobIds, On(w, j)
  PROVE  /\ jobs[j].status = "processing" /\ jobs[j].owner = w
         /\ ~Abandoned(j) /\ TaskState(j) = "running" /\ TaskOf(j).runner = w
<1>1. jobs[j].status = "processing" /\ jobs[j].owner = w
  BY DEF RefInv, BudgetInv, LeaseInv, OnProcessing, WorkHeld, Held, On
<1>2. ~Abandoned(j)
  BY DEF Abandoned
<1>3. TaskState(j) = "running"
  BY <1>1, <1>2 DEF TaskState
<1> QED BY <1>1, <1>2, <1>3 DEF TaskOf

(* A task does not change when its job and the workers on it do not.       *)
LEMMA SameTask ==
  ASSUME NEW j \in JobIds, jobs'[j].status = jobs[j].status,
         jobs'[j].owner = jobs[j].owner, jobs'[j].attempts = jobs[j].attempts,
         \A w \in Workers : On(w, j)' <=> On(w, j)
  PROVE  TaskOf(j)' = TaskOf(j)
<1>1. Abandoned(j)' <=> Abandoned(j)
  BY DEF Abandoned
<1>2. TaskState(j)' = TaskState(j)
  BY <1>1 DEF TaskState
<1> QED BY <1>2 DEF TaskOf

(* When one job changes, so does one task.                                 *)
LEMMA OneTask ==
  ASSUME NEW j \in JobIds, \A k \in JobIds \ {j} : TaskOf(k)' = TaskOf(k)
  PROVE  taskBar' = [taskBar EXCEPT ![j] = TaskOf(j)']
  BY DEF taskBar

(* When no task changes the step is a stutter.                             *)
LEMMA NoTask ==
  ASSUME \A k \in JobIds : TaskOf(k)' = TaskOf(k)
  PROVE  taskBar' = taskBar
  BY DEF taskBar

(* A worker leaving its job is a Leave step of the task.                   *)
LEMMA LeavingIsLeave ==
  ASSUME RefInv, NEW w \in Workers, NEW j \in JobIds, On(w, j), Rest(w),
         OnlyChanges(j), jobs'[j].attempts = jobs[j].attempts,
         NEW s, TaskState(j)' = s, s # "running"
  PROVE  Promise!Leave(w, j, s)
<1>1. /\ \A v \in Workers \ {w} : worker'[v] = worker[v]
      /\ worker'[w].pc = "idle"
  BY DEF Rest, Idle, RefInv, BudgetInv, LeaseInv, BaseInv, PoolTypeOK
<1>2. ASSUME NEW k \in JobIds \ {j} PROVE TaskOf(k)' = TaskOf(k)
  <2>1. \A v \in Workers : On(v, k)' <=> On(v, k)
    BY <1>1 DEF On, Busy
  <2> QED BY <2>1, SameTask DEF OnlyChanges
<1>3. taskBar' = [taskBar EXCEPT ![j] = TaskOf(j)']
  BY <1>2, OneTask
<1>4. /\ TaskOf(j).state = "running" /\ TaskOf(j).runner = w /\ taskBar[j] = TaskOf(j)
  BY OwnTask DEF TaskOf, taskBar
<1>5. TaskOf(j)' = [state |-> s, runner |-> Nobody, starts |-> TaskOf(j).starts]
  BY DEF TaskOf
<1> QED BY <1>3, <1>4, <1>5 DEF Promise!Leave, Promise!Task

(* A worker always is on a processing job, if replies arrive.              *)
LEMMA RefInvInductive ==
  ASSUME LeaseRespected, RepliesArrive
  PROVE  /\ PoolInit => RefInv
         /\ RefInv /\ [PoolNext]_poolVars => RefInv'
<1>0. QueueAssumption
  BY QueueAssumption
<1>1. PoolInit => RefInv
  <2>1. PoolInit => BudgetInv
    BY LeaseRespected, BudgetInvInductive
  <2>2. PoolInit => OnProcessing
    BY DEF OnProcessing, PoolInit, Busy, Idle
  <2> QED BY <2>1, <2>2 DEF RefInv
<1>2. ASSUME RefInv, [PoolNext]_poolVars PROVE BudgetInv'
  BY <1>2, LeaseRespected, BudgetInvInductive DEF RefInv
<1>3. ASSUME RefInv, UNCHANGED poolVars PROVE OnProcessing'
  BY <1>3 DEF RefInv, OnProcessing, poolVars, Busy
<1>4. ASSUME RefInv, PoolNext, NEW v \in Workers, Busy(v)'
      PROVE  jobs'[worker'[v].job].status = "processing"
  <2>0. /\ QueueTypeOK /\ LeaseInv /\ LeaseInv' /\ OnProcessing
        /\ worker \in [Workers -> [pc : Steps, job : JobIds \cup {NoJob}]]
        /\ \A w \in Workers : Busy(w) => worker[w].job \in JobIds
        /\ worker'[v].job \in JobIds /\ worker[v].job \in JobIds \cup {NoJob}
    BY <1>2, <1>4, QueueAssumption
       DEF RefInv, BudgetInv, LeaseInv, BaseInv, PoolTypeOK, QueueTypeOK, OnFilledSlot, JobIds
  <2> PICK i \in JobIds : i = worker'[v].job
    BY <2>0
  <2>1. Held(v, i)'
    BY <1>4, <2>0 DEF LeaseInv, WorkHeld, On
  <2>2. SUFFICES ASSUME jobs'[worker'[v].job].status = "completed" PROVE FALSE
    BY <2>1 DEF Held
  <2>3. CASE \E w \in Workers : ClaimJob(w)
    <3>1. PICK w \in Workers, j \in JobIds :
            ClaimNext(w, j) /\ worker' = [worker EXCEPT ![w] = [pc |-> "claimed", job |-> j]]
      BY <2>3 DEF ClaimJob
    <3>2. OnlyChanges(j) /\ jobs'[j].status = "processing"
      BY <2>0, <3>1, ClaimEffect
    <3>3. worker'[v].job # j
      BY <2>2, <3>2
    <3>4. v # w
      BY <2>0, <3>1, <3>3
    <3>5. worker'[v] = worker[v]
      BY <2>0, <3>1, <3>4
    <3>6. jobs'[worker[v].job] = jobs[worker[v].job]
      BY <2>0, <3>2, <3>3, <3>5 DEF OnlyChanges
    <3> QED BY <1>4, <2>0, <2>2, <3>5, <3>6 DEF OnProcessing, Busy
  <2>4. CASE \E w \in Workers : CompleteJob(w)
    <3>1. PICK w \in Workers : CompleteJob(w)
      BY <2>4
    <3>2. Busy(w) /\ worker[w].job \in JobIds /\ Complete(worker[w].job) /\ Rest(w)
      BY <2>0, <3>1 DEF CompleteJob, Busy, At
    <3>3. OnlyChanges(worker[w].job)
      BY <2>0, <3>2, SettleEffect DEF Complete, Settles, Dead
    <3>4. v # w /\ worker'[v] = worker[v]
      BY <1>4, <2>0, <3>2 DEF Rest, Busy, Idle
    <3>5. worker[v].job # worker[w].job
      BY <1>4, <2>0, <3>2, <3>4 DEF LeaseInv, MutualExclusion, On, Busy
    <3> QED BY <1>4, <2>0, <2>2, <3>3, <3>4, <3>5 DEF OnProcessing, OnlyChanges, Busy
  <2>5. CASE /\ \A j \in JobIds : jobs'[j].status = "completed" => jobs[j].status = "completed"
             /\ Busy(v) /\ worker'[v].job = worker[v].job
    BY <2>0, <2>2, <2>5 DEF OnProcessing
  <2>6. ASSUME PoolNext, ~ \E w \in Workers : ClaimJob(w) \/ CompleteJob(w)
        PROVE  Busy(v) /\ worker'[v].job = worker[v].job
    <3>1. ASSUME NEW w \in Workers,
                 \/ ReadEntry(w) \/ WriteResult(w) \/ EnrichFails(w) \/ FailLookup(w)
                 \/ RequeueJob(w) \/ BuryJob(w) \/ Crash(w)
          PROVE  Rest(w) \/ (Busy(w) /\ \E s \in Steps : Move(w, s))
      <4>1. CASE RequeueJob(w) \/ BuryJob(w) \/ Crash(w)
        BY <4>1 DEF RequeueJob, BuryJob, Crash
      <4>2. CASE ReadEntry(w)    BY <4>2 DEF ReadEntry, At, Busy, Steps
      <4>3. CASE WriteResult(w)  BY <4>3 DEF WriteResult, At, Busy, Steps
      <4>4. CASE EnrichFails(w)  BY <4>4 DEF EnrichFails, Busy, Steps
      <4>5. CASE FailLookup(w)   BY <4>5 DEF FailLookup, At, Busy, Steps
      <4> QED BY <3>1, <4>1, <4>2, <4>3, <4>4, <4>5
    <3>2. ASSUME NEW w \in Workers, LeaseOverrun(w) \/ LoseCompleteReply(w) PROVE FALSE
      BY <3>2, LeaseRespected, RepliesArrive DEF LeaseOverrun, LoseCompleteReply
    <3>3. \/ worker' = worker
          \/ \E w \in Workers : \/ Rest(w)
                                \/ Busy(w) /\ \E s \in Steps : Move(w, s)
      BY <2>6, <3>1, <3>2 DEF PoolNext, WorkerStep, Submit, LockAgesOut, Reap
    <3> QED BY <1>4, <2>0, <3>3 DEF Rest, Move, Busy, Idle
  <2>7. ASSUME ~ \E w \in Workers : ClaimJob(w) \/ CompleteJob(w), NEW j \in JobIds,
               jobs'[j].status = "completed"
        PROVE  jobs[j].status = "completed"
    <3>1. CASE Submit
      <4>1. PICK e \in Entries, r \in Reasons, u \in Versions : Enqueue(e, r, u)
        BY <3>1 DEF Submit
      <4>2. CASE UNCHANGED queueVars
        BY <2>7, <4>2 DEF queueVars
      <4>3. CASE ~ UNCHANGED queueVars
        <5>1. OnlyChanges(tail + 1) /\ jobs'[tail + 1] = NewJob(e, r, u)
          BY <1>0, <2>0, <4>1, <4>3, EnqueueEffect
        <5>2. NewJob(e, r, u).status = "pending"
          BY DEF NewJob
        <5> QED BY <2>7, <5>1, <5>2 DEF OnlyChanges
      <4> QED BY <4>2, <4>3
    <3>2. CASE Reap
      BY <1>0, <2>0, <2>7, <3>2, ReapEffect DEF Reap
    <3>3. ASSUME NEW k \in JobIds, LockExpires(k) PROVE jobs[j].status = "completed"
      BY <2>0, <2>7, <3>3, ExpiryEffect DEF OnlyChanges
    <3>4. ASSUME NEW k \in JobIds, Requeue(k) \/ Bury(k) PROVE jobs[j].status = "completed"
      <4>1. PICK s \in {"failed", "pending"} : Settles(k, s) /\ tail' = tail
        BY <3>4 DEF Requeue, Bury, Settles
      <4>2. OnlyChanges(k) /\ jobs'[k].status = s
        BY <2>0, <4>1, SettleEffect DEF Live, Dead
      <4> QED BY <2>7, <4>1, <4>2 DEF OnlyChanges
    <3>5. \/ Submit \/ Reap \/ UNCHANGED queueVars
          \/ \E k \in JobIds : LockExpires(k) \/ Requeue(k) \/ Bury(k)
      BY <1>4, <2>0, <2>7, RepliesArrive, LeaseRespected
         DEF PoolNext, WorkerStep, LockAgesOut, LeaseOverrun, Crash, ReadEntry, WriteResult,
             LoseCompleteReply, EnrichFails, FailLookup, RequeueJob, BuryJob, At, Busy, queueVars
    <3> QED BY <2>7, <3>1, <3>2, <3>3, <3>4, <3>5 DEF queueVars
  <2> QED BY <1>4, <2>3, <2>4, <2>5, <2>6, <2>7
<1> QED BY <1>1, <1>2, <1>3, <1>4 DEF RefInv, OnProcessing

(* The pool starts as the abstract specification does.                     *)
LEMMA RefinesInit ==
  ASSUME PoolInit
  PROVE  Promise!TaskInit
<1>1. \A j \in JobIds : jobs[j].status = "absent" /\ jobs[j].attempts = 0
  BY DEF PoolInit, QueueInit, Blank, NewJob
<1>2. ASSUME NEW j \in JobIds
      PROVE  TaskOf(j) = [state |-> "absent", runner |-> Nobody, starts |-> 0]
  <2>1. TaskState(j) = "absent"
    BY <1>1 DEF TaskState
  <2> QED BY <1>1, <2>1 DEF TaskOf
<1> QED BY <1>2 DEF Promise!TaskInit, Promise!Task, taskBar

(* Every step of the pool is a step of one task, or of none.               *)
LEMMA RefinesStep ==
  ASSUME LeaseRespected, RepliesArrive, RefInv, PoolNext
  PROVE  Promise!TaskNext \/ taskBar' = taskBar
<1>0. /\ QueueAssumption /\ QueueTypeOK /\ FreshSlots /\ UniqueActiveKey /\ OnFilledSlot
      /\ LeaseInv /\ BudgetInv /\ tail \in Nat
      /\ worker \in [Workers -> [pc : Steps, job : JobIds \cup {NoJob}]]
      /\ \A w \in Workers : Busy(w) => worker[w].job \in JobIds
  BY QueueAssumption DEF RefInv, BudgetInv, LeaseInv, BaseInv, PoolTypeOK, QueueInv,
                         QueueTypeOK, OnFilledSlot, JobIds
<1>1. CASE Submit
  <2>1. PICK e \in Entries, r \in Reasons, v \in Versions : Enqueue(e, r, v)
    BY <1>1 DEF Submit
  <2>2. \A w \in Workers : \A j \in JobIds : On(w, j)' <=> On(w, j)
    BY <1>1 DEF Submit, On, Busy
  <2>3. CASE UNCHANGED queueVars
    BY <2>2, <2>3, SameTask, NoTask DEF queueVars
  <2>4. CASE ~ UNCHANGED queueVars
    <3>1. PICK j \in JobIds : j = tail + 1 /\ OnlyChanges(j) /\ jobs'[j] = NewJob(e, r, v)
      BY <1>0, <2>1, <2>4, EnqueueEffect
    <3>2. jobs[j].status = "absent" /\ jobs[j].attempts = 0
      BY <1>0, <3>1 DEF FreshSlots
    <3>3. jobs'[j].status = "pending" /\ jobs'[j].attempts = 0
      BY <3>1 DEF NewJob
    <3>4. TaskState(j) = "absent" /\ TaskState(j)' = "waiting"
      BY <3>2, <3>3 DEF TaskState
    <3>5. /\ TaskOf(j) = [state |-> "absent", runner |-> Nobody, starts |-> 0]
          /\ TaskOf(j)' = [state |-> "waiting", runner |-> Nobody, starts |-> 0]
      BY <3>2, <3>3, <3>4 DEF TaskOf
    <3>6. taskBar' = [taskBar EXCEPT ![j] = TaskOf(j)'] /\ taskBar[j] = TaskOf(j)
      BY <2>2, <3>1, SameTask, OneTask DEF OnlyChanges, taskBar
    <3>7. Promise!Add(j)
      BY <3>5, <3>6 DEF Promise!Add, Promise!Task
    <3> QED BY <3>7 DEF Promise!TaskNext
  <2> QED BY <2>3, <2>4
<1>2. ASSUME NEW w \in Workers, ClaimJob(w)
      PROVE  Promise!TaskNext
  <2>1. PICK j \in JobIds : /\ ClaimNext(w, j)
                           /\ worker' = [worker EXCEPT ![w] = [pc |-> "claimed", job |-> j]]
    BY <1>2 DEF ClaimJob
  <2>2. /\ OnlyChanges(j) /\ jobs[j].status = "pending" /\ jobs'[j].status = "processing"
        /\ jobs'[j].owner = w /\ jobs'[j].attempts = jobs[j].attempts + 1
    BY <1>0, <2>1, ClaimEffect
  <2>3. /\ worker'[w] = [pc |-> "claimed", job |-> j] /\ worker[w].pc = "idle"
        /\ \A v \in Workers \ {w} : worker'[v] = worker[v]
    BY <1>0, <1>2, <2>1 DEF ClaimJob, At
  <2>4. ASSUME NEW k \in JobIds \ {j} PROVE TaskOf(k)' = TaskOf(k)
    <3>1. \A v \in Workers : On(v, k)' <=> On(v, k)
      BY <2>3 DEF On, Busy
    <3> QED BY <2>2, <3>1, SameTask DEF OnlyChanges
  <2>5. TaskState(j) = "waiting" /\ TaskState(j)' = "running"
    <3>1. ~Abandoned(j)'
      BY <2>3 DEF Abandoned, On, Busy
    <3> QED BY <2>2, <3>1 DEF TaskState
  <2>6. /\ TaskOf(j)' = [state |-> "running", runner |-> w, starts |-> TaskOf(j).starts + 1]
        /\ TaskOf(j).state = "waiting"
    BY <2>2, <2>5 DEF TaskOf
  <2>7. taskBar' = [taskBar EXCEPT ![j] = TaskOf(j)'] /\ taskBar[j] = TaskOf(j)
    BY <2>4, OneTask DEF taskBar
  <2>8. Promise!Start(w, j)
    BY <2>6, <2>7 DEF Promise!Start, Promise!Task
  <2> QED BY <2>8 DEF Promise!TaskNext
<1>3. ASSUME NEW w \in Workers,
             ReadEntry(w) \/ WriteResult(w) \/ EnrichFails(w) \/ FailLookup(w)
      PROVE  taskBar' = taskBar
  <2>1. Busy(w) /\ jobs' = jobs /\ \E s \in Steps : s # "idle" /\ Move(w, s)
    <3>1. CASE ReadEntry(w)    BY <3>1 DEF ReadEntry, At, Busy, Steps
    <3>2. CASE WriteResult(w)  BY <3>2 DEF WriteResult, At, Busy, Steps
    <3>3. CASE EnrichFails(w)  BY <3>3 DEF EnrichFails, Busy, Steps
    <3>4. CASE FailLookup(w)   BY <3>4 DEF FailLookup, At, Busy, Steps
    <3> QED BY <1>3, <3>1, <3>2, <3>3, <3>4
  <2>2. \A v \in Workers : \A j \in JobIds : On(v, j)' <=> On(v, j)
    BY <1>0, <2>1 DEF Move, On, Busy
  <2> QED BY <2>1, <2>2, SameTask, NoTask
<1>4. ASSUME NEW w \in Workers, CompleteJob(w) \/ RequeueJob(w) \/ BuryJob(w) \/ Crash(w)
      PROVE  Promise!TaskNext
  <2>1. Busy(w) /\ Rest(w)
    BY <1>4 DEF CompleteJob, RequeueJob, BuryJob, Crash, Busy, At
  <2>2. PICK j \in JobIds : j = worker[w].job /\ On(w, j)
    BY <1>0, <2>1 DEF On
  <2>3. \A v \in Workers : ~On(v, j)'
    BY <1>0, <2>1, <2>2 DEF Rest, Idle, On, Busy, LeaseInv, MutualExclusion
  <2>4. Active(j)
    BY <2>2, OwnTask DEF Active, Live
  <2>5. CASE CompleteJob(w)
    <3>1. Settles(j, "completed") /\ tail' = tail
      BY <2>2, <2>5 DEF CompleteJob, Complete, Settles
    <3>2. OnlyChanges(j) /\ jobs'[j].status = "completed" /\ jobs'[j].attempts = jobs[j].attempts
      BY <1>0, <3>1, SettleEffect DEF Dead
    <3>3. TaskState(j)' = "done"
      BY <3>2 DEF TaskState
    <3>4. Promise!Finish(w, j)
      BY <2>1, <2>2, <3>2, <3>3, LeavingIsLeave DEF Promise!Finish
    <3> QED BY <3>4 DEF Promise!TaskNext
  <2>6. CASE RequeueJob(w)
    <3>1. ~KeyTaken(KeyOf(j), j)
      BY <1>0, <2>4 DEF UniqueActiveKey, KeyTaken
    <3>2. Settles(j, "pending") /\ tail' = tail
      BY <2>2, <2>6, <3>1 DEF RequeueJob, Requeue, Settles
    <3>3. OnlyChanges(j) /\ jobs'[j].status = "pending" /\ jobs'[j].attempts = jobs[j].attempts
      BY <1>0, <3>2, SettleEffect DEF Live
    <3>4. TaskState(j)' = "waiting"
      BY <3>3 DEF TaskState
    <3>5. taskBar[j].starts < MaxAttempts
      BY <1>0, <2>2, <2>6 DEF BudgetInv, Decided, RequeueJob, taskBar, TaskOf
    <3>6. Promise!HandBack(w, j)
      BY <2>1, <2>2, <3>3, <3>4, <3>5, LeavingIsLeave DEF Promise!HandBack
    <3> QED BY <3>6 DEF Promise!TaskNext
  <2>7. CASE BuryJob(w)
    <3>1. Settles(j, "failed") /\ tail' = tail
      BY <2>2, <2>7 DEF BuryJob, Bury, Settles
    <3>2. OnlyChanges(j) /\ jobs'[j].status = "failed" /\ jobs'[j].attempts = jobs[j].attempts
      BY <1>0, <3>1, SettleEffect DEF Dead
    <3>3. TaskState(j)' = "dead"
      BY <3>2 DEF TaskState
    <3>4. taskBar[j].starts >= MaxAttempts
      BY <1>0, <2>2, <2>7 DEF BudgetInv, Decided, BuryJob, taskBar, TaskOf
    <3>5. Promise!GiveUp(w, j)
      BY <2>1, <2>2, <3>2, <3>3, <3>4, LeavingIsLeave DEF Promise!GiveUp
    <3> QED BY <3>5 DEF Promise!TaskNext
  <2>8. CASE Crash(w)
    <3>1. jobs' = jobs
      BY <2>8 DEF Crash, queueVars
    <3>2. Abandoned(j)' /\ jobs'[j].status = "processing"
      BY <2>2, <2>3, <3>1, OwnTask DEF Abandoned
    <3>3. TaskState(j)' = "orphaned"
      BY <3>2 DEF TaskState
    <3>4. Promise!Abandon(w, j)
      BY <2>1, <2>2, <3>1, <3>3, LeavingIsLeave DEF Promise!Abandon, OnlyChanges
    <3> QED BY <3>4 DEF Promise!TaskNext
  <2> QED BY <1>4, <2>5, <2>6, <2>7, <2>8
<1>5. ASSUME NEW i \in JobIds, LockAgesOut(i)
      PROVE  taskBar' = taskBar
  <2>1. /\ \A j \in JobIds : /\ jobs'[j].status = jobs[j].status
                            /\ jobs'[j].owner = jobs[j].owner
                            /\ jobs'[j].attempts = jobs[j].attempts
        /\ worker' = worker
    BY <1>0, <1>5, ExpiryEffect DEF LockAgesOut, OnlyChanges
  <2>2. \A w \in Workers : \A j \in JobIds : On(w, j)' <=> On(w, j)
    BY <2>1 DEF On, Busy
  <2> QED BY <2>1, <2>2, SameTask, NoTask
<1>6. CASE Reap
  <2> DEFINE S == {j \in JobIds : Expired(j)}
  <2>1. /\ worker' = worker
        /\ \A j \in JobIds : ~Expired(j) => jobs'[j] = jobs[j]
        /\ \A j \in JobIds : jobs'[j].attempts = jobs[j].attempts
        /\ \A j \in JobIds : Expired(j) => jobs'[j].status = "pending"
    BY <1>0, <1>6, ReapEffect DEF Reap
  <2>2. \A w \in Workers : \A j \in JobIds : On(w, j)' <=> On(w, j)
    BY <2>1 DEF On, Busy
  <2>3. ASSUME NEW j \in JobIds, Expired(j)
        PROVE  /\ TaskOf(j).state = "orphaned"
               /\ TaskOf(j)' = [state |-> "waiting", runner |-> Nobody, starts |-> TaskOf(j).starts]
    <3>1. Abandoned(j) /\ jobs[j].status = "processing"
      BY <1>0, <2>3, HeldIsOutOfReach DEF Abandoned, Expired
    <3>2. TaskState(j) = "orphaned" /\ TaskState(j)' = "waiting"
      BY <2>1, <2>3, <3>1 DEF TaskState
    <3> QED BY <2>1, <3>2 DEF TaskOf
  <2>4. ASSUME NEW j \in JobIds, ~Expired(j) PROVE TaskOf(j)' = TaskOf(j)
    BY <2>1, <2>2, <2>4, SameTask
  <2>5. Promise!Recover(S)
    BY <2>3, <2>4 DEF Promise!Recover, Promise!Task, taskBar
  <2> QED BY <2>5 DEF Promise!TaskNext
<1>7. \A w \in Workers : ~LeaseOverrun(w) /\ ~LoseCompleteReply(w)
  BY LeaseRespected, RepliesArrive DEF LeaseOverrun, LoseCompleteReply
<1> QED BY <1>1, <1>2, <1>3, <1>4, <1>5, <1>6, <1>7 DEF PoolNext, WorkerStep

(* The worker pool keeps the promise of TaskLifecycle: one runner at a     *)
(* time, a finished job stays finished, a job is given up only after       *)
(* MaxAttempts starts and is started again only after it was handed back   *)
(* or its worker was gone.                                                 *)
THEOREM PoolKeepsPromise ==
  ASSUME LeaseRespected, RepliesArrive
  PROVE  PoolSpec => KeepsPromise
<1>1. PoolInit => RefInv
  BY LeaseRespected, RepliesArrive, RefInvInductive
<1>2. RefInv /\ [PoolNext]_poolVars => RefInv'
  BY LeaseRespected, RepliesArrive, RefInvInductive
<1>3. PoolInit => Promise!TaskInit
  BY RefinesInit
<1>4. RefInv /\ [PoolNext]_poolVars => [Promise!TaskNext]_taskBar
  <2>1. UNCHANGED poolVars => taskBar' = taskBar
    BY DEF poolVars, taskBar, TaskOf, TaskState, Abandoned, On, Busy
  <2> QED BY <2>1, LeaseRespected, RepliesArrive, RefinesStep
<1> QED BY <1>1, <1>2, <1>3, <1>4, PTL DEF PoolSpec, KeepsPromise, Promise!TaskSpec
=============================================================================

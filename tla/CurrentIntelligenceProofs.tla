--------------------- MODULE CurrentIntelligenceProofs ---------------------
(***************************************************************************)
(* What is shown as completed is current, for one worker that keeps its    *)
(* leases, auditors who wait for the recomputation of their last edit, and *)
(* handlers that do not die half-way.  Everything else may happen: crashes *)
(* of the worker, enrichments that throw, swallowed duplicates, sweeps,    *)
(* conflicting edits.                                                      *)
(*                                                                         *)
(* The argument: an edit that changes the core is announced (its handler   *)
(* marks, or its job is in the queue or failed) from the moment it is      *)
(* written until its recomputation has been written and completed.  The    *)
(* recomputation reads after the edit and, as no other edit of the entry   *)
(* can be written meanwhile, writes what is still so; any other job that   *)
(* writes an outdated result was read before the edit, and as it is the    *)
(* only worker's job, the recomputation is still ahead.                    *)
(***************************************************************************)
EXTENDS EnrichmentPipelineProofs

OneWorker == \A v, w \in Workers : v = w

\* An edit of e is announced: what is shown of e may be outdated.
Outstanding(e) == \/ \E r \in Requests : Marking(r, e)
                  \/ \E j \in JobIds : Failed(j, e)
                  \/ Underway(e)

\* A handler first to write its edit knows whether it changes the core.
Aware ==
  \A r \in Requests : \A e \in Entries :
    Current(r, e) => (req[r].changed <=> entries[e].core # req[r].patch)

\* The worker has read e for its job.
Reading(w, e) == At(w, "read") /\ jobs[worker[w].job].entry = e

ReadCurrent ==
  \A w \in Workers : \A e \in Entries : Reading(w, e) =>
    seen[w] = entries[e].core \/ (Outstanding(e) /\ ~Recomputes(worker[w].job, e))

WroteCurrent ==
  \A w \in Workers : \A e \in Entries :
    At(w, "wrote") /\ Recomputes(worker[w].job, e) => Settled(e)

Shown ==
  \A e \in Entries : Exists(e) /\ entries[e].status = "completed" => Settled(e) \/ Outstanding(e)

CurrentInv == Aware /\ ReadCurrent /\ WroteCurrent /\ Shown

-----------------------------------------------------------------------------
(* Steps of the queue and the worker, over entries and handlers at rest.   *)

\* A worker has read just now, or is where it was.
WorkersGoOn ==
  \A w \in Workers :
    /\ At(w, "read")' =>
         /\ Busy(w) /\ worker'[w].job = worker[w].job
         /\ \/ At(w, "read") /\ seen'[w] = seen[w]
            \/ seen'[w] = entries[jobs[worker[w].job].entry].core
    /\ At(w, "wrote")' => At(w, "wrote") /\ worker'[w].job = worker[w].job

(* A steady queue keeps what is outstanding.                               *)
LEMMA SteadyKeepsOutstanding ==
  ASSUME Steady({}), UNCHANGED req
  PROVE  \A e \in Entries : Outstanding(e) => Outstanding(e)'
<1> SUFFICES ASSUME NEW e \in Entries, Outstanding(e) PROVE Outstanding(e)'
  OBVIOUS
<1>1. ASSUME NEW r \in Requests, Marking(r, e) PROVE Outstanding(e)'
  <2>1. Marking(r, e)'
    BY <1>1 DEF Marking
  <2> QED BY <2>1 DEF Outstanding
<1>2. ASSUME NEW j \in JobIds, Failed(j, e) \/ Recomputes(j, e) PROVE Outstanding(e)'
  <2>1. Failed(j, e)' \/ Recomputes(j, e)'
    BY <1>2 DEF Steady
  <2> QED BY <2>1 DEF Outstanding, Underway
<1> QED BY <1>1, <1>2 DEF Outstanding, Underway

(* The entry of a job under way stays.                                     *)
LEMMA JobsStayPut ==
  ASSUME RefInv, Slotted, NEW w \in Workers, Busy(w)
  PROVE  /\ worker[w].job \in JobIds
         /\ jobs[worker[w].job].entry \in Entries
         /\ jobs'[worker[w].job].entry = jobs[worker[w].job].entry
<1>1. worker[w].job \in 1..tail /\ tail \in 0..MaxJobs /\ jobs \in [JobIds -> Job]
  BY DEF RefInv, BudgetInv, LeaseInv, BaseInv, PoolTypeOK, QueueTypeOK, OnFilledSlot
<1>2. worker[w].job \in JobIds
  BY <1>1, QueueAssumption DEF JobIds
<1> QED BY <1>1, <1>2 DEF Slotted, Job

(* While entries and handlers rest, a steady queue keeps the invariant.    *)
LEMMA SteadyKeepsCurrent ==
  ASSUME RefInv, CurrentInv, Slotted, Steady({}), WorkersGoOn, UNCHANGED <<entries, req>>
  PROVE  CurrentInv'
<1>1. \A e \in Entries : Outstanding(e) => Outstanding(e)'
  BY SteadyKeepsOutstanding
<1>2. Aware'
  BY DEF CurrentInv, Aware, Current, Writing
<1>3. ReadCurrent'
  <2> SUFFICES ASSUME NEW w \in Workers, NEW e \in Entries, Reading(w, e)'
               PROVE  seen'[w] = entries[e].core \/ (Outstanding(e)' /\ ~Recomputes(worker[w].job, e)')
    BY DEF ReadCurrent, WorkersGoOn, Reading
  <2>1. Busy(w) /\ worker'[w].job = worker[w].job
    BY DEF Reading, WorkersGoOn
  <2>2. worker[w].job \in JobIds /\ jobs[worker[w].job].entry = e
    BY <2>1, JobsStayPut DEF Reading
  <2>3. CASE At(w, "read") /\ seen'[w] = seen[w]
    <3>1. seen[w] = entries[e].core \/ (Outstanding(e) /\ ~Recomputes(worker[w].job, e))
      BY <2>2, <2>3 DEF CurrentInv, ReadCurrent, Reading
    <3>2. Recomputes(worker[w].job, e)' => Recomputes(worker[w].job, e)
      BY <2>1, <2>2 DEF Steady, Recomputes, Active
    <3> QED BY <1>1, <2>3, <3>1, <3>2
  <2>4. CASE seen'[w] = entries[jobs[worker[w].job].entry].core
    BY <2>2, <2>4
  <2> QED BY <2>3, <2>4 DEF WorkersGoOn, Reading
<1>4. WroteCurrent'
  <2> SUFFICES ASSUME NEW w \in Workers, NEW e \in Entries,
                      At(w, "wrote")', Recomputes(worker[w].job, e)'
               PROVE  Settled(e)
    BY DEF WroteCurrent, Settled
  <2>1. At(w, "wrote") /\ worker'[w].job = worker[w].job /\ worker[w].job \in JobIds
    BY JobsStayPut DEF WorkersGoOn, At, Busy
  <2>2. Recomputes(worker[w].job, e)
    BY <2>1 DEF Steady, Recomputes, Active
  <2> QED BY <2>1, <2>2 DEF CurrentInv, WroteCurrent
<1>5. Shown'
  BY <1>1 DEF CurrentInv, Shown, Exists, Settled
<1> QED BY <1>2, <1>3, <1>4, <1>5 DEF CurrentInv

(* Completing a recomputation: its entry is current.                       *)
LEMMA CompletionKeepsCurrent ==
  ASSUME OneWorker, RefInv, CurrentInv, NEW w \in Workers, CompleteJob(w),
         UNCHANGED <<entries, req>>
  PROVE  CurrentInv'
<1>0. /\ At(w, "wrote") /\ worker[w].job \in JobIds /\ jobs[worker[w].job].status = "processing"
      /\ Complete(worker[w].job) /\ QueueTypeOK /\ FreshSlots
      /\ worker \in [Workers -> [pc : Steps, job : JobIds \cup {NoJob}]] /\ Rest(w)
  BY QueueAssumption DEF CompleteJob, At, Busy, RefInv, BudgetInv, LeaseInv, BaseInv, PoolTypeOK,
     QueueTypeOK, QueueInv, OnFilledSlot, OnProcessing, JobIds
<1>1. PICK j \in JobIds : j = worker[w].job
  BY <1>0
<1>2. Steady({j})
  BY <1>0, <1>1, CommandsAreSteady, QueueAssumption
<1>3. \A e \in Entries : Outstanding(e) => Outstanding(e)' \/ Settled(e)
  <2> SUFFICES ASSUME NEW e \in Entries, Outstanding(e) PROVE Outstanding(e)' \/ Settled(e)
    OBVIOUS
  <2>1. ASSUME NEW r \in Requests, Marking(r, e) PROVE Marking(r, e)'
    BY <2>1 DEF Marking
  <2>2. ASSUME NEW k \in JobIds, Failed(k, e) PROVE Failed(k, e)'
    BY <1>2, <2>2 DEF Steady
  <2>3. ASSUME NEW k \in JobIds, Recomputes(k, e) PROVE Recomputes(k, e)' \/ Failed(k, e)' \/ Settled(e)
    <3>1. CASE k = j
      BY <1>0, <1>1, <2>3, <3>1 DEF CurrentInv, WroteCurrent
    <3>2. CASE k # j
      BY <1>2, <2>3, <3>2 DEF Steady
    <3> QED BY <3>1, <3>2
  <2> QED BY <2>1, <2>2, <2>3 DEF Outstanding, Underway
<1>4. \A v \in Workers : ~At(v, "read")' /\ ~At(v, "wrote")'
  BY <1>0, OneWorker DEF OneWorker, Rest, Idle, At
<1>5. Aware'
  BY DEF CurrentInv, Aware, Current, Writing
<1>6. ReadCurrent' /\ WroteCurrent'
  BY <1>4 DEF ReadCurrent, Reading, WroteCurrent
<1>7. Shown'
  BY <1>3 DEF CurrentInv, Shown, Exists, Settled
<1> QED BY <1>5, <1>6, <1>7 DEF CurrentInv

(* The worker writes its result: current, or the entry is outstanding.     *)
LEMMA ResultKeepsCurrent ==
  ASSUME OneWorker, CallersInv, RefInv, CurrentInv, NEW w \in Workers, EnrichWrite(w)
  PROVE  CurrentInv'
<1>0. /\ At(w, "read") /\ worker[w].job \in JobIds /\ jobs[worker[w].job].entry \in Entries
      /\ worker \in [Workers -> [pc : Steps, job : JobIds \cup {NoJob}]] /\ StoreTypeOK
  BY QueueAssumption DEF EnrichWrite, WriteResult, At, Busy, RefInv, BudgetInv, LeaseInv, BaseInv,
     PoolTypeOK, QueueTypeOK, OnFilledSlot, JobIds, Job, CallersInv, CallersTypeOK
<1>1. PICK e \in Entries : e = jobs[worker[w].job].entry
  BY <1>0
<1>2. /\ UNCHANGED <<jobs, req>> /\ Move(w, "wrote") /\ SetIntelligence(e, seen[w], WorkerVersion)
  BY <1>1 DEF EnrichWrite, WriteResult, RequestsIdle
<1>3. /\ entries'[e].core = entries[e].core
      /\ entries'[e].status = "completed"
      /\ entries'[e].risk = seen[w] /\ entries'[e].vectors = seen[w]
      /\ entries'[e].version = entries[e].version
      /\ \A f \in Entries \ {e} : entries'[f] = entries[f]
  BY <1>0, <1>2 DEF SetIntelligence, StoreTypeOK, Entry
<1>4. \A f \in Entries : /\ Outstanding(f)' <=> Outstanding(f)
                         /\ \A j \in JobIds : Recomputes(j, f)' <=> Recomputes(j, f)
  BY <1>2 DEF Outstanding, Underway, Marking, Failed, Recomputes, Active
<1>5. seen[w] = entries[e].core \/ (Outstanding(e) /\ ~Recomputes(worker[w].job, e))
  BY <1>0, <1>1 DEF CurrentInv, ReadCurrent, Reading
<1>6. \A v \in Workers : ~At(v, "read")' /\ worker'[v].job = worker[v].job
  BY <1>0, <1>2, OneWorker DEF OneWorker, Move, At
<1>7. Aware'
  <2>1. \A r \in Requests, f \in Entries : Current(r, f)' => Current(r, f)
    BY <1>2, <1>3 DEF Current, Writing
  <2>2. \A f \in Entries : entries'[f].core = entries[f].core
    BY <1>3
  <2> QED BY <1>2, <2>1, <2>2 DEF CurrentInv, Aware
<1>8. ReadCurrent'
  BY <1>6 DEF ReadCurrent, Reading
<1>9. WroteCurrent'
  <2> SUFFICES ASSUME NEW v \in Workers, NEW f \in Entries, Recomputes(worker[v].job, f)
               PROVE  Settled(f)'
    BY <1>2, <1>6 DEF WroteCurrent, Recomputes, Active
  <2>1. v = w /\ f = e
    BY <1>1, OneWorker DEF OneWorker, Recomputes
  <2> QED BY <1>3, <1>5, <2>1 DEF Settled
<1>10. Shown'
  <2> SUFFICES ASSUME NEW f \in Entries, Exists(f)', entries'[f].status = "completed"
               PROVE  Settled(f)' \/ Outstanding(f)
    BY <1>4 DEF Shown
  <2>1. CASE f = e  BY <1>3, <1>5, <2>1 DEF Settled
  <2>2. CASE f # e  BY <1>3, <2>2 DEF CurrentInv, Shown, Settled, Exists
  <2> QED BY <2>1, <2>2
<1> QED BY <1>7, <1>8, <1>9, <1>10 DEF CurrentInv

(* All steps of the worker and its sweeper.                                *)
LEMMA OthersKeepCurrent ==
  ASSUME OneWorker, LeaseRespected, RepliesArrive, CallersInv, RefInv, CurrentInv, Orderly,
         \/ \E w \in Workers :
              \/ PipelineWorker(w) \/ WorkerDies(w) \/ LeaseLost(w)
              \/ Sweep(w) \/ SweepThrows(w)
         \/ LockTime
  PROVE  CurrentInv'
<1> USE QueueAssumption, PipelineAssumption DEF RequestsIdle
<1>0. /\ QueueTypeOK /\ FreshSlots /\ WorkerVersion \in Versions /\ "created" \in Reasons
      /\ worker \in [Workers -> [pc : Steps, job : JobIds \cup {NoJob}]]
      /\ seen \in [Workers -> Cores \cup {None}]
      /\ CallersTypeOK /\ Slotted
      /\ \A w \in Workers : Busy(w) =>
           worker[w].job \in JobIds /\ jobs[worker[w].job].status = "processing"
  BY DEF RefInv, OnProcessing, BudgetInv, LeaseInv, BaseInv, PoolTypeOK, QueueInv, QueueTypeOK,
         PipelineAssumption, Reasons, CallersInv, CallersTypeOK, OnFilledSlot, JobIds, Orderly
\* A worker that rests or moves on to another step than these two.
<1>1. ASSUME NEW w \in Workers, \/ Rest(w)
                                \/ \E s \in Steps \ {"read", "wrote"} : Move(w, s)
                                \/ \E j \in JobIds :
                                     worker' = [worker EXCEPT ![w] = [pc |-> "claimed", job |-> j]],
             UNCHANGED seen \/ seen' = [seen EXCEPT ![w] = None]
      PROVE  WorkersGoOn
  BY <1>0, <1>1 DEF WorkersGoOn, Rest, Idle, Move, At, Busy
<1>2. UNCHANGED <<worker, seen>> => WorkersGoOn
  BY DEF WorkersGoOn, At, Busy
<1>3. ASSUME NEW w \in Workers, LoopStep(w) PROVE CurrentInv'
  <2>0. UNCHANGED <<entries, req, seen>>
    BY <1>3 DEF LoopStep
  <2>1. CASE CompleteJob(w)
    BY <2>0, <2>1, OneWorker, CompletionKeepsCurrent
  <2>2. CASE ClaimJob(w) \/ FailLookup(w) \/ RequeueJob(w) \/ BuryJob(w)
    <3>1. WorkersGoOn
      BY <1>1, <2>0, <2>2 DEF ClaimJob, FailLookup, RequeueJob, BuryJob, Steps
    <3>2. Steady({})
      <4>1. CASE ClaimJob(w)
        BY <1>0, <4>1, CommandsAreSteady DEF ClaimJob
      <4>2. CASE FailLookup(w)
        BY <1>0, <4>2, CommandsAreSteady DEF FailLookup, queueVars
      <4>3. CASE RequeueJob(w) \/ BuryJob(w)
        <5>1. PICK j \in JobIds : /\ j = worker[w].job /\ jobs[j].status = "processing"
                                 /\ (Requeue(j) \/ Bury(j) \/ UNCHANGED queueVars)
          BY <1>0, <4>3 DEF RequeueJob, BuryJob, At, Busy
        <5> QED BY <1>0, <5>1, CommandsAreSteady
      <4> QED BY <2>2, <4>1, <4>2, <4>3
    <3> QED BY <1>0, <2>0, <3>1, <3>2, SteadyKeepsCurrent
  <2>3. ~LoseCompleteReply(w)
    BY RepliesArrive DEF LoseCompleteReply
  <2> QED BY <1>3, <2>1, <2>2, <2>3 DEF LoopStep
<1>4. ASSUME NEW w \in Workers, EnrichRead(w) PROVE CurrentInv'
  <2>1. /\ UNCHANGED <<entries, req>> /\ UNCHANGED queueVars /\ Busy(w) /\ Move(w, "read")
        /\ seen' = [seen EXCEPT ![w] = entries[jobs[worker[w].job].entry].core]
    BY <1>4 DEF EnrichRead, ReadEntry, At, Busy, queueVars
  <2>2. WorkersGoOn
    BY <1>0, <2>1 DEF WorkersGoOn, Move, At, Busy
  <2> QED BY <1>0, <2>1, <2>2, CommandsAreSteady, SteadyKeepsCurrent
<1>5. ASSUME NEW w \in Workers, EnrichThrows(w) \/ WorkerDies(w) PROVE CurrentInv'
  <2>1. /\ UNCHANGED <<entries, req>> /\ UNCHANGED queueVars /\ seen' = [seen EXCEPT ![w] = None]
        /\ Rest(w) \/ \E s \in Steps \ {"read", "wrote"} : Move(w, s)
    BY <1>5 DEF EnrichThrows, WorkerDies, EnrichFails, Crash, queueVars, Steps
  <2>2. WorkersGoOn
    BY <1>1, <2>1
  <2> QED BY <1>0, <2>1, <2>2, CommandsAreSteady, SteadyKeepsCurrent
<1>6. ASSUME NEW w \in Workers, EnrichWrite(w) PROVE CurrentInv'
  BY <1>6, OneWorker, ResultKeepsCurrent
<1>7. ASSUME NEW w \in Workers, LeaseLost(w) PROVE FALSE
  BY <1>7, LeaseRespected DEF LeaseLost, LeaseOverrun
<1>8. CASE LockTime
  <2>1. UNCHANGED <<entries, req, worker, seen>> /\ \E j \in JobIds : LockExpires(j)
    BY <1>8 DEF LockTime, LockAgesOut
  <2> QED BY <1>0, <1>2, <2>1, CommandsAreSteady, SteadyKeepsCurrent
<1>9. ASSUME NEW w \in Workers, Sweep(w) \/ SweepThrows(w) PROVE CurrentInv'
  <2>1. UNCHANGED <<entries, req, worker, seen>>
    BY <1>0, <1>9, SweeperMoves
  <2>2. \/ UNCHANGED queueVars \/ ReclaimStale
        \/ \E e \in Entries : Enqueue(e, "created", WorkerVersion)
    <3>1. sweeper[w].ids \subseteq Entries
      BY <1>0 DEF CallersTypeOK
    <3> QED BY <1>0, <1>9, <3>1, SweeperMoves
  <2> QED BY <1>0, <1>2, <2>1, <2>2, CommandsAreSteady, SteadyKeepsCurrent
<1> QED BY <1>3, <1>4, <1>5, <1>6, <1>7, <1>8, <1>9 DEF PipelineWorker

-----------------------------------------------------------------------------
(* Steps of the handlers.                                                  *)

\* The worker's job, while it is on it, is for an entry that exists, and is
\* not one a handler is about to insert.
OnKnown == \A w \in Workers : Busy(w) =>
             LET j == worker[w].job IN
               j \in JobIds /\ Active(j) /\ jobs[j].entry \in Entries /\ Exists(jobs[j].entry)

LEMMA WorkersOnKnown ==
  ASSUME RefInv, Known
  PROVE  OnKnown
<1> SUFFICES ASSUME NEW w \in Workers, Busy(w)
             PROVE  /\ worker[w].job \in JobIds /\ Active(worker[w].job)
                    /\ jobs[worker[w].job].entry \in Entries /\ Exists(jobs[worker[w].job].entry)
  BY DEF OnKnown
<1>1. /\ worker[w].job \in 1..tail /\ tail \in 0..MaxJobs /\ jobs \in [JobIds -> Job]
      /\ jobs[worker[w].job].status = "processing"
  BY DEF RefInv, BudgetInv, LeaseInv, BaseInv, PoolTypeOK, QueueTypeOK, OnFilledSlot, OnProcessing
<1>2. worker[w].job \in JobIds
  BY <1>1, QueueAssumption DEF JobIds
<1> QED BY <1>1, <1>2 DEF Known, Active, Live, Job

(* A handler that is not editing, or lets go of a refused edit.            *)
LEMMA HandlersKeepCurrent ==
  ASSUME StaleInv, CurrentInv, OnKnown, Steady({}), Slotted, UNCHANGED <<worker, seen>>,
         QueueTypeOK, OnFilledSlot,
         NEW r \in Requests, \A s \in Requests \ {r} : req'[s] = req[s],
         req[r].pc \notin {"mark", "enqueueChange"},
         req'[r].pc \notin {"write", "mark", "enqueueChange"},
         \A e \in Entries : \/ entries'[e] = entries[e]
                            \/ ~Exists(e) /\ entries'[e].status = "pending"
  PROVE  CurrentInv'
<1>1. \A s \in Requests, e \in Entries :
        /\ Marking(s, e)' <=> Marking(s, e)
        /\ Writing(s, e)' => Writing(s, e) /\ req'[s] = req[s]
  BY DEF Marking, Writing
<1>2. \A e \in Entries : Outstanding(e) => Outstanding(e)'
  BY <1>1 DEF Outstanding, Underway, Steady
<1>3. Aware'
  <2> SUFFICES ASSUME NEW s \in Requests, NEW e \in Entries, Current(s, e)'
               PROVE  req'[s].changed <=> entries'[e].core # req'[s].patch
    BY DEF Aware
  <2>1. Writing(s, e) /\ req'[s] = req[s] /\ entries'[e] = entries[e]
    BY <1>1 DEF Current, StaleInv, EditsExisting
  <2> QED BY <2>1 DEF Current, CurrentInv, Aware
<1>4. \A w \in Workers : Busy(w) =>
        LET j == worker[w].job IN
          /\ jobs'[j].entry = jobs[j].entry /\ entries'[jobs[j].entry] = entries[jobs[j].entry]
          /\ \A e \in Entries : Recomputes(j, e)' => Recomputes(j, e)
  <2> SUFFICES ASSUME NEW w \in Workers, Busy(w), NEW j, j = worker[w].job
               PROVE  /\ jobs'[j].entry = jobs[j].entry
                      /\ entries'[jobs[j].entry] = entries[jobs[j].entry]
                      /\ \A e \in Entries : Recomputes(j, e)' => Recomputes(j, e)
    OBVIOUS
  <2>1. j \in 1..tail /\ j \in JobIds /\ jobs[j].entry \in Entries /\ Exists(jobs[j].entry)
    BY DEF OnKnown, OnFilledSlot
  <2> QED BY <2>1 DEF Slotted, Steady
<1>5. ReadCurrent'
  <2> SUFFICES ASSUME NEW w \in Workers, NEW e \in Entries, At(w, "read"),
                      jobs'[worker[w].job].entry = e
               PROVE  \/ seen[w] = entries'[e].core
                      \/ Outstanding(e)' /\ ~Recomputes(worker[w].job, e)'
    BY DEF ReadCurrent, Reading, At
  <2>1. /\ Reading(w, e) /\ entries'[e] = entries[e]
        /\ Recomputes(worker[w].job, e)' => Recomputes(worker[w].job, e)
    BY <1>4 DEF Reading, At, Busy
  <2> QED BY <1>2, <2>1 DEF CurrentInv, ReadCurrent
<1>6. WroteCurrent'
  <2> SUFFICES ASSUME NEW w \in Workers, NEW e \in Entries, At(w, "wrote"),
                      Recomputes(worker[w].job, e)'
               PROVE  Settled(e)'
    BY DEF WroteCurrent, At
  <2>1. Recomputes(worker[w].job, e) /\ entries'[e] = entries[e]
    BY <1>4 DEF At, Busy, Recomputes
  <2> QED BY <2>1 DEF CurrentInv, WroteCurrent, Settled
<1>7. Shown'
  BY <1>2 DEF CurrentInv, Shown, Settled, Exists
<1> QED BY <1>3, <1>5, <1>6, <1>7 DEF CurrentInv

(* Each step of a handler.                                                 *)
LEMMA RequestsKeepCurrent ==
  ASSUME PatientEdits, MaxAborts = 0, CallersInv, RefInv, StaleInv, Known, CurrentInv, Orderly,
         NEW r \in Requests,
         CreateEntry(r) \/ ReadForEdit(r) \/ RequestStep(r) \/ AbortRequest(r)
  PROVE  CurrentInv'
<1> USE QueueAssumption, PipelineAssumption DEF OthersIdle
<1>0. /\ QueueTypeOK /\ FreshSlots /\ OnFilledSlot /\ Slotted /\ ServerVersion \in Versions
      /\ "created" \in Reasons /\ "core_changed" \in Reasons
      /\ req \in [Requests -> Handler] /\ StoreTypeOK /\ InHand /\ aborts \in 0..MaxAborts
  BY DEF RefInv, BudgetInv, LeaseInv, BaseInv, PoolTypeOK, QueueInv, PipelineAssumption,
         Reasons, CallersInv, CallersTypeOK, Orderly
<1>1. OnKnown
  BY WorkersOnKnown
<1>2. UNCHANGED <<worker, seen>>
  BY DEF CreateEntry, ReadForEdit, RequestStep, AbortRequest, Admit, EnqueueCreated, WriteCore,
     Conflict, MarkStale, EnqueueChange
<1>3. CASE CreateEntry(r)
  <2>1. PICK e \in Entries, c \in Cores : /\ ~Exists(e) /\ Create(e, c)
              /\ req' = [req EXCEPT ![r] = [Free EXCEPT !.pc = "admit", !.entry = e]]
              /\ req[r].pc = "free"
    BY <1>3 DEF CreateEntry
  <2>2. \A f \in Entries : entries'[f] = entries[f] \/ (~Exists(f) /\ entries'[f].status = "pending")
    BY <1>0, <2>1 DEF Create, NewEntry, StoreTypeOK
  <2>3. req'[r].pc = "admit" /\ \A s \in Requests \ {r} : req'[s] = req[s]
    BY <1>0, <2>1 DEF Free
  <2>4. Steady({})
    BY <1>0, <1>3, CommandsAreSteady DEF CreateEntry
  <2> QED BY <1>0, <1>1, <1>2, <2>1, <2>2, <2>3, <2>4, HandlersKeepCurrent
<1>4. CASE Admit(r) \/ EnqueueCreated(r) \/ Conflict(r)
  <2>1. /\ req[r].pc \in {"admit", "enqueue", "write"} /\ req'[r].pc \in {"enqueue", "free"}
        /\ \A s \in Requests \ {r} : req'[s] = req[s]
        /\ UNCHANGED entries
    BY <1>0, <1>4 DEF Admit, EnqueueCreated, Conflict, Advance, Return, Free, Handler
  <2>2. UNCHANGED queueVars \/ Enqueue(req[r].entry, "created", ServerVersion)
    BY <1>4 DEF Admit, EnqueueCreated, Conflict
  <2>3. req[r].entry \in Entries
    BY <1>0, <2>1 DEF InHand
  <2>4. Steady({})
    BY <1>0, <2>2, <2>3, CommandsAreSteady
  <2> QED BY <1>0, <1>1, <1>2, <2>1, <2>4, HandlersKeepCurrent
<1>5. ~AbortRequest(r)
  BY <1>0, MaxAborts = 0 DEF AbortRequest
<1>6. CASE ReadForEdit(r)
  <2>1. PICK e \in Entries, c \in Cores :
          req' = [req EXCEPT ![r] = [pc |-> "write", entry |-> e, patch |-> c,
                                     base |-> entries[e].version,
                                     changed |-> entries[e].core # c]]
    BY <1>6 DEF ReadForEdit
  <2>2. req[r].pc = "free" /\ UNCHANGED <<jobs, entries>>
    BY <1>6 DEF ReadForEdit, queueVars
  <2>3. /\ req'[r].pc = "write" /\ req'[r].entry = e /\ req'[r].patch = c
        /\ req'[r].changed <=> entries[e].core # c
        /\ \A s \in Requests \ {r} : req'[s] = req[s]
    BY <1>0, <2>1
  <2>4. Aware'
    <3> SUFFICES ASSUME NEW s \in Requests, NEW f \in Entries, Current(s, f)'
                 PROVE  req'[s].changed <=> entries[f].core # req'[s].patch
      BY <2>2 DEF Aware
    <3>1. CASE s = r
      BY <2>3, <3>1 DEF Current, Writing
    <3>2. CASE s # r
      <4>1. Current(s, f) /\ req'[s] = req[s]
        BY <2>2, <2>3, <3>2 DEF Current, Writing
      <4> QED BY <4>1 DEF CurrentInv, Aware
    <3> QED BY <3>1, <3>2
  <2>5. \A s \in Requests, f \in Entries : Marking(s, f)' <=> Marking(s, f)
    BY <2>2, <2>3 DEF Marking
  <2>6. \A f \in Entries : Outstanding(f)' <=> Outstanding(f)
    BY <2>2, <2>5 DEF Outstanding, Underway, Recomputes, Failed, Active
  <2>7. ReadCurrent' /\ WroteCurrent' /\ Shown'
    BY <1>2, <2>2, <2>6 DEF CurrentInv, ReadCurrent, WroteCurrent, Shown, Reading, At, Settled,
                            Recomputes, Active, Exists
  <2> QED BY <2>4, <2>7 DEF CurrentInv
<1>7. CASE WriteCore(r)
  <2>1. PICK e \in Entries : e = req[r].entry
    BY <1>0, <1>7 DEF WriteCore, InHand
  <2>2. Current(r, e) /\ UNCHANGED jobs
    BY <1>7, <2>1 DEF WriteCore, UpdateCore, Current, Writing, queueVars
  <2>3. ~Underway(e) /\ \A s \in Requests : ~Marking(s, e)
    BY <2>2 DEF StaleInv, EditsAlone
  <2>4. /\ \A f \in Entries \ {e} : entries'[f] = entries[f]
        /\ entries'[e].core = req[r].patch /\ entries'[e].version = entries[e].version + 1
        /\ entries'[e].status = entries[e].status /\ entries'[e].exists = entries[e].exists
        /\ entries'[e].risk = entries[e].risk /\ entries'[e].vectors = entries[e].vectors
        /\ entries[e].version \in Nat
    BY <1>0, <1>7, <2>1 DEF WriteCore, UpdateCore, StoreTypeOK, Entry, InHand
  <2>5. /\ req[r].changed => req'[r].pc = "mark" /\ req'[r].entry = e
        /\ ~req[r].changed => req'[r].pc = "free"
        /\ \A s \in Requests \ {r} : req'[s] = req[s]
        /\ \A s \in Requests : req[s].base \in Nat
    BY <1>0, <1>7, <2>1 DEF WriteCore, Advance, Return, Free, Handler
  \* The edit is announced, or changes nothing.
  <2>6. Marking(r, e)' \/ entries'[e].core = entries[e].core
    BY <2>2, <2>4, <2>5 DEF CurrentInv, Aware, Marking
  <2>7. /\ \A s \in Requests, f \in Entries : Marking(s, f) => Marking(s, f)'
        /\ \A s \in Requests, f \in Entries : Writing(s, f)' => Writing(s, f) /\ req'[s] = req[s]
    BY <2>2, <2>5 DEF Marking, Writing, Current
  <2>8. \A f \in Entries :
          /\ Outstanding(f) => Outstanding(f)'
          /\ Marking(r, f)' => Outstanding(f)'
          /\ \A j \in JobIds : Recomputes(j, f)' <=> Recomputes(j, f)
    BY <2>2, <2>7 DEF Outstanding, Underway, Recomputes, Failed, Active
  <2>9. Aware'
    <3> SUFFICES ASSUME NEW s \in Requests, NEW f \in Entries, Current(s, f)'
                 PROVE  req'[s].changed <=> entries'[f].core # req'[s].patch
      BY DEF Aware
    <3>1. Writing(s, f) /\ req'[s] = req[s]
      BY <2>7 DEF Current
    <3>2. req[s].base <= entries[f].version
      BY <3>1 DEF StaleInv, EditsExisting
    <3>3. f # e
      BY <2>4, <2>5, <3>1, <3>2 DEF Current
    <3> QED BY <2>4, <3>1, <3>3 DEF Current, CurrentInv, Aware
  <2>10. ReadCurrent'
    <3> SUFFICES ASSUME NEW w \in Workers, NEW f \in Entries, Reading(w, f)
                 PROVE  \/ seen[w] = entries'[f].core
                        \/ Outstanding(f)' /\ ~Recomputes(worker[w].job, f)
      BY <1>2, <2>2 DEF ReadCurrent, Reading, At, Recomputes, Active
    <3>1. worker[w].job \in JobIds
      BY <1>1 DEF OnKnown, Reading, At, Busy
    <3>2. seen[w] = entries[f].core \/ (Outstanding(f) /\ ~Recomputes(worker[w].job, f))
      BY DEF CurrentInv, ReadCurrent
    <3>3. CASE f = e
      <4>1. ~Recomputes(worker[w].job, e)
        BY <2>3, <3>1 DEF Underway
      <4> QED BY <2>6, <2>8, <3>2, <3>3, <4>1
    <3>4. CASE f # e
      BY <2>4, <2>8, <3>2, <3>4
    <3> QED BY <3>3, <3>4
  <2>11. WroteCurrent'
    <3> SUFFICES ASSUME NEW w \in Workers, NEW f \in Entries, At(w, "wrote"),
                        Recomputes(worker[w].job, f)
                 PROVE  Settled(f)'
      BY <1>2, <2>2 DEF WroteCurrent, At, Recomputes, Active
    <3>1. f # e
      BY <1>1, <2>3 DEF OnKnown, At, Busy, Underway
    <3> QED BY <2>4, <3>1 DEF CurrentInv, WroteCurrent, Settled
  <2>12. Shown'
    <3> SUFFICES ASSUME NEW f \in Entries, Exists(f)', entries'[f].status = "completed"
                 PROVE  Settled(f)' \/ Outstanding(f)'
      BY DEF Shown
    <3>1. Settled(f) \/ Outstanding(f)
      BY <2>4 DEF CurrentInv, Shown, Exists
    <3> QED BY <2>4, <2>6, <2>8, <3>1 DEF Settled
  <2> QED BY <2>9, <2>10, <2>11, <2>12 DEF CurrentInv
<1>8. CASE MarkStale(r)
  <2>1. PICK e \in Entries : e = req[r].entry
    BY <1>0, <1>8 DEF MarkStale, InHand
  <2>2. Marking(r, e) /\ UNCHANGED jobs
    BY <1>8, <2>1 DEF MarkStale, Marking, queueVars
  <2>3. ~Underway(e)
    BY <2>2 DEF StaleInv, EditsAlone
  <2>4. /\ \A f \in Entries : /\ entries'[f].core = entries[f].core
                              /\ entries'[f].version = entries[f].version
        /\ \A f \in Entries \ {e} : entries'[f] = entries[f]
        /\ entries'[e].status = "stale"
    BY <1>0, <1>8, <2>1 DEF MarkStale, MarkIntelligenceStale, StoreTypeOK, Entry
  <2>5. /\ req'[r].pc = "enqueueChange" /\ req'[r].entry = e
        /\ \A s \in Requests \ {r} : req'[s] = req[s]
    BY <1>0, <1>8, <2>1 DEF MarkStale, Advance, Handler
  <2>6. \A s \in Requests, f \in Entries :
          /\ Marking(s, f)' <=> Marking(s, f)
          /\ Current(s, f)' => Current(s, f) /\ req'[s] = req[s]
    BY <2>2, <2>4, <2>5 DEF Marking, Writing, Current
  <2>7. \A f \in Entries : Outstanding(f)' <=> Outstanding(f)
    BY <2>2, <2>6 DEF Outstanding, Underway, Recomputes, Failed, Active
  <2>8. Aware'
    BY <2>4, <2>6 DEF CurrentInv, Aware
  <2>9. ReadCurrent'
    BY <1>2, <2>2, <2>4, <2>7 DEF CurrentInv, ReadCurrent, Reading, At, Recomputes, Active
  <2>10. WroteCurrent'
    <3> SUFFICES ASSUME NEW w \in Workers, NEW f \in Entries, At(w, "wrote"),
                        Recomputes(worker[w].job, f)
                 PROVE  Settled(f)'
      BY <1>2, <2>2 DEF WroteCurrent, At, Recomputes, Active
    <3>1. f # e
      BY <1>1, <2>3 DEF OnKnown, At, Busy, Underway
    <3> QED BY <2>4, <3>1 DEF CurrentInv, WroteCurrent, Settled
  <2>11. Shown'
    BY <2>4, <2>7 DEF CurrentInv, Shown, Settled, Exists
  <2> QED BY <2>8, <2>9, <2>10, <2>11 DEF CurrentInv
<1>9. CASE EnqueueChange(r)
  <2>1. PICK e \in Entries : e = req[r].entry
    BY <1>0, <1>9 DEF EnqueueChange, InHand
  <2>2. Marking(r, e) /\ UNCHANGED entries
    BY <1>9, <2>1 DEF EnqueueChange, Marking
  <2>3. ~Underway(e)
    BY <2>2 DEF StaleInv, EditsAlone
  <2>4. req'[r].pc = "free" /\ \A s \in Requests \ {r} : req'[s] = req[s]
    BY <1>0, <1>9 DEF EnqueueChange, Return, Free
  <2>5. ~KeyTaken(IdempotencyKey(e, "core_changed", ServerVersion), 0)
    BY <2>3 DEF KeyTaken, KeyOf, IdempotencyKey, Underway, Recomputes
  <2>6. PICK k \in JobIds : /\ OnlyChanges(k) /\ jobs[k].status = "absent"
                           /\ jobs'[k] = NewJob(e, "core_changed", ServerVersion)
    <3>1. Enqueue(e, "core_changed", ServerVersion) /\ tail' = tail + 1
      BY <1>9, <2>1, <2>5 DEF EnqueueChange, Enqueue
    <3>2. ~ UNCHANGED queueVars
      BY <1>0, <3>1 DEF queueVars, QueueTypeOK
    <3>3. /\ tail + 1 \in JobIds /\ OnlyChanges(tail + 1)
          /\ jobs'[tail + 1] = NewJob(e, "core_changed", ServerVersion)
      BY <1>0, <3>1, <3>2, EnqueueEffect
    <3> QED BY <1>0, <3>3 DEF FreshSlots, JobIds, QueueTypeOK
  <2>7. /\ Recomputes(k, e)'
        /\ \A j \in JobIds, f \in Entries :
             /\ Recomputes(j, f) => Recomputes(j, f)'
             /\ Failed(j, f) => Failed(j, f)'
    BY <2>6 DEF OnlyChanges, Recomputes, Failed, Active, Live, NewJob
  <2>8. \A s \in Requests, f \in Entries :
          /\ Marking(s, f) => Marking(s, f)' \/ f = e
          /\ Current(s, f)' => Current(s, f) /\ req'[s] = req[s]
    BY <2>1, <2>2, <2>4 DEF Marking, Writing, Current
  <2>9. \A f \in Entries : Outstanding(f) => Outstanding(f)'
    BY <2>7, <2>8 DEF Outstanding, Underway
  <2>10. \A w \in Workers : Busy(w) => worker[w].job \in JobIds /\ worker[w].job # k
    BY <1>1, <2>6 DEF OnKnown, Active, Live
  <2>11. Aware'
    BY <2>2, <2>8 DEF CurrentInv, Aware
  <2>12. ReadCurrent'
    <3> SUFFICES ASSUME NEW w \in Workers, NEW f \in Entries, At(w, "read"),
                        jobs'[worker[w].job].entry = f
                 PROVE  \/ seen[w] = entries[f].core
                        \/ Outstanding(f)' /\ ~Recomputes(worker[w].job, f)'
      BY <1>2, <2>2 DEF ReadCurrent, Reading, At
    <3>1. jobs'[worker[w].job] = jobs[worker[w].job]
      BY <2>6, <2>10 DEF OnlyChanges, At, Busy
    <3> QED BY <1>2, <2>9, <3>1 DEF CurrentInv, ReadCurrent, Reading, Recomputes, Active
  <2>13. WroteCurrent'
    <3> SUFFICES ASSUME NEW w \in Workers, NEW f \in Entries, At(w, "wrote"),
                        Recomputes(worker[w].job, f)'
                 PROVE  Settled(f)
      BY <1>2, <2>2 DEF WroteCurrent, At, Settled
    <3>1. jobs'[worker[w].job] = jobs[worker[w].job]
      BY <2>6, <2>10 DEF OnlyChanges, At, Busy
    <3> QED BY <1>2, <3>1 DEF CurrentInv, WroteCurrent, Recomputes, Active
  <2>14. Shown'
    BY <2>2, <2>9 DEF CurrentInv, Shown, Settled, Exists
  <2> QED BY <2>11, <2>12, <2>13, <2>14 DEF CurrentInv
<1> QED BY <1>3, <1>4, <1>5, <1>6, <1>7, <1>8, <1>9 DEF RequestStep

(* With one worker that keeps its leases, auditors who wait for the        *)
(* recomputation of their last edit, and handlers that do not die, an      *)
(* entry shown as completed was computed from the entry as it is, or a     *)
(* recomputation is owed, in the queue or given up (Entry.ts: a change of  *)
(* an analytical field invalidates all previously computed intelligence).  *)
THEOREM PipelineCompletedIsCurrent ==
  ASSUME OneWorker, PatientEdits, MaxAborts = 0, LeaseRespected, RepliesArrive
  PROVE  PipelineSpec => []CompletedIsCurrent
<1> DEFINE Inv == CallersInv /\ RefInv /\ StaleInv /\ Known /\ CurrentInv
<1>1. PipelineInit => Inv
  <2> SUFFICES ASSUME PipelineInit PROVE Inv
    OBVIOUS
  <2>1. CallersInv /\ RefInv
    BY PipelineStep, RefInvInductive, LeaseRespected, RepliesArrive DEF PipelineInit
  <2>2. /\ \A r \in Requests : req[r].pc = "free"
        /\ \A w \in Workers : worker[w].pc = "idle"
        /\ \A e \in Entries : entries[e].status = "pending"
        /\ \A w \in Workers : sweeper[w].ids = {}
        /\ tail = 0
    BY DEF PipelineInit, CallersInit, Free, PoolInit, QueueInit, Idle, StoreInit, NewEntry, Asleep
  <2>3. StaleInv
    BY <2>2 DEF StaleInv, OneMarker, EditsAlone, EditsExisting, FreshResult, Promised, Marking,
                Writing, Current, At
  <2>4. Known
    BY <2>2 DEF Known
  <2>5. CurrentInv
    BY <2>2 DEF CurrentInv, Aware, ReadCurrent, WroteCurrent, Shown, Reading, Current, Writing, At
  <2> QED BY <2>1, <2>3, <2>4, <2>5
<1>2. Inv /\ [PipelineNext]_pipelineVars => Inv'
  <2> SUFFICES ASSUME Inv, [PipelineNext]_pipelineVars PROVE Inv'
    OBVIOUS
  <2>0. BaseInv
    BY DEF RefInv, BudgetInv, LeaseInv
  <2>1. CallersInv' /\ [PoolNext]_poolVars
    BY <2>0, PipelineStep
  <2>2. RefInv'
    BY <2>1, RefInvInductive, LeaseRespected, RepliesArrive
  <2>3. CASE PipelineNext
    <3>1. Orderly
      BY <2>0, <2>3, PipelineIsOrderly
    <3>2. Known'
      BY <2>0, <3>1, KnownKept
    <3>3. StaleInv'
      BY <2>3, RequestsKeepStaleInv, OthersKeepStaleInv, PatientEdits, MaxAborts = 0,
         LeaseRespected, RepliesArrive DEF PipelineNext
    <3>4. CurrentInv'
      BY <2>3, <3>1, RequestsKeepCurrent, OthersKeepCurrent, OneWorker, PatientEdits,
         MaxAborts = 0, LeaseRespected, RepliesArrive DEF PipelineNext
    <3> QED BY <2>1, <2>2, <3>2, <3>3, <3>4
  <2>4. CASE UNCHANGED pipelineVars
    <3>1. UNCHANGED <<jobs, tail, worker, req, seen, sweeper, entries>>
      BY <2>4 DEF pipelineVars, poolVars
    <3>2. StaleInv'
      BY <3>1 DEF StaleInv, OneMarker, EditsAlone, EditsExisting, FreshResult, Promised, Marking,
                  Writing, Current, At, Exists, Underway, Recomputes, Failed, Active
    <3>3. Known'
      BY <3>1 DEF Known, Exists
    <3>4. CurrentInv'
      BY <3>1 DEF CurrentInv, Aware, ReadCurrent, WroteCurrent, Shown, Reading, Outstanding,
                  Settled, Marking, Writing, Current, At, Exists, Underway, Recomputes, Failed,
                  Active
    <3> QED BY <2>1, <2>2, <3>2, <3>3, <3>4
  <2> QED BY <2>3, <2>4
<1>3. Inv => CompletedIsCurrent
  BY DEF CurrentInv, Shown, CompletedIsCurrent, Outstanding, Marking, Owed, GivenUp, Failed,
         InQueue, Underway, Recomputes
<1> QED BY <1>1, <1>2, <1>3, PTL DEF PipelineSpec
=============================================================================

-------------------------- MODULE BatchJobsProofs --------------------------
(***************************************************************************)
(* Proofs about the batch jobs, for any collection, any number of runs and *)
(* any pipeline beside them.  First the types, and what the guarantees of  *)
(* the worker pool come to in the whole system.  Second, as long as nobody *)
(* edits, whatever interleaving of migrations, reevaluations and           *)
(* enrichment leaves an entry completed leaves it with a result of its own *)
(* core.  Third, whoever edits, fails or dies, and however often it is     *)
(* started, a migration reaches its target when the workers run the target *)
(* version.  Fourth, as long as nobody edits, no migration leaves an entry *)
(* stale without a job, except those that are stranded.                    *)
(***************************************************************************)
EXTENDS BatchJobs, EnrichmentPipelineProofs

-----------------------------------------------------------------------------
(* Types.                                                                  *)

\* A batch as it was fetched: some entries, each as it was then.
Batch == UNION {[S -> Entry] : S \in SUBSET Entries}

Walk == [pc : {"ready", "fetch", "visit", "enqueue", "over"}, read : SUBSET Entries, batch : Batch]

WalkTypeOK ==
  /\ walk \in [Walks -> Walk]
  /\ migrated \subseteq Entries /\ stranded \subseteq Entries

BatchInv == CallersInv /\ BaseInv /\ WalkTypeOK

\* A step of a run that leaves entries and queue alone.
Passing(b) == StartWalk(b) \/ FetchNext(b) \/ LastBatch(b) \/ EndWalk(b) \/ AbortWalk(b)

\* A step of a batch job.
Walking == \E b \in Walks : StartWalk(b) \/ WalkStep(b) \/ AbortWalk(b)

(* The steps of a batch job: it passes over the collection, or handles an  *)
(* entry.                                                                  *)
LEMMA WalkingCases ==
  ASSUME Walking
  PROVE  \/ \E b \in Walks : Passing(b)
         \/ \E b \in Migrations, e \in Entries : MigrationStep(b, e)
         \/ \E b \in Reevaluations, e \in Entries : ReevaluationStep(b, e)
BY DEF Walking, WalkStep, Passing

(* A run that has not started or is over has nothing in hand.              *)
LEMMA NothingInHand == Ready \in Walk /\ Over \in Walk /\ DOMAIN Ready.batch = {} /\ DOMAIN Over.batch = {}
<1>1. NoBatch \in [{} -> Entry] /\ DOMAIN NoBatch = {}
  BY DEF NoBatch
<1>2. NoBatch \in Batch
  BY <1>1 DEF Batch
<1> QED BY <1>1, <1>2 DEF Ready, Over, Walk

(* What a passing step does to the collection, the queue and the run.      *)
LEMMA PassingEffect ==
  ASSUME WalkTypeOK, StoreTypeOK, NEW b \in Walks, Passing(b)
  PROVE  /\ UNCHANGED <<jobs, tail, worker, crashes, entries, req, seen, sweeper,
                        edits, failures, migrated>>
         /\ walk' \in [Walks -> Walk] /\ \A c \in Walks \ {b} : walk'[c] = walk[c]
         /\ \/ StartWalk(b) /\ walk'[b] = [walk[b] EXCEPT !.pc = "fetch"]
            \/ \E e \in Entries :
                 /\ FetchNext(b) /\ NextUnread(b, e)
                 /\ walk'[b].pc \in {"fetch", "visit"} /\ walk'[b].read = walk[b].read \cup {e}
                 /\ DOMAIN walk'[b].batch = DOMAIN walk[b].batch \cup {e}
                 /\ \A f \in DOMAIN walk'[b].batch :
                      walk'[b].batch[f] = IF f = e THEN entries[e] ELSE walk[b].batch[f]
            \/ LastBatch(b) /\ walk'[b] = [walk[b] EXCEPT !.pc = "visit", !.read = Entries]
            \/ (EndWalk(b) \/ AbortWalk(b)) /\ walk'[b] = Over
         /\ aborts' = aborts \/ (aborts < MaxAborts /\ aborts' = aborts + 1)
<1>0. walk \in [Walks -> Walk] /\ walk[b] \in Walk /\ Over \in Walk
  BY NothingInHand DEF WalkTypeOK
<1>1. CASE StartWalk(b)
  <2>1. [walk[b] EXCEPT !.pc = "fetch"] \in Walk
    BY <1>0 DEF Walk
  <2>2. walk' = [walk EXCEPT ![b] = [walk[b] EXCEPT !.pc = "fetch"]]
    BY <1>1 DEF StartWalk
  <2> QED BY <1>0, <1>1, <2>1, <2>2 DEF StartWalk, pipelineVars, poolVars
<1>2. CASE FetchNext(b)
  <2>1. PICK e \in Entries :
          /\ NextUnread(b, e)
          /\ walk' = [walk EXCEPT ![b] =
               [pc    |-> IF Cardinality(DOMAIN walk[b].batch \cup {e}) = BatchSize
                            THEN "visit" ELSE "fetch",
                read  |-> walk[b].read \cup {e},
                batch |-> [f \in DOMAIN walk[b].batch \cup {e} |->
                             IF f = e THEN entries[e] ELSE walk[b].batch[f]]]]
    BY <1>2 DEF FetchNext, Fetched
  <2> DEFINE ids == DOMAIN walk[b].batch \cup {e}
             held == [f \in ids |-> IF f = e THEN entries[e] ELSE walk[b].batch[f]]
             next == IF Cardinality(ids) = BatchSize THEN "visit" ELSE "fetch"
  <2>2. ids \in SUBSET Entries /\ \A f \in DOMAIN walk[b].batch : walk[b].batch[f] \in Entry
    <3>1. PICK S \in SUBSET Entries : walk[b].batch \in [S -> Entry]
      BY <1>0 DEF Walk, Batch
    <3> QED BY <3>1
  <2>3. entries[e] \in Entry
    BY DEF StoreTypeOK
  <2>4. held \in [ids -> Entry]
    BY <2>2, <2>3
  <2>5. held \in Batch
    BY <2>2, <2>4 DEF Batch
  <2>6. next \in {"fetch", "visit"}
    OBVIOUS
  <2>7. /\ DOMAIN held = ids
        /\ \A f \in ids : held[f] = IF f = e THEN entries[e] ELSE walk[b].batch[f]
    OBVIOUS
  <2>8. walk' = [walk EXCEPT ![b] = [pc |-> next, read |-> walk[b].read \cup {e}, batch |-> held]]
    BY <2>1
  <2> HIDE DEF held, next
  <2>9. [pc |-> next, read |-> walk[b].read \cup {e}, batch |-> held] \in Walk
    BY <1>0, <2>5, <2>6 DEF Walk
  <2>10. /\ walk' \in [Walks -> Walk] /\ \A c \in Walks \ {b} : walk'[c] = walk[c]
         /\ walk'[b].pc = next /\ walk'[b].read = walk[b].read \cup {e} /\ walk'[b].batch = held
    BY <1>0, <2>8, <2>9
  <2>11. /\ UNCHANGED <<jobs, tail, worker, crashes, entries, req, seen, sweeper>>
         /\ UNCHANGED <<edits, failures, aborts, migrated>>
    BY <1>2 DEF FetchNext, pipelineVars, poolVars
  <2> QED BY <1>2, <2>1, <2>6, <2>7, <2>10, <2>11
<1>3. CASE LastBatch(b)
  <2>1. [walk[b] EXCEPT !.pc = "visit", !.read = Entries] \in Walk
    BY <1>0 DEF Walk
  <2>2. walk' = [walk EXCEPT ![b] = [walk[b] EXCEPT !.pc = "visit", !.read = Entries]]
    BY <1>0, <1>3 DEF LastBatch
  <2> QED BY <1>0, <1>3, <2>1, <2>2 DEF LastBatch, pipelineVars, poolVars
<1>4. CASE EndWalk(b)
  BY <1>0, <1>4 DEF EndWalk, pipelineVars, poolVars
<1>5. CASE AbortWalk(b)
  BY <1>0, <1>5 DEF AbortWalk, poolVars
<1> QED BY <1>1, <1>2, <1>3, <1>4, <1>5 DEF Passing

(* A passing step strands what its run had marked and owed a job, which    *)
(* happens when the run is aborted, and leaves it owing nothing.           *)
LEMMA PassingStrands ==
  ASSUME WalkTypeOK, StoreTypeOK, NEW b \in Walks, Passing(b)
  PROVE  /\ stranded' = stranded \cup {e \in Entries : Owes(b, e)}
         /\ \A e \in Entries : ~Owes(b, e)'
<1>1. walk'[b].pc \in {"fetch", "visit", "over"}
  <2>1. walk[b] \in Walk
    BY DEF WalkTypeOK
  <2>2. /\ [walk[b] EXCEPT !.pc = "fetch"].pc = "fetch"
        /\ [walk[b] EXCEPT !.pc = "visit", !.read = Entries].pc = "visit" /\ Over.pc = "over"
    BY <2>1 DEF Walk, Over
  <2>3. \/ walk'[b] = [walk[b] EXCEPT !.pc = "fetch"]
        \/ \E e \in Entries : walk'[b].pc \in {"fetch", "visit"} /\ NextUnread(b, e)
        \/ walk'[b] = [walk[b] EXCEPT !.pc = "visit", !.read = Entries]
        \/ walk'[b] = Over
    BY PassingEffect
  <2> QED BY <2>2, <2>3
<1>2. stranded' = stranded \cup {e \in Entries : Owes(b, e)}
  BY DEF Passing, StartWalk, FetchNext, LastBatch, EndWalk, AbortWalk, Owes
<1> QED BY <1>1, <1>2 DEF Owes

(* What has been fetched is some entries, as they were.                    *)
LEMMA FetchedEntries ==
  ASSUME WalkTypeOK, NEW b \in Walks
  PROVE  /\ DOMAIN walk[b].batch \in SUBSET Entries
         /\ walk[b].batch \in [DOMAIN walk[b].batch -> Entry]
<1>1. walk[b] \in Walk
  BY DEF WalkTypeOK
<1>2. walk[b].batch \in Batch
  BY <1>1 DEF Walk
<1> QED BY <1>2 DEF Batch

(* Leaving an entry behind keeps the other entries of the batch as fetched.*)
LEMMA DoneEffect ==
  ASSUME WalkTypeOK, NEW b \in Walks, NEW e \in Entries, Done(b, e)
  PROVE  /\ walk' \in [Walks -> Walk]
         /\ \A c \in Walks :
              /\ DOMAIN walk'[c].batch \subseteq DOMAIN walk[c].batch
              /\ \A f \in DOMAIN walk'[c].batch : walk'[c].batch[f] = walk[c].batch[f]
              /\ c # b => walk'[c] = walk[c]
         /\ walk'[b].read = walk[b].read /\ walk'[b].pc \in {"fetch", "visit"}
         /\ DOMAIN walk'[b].batch = DOMAIN walk[b].batch \ {e}
<1> DEFINE rest == DOMAIN walk[b].batch \ {e}
           left == [f \in rest |-> walk[b].batch[f]]
           next == IF rest = {} THEN "fetch" ELSE "visit"
<1>1. PICK S \in SUBSET Entries : walk[b].batch \in [S -> Entry]
  BY FetchedEntries
<1>2. left \in [rest -> Entry] /\ rest \in SUBSET Entries
  BY <1>1
<1>3. left \in Batch /\ DOMAIN left = rest /\ \A f \in rest : left[f] = walk[b].batch[f]
  BY <1>2 DEF Batch
<1>4. walk' = [walk EXCEPT ![b].pc = next, ![b].batch = left]
  BY DEF Done
<1>5. next \in {"fetch", "visit"}
  OBVIOUS
<1> HIDE DEF left, next
<1>6. /\ walk'[b] = [walk[b] EXCEPT !.pc = next, !.batch = left]
      /\ \A c \in Walks \ {b} : walk'[c] = walk[c]
      /\ DOMAIN walk' = Walks /\ walk' = [c \in Walks |-> walk'[c]]
  BY <1>4 DEF WalkTypeOK
<1>7. walk[b] \in Walk
  BY DEF WalkTypeOK
<1>8. /\ walk'[b] \in Walk /\ walk'[b].batch = left
      /\ walk'[b].read = walk[b].read /\ walk'[b].pc \in {"fetch", "visit"}
  BY <1>3, <1>5, <1>6, <1>7 DEF Walk
<1>9. walk' \in [Walks -> Walk]
  BY <1>6, <1>8 DEF WalkTypeOK
<1> QED BY <1>3, <1>6, <1>8, <1>9

(* The collection earlier releases left is well formed.                    *)
LEMMA BatchInitInv ==
  ASSUME BatchInit
  PROVE  BatchInv
<1> USE StoreAssumption, PipelineAssumption
<1>1. PICK S \in SUBSET Entries : Inherited(S)
  BY DEF BatchInit
<1>2. PICK v \in [S -> Versions \cup {None}], c \in [S -> Cores] :
        entries = [e \in Entries |->
                     IF e \notin S
                       THEN [NewEntry(CHOOSE d \in Cores : TRUE) EXCEPT !.exists = FALSE]
                     ELSE IF v[e] = None
                       THEN NewEntry(c[e])
                       ELSE [NewEntry(c[e]) EXCEPT !.status = "completed", !.model = v[e],
                                                   !.risk = c[e], !.vectors = c[e]]]
  BY <1>1 DEF Inherited
<1>3. (CHOOSE d \in Cores : TRUE) \in Cores
  BY DEF StoreAssumption
<1>4. ASSUME NEW e \in Entries PROVE entries[e] \in Entry
  <2>1. CASE e \notin S
    BY <1>2, <1>3, <2>1 DEF NewEntry, Entry, Statuses
  <2>2. CASE e \in S
    <3>1. v[e] \in Versions \cup {None} /\ c[e] \in Cores
      BY <2>2
    <3> QED BY <1>2, <2>2, <3>1 DEF NewEntry, Entry, Statuses
  <2> QED BY <2>1, <2>2
<1>5. StoreTypeOK
  BY <1>2, <1>4 DEF StoreTypeOK
<1>6. /\ req \in [Requests -> Handler] /\ InHand
  BY DEF BatchInit, CallersInit, Free, Handler, InHand
<1>7. CallersInv
  BY <1>5, <1>6 DEF BatchInit, CallersInit, CallersInv, CallersTypeOK, Asleep
<1>8. WalkTypeOK
  BY NothingInHand DEF BatchInit, WalkTypeOK
<1> QED BY <1>7, <1>8, BaseInvInductive DEF BatchInit, BatchInv

(* The steps of the batch jobs are steps of the pool, or leave it alone.   *)
LEMMA WalkSteps ==
  ASSUME BatchInv, Walking
  PROVE  CallersInv' /\ WalkTypeOK' /\ [PoolNext]_poolVars
<1> USE StoreAssumption, PipelineAssumption, BatchAssumption
<1>0. /\ CallersInv /\ CallersTypeOK /\ InHand /\ StoreTypeOK /\ WalkTypeOK
      /\ "model_migration" \in Reasons /\ Target \in Versions
      /\ Migrations \subseteq Walks /\ Reevaluations \subseteq Walks
  BY DEF BatchInv, CallersInv, CallersTypeOK, Reasons, BatchAssumption, Walks
<1>1. ASSUME NEW b \in Walks, Passing(b)
      PROVE  CallersInv' /\ WalkTypeOK' /\ [PoolNext]_poolVars
  <2>1. /\ UNCHANGED <<jobs, tail, worker, crashes, entries, req, seen, sweeper>>
        /\ UNCHANGED <<edits, failures, migrated>> /\ walk' \in [Walks -> Walk]
        /\ aborts' = aborts \/ (aborts < MaxAborts /\ aborts' = aborts + 1)
    BY <1>0, <1>1, PassingEffect
  <2>2. stranded' \subseteq Entries
    BY <1>0, <1>1, PassingStrands DEF WalkTypeOK
  <2>3. aborts' \in 0..MaxAborts
    BY <1>0, <2>1 DEF CallersTypeOK
  <2>4. CallersInv'
    BY <1>0, <2>1, <2>3 DEF CallersInv, CallersTypeOK, StoreTypeOK, InHand
  <2> QED BY <1>0, <2>1, <2>2, <2>4 DEF WalkTypeOK, poolVars
<1>2. ASSUME NEW b \in Walks, NEW e \in Entries, MigrateSkip(b, e) \/ ReevaluateSkip(b, e)
      PROVE  CallersInv' /\ WalkTypeOK' /\ [PoolNext]_poolVars
  <2>1. walk' \in [Walks -> Walk]
    BY <1>0, <1>2, DoneEffect DEF MigrateSkip, ReevaluateSkip
  <2> QED BY <1>0, <1>2, <2>1 DEF MigrateSkip, ReevaluateSkip, PipelineIdle, WalkTypeOK, poolVars,
                                 queueVars, CallersInv, CallersTypeOK, StoreTypeOK, InHand
<1>3. ASSUME NEW b \in Walks, NEW e \in Entries, MigrateMark(b, e)
      PROVE  CallersInv' /\ WalkTypeOK' /\ [PoolNext]_poolVars
  <2>1. StoreTypeOK'
    BY <1>0, <1>3, StoreSteps DEF MigrateMark
  <2>2. walk' \in [Walks -> Walk]
    BY <1>0, <1>3 DEF MigrateMark, WalkTypeOK, Walk
  <2> QED BY <1>0, <1>3, <2>1, <2>2 DEF MigrateMark, PipelineIdle, WalkTypeOK, poolVars, queueVars,
                                       CallersInv, CallersTypeOK, InHand
<1>4. ASSUME NEW b \in Walks, NEW e \in Entries, MigrateEnqueue(b, e)
      PROVE  CallersInv' /\ WalkTypeOK' /\ [PoolNext]_poolVars
  <2>1. walk' \in [Walks -> Walk]
    BY <1>0, <1>4, DoneEffect DEF MigrateEnqueue
  <2>2. Submit
    BY <1>0, <1>4 DEF MigrateEnqueue, Submit, PipelineIdle
  <2> QED BY <1>0, <1>4, <2>1, <2>2 DEF MigrateEnqueue, PipelineIdle, WalkTypeOK, PoolNext,
                                       CallersInv, CallersTypeOK, StoreTypeOK, InHand
<1>5. ASSUME NEW b \in Walks, NEW e \in Entries, ReevaluateRiskOnly(b, e)
      PROVE  CallersInv' /\ WalkTypeOK' /\ [PoolNext]_poolVars
  <2>1. walk' \in [Walks -> Walk]
    BY <1>0, <1>5, DoneEffect DEF ReevaluateRiskOnly
  <2>2. walk[b].batch[e].core \in Cores
    <3>1. walk[b].batch[e] \in Entry
      BY <1>0, <1>5, FetchedEntries DEF ReevaluateRiskOnly, NextInBatch
    <3> QED BY <3>1 DEF Entry
  <2>3. StoreTypeOK'
    <3>1. entries[e] \in Entry
      BY <1>0 DEF StoreTypeOK
    <3>2. [entries[e] EXCEPT !.status = "completed", !.reason = None,
                             !.risk = walk[b].batch[e].core] \in Entry
      BY <2>2, <3>1 DEF Entry, Statuses
    <3>3. entries' = [entries EXCEPT ![e] =
                        [entries[e] EXCEPT !.status = "completed", !.reason = None,
                                           !.risk = walk[b].batch[e].core]]
      BY <1>5 DEF ReevaluateRiskOnly, SetRiskOnly
    <3> QED BY <1>0, <3>2, <3>3 DEF StoreTypeOK
  <2> QED BY <1>0, <1>5, <2>1, <2>3 DEF ReevaluateRiskOnly, PipelineIdle, WalkTypeOK, poolVars,
                                       queueVars, CallersInv, CallersTypeOK, InHand
<1> QED BY <1>0, <1>1, <1>2, <1>3, <1>4, <1>5, WalkingCases DEF MigrationStep, ReevaluationStep

(* The types are kept by pipeline and batch jobs alike.                    *)
LEMMA BatchInvInductive ==
  ASSUME BatchInv, [BatchNext]_batchVars
  PROVE  BatchInv' /\ [PoolNext]_poolVars
<1>1. ASSUME PipelineNext, NoWalk PROVE BatchInv' /\ [PoolNext]_poolVars
  <2>1. WalkTypeOK'
    BY <1>1 DEF BatchInv, WalkTypeOK, NoWalk
  <2> QED BY <1>1, <2>1, PipelineStep DEF BatchInv
<1>2. CASE Walking
  BY <1>2, WalkSteps, BaseInvInductive DEF BatchInv
<1>3. CASE UNCHANGED batchVars
  <2>1. UNCHANGED pipelineVars /\ NoWalk
    BY <1>3 DEF batchVars, NoWalk
  <2>2. WalkTypeOK'
    BY <2>1 DEF BatchInv, WalkTypeOK, NoWalk
  <2> QED BY <2>1, <2>2, PipelineStep DEF BatchInv
<1> QED BY <1>1, <1>2, <1>3 DEF BatchNext, Walking

(* With the batch jobs beside it, the queue still sees the worker pool and *)
(* nothing else: the pool's theorems hold here too.                        *)
THEOREM BatchRunsPool == BatchSpec => PoolSpec
<1>1. BatchInit => BatchInv /\ PoolInit
  BY BatchInitInv DEF BatchInit
<1> QED BY <1>1, BatchInvInductive, PTL DEF BatchSpec, PoolSpec

(* Whatever runs beside the queue, no two jobs that are pending or         *)
(* processing share an idempotency key (the partial index of               *)
(* QueueJobModel.ts), and every processing job stays visible to the        *)
(* reaper.                                                                 *)
THEOREM BatchQueueCorrect == BatchSpec => [](UniqueActiveKey /\ LockedIffProcessing)
<1>1. BatchInv => UniqueActiveKey /\ LockedIffProcessing
  BY DEF BatchInv, BaseInv, QueueInv
<1>2. BatchInit => BatchInv
  BY BatchInitInv
<1>3. BatchInv /\ [BatchNext]_batchVars => BatchInv'
  BY BatchInvInductive
<1> QED BY <1>1, <1>2, <1>3, PTL DEF BatchSpec

(* With leases respected, the guarantees of the worker pool are those of   *)
(* the whole system: one worker per job under a lock of its own, attempts  *)
(* within the budget, and no job given up early.                           *)
THEOREM BatchWorkersExclusive ==
  ASSUME LeaseRespected
  PROVE  BatchSpec => [](MutualExclusion /\ LeaseHeld /\ RetryBudget /\ FailedExhausted)
<1>1. PoolSpec => [](MutualExclusion /\ LeaseHeld)
  BY LeaseRespected, PoolMutualExclusion
<1>2. PoolSpec => [](RetryBudget /\ FailedExhausted)
  BY LeaseRespected, PoolRetryBudget
<1> QED BY <1>1, <1>2, BatchRunsPool, PTL

(* With replies that arrive as well, requests, batch jobs, sweeper and     *)
(* workers together implement TaskLifecycle: whatever enqueues a job, it   *)
(* is waited for, run by one worker at a time, recovered from a worker     *)
(* that died, and ends done or dead.                                       *)
THEOREM BatchKeepsPromise ==
  ASSUME LeaseRespected, RepliesArrive
  PROVE  BatchSpec => KeepsPromise
<1>1. PoolSpec => KeepsPromise
  BY LeaseRespected, RepliesArrive, PoolKeepsPromise
<1> QED BY <1>1, BatchRunsPool, PTL

(* Every variable keeps its type while the batch jobs run.                 *)
THEOREM BatchTypeCorrect == BatchSpec => []BatchTypeOK
<1>1. BatchInit => BatchInv
  BY BatchInitInv
<1>2. BatchInv /\ [BatchNext]_batchVars => BatchInv'
  BY BatchInvInductive
<1>3. BatchInv => BatchTypeOK
  <2> SUFFICES ASSUME BatchInv PROVE BatchTypeOK
    OBVIOUS
  <2>1. PipelineTypeOK
    BY DEF BatchInv, CallersInv, CallersTypeOK, BaseInv, PipelineTypeOK
  <2>2. ASSUME NEW b \in Walks
        PROVE  /\ walk[b].pc \in {"ready", "fetch", "visit", "enqueue", "over"}
               /\ walk[b].read \subseteq Entries
               /\ DOMAIN walk[b].batch \subseteq Entries
               /\ \A e \in DOMAIN walk[b].batch : walk[b].batch[e] \in Entry
    <3>1. walk[b] \in Walk /\ WalkTypeOK
      BY DEF BatchInv, WalkTypeOK
    <3> QED BY <3>1, FetchedEntries DEF Walk
  <2> QED BY <2>1, <2>2 DEF BatchInv, WalkTypeOK, BatchTypeOK
<1> QED BY <1>1, <1>2, <1>3, PTL DEF BatchSpec

-----------------------------------------------------------------------------
(* What the batch jobs remember exists too, and stays as it was fetched.   *)

Remembered == Known /\ \A b \in Walks : \A e \in DOMAIN walk[b].batch : Exists(e)

BatchesStill ==
  \A b \in Walks : \A e \in DOMAIN walk'[b].batch :
    /\ e \in Entries
    /\ \/ e \in DOMAIN walk[b].batch /\ walk'[b].batch[e] = walk[b].batch[e]
       \/ Exists(e) /\ walk'[b].batch[e] = entries[e]

(* The batch jobs enqueue entries that exist, and fetch such.              *)
LEMMA WalksAreOrderly ==
  ASSUME BatchInv, Remembered, Walking
  PROVE  Orderly /\ BatchesStill
<1> USE QueueAssumption, BatchAssumption
<1>0. /\ QueueTypeOK /\ StoreTypeOK /\ WalkTypeOK
      /\ Target \in Versions /\ "model_migration" \in Reasons
      /\ Migrations \subseteq Walks /\ Reevaluations \subseteq Walks
      /\ \A c \in Walks : \A e \in DOMAIN walk[c].batch : e \in Entries /\ Exists(e)
  BY FetchedEntries DEF BatchInv, BaseInv, PoolTypeOK, CallersInv, CallersTypeOK, Remembered,
     BatchAssumption, Reasons, Walks
<1>1. UNCHANGED <<req, sweeper>> => HandlersStill /\ SweepersStill
  BY StandingStill DEF BatchInv, Remembered
<1>2. ASSUME NEW c \in Walks, NEW e \in Entries, Done(c, e) PROVE BatchesStill
  BY <1>0, <1>2, DoneEffect DEF BatchesStill
<1>3. ASSUME NEW b \in Walks, Passing(b) PROVE Orderly /\ BatchesStill
  <2>1. UNCHANGED <<jobs, tail, entries, req, sweeper>> /\ UNCHANGED queueVars
    BY <1>0, <1>3, PassingEffect DEF queueVars
  <2>2. \A c \in Walks \ {b} : walk'[c] = walk[c]
    BY <1>0, <1>3, PassingEffect
  <2>3. ASSUME NEW e \in DOMAIN walk'[b].batch
        PROVE  /\ e \in Entries
               /\ \/ e \in DOMAIN walk[b].batch /\ walk'[b].batch[e] = walk[b].batch[e]
                  \/ Exists(e) /\ walk'[b].batch[e] = entries[e]
    <3>1. CASE walk'[b].batch = walk[b].batch
      BY <1>0, <2>3, <3>1
    <3>2. CASE walk'[b] = Over
      BY <2>3, <3>2, NothingInHand
    <3>3. ASSUME NEW n \in Entries, NextUnread(b, n),
                 DOMAIN walk'[b].batch = DOMAIN walk[b].batch \cup {n},
                 \A f \in DOMAIN walk'[b].batch :
                   walk'[b].batch[f] = IF f = n THEN entries[n] ELSE walk[b].batch[f]
          PROVE  /\ e \in Entries
                 /\ \/ e \in DOMAIN walk[b].batch /\ walk'[b].batch[e] = walk[b].batch[e]
                    \/ Exists(e) /\ walk'[b].batch[e] = entries[e]
      <4>1. Exists(n)
        BY <3>3 DEF NextUnread, Unread
      <4> QED BY <1>0, <2>3, <3>3, <4>1
    <3>4. walk[b] \in Walk
      BY <1>0 DEF WalkTypeOK
    <3>5. \/ walk'[b].batch = walk[b].batch \/ walk'[b] = Over
          \/ \E n \in Entries :
               /\ NextUnread(b, n) /\ DOMAIN walk'[b].batch = DOMAIN walk[b].batch \cup {n}
               /\ \A f \in DOMAIN walk'[b].batch :
                    walk'[b].batch[f] = IF f = n THEN entries[n] ELSE walk[b].batch[f]
      <4>1. \/ walk'[b] = [walk[b] EXCEPT !.pc = "fetch"]
            \/ walk'[b] = [walk[b] EXCEPT !.pc = "visit", !.read = Entries]
            \/ walk'[b] = Over
            \/ \E n \in Entries :
                 /\ NextUnread(b, n) /\ DOMAIN walk'[b].batch = DOMAIN walk[b].batch \cup {n}
                 /\ \A f \in DOMAIN walk'[b].batch :
                      walk'[b].batch[f] = IF f = n THEN entries[n] ELSE walk[b].batch[f]
        BY <1>0, <1>3, PassingEffect
      <4>2. /\ [walk[b] EXCEPT !.pc = "fetch"].batch = walk[b].batch
            /\ [walk[b] EXCEPT !.pc = "visit", !.read = Entries].batch = walk[b].batch
        BY <3>4 DEF Walk
      <4> QED BY <4>1, <4>2
    <3>6. CASE \E n \in Entries :
                 /\ NextUnread(b, n) /\ DOMAIN walk'[b].batch = DOMAIN walk[b].batch \cup {n}
                 /\ \A f \in DOMAIN walk'[b].batch :
                      walk'[b].batch[f] = IF f = n THEN entries[n] ELSE walk[b].batch[f]
      <4>1. PICK n \in Entries :
              /\ NextUnread(b, n) /\ DOMAIN walk'[b].batch = DOMAIN walk[b].batch \cup {n}
              /\ \A f \in DOMAIN walk'[b].batch :
                   walk'[b].batch[f] = IF f = n THEN entries[n] ELSE walk[b].batch[f]
        BY <3>6
      <4> QED BY <3>3, <4>1
    <3> QED BY <3>1, <3>2, <3>5, <3>6
  <2>4. BatchesStill
    BY <1>0, <2>2, <2>3 DEF BatchesStill
  <2> QED BY <1>0, <1>1, <2>1, <2>4, EntriesGrow, CommandsAreSlotted DEF Orderly
<1>4. ASSUME NEW b \in Walks, NEW e \in Entries,
             MigrateSkip(b, e) \/ MigrateEnqueue(b, e) \/ ReevaluateSkip(b, e)
      PROVE  Orderly /\ BatchesStill
  <2>1. NextInBatch(b, e) /\ Done(b, e) /\ UNCHANGED <<req, sweeper>>
    BY <1>4 DEF MigrateSkip, MigrateEnqueue, ReevaluateSkip, Owes, PipelineIdle
  <2>2. Exists(e)
    BY <1>0, <2>1 DEF NextInBatch
  <2>3. UNCHANGED entries /\ (UNCHANGED queueVars \/ Enqueue(e, "model_migration", Target))
    BY <1>4 DEF MigrateSkip, MigrateEnqueue, ReevaluateSkip
  <2>4. Slotted
    BY <1>0, <2>2, <2>3, CommandsAreSlotted
  <2> QED BY <1>0, <1>1, <1>2, <2>1, <2>3, <2>4, EntriesGrow DEF Orderly
<1>5. ASSUME NEW b \in Walks, NEW e \in Entries, MigrateMark(b, e) PROVE Orderly /\ BatchesStill
  <2>1. /\ MarkIntelligenceStale(e, "model_migration") /\ UNCHANGED queueVars
        /\ walk' = [walk EXCEPT ![b].pc = "enqueue"] /\ UNCHANGED <<req, sweeper>>
    BY <1>5 DEF MigrateMark, PipelineIdle
  <2>2. BatchesStill
    BY <1>0, <2>1 DEF BatchesStill, WalkTypeOK, Walk
  <2> QED BY <1>0, <1>1, <2>1, <2>2, EntriesGrow, CommandsAreSlotted DEF Orderly
<1>6. ASSUME NEW b \in Walks, NEW e \in Entries, ReevaluateRiskOnly(b, e)
      PROVE  Orderly /\ BatchesStill
  <2>1. /\ SetRiskOnly(e, walk[b].batch[e].core) /\ Done(b, e)
        /\ UNCHANGED queueVars /\ UNCHANGED <<req, sweeper>>
    BY <1>6 DEF ReevaluateRiskOnly, PipelineIdle
  <2> QED BY <1>0, <1>1, <1>2, <2>1, EntriesGrow, CommandsAreSlotted DEF Orderly
<1> QED BY <1>0, <1>3, <1>4, <1>5, <1>6, WalkingCases DEF MigrationStep, ReevaluationStep

(* Whatever runs, what is remembered exists.                               *)
LEMMA RememberedKept ==
  ASSUME BatchInv, Remembered, (PipelineNext /\ NoWalk) \/ Walking
  PROVE  Orderly /\ BatchesStill /\ Remembered'
<1>1. Orderly /\ BatchesStill
  <2>1. CASE PipelineNext /\ NoWalk
    <3>1. Orderly
      BY <2>1, PipelineIsOrderly DEF BatchInv, Remembered
    <3>2. BatchesStill
      BY <2>1, FetchedEntries DEF NoWalk, BatchesStill, BatchInv
    <3> QED BY <3>1, <3>2
  <2> QED BY <2>1, WalksAreOrderly
<1>2. Known'
  BY <1>1, KnownKept DEF BatchInv, Remembered
<1>3. \A b \in Walks : \A e \in DOMAIN walk'[b].batch : Exists(e)'
  BY <1>1 DEF BatchesStill, Orderly, Grown, Remembered
<1> QED BY <1>1, <1>2, <1>3 DEF Remembered

(* At the start nobody remembers anything.                                 *)
LEMMA RememberedInit ==
  ASSUME BatchInit
  PROVE  Remembered
BY NothingInHand DEF BatchInit, CallersInit, Free, Asleep, PoolInit, QueueInit, Known, Remembered

-----------------------------------------------------------------------------
(* What is completed is of the entry's own core while nobody edits: a core *)
(* is then fixed once its entry exists, so what a worker or a batch        *)
(* computes from is the core the entry still has.                          *)

NoEdits == \A r \in Requests : req[r].pc \in {"free", "admit", "enqueue"}

\* What a worker has read, and a batch has fetched, is still so.
StillSo ==
  /\ \A w \in Workers : At(w, "read") => seen[w] = entries[jobs[worker[w].job].entry].core
  /\ \A b \in Walks : \A e \in DOMAIN walk[b].batch :
       /\ walk[b].batch[e].core = entries[e].core
       /\ walk[b].batch[e].vectors # None => entries[e].vectors # None

OfItsCore ==
  \A e \in Entries :
    /\ entries[e].vectors \in {None, entries[e].core}
    /\ entries[e].status = "completed" =>
         entries[e].vectors = entries[e].core /\ entries[e].risk = entries[e].core

ValidInv == Remembered /\ NoEdits /\ StillSo /\ OfItsCore

\* Existing entries keep their core, and the embeddings they once got.
Kept ==
  \A e \in Entries : Exists(e) =>
    /\ entries'[e].core = entries[e].core
    /\ entries[e].vectors # None => entries'[e].vectors # None

\* A worker that has read an entry has done so now or is still to use it.
WorkersStill ==
  \A w \in Workers : At(w, "read")' =>
    /\ Busy(w) /\ worker'[w].job = worker[w].job
    /\ \/ At(w, "read") /\ seen'[w] = seen[w]
       \/ seen'[w] = entries[jobs[worker[w].job].entry].core

(* The updates of an entry, when what is written was computed from its     *)
(* present core.                                                           *)
LEMMA EntriesKept ==
  ASSUME StoreTypeOK, StoreAssumption, OfItsCore
  PROVE  /\ UNCHANGED entries => Kept /\ OfItsCore'
         /\ \A e \in Entries, c \in Cores : ~Exists(e) /\ Create(e, c) => Kept /\ OfItsCore'
         /\ \A e \in Entries, v \in Versions :
              SetIntelligence(e, entries[e].core, v) => Kept /\ OfItsCore'
         /\ \A e \in Entries : entries[e].vectors # None /\ SetRiskOnly(e, entries[e].core)
              => Kept /\ OfItsCore'
         /\ \A e \in Entries, r \in Reasons : MarkIntelligenceStale(e, r) => Kept /\ OfItsCore'
<1> USE DEF Kept, OfItsCore, Exists
<1>0. /\ entries \in [Entries -> Entry]
      /\ \A e \in Entries : entries[e].core \in Cores /\ entries[e].core # None
  BY DEF StoreTypeOK, Entry, StoreAssumption
<1>1. ASSUME UNCHANGED entries PROVE Kept /\ OfItsCore'
  BY <1>1
<1>2. ASSUME NEW e \in Entries, NEW c \in Cores, ~Exists(e), Create(e, c)
      PROVE  Kept /\ OfItsCore'
  BY <1>0, <1>2 DEF Create, NewEntry
<1>3. ASSUME NEW e \in Entries, NEW v \in Versions, SetIntelligence(e, entries[e].core, v)
      PROVE  Kept /\ OfItsCore'
  BY <1>0, <1>3 DEF SetIntelligence, Entry
<1>4. ASSUME NEW e \in Entries, entries[e].vectors # None, SetRiskOnly(e, entries[e].core)
      PROVE  Kept /\ OfItsCore'
  BY <1>0, <1>4 DEF SetRiskOnly, Entry
<1>5. ASSUME NEW e \in Entries, NEW r \in Reasons, MarkIntelligenceStale(e, r)
      PROVE  Kept /\ OfItsCore'
  BY <1>0, <1>5 DEF MarkIntelligenceStale, Entry
<1> QED BY <1>1, <1>2, <1>3, <1>4, <1>5

(* An orderly step without edits that keeps the entries, and in which      *)
(* workers and batches behave, keeps the invariant.                        *)
LEMMA ValidKept ==
  ASSUME BatchInv, ValidInv, Orderly, BatchesStill, Remembered', NoEdits', WorkersStill,
         Kept, OfItsCore'
  PROVE  ValidInv'
<1>1. ASSUME NEW w \in Workers, At(w, "read")'
      PROVE  seen'[w] = entries'[jobs'[worker'[w].job].entry].core
  <2>0. 1..tail \subseteq JobIds /\ QueueTypeOK /\ OnFilledSlot
    BY QueueAssumption DEF BatchInv, BaseInv, PoolTypeOK, QueueTypeOK, JobIds
  <2>1. Busy(w) /\ worker'[w].job = worker[w].job /\ worker[w].job \in 1..tail
    BY <1>1, <2>0 DEF WorkersStill, OnFilledSlot
  <2>2. seen'[w] = entries[jobs[worker[w].job].entry].core
    BY <1>1 DEF WorkersStill, ValidInv, StillSo
  <2>3. /\ jobs'[worker[w].job].entry = jobs[worker[w].job].entry
        /\ jobs[worker[w].job].entry \in Entries /\ Exists(jobs[worker[w].job].entry)
    BY <2>0, <2>1 DEF Orderly, Slotted, ValidInv, Remembered, Known, QueueTypeOK, Job
  <2> QED BY <2>1, <2>2, <2>3 DEF Kept
<1>2. ASSUME NEW b \in Walks, NEW e \in DOMAIN walk'[b].batch
      PROVE  /\ walk'[b].batch[e].core = entries'[e].core
             /\ walk'[b].batch[e].vectors # None => entries'[e].vectors # None
  BY DEF BatchesStill, Kept, ValidInv, StillSo, Remembered
<1> QED BY <1>1, <1>2 DEF ValidInv, StillSo

(* Handlers' steps: without edits they only create and enqueue.            *)
LEMMA RequestsKeepValid ==
  ASSUME MaxEdits = 0, BatchInv, ValidInv, NEW r \in Requests,
         CreateEntry(r) \/ ReadForEdit(r) \/ RequestStep(r) \/ AbortRequest(r)
  PROVE  Kept /\ OfItsCore' /\ NoEdits' /\ WorkersStill
<1> USE StoreAssumption DEF OthersIdle
<1>0. /\ StoreTypeOK /\ OfItsCore /\ req \in [Requests -> Handler] /\ edits \in 0..MaxEdits
      /\ NoEdits /\ req[r].pc \in {"free", "admit", "enqueue"}
  BY DEF BatchInv, CallersInv, CallersTypeOK, ValidInv, NoEdits
<1>1. WorkersStill
  <2>1. UNCHANGED <<worker, seen>>
    BY DEF CreateEntry, ReadForEdit, RequestStep, AbortRequest, Admit, EnqueueCreated,
           WriteCore, Conflict, MarkStale, EnqueueChange
  <2> QED BY <2>1 DEF WorkersStill, At, Busy
<1>2. CASE CreateEntry(r)
  <2>1. PICK e \in Entries, c \in Cores :
          /\ ~Exists(e) /\ Create(e, c)
          /\ req' = [req EXCEPT ![r] = [Free EXCEPT !.pc = "admit", !.entry = e]]
    BY <1>2 DEF CreateEntry
  <2>2. req'[r].pc = "admit" /\ \A s \in Requests \ {r} : req'[s] = req[s]
    BY <1>0, <2>1 DEF Free
  <2>3. NoEdits'
    BY <1>0, <2>2 DEF NoEdits
  <2> QED BY <1>0, <1>1, <2>1, <2>3, EntriesKept
<1>3. CASE Admit(r) \/ EnqueueCreated(r) \/ AbortRequest(r)
  <2>1. /\ req'[r].pc \in {"free", "enqueue"} /\ \A s \in Requests \ {r} : req'[s] = req[s]
        /\ UNCHANGED entries
    BY <1>0, <1>3 DEF Admit, EnqueueCreated, AbortRequest, Advance, Return, Free, Handler
  <2> QED BY <1>0, <1>1, <2>1, EntriesKept DEF NoEdits
<1>4. ~ReadForEdit(r)
  BY <1>0, MaxEdits = 0 DEF ReadForEdit
<1>5. ~(WriteCore(r) \/ Conflict(r) \/ MarkStale(r) \/ EnqueueChange(r))
  BY <1>0 DEF WriteCore, Conflict, MarkStale, EnqueueChange
<1> QED BY <1>2, <1>3, <1>4, <1>5 DEF RequestStep

(* The other steps of the pipeline: what is written was computed from the  *)
(* core read.                                                              *)
LEMMA OthersKeepValid ==
  ASSUME BatchInv, ValidInv,
         \/ \E w \in Workers :
              \/ PipelineWorker(w) \/ WorkerDies(w) \/ LeaseLost(w)
              \/ Sweep(w) \/ SweepThrows(w)
         \/ LockTime
  PROVE  Kept /\ OfItsCore' /\ NoEdits' /\ WorkersStill
<1> USE StoreAssumption, PipelineAssumption DEF RequestsIdle
<1>0. /\ StoreTypeOK /\ OfItsCore /\ NoEdits /\ WorkerVersion \in Versions
      /\ worker \in [Workers -> [pc : Steps, job : JobIds \cup {NoJob}]]
      /\ seen \in [Workers -> Cores \cup {None}]
      /\ \A w \in Workers : Busy(w) => jobs[worker[w].job].entry \in Entries
  BY QueueAssumption DEF BatchInv, BaseInv, PoolTypeOK, CallersInv, CallersTypeOK, ValidInv,
     PipelineAssumption, OnFilledSlot, QueueTypeOK, JobIds, Job
<1>1. NoEdits'
  BY <1>0 DEF NoEdits, PipelineWorker, LoopStep, EnrichRead, EnrichWrite, EnrichThrows,
     WorkerDies, LeaseLost, LockTime, Sweep, SweepReclaim, SweepScan, SweepEnqueue, SweepThrows
<1>2. ASSUME NEW w \in Workers, LoopStep(w) PROVE Kept /\ OfItsCore' /\ WorkersStill
  <2>1. UNCHANGED <<entries, seen>>
    BY <1>2 DEF LoopStep
  <2>2. \/ Rest(w)
        \/ \E s \in Steps \ {"read"} : Move(w, s)
        \/ \E j \in JobIds : worker' = [worker EXCEPT ![w] = [pc |-> "claimed", job |-> j]]
    BY <1>2 DEF LoopStep, ClaimJob, CompleteJob, LoseCompleteReply, FailLookup, RequeueJob,
                BuryJob, Steps
  <2>3. WorkersStill
    BY <1>0, <2>1, <2>2 DEF WorkersStill, Rest, Idle, Move, At, Busy
  <2> QED BY <1>0, <2>1, <2>3, EntriesKept
<1>3. ASSUME NEW w \in Workers, EnrichRead(w) PROVE Kept /\ OfItsCore' /\ WorkersStill
  <2>1. /\ UNCHANGED entries /\ Busy(w) /\ Move(w, "read")
        /\ seen' = [seen EXCEPT ![w] = entries[jobs[worker[w].job].entry].core]
    BY <1>3 DEF EnrichRead, ReadEntry, At, Busy
  <2>2. WorkersStill
    BY <1>0, <2>1 DEF WorkersStill, Move, At, Busy
  <2> QED BY <1>0, <2>1, <2>2, EntriesKept
<1>4. ASSUME NEW w \in Workers, EnrichWrite(w) PROVE Kept /\ OfItsCore' /\ WorkersStill
  <2>1. PICK e \in Entries : e = jobs[worker[w].job].entry
    BY <1>0, <1>4 DEF EnrichWrite, WriteResult, At, Busy
  <2>2. /\ At(w, "read") /\ Move(w, "wrote")
        /\ seen' = [seen EXCEPT ![w] = None] /\ SetIntelligence(e, seen[w], WorkerVersion)
    BY <1>4, <2>1 DEF EnrichWrite, WriteResult
  <2>3. seen[w] = entries[e].core
    BY <2>1, <2>2 DEF ValidInv, StillSo
  <2>4. WorkersStill
    BY <1>0, <2>2 DEF WorkersStill, Move, At, Busy
  <2> QED BY <1>0, <2>2, <2>3, <2>4, EntriesKept
<1>5. ASSUME NEW w \in Workers, EnrichThrows(w) \/ WorkerDies(w)
      PROVE  Kept /\ OfItsCore' /\ WorkersStill
  <2>1. /\ UNCHANGED entries /\ seen' = [seen EXCEPT ![w] = None]
        /\ Rest(w) \/ Move(w, "failing")
    BY <1>5 DEF EnrichThrows, WorkerDies, EnrichFails, Crash
  <2>2. WorkersStill
    BY <1>0, <2>1 DEF WorkersStill, Rest, Idle, Move, At, Busy
  <2> QED BY <1>0, <2>1, <2>2, EntriesKept
<1>6. ASSUME \/ \E w \in Workers : LeaseLost(w) \/ Sweep(w) \/ SweepThrows(w)
             \/ LockTime
      PROVE  Kept /\ OfItsCore' /\ WorkersStill
  <2>1. UNCHANGED <<entries, seen, worker>>
    <3>1. ASSUME NEW w \in Workers, Sweep(w) \/ SweepThrows(w)
          PROVE  UNCHANGED <<entries, seen, worker>>
      BY <3>1, SweeperMoves DEF BatchInv, CallersInv
    <3> QED BY <1>6, <3>1 DEF LeaseLost, LeaseOverrun, LockTime, LockAgesOut
  <2>2. WorkersStill
    BY <2>1 DEF WorkersStill, At, Busy
  <2> QED BY <1>0, <2>1, <2>2, EntriesKept
<1>7. ASSUME NEW w \in Workers, PipelineWorker(w) \/ WorkerDies(w)
      PROVE  Kept /\ OfItsCore' /\ WorkersStill
  BY <1>2, <1>3, <1>4, <1>5, <1>7 DEF PipelineWorker
<1> QED BY <1>1, <1>6, <1>7

(* The batch jobs act on entries as they were fetched.                     *)
LEMMA WalksKeepValid ==
  ASSUME BatchInv, ValidInv, Walking
  PROVE  Kept /\ OfItsCore' /\ NoEdits' /\ WorkersStill
<1> USE StoreAssumption
<1>0. /\ StoreTypeOK /\ WalkTypeOK /\ OfItsCore /\ NoEdits /\ "model_migration" \in Reasons
      /\ Reevaluations \subseteq Walks
  BY DEF BatchInv, CallersInv, CallersTypeOK, ValidInv, Reasons, Walks
<1>1. UNCHANGED <<req, seen, worker>> => NoEdits' /\ WorkersStill
  BY <1>0 DEF NoEdits, WorkersStill, At, Busy
<1>2. ASSUME NEW b \in Walks, Passing(b) PROVE UNCHANGED <<req, seen, worker, entries>>
  BY <1>0, <1>2, PassingEffect
<1>3. ASSUME NEW b \in Migrations, NEW e \in Entries, MigrationStep(b, e)
      PROVE  UNCHANGED <<req, seen, worker>> /\ Kept /\ OfItsCore'
  <2>1. UNCHANGED <<req, seen, worker>>
    BY <1>3 DEF MigrationStep, MigrateSkip, MigrateMark, MigrateEnqueue, PipelineIdle
  <2>2. UNCHANGED entries \/ MarkIntelligenceStale(e, "model_migration")
    BY <1>3 DEF MigrationStep, MigrateSkip, MigrateMark, MigrateEnqueue
  <2> QED BY <1>0, <2>1, <2>2, EntriesKept
<1>4. ASSUME NEW b \in Reevaluations, NEW e \in Entries, ReevaluationStep(b, e)
      PROVE  UNCHANGED <<req, seen, worker>> /\ Kept /\ OfItsCore'
  <2>1. UNCHANGED <<req, seen, worker>>
    BY <1>4 DEF ReevaluationStep, ReevaluateSkip, ReevaluateRiskOnly, PipelineIdle
  <2>2. CASE ReevaluateSkip(b, e)
    BY <1>0, <2>1, <2>2, EntriesKept DEF ReevaluateSkip
  <2>3. CASE ReevaluateRiskOnly(b, e)
    <3>1. /\ e \in DOMAIN walk[b].batch /\ walk[b].batch[e].vectors # None
          /\ SetRiskOnly(e, walk[b].batch[e].core) /\ b \in Walks
      BY <1>0, <2>3 DEF ReevaluateRiskOnly, NextInBatch
    <3>2. entries[e].vectors # None /\ walk[b].batch[e].core = entries[e].core
      BY <3>1 DEF ValidInv, StillSo
    <3> QED BY <1>0, <2>1, <3>1, <3>2, EntriesKept
  <2> QED BY <1>4, <2>2, <2>3 DEF ReevaluationStep
<1> QED BY <1>0, <1>1, <1>2, <1>3, <1>4, WalkingCases, EntriesKept

(* It holds of what earlier releases have left.                            *)
LEMMA ValidInit ==
  ASSUME BatchInit
  PROVE  ValidInv
<1>1. Remembered
  BY RememberedInit
<1>2. StillSo /\ NoEdits
  BY NothingInHand DEF BatchInit, PoolInit, Idle, StillSo, At, NoEdits, CallersInit, Free
<1>3. OfItsCore
  <2>1. PICK S \in SUBSET Entries : Inherited(S)
    BY DEF BatchInit
  <2>2. PICK v \in [S -> Versions \cup {None}], c \in [S -> Cores] :
          entries = [e \in Entries |->
                       IF e \notin S
                         THEN [NewEntry(CHOOSE d \in Cores : TRUE) EXCEPT !.exists = FALSE]
                       ELSE IF v[e] = None
                         THEN NewEntry(c[e])
                         ELSE [NewEntry(c[e]) EXCEPT !.status = "completed", !.model = v[e],
                                                     !.risk = c[e], !.vectors = c[e]]]
    BY <2>1 DEF Inherited
  <2> QED BY <2>2 DEF OfItsCore, NewEntry
<1> QED BY <1>1, <1>2, <1>3 DEF ValidInv

(* Every step keeps it when there are no edits.                            *)
LEMMA ValidInvInductive ==
  ASSUME MaxEdits = 0, BatchInv, ValidInv, [BatchNext]_batchVars
  PROVE  ValidInv'
<1>1. CASE (PipelineNext /\ NoWalk) \/ Walking
  <2>1. Orderly /\ BatchesStill /\ Remembered'
    BY <1>1, RememberedKept DEF ValidInv
  <2>2. Kept /\ OfItsCore' /\ NoEdits' /\ WorkersStill
    BY <1>1, MaxEdits = 0, RequestsKeepValid, OthersKeepValid, WalksKeepValid DEF PipelineNext
  <2> QED BY <2>1, <2>2, ValidKept
<1>2. CASE UNCHANGED batchVars
  <2>1. UNCHANGED <<entries, jobs, tail, worker, seen, req, sweeper, walk>>
    BY <1>2 DEF batchVars, pipelineVars, poolVars
  <2> QED BY <2>1 DEF ValidInv, Remembered, Known, NoEdits, StillSo, OfItsCore, Exists, At
<1> QED BY <1>1, <1>2 DEF BatchNext, NoWalk, Walking

-----------------------------------------------------------------------------
(* A migration reaches its target, whoever edits, fails or dies, and       *)
(* however many are started, when the workers run the target version.  The *)
(* argument: a job leaves the queue for good only after its worker has     *)
(* written the entry at the target version, and an existing entry never    *)
(* loses that version again.                                               *)

\* Job j is in the queue or was given up.
Waiting(j) == Active(j) \/ jobs[j].status = "failed"

AtTarget(e) == entries[e].model = Target

ReachInv ==
  /\ Remembered
  /\ \A w \in Workers : At(w, "wrote") => AtTarget(jobs[worker[w].job].entry)
  /\ \A b \in Migrations : \A e \in DOMAIN walk[b].batch :
       walk[b].batch[e].model = Target => AtTarget(e)
  /\ \A e \in migrated :
       Exists(e) /\ (AtTarget(e) \/ \E j \in JobIds : Waiting(j) /\ jobs[j].entry = e)

\* No job but those of S is lost.
KeepsWork(S) ==
  \A j \in JobIds : Waiting(j) => j \in S \/ (Waiting(j)' /\ jobs'[j].entry = jobs[j].entry)

\* What may become of the versions, of the work, of a worker that has
\* written its result, and of the entries handled.
Lifted == \A e \in Entries : Exists(e) /\ AtTarget(e) => AtTarget(e)'

\* No job asks for a migration but those for entries of S, and those before.
MigratesOnly(S) ==
  \A j \in JobIds : jobs'[j].reason = "model_migration" =>
    \/ jobs'[j].entry \in S
    \/ jobs[j].reason = "model_migration" /\ jobs'[j].entry = jobs[j].entry

\* As a worker's write leaves an entry.
Fresh(e) == entries[e].status = "completed" /\ entries[e].model = WorkerVersion

WorkKept == KeepsWork({}) \/ \E w \in Workers : At(w, "wrote") /\ KeepsWork({worker[w].job})

WritersStill ==
  \A w \in Workers : At(w, "wrote")' =>
    /\ Busy(w) /\ worker'[w].job = worker[w].job
    /\ At(w, "wrote") \/ Fresh(jobs[worker[w].job].entry)'

HandledStill ==
  \A e \in migrated' :
    \/ e \in migrated
    \/ /\ e \in Entries /\ Exists(e)
       /\ AtTarget(e)' \/ \E j \in JobIds : Waiting(j)' /\ jobs'[j].entry = e

(* The commands of the queue: only complete() loses work, and only an      *)
(* insert asks for a migration.                                            *)
LEMMA CommandsKeepWork ==
  ASSUME QueueTypeOK, FreshSlots, QueueAssumption
  PROVE  /\ UNCHANGED queueVars => KeepsWork({}) /\ MigratesOnly({})
         /\ \A e \in Entries, r \in Reasons, v \in Versions : Enqueue(e, r, v) =>
              /\ KeepsWork({}) /\ \E j \in JobIds : Waiting(j)' /\ jobs'[j].entry = e
              /\ MigratesOnly(IF r = "model_migration" THEN {e} ELSE {})
         /\ \A w \in Workers, j \in JobIds : ClaimNext(w, j) => KeepsWork({}) /\ MigratesOnly({})
         /\ \A j \in JobIds : Requeue(j) \/ Bury(j) \/ LockExpires(j) =>
              KeepsWork({}) /\ MigratesOnly({})
         /\ \A j \in JobIds : Complete(j) => KeepsWork({j}) /\ MigratesOnly({})
         /\ ReclaimStale => KeepsWork({}) /\ MigratesOnly({})
<1> USE DEF KeepsWork, Waiting, Active, Live, MigratesOnly
<1>1. ASSUME UNCHANGED queueVars PROVE KeepsWork({}) /\ MigratesOnly({})
  BY <1>1 DEF queueVars
<1>2. ASSUME NEW e \in Entries, NEW r \in Reasons, NEW v \in Versions, Enqueue(e, r, v)
      PROVE  /\ KeepsWork({}) /\ \E j \in JobIds : Waiting(j)' /\ jobs'[j].entry = e
             /\ MigratesOnly(IF r = "model_migration" THEN {e} ELSE {})
  <2>1. CASE KeyTaken(IdempotencyKey(e, r, v), 0)
    <3>1. UNCHANGED queueVars
      BY <1>2, <2>1 DEF Enqueue
    <3>2. PICK j \in JobIds : Active(j) /\ jobs[j].entry = e
      BY <2>1 DEF KeyTaken, KeyOf, IdempotencyKey
    <3> QED BY <1>1, <3>1, <3>2 DEF queueVars
  <2>2. CASE ~KeyTaken(IdempotencyKey(e, r, v), 0)
    <3>1. tail' = tail + 1
      BY <1>2, <2>2 DEF Enqueue
    <3>2. ~ UNCHANGED queueVars
      BY <3>1 DEF QueueTypeOK, queueVars
    <3>3. /\ tail + 1 \in JobIds /\ OnlyChanges(tail + 1)
          /\ jobs'[tail + 1] = NewJob(e, r, v)
      BY <1>2, <3>2, EnqueueEffect
    <3>4. jobs[tail + 1].status = "absent"
      BY <3>3 DEF FreshSlots, QueueTypeOK, JobIds
    <3>5. /\ jobs'[tail + 1].status = "pending" /\ jobs'[tail + 1].entry = e
          /\ jobs'[tail + 1].reason = r
      BY <3>3 DEF NewJob
    <3> QED BY <3>3, <3>4, <3>5 DEF OnlyChanges
  <2> QED BY <2>1, <2>2
<1>3. ASSUME NEW w \in Workers, NEW j \in JobIds, ClaimNext(w, j) PROVE KeepsWork({}) /\ MigratesOnly({})
  BY <1>3, ClaimEffect DEF OnlyChanges, SameKey
<1>4. ASSUME NEW j \in JobIds, Requeue(j) \/ Bury(j) PROVE KeepsWork({}) /\ MigratesOnly({})
  <2>1. PICK s \in {"pending", "failed"} : Settles(j, s) /\ tail' = tail
    BY <1>4 DEF Requeue, Bury, Settles
  <2> QED BY <2>1, SettleEffect DEF OnlyChanges, SameKey, Dead
<1>5. ASSUME NEW j \in JobIds, Complete(j) PROVE KeepsWork({j}) /\ MigratesOnly({})
  <2>1. OnlyChanges(j) /\ SameKey(j)
    BY <1>5, SettleEffect DEF Complete, Settles, Dead
  <2> QED BY <2>1 DEF OnlyChanges, SameKey
<1>6. ASSUME NEW j \in JobIds, LockExpires(j) PROVE KeepsWork({}) /\ MigratesOnly({})
  BY <1>6, ExpiryEffect DEF OnlyChanges, SameKey
<1>7. ASSUME ReclaimStale PROVE KeepsWork({}) /\ MigratesOnly({})
  BY <1>7, ReapEffect DEF SameKey, Expired
<1> QED BY <1>1, <1>2, <1>3, <1>4, <1>5, <1>6, <1>7

(* The updates of an entry: none takes the target version away.            *)
LEMMA ModelsKept ==
  ASSUME StoreTypeOK
  PROVE  /\ UNCHANGED entries => Lifted
         /\ \A e \in Entries, c \in Cores : ~Exists(e) /\ Create(e, c) => Lifted
         /\ \A e \in Entries, c \in Cores, n \in Nat : UpdateCore(e, c, n) => Lifted
         /\ \A e \in Entries : \A c : SetIntelligence(e, c, Target) => Lifted /\ AtTarget(e)'
         /\ \A e \in Entries : \A c : SetRiskOnly(e, c) => Lifted
         /\ \A e \in Entries : \A r : MarkIntelligenceStale(e, r) => Lifted
<1> USE DEF Lifted, Exists, AtTarget
<1>0. DOMAIN entries = Entries /\ \A e \in Entries : entries[e] \in Entry
  BY DEF StoreTypeOK
<1>1. ASSUME NEW e \in Entries, NEW c \in Cores, ~Exists(e), Create(e, c) PROVE Lifted
  BY <1>0, <1>1 DEF Create
<1>2. ASSUME NEW e \in Entries, NEW c \in Cores, NEW n \in Nat, UpdateCore(e, c, n) PROVE Lifted
  <2>1. entries' = [entries EXCEPT ![e] = [entries[e] EXCEPT !.core = c,
                                             !.version = entries[e].version + 1]]
    BY <1>2 DEF UpdateCore
  <2> QED BY <1>0, <2>1 DEF Entry
<1>3. ASSUME NEW e \in Entries, NEW c, SetIntelligence(e, c, Target) PROVE Lifted /\ AtTarget(e)'
  <2>1. entries' = [entries EXCEPT ![e] = [entries[e] EXCEPT !.status = "completed",
                      !.reason = None, !.model = Target, !.risk = c, !.vectors = c]]
    BY <1>3 DEF SetIntelligence
  <2> QED BY <1>0, <2>1 DEF Entry
<1>4. ASSUME NEW e \in Entries, NEW c, SetRiskOnly(e, c) PROVE Lifted
  <2>1. entries' = [entries EXCEPT ![e] = [entries[e] EXCEPT !.status = "completed",
                                             !.reason = None, !.risk = c]]
    BY <1>4 DEF SetRiskOnly
  <2> QED BY <1>0, <2>1 DEF Entry
<1>5. ASSUME NEW e \in Entries, NEW r, MarkIntelligenceStale(e, r) PROVE Lifted
  <2>1. entries' = [entries EXCEPT ![e] = [entries[e] EXCEPT !.status = "stale", !.reason = r]]
    BY <1>5 DEF MarkIntelligenceStale
  <2> QED BY <1>0, <2>1 DEF Entry
<1> QED BY <1>1, <1>2, <1>3, <1>4, <1>5

(* Handlers, workers and sweeper take no work away, except that a worker   *)
(* completes the job whose result it has written, and none of them asks    *)
(* for a migration.                                                        *)
LEMMA PipelineKeepsWork ==
  ASSUME BatchInv, PipelineNext
  PROVE  WorkKept /\ WritersStill /\ MigratesOnly({})
<1> USE QueueAssumption, PipelineAssumption
<1>0. /\ QueueTypeOK /\ FreshSlots /\ StoreTypeOK /\ InHand
      /\ worker \in [Workers -> [pc : Steps, job : JobIds \cup {NoJob}]]
      /\ ServerVersion \in Versions /\ WorkerVersion \in Versions
      /\ "created" \in Reasons /\ "core_changed" \in Reasons
      /\ \A w \in Workers : sweeper[w].ids \subseteq Entries
      /\ \A w \in Workers : Busy(w) =>
           worker[w].job \in JobIds /\ jobs[worker[w].job].entry \in Entries
  BY DEF BatchInv, BaseInv, PoolTypeOK, QueueInv, CallersInv, CallersTypeOK, PipelineAssumption,
     Reasons, OnFilledSlot, QueueTypeOK, JobIds, Job
<1>1. UNCHANGED worker => WritersStill
  BY DEF WritersStill, At, Busy
<1>2. ASSUME NEW w \in Workers, \/ Rest(w)
                                \/ \E s \in Steps \ {"wrote"} : Move(w, s)
                                \/ \E j \in JobIds :
                                     worker' = [worker EXCEPT ![w] = [pc |-> "claimed", job |-> j]]
      PROVE  WritersStill
  BY <1>0, <1>2 DEF WritersStill, Rest, Idle, Move, At, Busy
<1>3. ASSUME \/ UNCHANGED queueVars
             \/ \E e \in Entries, r \in Reasons \ {"model_migration"}, v \in Versions : Enqueue(e, r, v)
      PROVE  WorkKept /\ MigratesOnly({})
  BY <1>0, <1>3, CommandsKeepWork DEF WorkKept
<1>4. ASSUME NEW r \in Requests,
             CreateEntry(r) \/ ReadForEdit(r) \/ RequestStep(r) \/ AbortRequest(r)
      PROVE  WorkKept /\ WritersStill /\ MigratesOnly({})
  <2>1. UNCHANGED worker
    BY <1>4 DEF CreateEntry, ReadForEdit, RequestStep, AbortRequest, Admit, EnqueueCreated,
       WriteCore, Conflict, MarkStale, EnqueueChange, OthersIdle
  <2>2. \/ UNCHANGED queueVars
        \/ \E e \in Entries, x \in Reasons \ {"model_migration"} : Enqueue(e, x, ServerVersion)
    BY <1>0, <1>4 DEF CreateEntry, ReadForEdit, RequestStep, AbortRequest, Admit, EnqueueCreated,
       WriteCore, Conflict, MarkStale, EnqueueChange, InHand
  <2> QED BY <1>1, <1>3, <2>1, <2>2
<1>5. ASSUME NEW w \in Workers, LoopStep(w) PROVE WorkKept /\ WritersStill /\ MigratesOnly({})
  <2>1. WritersStill
    BY <1>2, <1>5 DEF LoopStep, ClaimJob, CompleteJob, LoseCompleteReply, FailLookup, RequeueJob,
                      BuryJob, Steps
  <2>2. CASE CompleteJob(w) \/ LoseCompleteReply(w)
    <3>1. At(w, "wrote") /\ Complete(worker[w].job) /\ worker[w].job \in JobIds
      BY <1>0, <2>2 DEF CompleteJob, LoseCompleteReply, At, Busy
    <3> QED BY <1>0, <2>1, <3>1, CommandsKeepWork DEF WorkKept
  <2>3. CASE ClaimJob(w)
    BY <1>0, <2>1, <2>3, CommandsKeepWork DEF ClaimJob, WorkKept
  <2>4. CASE FailLookup(w) \/ RequeueJob(w) \/ BuryJob(w)
    <3>1. /\ worker[w].job \in JobIds
          /\ UNCHANGED queueVars \/ Requeue(worker[w].job) \/ Bury(worker[w].job)
      BY <1>0, <2>4 DEF FailLookup, RequeueJob, BuryJob, At, Busy, queueVars
    <3> QED BY <1>0, <2>1, <3>1, CommandsKeepWork DEF WorkKept
  <2> QED BY <1>5, <2>2, <2>3, <2>4 DEF LoopStep
<1>6. ASSUME NEW w \in Workers, EnrichRead(w) \/ EnrichThrows(w) \/ WorkerDies(w)
      PROVE  WorkKept /\ WritersStill /\ MigratesOnly({})
  <2>1. /\ UNCHANGED queueVars
        /\ Rest(w) \/ \E s \in Steps \ {"wrote"} : Move(w, s)
    BY <1>6 DEF EnrichRead, EnrichThrows, WorkerDies, ReadEntry, EnrichFails, Crash, Steps, queueVars
  <2> QED BY <1>2, <1>3, <2>1
<1>7. ASSUME NEW w \in Workers, EnrichWrite(w) PROVE WorkKept /\ WritersStill /\ MigratesOnly({})
  <2>1. PICK e \in Entries : e = jobs[worker[w].job].entry
    BY <1>0, <1>7 DEF EnrichWrite, WriteResult, At, Busy
  <2>2. /\ UNCHANGED queueVars /\ UNCHANGED jobs /\ At(w, "read") /\ Move(w, "wrote")
        /\ SetIntelligence(e, seen[w], WorkerVersion)
    BY <1>7, <2>1 DEF EnrichWrite, WriteResult, queueVars
  <2>3. Fresh(e)'
    BY <1>0, <2>2 DEF SetIntelligence, Fresh, StoreTypeOK, Entry
  <2>4. WritersStill
    BY <1>0, <2>1, <2>2, <2>3 DEF WritersStill, Move, At, Busy, Fresh
  <2> QED BY <1>3, <2>2, <2>4
<1>8. CASE (\E w \in Workers : LeaseLost(w)) \/ LockTime
  <2>1. UNCHANGED worker /\ \E j \in JobIds : LockExpires(j)
    BY <1>0, <1>8 DEF LeaseLost, LeaseOverrun, LockTime, LockAgesOut
  <2> QED BY <1>0, <1>1, <2>1, CommandsKeepWork DEF WorkKept
<1>9. ASSUME NEW w \in Workers, Sweep(w) \/ SweepThrows(w)
      PROVE  WorkKept /\ WritersStill /\ MigratesOnly({})
  <2>1. /\ UNCHANGED worker
        /\ \/ UNCHANGED queueVars \/ ReclaimStale
           \/ \E e \in sweeper[w].ids : Enqueue(e, "created", WorkerVersion)
    BY <1>9, SweeperMoves DEF BatchInv, CallersInv
  <2> QED BY <1>0, <1>1, <1>3, <2>1, CommandsKeepWork DEF WorkKept
<1> QED BY <1>4, <1>5, <1>6, <1>7, <1>8, <1>9 DEF PipelineNext, PipelineWorker

(* A step of the pipeline updates at most one entry, in one of four ways.  *)
LEMMA PipelineUpdates ==
  ASSUME BatchInv, PipelineNext
  PROVE  \/ UNCHANGED entries
         \/ \E e \in Entries, c \in Cores : ~Exists(e) /\ Create(e, c)
         \/ \E e \in Entries, c \in Cores, n \in Nat : UpdateCore(e, c, n)
         \/ \E e \in Entries, c \in Cores \cup {None} : SetIntelligence(e, c, WorkerVersion)
         \/ /\ ~NoEdits
            /\ \E e \in Entries : MarkIntelligenceStale(e, "core_changed")
<1>0. /\ InHand /\ req \in [Requests -> Handler] /\ seen \in [Workers -> Cores \cup {None}]
      /\ \A w \in Workers : Busy(w) => jobs[worker[w].job].entry \in Entries
  BY QueueAssumption DEF BatchInv, BaseInv, PoolTypeOK, QueueInv, CallersInv, CallersTypeOK,
     OnFilledSlot, QueueTypeOK, JobIds, Job
<1>1. ASSUME NEW r \in Requests, CreateEntry(r)
      PROVE  \E e \in Entries, c \in Cores : ~Exists(e) /\ Create(e, c)
  BY <1>1 DEF CreateEntry
<1>2. ASSUME NEW r \in Requests, WriteCore(r)
      PROVE  \E e \in Entries, c \in Cores, n \in Nat : UpdateCore(e, c, n)
  BY <1>0, <1>2 DEF WriteCore, InHand, Handler
<1>3. ASSUME NEW r \in Requests, MarkStale(r)
      PROVE  ~NoEdits /\ \E e \in Entries : MarkIntelligenceStale(e, "core_changed")
  BY <1>0, <1>3 DEF MarkStale, InHand, NoEdits
<1>4. ASSUME NEW w \in Workers, EnrichWrite(w)
      PROVE  \E e \in Entries, c \in Cores \cup {None} : SetIntelligence(e, c, WorkerVersion)
  BY <1>0, <1>4 DEF EnrichWrite, WriteResult, At, Busy
<1>5. ASSUME NEW r \in Requests,
             ReadForEdit(r) \/ Admit(r) \/ EnqueueCreated(r) \/ Conflict(r) \/ EnqueueChange(r)
               \/ AbortRequest(r)
      PROVE  UNCHANGED entries
  BY <1>5 DEF ReadForEdit, Admit, EnqueueCreated, Conflict, EnqueueChange, AbortRequest
<1>6. ASSUME NEW w \in Workers,
             LoopStep(w) \/ EnrichRead(w) \/ EnrichThrows(w) \/ WorkerDies(w) \/ LeaseLost(w)
      PROVE  UNCHANGED entries
  BY <1>6 DEF LoopStep, EnrichRead, EnrichThrows, WorkerDies, LeaseLost
<1>7. ASSUME NEW w \in Workers, Sweep(w) \/ SweepThrows(w) PROVE UNCHANGED entries
  BY <1>7, SweeperMoves DEF BatchInv, CallersInv
<1>8. CASE LockTime
  BY <1>8 DEF LockTime
<1> QED BY <1>1, <1>2, <1>3, <1>4, <1>5, <1>6, <1>7, <1>8
        DEF PipelineNext, PipelineWorker, RequestStep

(* The batch jobs take no work away.                                       *)
LEMMA WalksKeepWork ==
  ASSUME BatchInv, Walking
  PROVE  KeepsWork({}) /\ WorkKept /\ WritersStill /\ UNCHANGED worker
<1> USE QueueAssumption, BatchAssumption
<1>0. /\ QueueTypeOK /\ FreshSlots /\ Target \in Versions /\ "model_migration" \in Reasons
      /\ WalkTypeOK /\ StoreTypeOK
  BY DEF BatchInv, BaseInv, PoolTypeOK, QueueInv, BatchAssumption, Reasons, CallersInv, CallersTypeOK
<1>1. /\ UNCHANGED worker
      /\ UNCHANGED queueVars \/ \E e \in Entries : Enqueue(e, "model_migration", Target)
  <2>1. ASSUME NEW b \in Walks, Passing(b) PROVE UNCHANGED <<worker, jobs, tail>>
    BY <1>0, <2>1, PassingEffect
  <2>2. ASSUME NEW b \in Migrations, NEW e \in Entries, MigrationStep(b, e)
        PROVE  /\ UNCHANGED worker
               /\ UNCHANGED queueVars \/ Enqueue(e, "model_migration", Target)
    BY <2>2 DEF MigrationStep, MigrateSkip, MigrateMark, MigrateEnqueue, PipelineIdle
  <2>3. ASSUME NEW b \in Reevaluations, NEW e \in Entries, ReevaluationStep(b, e)
        PROVE  UNCHANGED worker /\ UNCHANGED queueVars
    BY <2>3 DEF ReevaluationStep, ReevaluateSkip, ReevaluateRiskOnly, PipelineIdle
  <2> QED BY <2>1, <2>2, <2>3, WalkingCases DEF queueVars
<1>2. WritersStill
  BY <1>1 DEF WritersStill, At, Busy
<1> QED BY <1>0, <1>1, <1>2, CommandsKeepWork DEF WorkKept

(* A migration hands over only entries at the target version, or with a    *)
(* job.                                                                    *)
LEMMA WalksKeepReach ==
  ASSUME BatchInv, ReachInv, Walking
  PROVE  Lifted /\ HandledStill
<1> USE QueueAssumption, BatchAssumption
<1>0. /\ QueueTypeOK /\ FreshSlots /\ StoreTypeOK /\ WalkTypeOK /\ Target \in Versions
      /\ "model_migration" \in Reasons /\ Migrations \subseteq Walks
      /\ \A c \in Walks : \A e \in DOMAIN walk[c].batch : Exists(e)
  BY DEF BatchInv, BaseInv, PoolTypeOK, QueueInv, CallersInv, CallersTypeOK, BatchAssumption,
     Reasons, Walks, ReachInv, Remembered
<1>1. ASSUME NEW b \in Walks, Passing(b) PROVE Lifted /\ HandledStill
  <2>1. UNCHANGED <<entries, migrated>>
    BY <1>0, <1>1, PassingEffect
  <2> QED BY <1>0, <2>1, ModelsKept DEF HandledStill
<1>2. ASSUME NEW b \in Migrations, NEW e \in Entries, MigrateSkip(b, e)
      PROVE  Lifted /\ HandledStill
  <2>1. /\ UNCHANGED entries /\ migrated' = migrated \cup {e}
        /\ e \in DOMAIN walk[b].batch /\ walk[b].batch[e].model = Target
    BY <1>2 DEF MigrateSkip, NextInBatch
  <2>2. Exists(e) /\ AtTarget(e)'
    BY <1>0, <2>1 DEF ReachInv, AtTarget
  <2> QED BY <1>0, <2>1, <2>2, ModelsKept DEF HandledStill
<1>3. ASSUME NEW b \in Migrations, NEW e \in Entries, MigrateEnqueue(b, e)
      PROVE  Lifted /\ HandledStill
  <2>1. /\ UNCHANGED entries /\ Enqueue(e, "model_migration", Target)
        /\ migrated' = migrated \cup {e} /\ Exists(e)
    BY <1>0, <1>3 DEF MigrateEnqueue, Owes, NextInBatch
  <2>2. \E j \in JobIds : Waiting(j)' /\ jobs'[j].entry = e
    BY <1>0, <2>1, CommandsKeepWork
  <2> QED BY <1>0, <2>1, <2>2, ModelsKept DEF HandledStill
<1>4. ASSUME NEW b \in Walks, NEW e \in Entries,
             MigrateMark(b, e) \/ ReevaluateSkip(b, e) \/ ReevaluateRiskOnly(b, e)
      PROVE  Lifted /\ HandledStill
  BY <1>0, <1>4, ModelsKept DEF MigrateMark, ReevaluateSkip, ReevaluateRiskOnly, HandledStill
<1> QED BY <1>1, <1>2, <1>3, <1>4, WalkingCases DEF MigrationStep, ReevaluationStep, Walks

(* Such a step keeps the invariant.                                        *)
LEMMA ReachKept ==
  ASSUME WorkerVersion = Target, BatchInv, ReachInv, Orderly, BatchesStill, Remembered',
         Lifted, WorkKept, WritersStill, HandledStill
  PROVE  ReachInv'
<1>0. /\ 1..tail \subseteq JobIds /\ QueueTypeOK /\ OnFilledSlot /\ migrated \subseteq Entries
      /\ Migrations \subseteq Walks /\ \A j \in 1..tail : jobs[j].entry \in Entries
  BY QueueAssumption DEF BatchInv, BaseInv, PoolTypeOK, QueueTypeOK, JobIds, WalkTypeOK, Walks, Job
<1>1. ASSUME NEW w \in Workers, At(w, "wrote")'
      PROVE  AtTarget(jobs[worker[w].job].entry)'
  <2>1. Busy(w) /\ worker'[w].job = worker[w].job /\ worker[w].job \in 1..tail
    BY <1>0, <1>1 DEF WritersStill, OnFilledSlot
  <2>2. CASE At(w, "wrote")
    <3>1. /\ jobs'[worker[w].job].entry = jobs[worker[w].job].entry
          /\ jobs[worker[w].job].entry \in Entries /\ Exists(jobs[worker[w].job].entry)
      BY <1>0, <2>1 DEF Orderly, Slotted, ReachInv, Remembered, Known
    <3> QED BY <2>1, <2>2, <3>1 DEF ReachInv, Lifted, AtTarget
  <2> QED BY <1>1, <2>1, <2>2, WorkerVersion = Target DEF WritersStill, AtTarget, Fresh
<1>2. ASSUME NEW b \in Migrations, NEW e \in DOMAIN walk'[b].batch,
             walk'[b].batch[e].model = Target
      PROVE  AtTarget(e)'
  <2>1. e \in Entries /\ Exists(e) /\ AtTarget(e)
    BY <1>0, <1>2 DEF BatchesStill, ReachInv, Remembered, AtTarget
  <2> QED BY <2>1 DEF Lifted
<1>3. ASSUME NEW e \in migrated'
      PROVE  /\ Exists(e)'
             /\ AtTarget(e)' \/ \E j \in JobIds : Waiting(j)' /\ jobs'[j].entry = e
  <2>1. e \in Entries /\ Exists(e)
    BY <1>0 DEF HandledStill, ReachInv
  <2>2. AtTarget(e) => AtTarget(e)'
    BY <2>1 DEF Lifted
  <2>3. ASSUME NEW j \in JobIds, Waiting(j), jobs[j].entry = e, ~AtTarget(e)
        PROVE  Waiting(j)' /\ jobs'[j].entry = e
    <3>1. \A w \in Workers : At(w, "wrote") => worker[w].job # j
      BY <2>3 DEF ReachInv
    <3> QED BY <2>3, <3>1 DEF WorkKept, KeepsWork, Waiting, Active
  <2>4. Exists(e)'
    BY <2>1 DEF Orderly, Grown
  <2>5. CASE e \in migrated
    BY <2>2, <2>3, <2>4, <2>5 DEF ReachInv
  <2>6. CASE e \notin migrated
    BY <2>4, <2>6 DEF HandledStill
  <2> QED BY <2>5, <2>6
<1> QED BY <1>1, <1>2, <1>3 DEF ReachInv

(* When the workers run the version entries are migrated to, every entry   *)
(* a migration has handled carries it, or has a job in the queue or given  *)
(* up: whatever edits, failures, crashes, overrun leases, aborted and      *)
(* restarted migrations, one after the other or at once, and reevaluations *)
(* come in between (ModelMigrationService.ts: "restartable").              *)
THEOREM MigrationOnTarget ==
  ASSUME WorkerVersion = Target
  PROVE  BatchSpec => []MigrationReachesTarget
<1> DEFINE Inv == BatchInv /\ ReachInv
<1>1. BatchInit => Inv
  <2> SUFFICES ASSUME BatchInit PROVE Inv
    OBVIOUS
  <2>1. BatchInv /\ Remembered
    BY BatchInitInv, RememberedInit
  <2>2. /\ migrated = {} /\ \A b \in Migrations : DOMAIN walk[b].batch = {}
        /\ \A w \in Workers : ~At(w, "wrote")
    BY NothingInHand DEF BatchInit, PoolInit, Idle, Walks, At
  <2>3. ReachInv
    BY <2>1, <2>2 DEF ReachInv
  <2> QED BY <2>1, <2>3
<1>2. Inv /\ [BatchNext]_batchVars => Inv'
  <2> SUFFICES ASSUME Inv, [BatchNext]_batchVars PROVE Inv'
    OBVIOUS
  <2>1. BatchInv'
    BY BatchInvInductive
  <2>2. CASE (PipelineNext /\ NoWalk) \/ Walking
    <3>1. Orderly /\ BatchesStill /\ Remembered'
      BY <2>2, RememberedKept DEF ReachInv
    <3>2. Lifted /\ WorkKept /\ WritersStill /\ HandledStill
      <4>1. PipelineNext => Lifted
        BY WorkerVersion = Target, PipelineUpdates, ModelsKept
           DEF BatchInv, CallersInv, CallersTypeOK
      <4>2. NoWalk => HandledStill
        BY DEF NoWalk, HandledStill
      <4> QED BY <2>2, <4>1, <4>2, PipelineKeepsWork, WalksKeepWork, WalksKeepReach
    <3> QED BY <2>1, <3>1, <3>2, WorkerVersion = Target, ReachKept
  <2>3. CASE UNCHANGED batchVars
    <3>1. UNCHANGED <<entries, jobs, tail, worker, req, sweeper, walk, migrated>>
      BY <2>3 DEF batchVars, pipelineVars, poolVars
    <3>2. ReachInv'
      BY <3>1 DEF ReachInv, Remembered, Known, AtTarget, Waiting, Active, Exists, At
    <3> QED BY <2>1, <3>2
  <2> QED BY <2>2, <2>3 DEF BatchNext, NoWalk, Walking
<1>3. Inv => MigrationReachesTarget
  BY DEF ReachInv, AtTarget, Waiting, MigrationReachesTarget, InQueue, GivenUp
<1> QED BY <1>1, <1>2, <1>3, PTL DEF BatchSpec

-----------------------------------------------------------------------------
(* Migrations leave no entry stale for good, as long as nobody edits,      *)
(* except those they strand.  The argument: the only step that makes an    *)
(* entry stale is a migration's mark.  The run then owes the entry a job.  *)
(* Its insert makes one, whose result nobody has written yet, or is        *)
(* swallowed by an active job of an earlier run; the worker of that one    *)
(* has not written either, unless it had before the mark, which is what    *)
(* stranded says, or it has since, which completes the entry.              *)

\* Job j is in the queue or given up, and no worker has written its result.
Unwritten(j) == Waiting(j) /\ \A w \in Workers : At(w, "wrote") => worker[w].job # j

HasWork(e) == \E j \in JobIds : Unwritten(j) /\ jobs[j].entry = e

Completed(e) == entries[e].status = "completed"

\* What was enriched once does not become pending.
Statused ==
  /\ \A e \in Entries :
       /\ entries[e].status \in {"pending", "completed", "stale"}
       /\ entries[e].model # None => entries[e].status # "pending"
       /\ e \in migrated => Exists(e) /\ entries[e].status # "pending"
  /\ \A b \in Migrations : \A e \in DOMAIN walk[b].batch :
       /\ walk[b].batch[e].model # None => entries[e].status # "pending"
       /\ Owes(b, e) => entries[e].status # "pending"

Attended(e) ==
  e \in stranded \/ HasWork(e) \/ \E b \in Migrations : Owes(b, e)

\* An insert of e now would make a job or find one that is yet to be written.
Insertable(e) == Completed(e) \/ e \in stranded \/ HasWork(e) \/ ~Late(e)

SettledInv ==
  /\ Statused
  /\ \A e \in Entries : entries[e].status = "stale" => Attended(e)
  /\ \A b \in Migrations, e \in Entries : Owes(b, e) => Insertable(e)

\* What may become of an entry as long as nobody marks it.
Progress(e) ==
  \/ entries'[e].status = entries[e].status /\ entries'[e].model = entries[e].model
  \/ entries'[e].status = "completed"
  \/ ~Exists(e) /\ entries'[e].status = "pending" /\ entries'[e].model = None

(* The updates of an entry: all but a mark are progress.                   *)
LEMMA UpdatesProgress ==
  ASSUME StoreTypeOK
  PROVE  /\ UNCHANGED entries => \A f \in Entries : Progress(f)
         /\ \A e \in Entries, c \in Cores :
              ~Exists(e) /\ Create(e, c) => \A f \in Entries : Progress(f)
         /\ \A e \in Entries, c \in Cores, n \in Nat :
              UpdateCore(e, c, n) => \A f \in Entries : Progress(f)
         /\ \A e \in Entries : \A c : SetIntelligence(e, c, WorkerVersion) =>
              \A f \in Entries : Progress(f)
         /\ \A e \in Entries : \A c : SetRiskOnly(e, c) => \A f \in Entries : Progress(f)
         /\ \A e \in Entries : \A r : MarkIntelligenceStale(e, r) =>
              /\ \A f \in Entries \ {e} : Progress(f)
              /\ entries'[e].status = "stale"
<1> USE DEF Progress, Exists
<1>0. DOMAIN entries = Entries /\ \A e \in Entries : entries[e] \in Entry
  BY DEF StoreTypeOK
<1>1. ASSUME NEW e \in Entries, NEW c \in Cores, ~Exists(e), Create(e, c)
      PROVE  \A f \in Entries : Progress(f)
  BY <1>0, <1>1 DEF Create, NewEntry
<1>2. ASSUME NEW e \in Entries, NEW c \in Cores, NEW n \in Nat, UpdateCore(e, c, n)
      PROVE  \A f \in Entries : Progress(f)
  <2>1. entries' = [entries EXCEPT ![e] = [entries[e] EXCEPT !.core = c,
                                             !.version = entries[e].version + 1]]
    BY <1>2 DEF UpdateCore
  <2> QED BY <1>0, <2>1 DEF Entry
<1>3. ASSUME NEW e \in Entries, NEW c, SetIntelligence(e, c, WorkerVersion)
      PROVE  \A f \in Entries : Progress(f)
  <2>1. entries' = [entries EXCEPT ![e] = [entries[e] EXCEPT !.status = "completed",
                      !.reason = None, !.model = WorkerVersion, !.risk = c, !.vectors = c]]
    BY <1>3 DEF SetIntelligence
  <2> QED BY <1>0, <2>1 DEF Entry
<1>4. ASSUME NEW e \in Entries, NEW c, SetRiskOnly(e, c) PROVE \A f \in Entries : Progress(f)
  <2>1. entries' = [entries EXCEPT ![e] = [entries[e] EXCEPT !.status = "completed",
                                             !.reason = None, !.risk = c]]
    BY <1>4 DEF SetRiskOnly
  <2> QED BY <1>0, <2>1 DEF Entry
<1>5. ASSUME NEW e \in Entries, NEW r, MarkIntelligenceStale(e, r)
      PROVE  (\A f \in Entries \ {e} : Progress(f)) /\ entries'[e].status = "stale"
  <2>1. entries' = [entries EXCEPT ![e] = [entries[e] EXCEPT !.status = "stale", !.reason = r]]
    BY <1>5 DEF MarkIntelligenceStale
  <2> QED BY <1>0, <2>1 DEF Entry
<1> QED BY <1>1, <1>2, <1>3, <1>4, <1>5

(* The work an entry has stays, or completes it.                           *)
LEMMA WorkStays ==
  ASSUME WorkKept, WritersStill, NEW e \in Entries, HasWork(e)
  PROVE  Completed(e)' \/ HasWork(e)'
<1>1. PICK j \in JobIds : Unwritten(j) /\ jobs[j].entry = e
  BY DEF HasWork
<1>2. Waiting(j)' /\ jobs'[j].entry = e
  BY <1>1 DEF WorkKept, KeepsWork, Unwritten
<1>3. ASSUME NEW w \in Workers, At(w, "wrote")', worker'[w].job = j PROVE Completed(e)'
  <2>1. worker[w].job = j /\ Fresh(jobs[j].entry)'
    BY <1>1, <1>3 DEF WritersStill, Unwritten
  <2> QED BY <1>1, <1>2, <2>1 DEF Fresh, Completed
<1> QED BY <1>2, <1>3 DEF Unwritten, HasWork

(* A worker becomes late for an entry only by completing it.               *)
LEMMA LateByWriting ==
  ASSUME BatchInv, WritersStill, Slotted, NEW S, MigratesOnly(S), NEW e \in Entries, e \notin S, Late(e)'
  PROVE  Completed(e)' \/ Late(e)
<1>0. 1..tail \subseteq JobIds /\ OnFilledSlot
  BY QueueAssumption DEF BatchInv, BaseInv, PoolTypeOK, QueueTypeOK, JobIds
<1>1. PICK w \in Workers :
        /\ At(w, "wrote")' /\ jobs'[worker'[w].job].entry = e
        /\ jobs'[worker'[w].job].reason = "model_migration"
  BY DEF Late
<1>2. Busy(w) /\ worker'[w].job = worker[w].job
  BY <1>1 DEF WritersStill
<1>3. worker[w].job \in 1..tail /\ worker[w].job \in JobIds
  BY <1>0, <1>2 DEF OnFilledSlot
<1>4. jobs[worker[w].job].entry = e /\ jobs[worker[w].job].reason = "model_migration"
  BY <1>1, <1>2, <1>3 DEF MigratesOnly
<1>5. At(w, "wrote") \/ Fresh(jobs[worker[w].job].entry)'
  BY <1>1 DEF WritersStill
<1> QED BY <1>1, <1>4, <1>5 DEF Late, Fresh, Completed

(* An entry that exists stays as its statuses say.                         *)
LEMMA StatusedKept ==
  ASSUME Remembered, Orderly, BatchesStill, Statused,
         \A e \in Entries : Progress(e) \/ entries'[e].status = "stale",
         \A e \in migrated' : e \in migrated \/ (Exists(e) /\ entries[e].status # "pending"),
         \A b \in Migrations, e \in Entries :
           Owes(b, e)' => Owes(b, e) \/ entries'[e].status = "stale"
  PROVE  Statused'
<1>1. ASSUME NEW e \in Entries, Exists(e), entries[e].status # "pending"
      PROVE  entries'[e].status # "pending"
  BY <1>1 DEF Progress
<1>2. ASSUME NEW e \in Entries
      PROVE  /\ entries'[e].status \in {"pending", "completed", "stale"}
             /\ entries'[e].model # None => entries'[e].status # "pending"
             /\ e \in migrated' => Exists(e)' /\ entries'[e].status # "pending"
  <2>1. e \in migrated' => Exists(e) /\ entries[e].status # "pending"
    BY DEF Statused
  <2>2. Exists(e) => Exists(e)'
    BY DEF Orderly, Grown
  <2>3. /\ entries'[e].status \in {"pending", "completed", "stale"}
        /\ entries'[e].model # None => entries'[e].status # "pending"
    BY DEF Statused, Progress
  <2> QED BY <1>1, <2>1, <2>2, <2>3
<1>3. ASSUME NEW b \in Migrations, NEW e \in DOMAIN walk'[b].batch
      PROVE  /\ walk'[b].batch[e].model # None => entries'[e].status # "pending"
             /\ Owes(b, e)' => entries'[e].status # "pending"
  <2>1. /\ e \in Entries
        /\ \/ e \in DOMAIN walk[b].batch /\ walk'[b].batch[e] = walk[b].batch[e]
           \/ Exists(e) /\ walk'[b].batch[e] = entries[e]
    BY DEF BatchesStill, Walks
  <2>2. Exists(e)
    BY <2>1 DEF Remembered, Walks
  <2>3. walk'[b].batch[e].model # None => entries[e].status # "pending"
    BY <2>1 DEF Statused
  <2>4. Owes(b, e) => entries[e].status # "pending"
    BY DEF Statused, Owes, NextInBatch
  <2> QED BY <1>1, <2>1, <2>2, <2>3, <2>4
<1> QED BY <1>2, <1>3 DEF Statused

(* An entry whose insert would help stays so.                              *)
LEMMA InsertableStays ==
  ASSUME BatchInv, Slotted, WorkKept, WritersStill, NEW S, MigratesOnly(S),
         NEW e \in Entries, e \notin S, Exists(e), Progress(e), Insertable(e),
         e \in stranded => e \in stranded'
  PROVE  Insertable(e)'
<1>1. CASE Completed(e)
  BY <1>1 DEF Progress, Completed, Insertable
<1>2. CASE e \in stranded
  BY <1>2 DEF Insertable
<1>3. CASE HasWork(e)
  BY <1>3, WorkStays DEF Insertable
<1>4. CASE ~Late(e)
  BY <1>4, LateByWriting DEF Insertable
<1> QED BY <1>1, <1>2, <1>3, <1>4 DEF Insertable

(* A step that marks nothing keeps the invariant, when what stops being    *)
(* owed is settled some other way: S are the entries that get a new job.   *)
LEMMA SettledKept ==
  ASSUME BatchInv, Remembered, Orderly, BatchesStill, SettledInv, WorkKept, WritersStill,
         NEW S, MigratesOnly(S), \A e \in S : HasWork(e)', stranded \ S \subseteq stranded',
         \A e \in Entries : Progress(e),
         \A e \in migrated' : e \in migrated \/ (Exists(e) /\ entries[e].status # "pending"),
         \A b \in Migrations, e \in Entries :
           /\ Owes(b, e)' => Owes(b, e)
           /\ Owes(b, e) =>
                Owes(b, e)' \/ e \in S \/ e \in stranded' \/ Completed(e) \/ HasWork(e)
  PROVE  SettledInv'
<1>1. Statused'
  BY StatusedKept DEF SettledInv
<1>2. ASSUME NEW e \in Entries, entries'[e].status = "stale" PROVE Attended(e)'
  <2>1. entries[e].status = "stale" /\ ~Completed(e)' /\ ~Completed(e)
    BY <1>2 DEF Progress, Completed
  <2>2. CASE e \in S
    BY <2>2 DEF Attended
  <2>3. CASE e \notin S /\ e \in stranded
    BY <2>3 DEF Attended
  <2>4. CASE HasWork(e)
    BY <2>1, <2>4, WorkStays DEF Attended
  <2>5. ASSUME NEW b \in Migrations, Owes(b, e), e \notin S, e \notin stranded, ~HasWork(e)
        PROVE  Attended(e)'
    BY <2>1, <2>5 DEF Attended
  <2> QED BY <2>1, <2>2, <2>3, <2>4, <2>5 DEF SettledInv, Attended
<1>3. ASSUME NEW b \in Migrations, NEW e \in Entries, Owes(b, e)' PROVE Insertable(e)'
  <2>1. Owes(b, e) /\ Exists(e)
    BY <1>3 DEF Owes, NextInBatch, Remembered, Walks
  <2>2. CASE e \in S
    BY <2>2 DEF Insertable
  <2>3. CASE e \notin S
    BY <2>1, <2>3, InsertableStays DEF SettledInv, Orderly
  <2> QED BY <2>2, <2>3
<1> QED BY <1>1, <1>2, <1>3 DEF SettledInv

(* A step of the pipeline keeps the invariant.                             *)
LEMMA PipelineKeepsSettled ==
  ASSUME BatchInv, Remembered, NoEdits, Orderly, BatchesStill, SettledInv, PipelineNext, NoWalk
  PROVE  SettledInv'
<1>1. /\ UNCHANGED <<walk, migrated, stranded>> /\ WorkKept /\ WritersStill /\ MigratesOnly({})
      /\ \A e \in Entries : Progress(e)
  BY PipelineKeepsWork, PipelineUpdates, UpdatesProgress
     DEF NoWalk, BatchInv, CallersInv, CallersTypeOK
<1>2. \A b \in Migrations, e \in Entries : Owes(b, e)' <=> Owes(b, e)
  BY <1>1 DEF Owes, NextInBatch
<1> QED BY <1>1, <1>2, SettledKept

(* When the insert of a migration is swallowed, a job that is yet to be    *)
(* written has the key; otherwise the new job is one.                      *)
LEMMA InsertCovers ==
  ASSUME BatchInv, NEW b \in Migrations, NEW e \in Entries, MigrateEnqueue(b, e)
  PROVE  /\ tail' = tail => UNCHANGED jobs /\ (~Late(e) => HasWork(e))
         /\ tail' # tail => HasWork(e)'
         /\ MigratesOnly({e})
<1> USE QueueAssumption, BatchAssumption
<1>0. /\ QueueTypeOK /\ FreshSlots /\ OnFilledSlot /\ Target \in Versions
      /\ "model_migration" \in Reasons
  BY DEF BatchInv, BaseInv, PoolTypeOK, QueueInv, BatchAssumption, Reasons
<1>1. Enqueue(e, "model_migration", Target) /\ UNCHANGED worker
  BY DEF MigrateEnqueue, PipelineIdle
<1>2. ASSUME tail' = tail PROVE UNCHANGED jobs /\ (~Late(e) => HasWork(e))
  <2>1. UNCHANGED queueVars /\ KeyTaken(IdempotencyKey(e, "model_migration", Target), 0)
    BY <1>0, <1>1, <1>2 DEF Enqueue, QueueTypeOK
  <2>2. PICK j \in JobIds : Active(j) /\ jobs[j].entry = e /\ jobs[j].reason = "model_migration"
    BY <2>1 DEF KeyTaken, KeyOf, IdempotencyKey
  <2>3. ~Late(e) => Unwritten(j)
    BY <2>2 DEF Late, Unwritten, Waiting
  <2> QED BY <2>1, <2>2, <2>3 DEF HasWork, queueVars
<1>3. ASSUME tail' # tail PROVE HasWork(e)'
  <2>1. ~ UNCHANGED queueVars
    BY <1>3 DEF queueVars
  <2>2. PICK j \in JobIds : j = tail + 1 /\ jobs'[j] = NewJob(e, "model_migration", Target)
    BY <1>0, <1>1, <2>1, EnqueueEffect
  <2>3. Waiting(j)' /\ jobs'[j].entry = e
    BY <2>2 DEF NewJob, Waiting, Active, Live
  <2>4. \A w \in Workers : At(w, "wrote") => worker[w].job # j
    BY <1>0, <2>2 DEF OnFilledSlot, At, Busy, QueueTypeOK
  <2>5. Unwritten(j)'
    BY <1>1, <2>3, <2>4 DEF Unwritten, At
  <2> QED BY <2>3, <2>5 DEF HasWork
<1>4. MigratesOnly({e})
  BY <1>0, <1>1, CommandsKeepWork
<1> QED BY <1>2, <1>3, <1>4

(* A step of a batch job keeps the invariant.                              *)
LEMMA WalksKeepSettled ==
  ASSUME BatchInv, Remembered, Orderly, BatchesStill, SettledInv, Walking
  PROVE  SettledInv'
<1>0. /\ StoreTypeOK /\ WalkTypeOK /\ Entries \subseteq Nat
      /\ Migrations \subseteq Walks /\ Reevaluations \subseteq Walks
      /\ Migrations \cap Reevaluations = {} /\ Target # None
      /\ WorkKept /\ WritersStill /\ UNCHANGED worker
  BY WalksKeepWork, PipelineAssumption, BatchAssumption, StoreAssumption
     DEF BatchInv, CallersInv, CallersTypeOK, Walks, PipelineAssumption, BatchAssumption,
         StoreAssumption
<1>1. UNCHANGED jobs => MigratesOnly({})
  BY DEF MigratesOnly
<1>2. ASSUME NEW b \in Walks, NEW e \in Entries, Done(b, e)
      PROVE  /\ \A c \in Walks \ {b} : walk'[c] = walk[c]
             /\ \A f \in Entries : ~Owes(b, f)'
             /\ \A c \in Walks \ {b}, f \in Entries : Owes(c, f)' <=> Owes(c, f)
  <2>1. walk'[b].pc # "enqueue" /\ \A c \in Walks \ {b} : walk'[c] = walk[c]
    BY <1>0, <1>2, DoneEffect
  <2> QED BY <2>1 DEF Owes, NextInBatch
<1>3. ASSUME NEW b \in Walks, Passing(b) PROVE SettledInv'
  <2>1. UNCHANGED <<entries, jobs, migrated>> /\ \A c \in Walks \ {b} : walk'[c] = walk[c]
    BY <1>0, <1>3, PassingEffect
  <2>2. /\ stranded' = stranded \cup {e \in Entries : Owes(b, e)}
        /\ \A e \in Entries : ~Owes(b, e)'
    BY <1>0, <1>3, PassingStrands
  <2>3. \A c \in Walks \ {b}, e \in Entries : Owes(c, e)' <=> Owes(c, e)
    BY <2>1 DEF Owes, NextInBatch
  <2>4. \A e \in Entries : Progress(e)
    BY <1>0, <2>1, UpdatesProgress
  <2>5. \A c \in Migrations, e \in Entries :
          (Owes(c, e)' => Owes(c, e)) /\ (Owes(c, e) => Owes(c, e)' \/ e \in stranded')
    BY <1>0, <2>2, <2>3
  <2> QED BY <1>0, <1>1, <2>1, <2>2, <2>4, <2>5, SettledKept
<1>4. ASSUME NEW b \in Reevaluations, NEW e \in Entries, ReevaluationStep(b, e) PROVE SettledInv'
  <2>1. UNCHANGED <<jobs, migrated, stranded>> /\ Done(b, e)
    BY <1>4 DEF ReevaluationStep, ReevaluateSkip, ReevaluateRiskOnly, queueVars
  <2>2. UNCHANGED entries \/ \E c : SetRiskOnly(e, c)
    BY <1>4 DEF ReevaluationStep, ReevaluateSkip, ReevaluateRiskOnly
  <2>3. \A f \in Entries : Progress(f)
    BY <1>0, <2>2, UpdatesProgress
  <2>4. \A c \in Migrations, f \in Entries : Owes(c, f)' <=> Owes(c, f)
    BY <1>0, <1>2, <2>1
  <2> QED BY <1>0, <1>1, <2>1, <2>3, <2>4, SettledKept
<1>5. ASSUME NEW b \in Migrations, NEW e \in Entries, MigrateSkip(b, e) PROVE SettledInv'
  <2>1. /\ UNCHANGED <<entries, jobs, stranded>> /\ migrated' = migrated \cup {e} /\ Done(b, e)
        /\ e \in DOMAIN walk[b].batch /\ walk[b].batch[e].model = Target
        /\ walk[b].pc = "visit"
    BY <1>5 DEF MigrateSkip, NextInBatch, queueVars
  <2>2. Exists(e) /\ entries[e].status # "pending"
    BY <1>0, <2>1 DEF SettledInv, Statused, Remembered
  <2>3. \A f \in Entries : Progress(f)
    BY <1>0, <2>1, UpdatesProgress
  <2>4. \A f \in Entries : ~Owes(b, f)
    BY <2>1 DEF Owes
  <2>5. \A c \in Migrations, f \in Entries : Owes(c, f)' <=> Owes(c, f)
    BY <1>0, <1>2, <2>1, <2>4
  <2> QED BY <1>0, <1>1, <2>1, <2>2, <2>3, <2>5, SettledKept
<1>6. ASSUME NEW b \in Migrations, NEW e \in Entries, MigrateMark(b, e) PROVE SettledInv'
  <2>1. /\ UNCHANGED <<jobs, migrated>> /\ NextInBatch(b, e) /\ walk[b].pc = "visit"
        /\ walk' = [walk EXCEPT ![b].pc = "enqueue"]
        /\ stranded' = stranded \cup {f \in {e} : Late(f)}
        /\ (\A f \in Entries \ {e} : Progress(f)) /\ entries'[e].status = "stale"
    BY <1>0, <1>6, UpdatesProgress DEF MigrateMark, queueVars, PipelineIdle
  <2>2. /\ walk'[b].pc = "enqueue" /\ walk'[b].batch = walk[b].batch
        /\ \A c \in Walks \ {b} : walk'[c] = walk[c]
    BY <1>0, <2>1 DEF WalkTypeOK, Walk
  <2>3. Owes(b, e)'
    BY <2>1, <2>2 DEF Owes, NextInBatch
  <2>4. ASSUME NEW f \in Entries, f # e PROVE ~Owes(b, f) /\ ~Owes(b, f)'
    BY <1>0, <2>1, <2>2, <2>4 DEF Owes, NextInBatch
  <2>5. ASSUME NEW c \in Migrations, NEW f \in Entries, f # e PROVE Owes(c, f)' <=> Owes(c, f)
    BY <1>0, <2>2, <2>4, <2>5 DEF Owes, NextInBatch
  <2>6. Statused'
    BY <2>1, <2>5, StatusedKept DEF SettledInv
  <2>7. ASSUME NEW f \in Entries, entries'[f].status = "stale" PROVE Attended(f)'
    <3>1. CASE f = e
      BY <2>3, <3>1 DEF Attended
    <3>2. CASE f # e
      <4>1. entries[f].status = "stale" /\ ~Completed(f)'
        BY <2>1, <2>7, <3>2 DEF Progress, Completed
      <4>2. HasWork(f) => HasWork(f)'
        BY <1>0, <4>1, WorkStays
      <4> QED BY <2>1, <2>5, <3>2, <4>1, <4>2 DEF SettledInv, Attended
    <3> QED BY <3>1, <3>2
  <2>8. ASSUME NEW c \in Migrations, NEW f \in Entries, Owes(c, f)' PROVE Insertable(f)'
    <3>1. CASE f = e
      <4>1. Late(e)' <=> Late(e)
        BY <1>0, <2>1 DEF Late, At
      <4> QED BY <2>1, <3>1, <4>1 DEF Insertable
    <3>2. CASE f # e
      <4>1. Owes(c, f) /\ Exists(f) /\ Insertable(f)
        BY <1>0, <2>5, <2>8, <3>2 DEF Owes, NextInBatch, Remembered, SettledInv
      <4> QED BY <1>0, <1>1, <2>1, <3>2, <4>1, InsertableStays DEF Orderly
    <3> QED BY <3>1, <3>2
  <2> QED BY <2>6, <2>7, <2>8 DEF SettledInv
<1>7. ASSUME NEW b \in Migrations, NEW e \in Entries, MigrateEnqueue(b, e) PROVE SettledInv'
  <2>1. /\ UNCHANGED entries /\ migrated' = migrated \cup {e} /\ Done(b, e) /\ Owes(b, e)
        /\ stranded' = IF tail' = tail THEN stranded ELSE stranded \ {e}
    BY <1>7 DEF MigrateEnqueue
  <2>2. /\ tail' = tail => UNCHANGED jobs /\ (~Late(e) => HasWork(e))
        /\ tail' # tail => HasWork(e)'
        /\ MigratesOnly({e})
    BY <1>7, InsertCovers
  <2>3. \A f \in Entries : Progress(f)
    BY <1>0, <2>1, UpdatesProgress
  <2>4. Exists(e) /\ entries[e].status # "pending"
    BY <1>0, <2>1 DEF Owes, NextInBatch, Remembered, SettledInv, Statused
  <2>5. ASSUME NEW f \in Entries PROVE Owes(b, f) => f = e
    BY <1>0, <2>1 DEF Owes, NextInBatch
  <2>6. \A c \in Migrations, f \in Entries :
          (Owes(c, f)' => Owes(c, f)) /\ (Owes(c, f) => Owes(c, f)' \/ (c = b /\ f = e))
    BY <1>0, <1>2, <2>1, <2>5
  <2>7. CASE tail' = tail
    <3>1. e \in stranded \/ Completed(e) \/ HasWork(e)
      BY <2>1, <2>2, <2>7 DEF SettledInv, Insertable
    <3> QED BY <1>0, <1>1, <2>1, <2>2, <2>3, <2>4, <2>6, <2>7, <3>1, SettledKept
  <2>8. CASE tail' # tail
    BY <1>0, <2>1, <2>2, <2>3, <2>4, <2>6, <2>8, SettledKept
  <2> QED BY <2>7, <2>8
<1> QED BY <1>3, <1>4, <1>5, <1>6, <1>7, WalkingCases DEF MigrationStep

(* As long as nobody edits, every entry that migrations have handled is    *)
(* current, has a job that is queued or was given up, or is stranded,      *)
(* although workers die, leases are overrun, replies are lost, and         *)
(* migrations are aborted, started again and run at once                   *)
(* (ModelMigrationService.ts: "marks its intelligence stale and enqueues a *)
(* full recomputation").                                                   *)
THEOREM MigrationSettlesOrWaits ==
  ASSUME MaxEdits = 0
  PROVE  BatchSpec => []MigratedIsSettled
<1> DEFINE Inv == BatchInv /\ ValidInv /\ SettledInv
<1>1. BatchInit => Inv
  <2> SUFFICES ASSUME BatchInit PROVE Inv
    OBVIOUS
  <2>1. BatchInv /\ ValidInv
    BY BatchInitInv, ValidInit
  <2>2. migrated = {} /\ \A b \in Migrations : DOMAIN walk[b].batch = {}
    BY NothingInHand DEF BatchInit, Walks
  <2>3. ASSUME NEW e \in Entries
        PROVE  /\ entries[e].status \in {"pending", "completed"}
               /\ entries[e].model # None => entries[e].status # "pending"
    <3>1. PICK S \in SUBSET Entries : Inherited(S)
      BY DEF BatchInit
    <3>2. PICK v \in [S -> Versions \cup {None}], c \in [S -> Cores] :
            entries = [f \in Entries |->
                         IF f \notin S
                           THEN [NewEntry(CHOOSE d \in Cores : TRUE) EXCEPT !.exists = FALSE]
                         ELSE IF v[f] = None
                           THEN NewEntry(c[f])
                           ELSE [NewEntry(c[f]) EXCEPT !.status = "completed", !.model = v[f],
                                                       !.risk = c[f], !.vectors = c[f]]]
      BY <3>1 DEF Inherited
    <3> QED BY <3>2 DEF NewEntry
  <2>4. Statused
    BY <2>2, <2>3 DEF Statused
  <2>5. \A b \in Migrations, e \in Entries : ~Owes(b, e)
    BY <2>2 DEF Owes, NextInBatch
  <2> QED BY <2>1, <2>3, <2>4, <2>5 DEF SettledInv
<1>2. Inv /\ [BatchNext]_batchVars => Inv'
  <2> SUFFICES ASSUME Inv, [BatchNext]_batchVars PROVE Inv'
    OBVIOUS
  <2>1. BatchInv' /\ ValidInv'
    BY MaxEdits = 0, BatchInvInductive, ValidInvInductive
  <2>2. CASE (PipelineNext /\ NoWalk) \/ Walking
    <3>1. Orderly /\ BatchesStill
      BY <2>2, RememberedKept DEF ValidInv
    <3> QED BY <2>1, <2>2, <3>1, PipelineKeepsSettled, WalksKeepSettled DEF ValidInv
  <2>3. CASE UNCHANGED batchVars
    <3>1. UNCHANGED <<entries, jobs, worker, walk, migrated, stranded>>
      BY <2>3 DEF batchVars, pipelineVars, poolVars
    <3>2. SettledInv'
      BY <3>1 DEF SettledInv, Statused, Attended, Insertable, HasWork, Late, Owes, NextInBatch,
                  Exists, Completed, Unwritten, Waiting, Active, At
    <3> QED BY <2>1, <3>2
  <2> QED BY <2>2, <2>3 DEF BatchNext, NoWalk, Walking
<1>3. Inv => MigratedIsSettled
  <2> SUFFICES ASSUME Inv, NEW e \in migrated
               PROVE  \/ Settled(e) \/ InQueue(e) \/ GivenUp(e)
                      \/ e \in stranded \/ \E b \in Migrations : Owes(b, e)
    BY DEF MigratedIsSettled
  <2>1. e \in Entries /\ (Completed(e) \/ Attended(e))
    BY DEF BatchInv, WalkTypeOK, SettledInv, Statused, Completed
  <2>2. CASE Completed(e)
    BY <2>1, <2>2 DEF Completed, ValidInv, OfItsCore, Settled
  <2>3. CASE HasWork(e)
    BY <2>3 DEF HasWork, Unwritten, Waiting, InQueue, GivenUp
  <2> QED BY <2>1, <2>2, <2>3 DEF Attended
<1> QED BY <1>1, <1>2, <1>3, PTL DEF BatchSpec
=============================================================================

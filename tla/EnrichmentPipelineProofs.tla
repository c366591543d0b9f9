---------------------- MODULE EnrichmentPipelineProofs ----------------------
(***************************************************************************)
(* Proofs about the whole pipeline, for any number of handlers, workers,   *)
(* entries and jobs.  First, all that handlers, workers and sweeper do to  *)
(* the queue is what the worker pool allows, so that its theorems hold of  *)
(* the pipeline.  Second, for auditors who wait, stale entries have work.  *)
(* Third, whoever remembers an entry remembers one that exists.            *)
(***************************************************************************)
EXTENDS EnrichmentPipeline, WorkerPoolProofs

-----------------------------------------------------------------------------
(* Types, and the projection to the pool.                                  *)

CallersTypeOK ==
  /\ StoreTypeOK
  /\ req \in [Requests -> Handler]
  /\ seen \in [Workers -> Cores \cup {None}]
  /\ sweeper \in [Workers -> [pc : {"sleep", "scan", "enqueue"}, ids : SUBSET Entries]]
  /\ edits \in 0..MaxEdits /\ failures \in 0..MaxFailures /\ aborts \in 0..MaxAborts

\* A handler under way knows its entry, and what it is to write.
InHand == \A r \in Requests : /\ req[r].pc # "free" => req[r].entry \in Entries
                              /\ req[r].pc = "write" => req[r].patch \in Cores

CallersInv == CallersTypeOK /\ InHand

(* What a step of a handler does to the table of handlers.                 *)
LEMMA HandlerMoves ==
  ASSUME CallersInv, NEW r \in Requests,
         \/ \E pc \in {"enqueue", "mark", "enqueueChange"} : req[r].pc # "free" /\ Advance(r, pc)
         \/ Return(r)
  PROVE  req' \in [Requests -> Handler] /\ InHand'
<1>1. CASE Return(r)
  BY <1>1 DEF CallersInv, CallersTypeOK, InHand, Return, Free, Handler
<1>2. ASSUME NEW pc \in {"enqueue", "mark", "enqueueChange"}, req[r].pc # "free", Advance(r, pc)
      PROVE  req' \in [Requests -> Handler] /\ InHand'
  BY <1>2 DEF CallersInv, CallersTypeOK, InHand, Advance, Handler
<1> QED BY <1>1, <1>2

(* The updates of an entry keep the collection's type.                     *)
LEMMA StoreSteps ==
  ASSUME StoreTypeOK, StoreAssumption, NEW e \in Entries
  PROVE  /\ \A c \in Cores : Create(e, c) => StoreTypeOK'
         /\ \A c \in Cores, n \in Nat : UpdateCore(e, c, n) => StoreTypeOK'
         /\ \A c \in Cores \cup {None}, v \in Versions : SetIntelligence(e, c, v) => StoreTypeOK'
         /\ \A r \in Reasons : MarkIntelligenceStale(e, r) => StoreTypeOK'
<1> USE DEF StoreTypeOK, Entry, Statuses
<1>1. ASSUME NEW c \in Cores, Create(e, c) PROVE StoreTypeOK'
  BY <1>1 DEF Create, NewEntry
<1>2. ASSUME NEW c \in Cores, NEW n \in Nat, UpdateCore(e, c, n) PROVE StoreTypeOK'
  BY <1>2 DEF UpdateCore
<1>3. ASSUME NEW c \in Cores \cup {None}, NEW v \in Versions, SetIntelligence(e, c, v)
      PROVE  StoreTypeOK'
  <2>1. [entries[e] EXCEPT !.status = "completed", !.reason = None, !.model = v,
                           !.risk = c, !.vectors = c] \in Entry
    <3>1. entries[e] \in Entry
      OBVIOUS
    <3> QED BY <3>1
  <2>2. entries' = [entries EXCEPT ![e] = [entries[e] EXCEPT !.status = "completed",
                      !.reason = None, !.model = v, !.risk = c, !.vectors = c]]
    BY <1>3 DEF SetIntelligence
  <2> HIDE DEF Entry
  <2> QED BY <2>1, <2>2
<1>4. ASSUME NEW r \in Reasons, MarkIntelligenceStale(e, r) PROVE StoreTypeOK'
  <2>1. [entries[e] EXCEPT !.status = "stale", !.reason = r] \in Entry
    <3>1. entries[e] \in Entry
      OBVIOUS
    <3> QED BY <3>1
  <2>2. entries' = [entries EXCEPT ![e] = [entries[e] EXCEPT !.status = "stale", !.reason = r]]
    BY <1>4 DEF MarkIntelligenceStale
  <2> HIDE DEF Entry
  <2> QED BY <2>1, <2>2
<1> QED BY <1>1, <1>2, <1>3, <1>4

LEMMA CallersInitInv ==
  ASSUME PipelineInit
  PROVE  CallersInv
<1> USE StoreAssumption, PipelineAssumption
<1>1. (CHOOSE c \in Cores : TRUE) \in Cores
  BY DEF StoreAssumption
<1>2. StoreTypeOK
  BY <1>1 DEF PipelineInit, StoreInit, StoreTypeOK, NewEntry, Entry, Statuses
<1>3. /\ req \in [Requests -> Handler] /\ InHand
  BY DEF PipelineInit, CallersInit, Free, Handler, InHand
<1> QED BY <1>2, <1>3 DEF PipelineInit, CallersInit, CallersInv, CallersTypeOK, Asleep,
                          PipelineAssumption

(* Handlers' steps keep the types and are steps of the pool.               *)
LEMMA RequestSteps ==
  ASSUME CallersInv, NEW r \in Requests,
         CreateEntry(r) \/ ReadForEdit(r) \/ RequestStep(r) \/ AbortRequest(r)
  PROVE  CallersInv' /\ (PoolNext \/ UNCHANGED poolVars)
<1> USE StoreAssumption, PipelineAssumption DEF CallersInv, OthersIdle
<1>0. /\ StoreTypeOK /\ req \in [Requests -> Handler] /\ InHand /\ CallersTypeOK
      /\ "created" \in Reasons /\ "core_changed" \in Reasons /\ ServerVersion \in Versions
  BY DEF CallersTypeOK, Reasons, PipelineAssumption
<1>1. CASE CreateEntry(r)
  <2>1. PICK e \in Entries, c \in Cores :
          /\ Create(e, c)
          /\ req' = [req EXCEPT ![r] = [Free EXCEPT !.pc = "admit", !.entry = e]]
    BY <1>1 DEF CreateEntry
  <2>2. req' \in [Requests -> Handler] /\ InHand'
    BY <1>0, <2>1 DEF Free, Handler, InHand
  <2> QED BY <1>0, <1>1, <2>1, <2>2, StoreSteps DEF CreateEntry, CallersTypeOK, poolVars, queueVars
<1>2. CASE ReadForEdit(r)
  <2>1. PICK e \in Entries, c \in Cores :
          req' = [req EXCEPT ![r] = [pc |-> "write", entry |-> e, patch |-> c,
                                     base |-> entries[e].version,
                                     changed |-> entries[e].core # c]]
    BY <1>2 DEF ReadForEdit
  <2>2. entries[e].version \in Nat /\ (entries[e].core # c) \in BOOLEAN
    BY <1>0 DEF StoreTypeOK, Entry
  <2> DEFINE changed == entries[e].core # c
  <2> HIDE DEF changed
  <2>3. changed \in BOOLEAN
    BY DEF changed
  <2>4. req' = [req EXCEPT ![r] = [pc |-> "write", entry |-> e, patch |-> c,
                                   base |-> entries[e].version, changed |-> changed]]
    BY <2>1 DEF changed
  <2>5. req' \in [Requests -> Handler] /\ InHand'
    BY <1>0, <2>2, <2>3, <2>4 DEF Handler, InHand
  <2> QED BY <1>0, <1>2, <2>5 DEF ReadForEdit, CallersTypeOK, StoreTypeOK, poolVars, queueVars
<1>3. CASE Admit(r)
  <2>1. req' \in [Requests -> Handler] /\ InHand'
    BY <1>0, <1>3, HandlerMoves DEF Admit
  <2> QED BY <1>0, <1>3, <2>1 DEF Admit, CallersTypeOK, StoreTypeOK, poolVars, queueVars
<1>4. CASE EnqueueCreated(r)
  <2>1. req' \in [Requests -> Handler] /\ InHand'
    BY <1>0, <1>4, HandlerMoves DEF EnqueueCreated
  <2>2. Submit
    BY <1>0, <1>4 DEF EnqueueCreated, Submit, InHand
  <2> QED BY <1>0, <1>4, <2>1, <2>2 DEF EnqueueCreated, CallersTypeOK, StoreTypeOK, PoolNext
<1>5. CASE WriteCore(r)
  <2>1. req' \in [Requests -> Handler] /\ InHand'
    BY <1>0, <1>5, HandlerMoves DEF WriteCore
  <2>2. StoreTypeOK'
    <3>1. req[r].entry \in Entries /\ req[r].patch \in Cores /\ req[r].base \in Nat
      BY <1>0, <1>5 DEF WriteCore, InHand, Handler
    <3> QED BY <1>0, <1>5, <3>1, StoreSteps DEF WriteCore
  <2> QED BY <1>0, <1>5, <2>1, <2>2 DEF WriteCore, CallersTypeOK, poolVars, queueVars
<1>6. CASE Conflict(r)
  <2>1. req' \in [Requests -> Handler] /\ InHand'
    BY <1>0, <1>6, HandlerMoves DEF Conflict
  <2> QED BY <1>0, <1>6, <2>1 DEF Conflict, CallersTypeOK, StoreTypeOK, poolVars, queueVars
<1>7. CASE MarkStale(r)
  <2>1. req' \in [Requests -> Handler] /\ InHand'
    BY <1>0, <1>7, HandlerMoves DEF MarkStale
  <2>2. StoreTypeOK'
    BY <1>0, <1>7, StoreSteps DEF MarkStale, InHand
  <2> QED BY <1>0, <1>7, <2>1, <2>2 DEF MarkStale, CallersTypeOK, poolVars, queueVars
<1>8. CASE EnqueueChange(r)
  <2>1. req' \in [Requests -> Handler] /\ InHand'
    BY <1>0, <1>8, HandlerMoves DEF EnqueueChange
  <2>2. Submit
    BY <1>0, <1>8 DEF EnqueueChange, Submit, InHand
  <2> QED BY <1>0, <1>8, <2>1, <2>2 DEF EnqueueChange, CallersTypeOK, StoreTypeOK, PoolNext
<1>9. CASE AbortRequest(r)
  <2>1. req' \in [Requests -> Handler] /\ InHand'
    BY <1>0, <1>9, HandlerMoves DEF AbortRequest
  <2> QED BY <1>0, <1>9, <2>1 DEF AbortRequest, CallersTypeOK, StoreTypeOK, poolVars, queueVars
<1> QED BY <1>1, <1>2, <1>3, <1>4, <1>5, <1>6, <1>7, <1>8, <1>9 DEF RequestStep

(* What a step of a sweeper does to its own state and to the queue.        *)
LEMMA SweeperMoves ==
  ASSUME CallersTypeOK, NEW w \in Workers, Sweep(w) \/ SweepThrows(w)
  PROVE  /\ sweeper' \in [Workers -> [pc : {"sleep", "scan", "enqueue"}, ids : SUBSET Entries]]
         /\ \A v \in Workers \ {w} : sweeper'[v] = sweeper[v]
         /\ sweeper'[w].ids \subseteq sweeper[w].ids \cup FirstPending(SweepBatch)
         /\ UNCHANGED <<worker, crashes, entries, req, seen, edits, failures>>
         /\ \/ UNCHANGED queueVars \/ ReclaimStale
            \/ \E e \in sweeper[w].ids : Enqueue(e, "created", WorkerVersion)
<1>0. /\ sweeper \in [Workers -> [pc : {"sleep", "scan", "enqueue"}, ids : SUBSET Entries]]
      /\ FirstPending(SweepBatch) \subseteq Entries
      /\ Asleep \in [pc : {"sleep", "scan", "enqueue"}, ids : SUBSET Entries] /\ Asleep.ids = {}
  BY DEF CallersTypeOK, FirstPending, Asleep
<1>1. ASSUME NEW state \in [pc : {"sleep", "scan", "enqueue"}, ids : SUBSET Entries],
             SweepTo(w, state),
             state.ids \subseteq sweeper[w].ids \cup FirstPending(SweepBatch)
      PROVE  /\ sweeper' \in [Workers -> [pc : {"sleep", "scan", "enqueue"}, ids : SUBSET Entries]]
             /\ \A v \in Workers \ {w} : sweeper'[v] = sweeper[v]
             /\ sweeper'[w].ids \subseteq sweeper[w].ids \cup FirstPending(SweepBatch)
  BY <1>0, <1>1 DEF SweepTo
<1>2. CASE SweepReclaim(w)
  <2>1. SweepTo(w, [pc |-> "scan", ids |-> {}])
    BY <1>2 DEF SweepReclaim
  <2>2. /\ UNCHANGED <<worker, crashes, entries, req, seen, edits, failures>>
        /\ UNCHANGED queueVars \/ ReclaimStale
    BY <1>2 DEF SweepReclaim, Reap, poolVars, queueVars
  <2>3. PICK state \in [pc : {"sleep", "scan", "enqueue"}, ids : SUBSET Entries] :
          state = [pc |-> "scan", ids |-> {}]
    OBVIOUS
  <2>4. SweepTo(w, state) /\ state.ids = {}
    BY <2>1, <2>3
  <2> QED BY <1>1, <2>2, <2>4
<1>3. CASE SweepScan(w)
  <2>1. PICK state \in {Asleep, [pc |-> "enqueue", ids |-> FirstPending(SweepBatch)]} :
          SweepTo(w, state)
    BY <1>3 DEF SweepScan
  <2>2. UNCHANGED <<worker, crashes, entries, req, seen, edits, failures>> /\ UNCHANGED queueVars
    BY <1>3 DEF SweepScan, poolVars, queueVars
  <2>3. /\ state \in [pc : {"sleep", "scan", "enqueue"}, ids : SUBSET Entries]
        /\ state.ids \subseteq sweeper[w].ids \cup FirstPending(SweepBatch)
    BY <1>0
  <2> QED BY <1>1, <2>1, <2>2, <2>3
<1>4. CASE SweepEnqueue(w)
  <2>1. PICK e \in sweeper[w].ids :
          /\ Enqueue(e, "created", WorkerVersion)
          /\ SweepTo(w, IF sweeper[w].ids = {e} THEN Asleep
                        ELSE [pc |-> "enqueue", ids |-> sweeper[w].ids \ {e}])
    BY <1>4 DEF SweepEnqueue
  <2>2. PICK state \in {Asleep, [pc |-> "enqueue", ids |-> sweeper[w].ids \ {e}]} :
          SweepTo(w, state)
    BY <2>1
  <2>3. UNCHANGED <<worker, crashes, entries, req, seen, edits, failures>>
    BY <1>4 DEF SweepEnqueue
  <2> QED BY <1>0, <1>1, <2>1, <2>2, <2>3
<1>5. CASE SweepThrows(w)
  <2>1. SweepTo(w, Asleep)
    BY <1>5 DEF SweepThrows
  <2>2. UNCHANGED <<worker, crashes, entries, req, seen, edits, failures>> /\ UNCHANGED queueVars
    BY <1>5 DEF SweepThrows, poolVars, queueVars
  <2>3. {} \subseteq sweeper[w].ids \cup FirstPending(SweepBatch)
    OBVIOUS
  <2> HIDE DEF Sweep, SweepThrows
  <2> QED BY <1>0, <1>1, <2>1, <2>2, <2>3
<1> QED BY <1>2, <1>3, <1>4, <1>5 DEF Sweep

(* The workers' and the sweepers' steps keep the types and are steps of    *)
(* the pool.                                                               *)
LEMMA OtherSteps ==
  ASSUME CallersInv, BaseInv,
         \/ \E w \in Workers :
              \/ PipelineWorker(w) \/ WorkerDies(w) \/ LeaseLost(w)
              \/ Sweep(w) \/ SweepThrows(w)
         \/ LockTime
  PROVE  CallersInv' /\ (PoolNext \/ UNCHANGED poolVars)
<1> USE StoreAssumption, PipelineAssumption DEF CallersInv, RequestsIdle
<1>0. /\ StoreTypeOK /\ InHand /\ CallersTypeOK
      /\ "created" \in Reasons /\ ServerVersion \in Versions /\ WorkerVersion \in Versions
      /\ \A w \in Workers : Busy(w) => worker[w].job \in JobIds /\ jobs[worker[w].job] \in Job
      /\ UNCHANGED entries => StoreTypeOK'
      /\ UNCHANGED req => InHand'
  BY QueueAssumption DEF CallersTypeOK, Reasons, PipelineAssumption, BaseInv, PoolTypeOK,
     QueueTypeOK, OnFilledSlot, JobIds, StoreTypeOK, InHand
<1>1. ASSUME NEW w \in Workers, LoopStep(w) \/ LeaseLost(w)
      PROVE  CallersInv' /\ PoolNext
  BY <1>0, <1>1 DEF LoopStep, LeaseLost, CallersTypeOK, PoolNext, WorkerStep
<1>2. ASSUME NEW w \in Workers, EnrichRead(w) PROVE CallersInv' /\ PoolNext
  <2>1. entries[jobs[worker[w].job].entry].core \in Cores
    BY <1>0, <1>2 DEF EnrichRead, ReadEntry, At, Busy, Job, StoreTypeOK, Entry
  <2> QED BY <1>0, <1>2, <2>1 DEF EnrichRead, CallersTypeOK, PoolNext, WorkerStep
<1>3. ASSUME NEW w \in Workers, EnrichWrite(w) PROVE CallersInv' /\ PoolNext
  <2>1. jobs[worker[w].job].entry \in Entries /\ seen[w] \in Cores \cup {None}
    BY <1>0, <1>3 DEF EnrichWrite, WriteResult, At, Busy, Job, CallersTypeOK
  <2>2. StoreTypeOK'
    BY <1>0, <1>3, <2>1, StoreSteps DEF EnrichWrite
  <2> QED BY <1>0, <1>3, <2>2 DEF EnrichWrite, CallersTypeOK, PoolNext, WorkerStep
<1>4. ASSUME NEW w \in Workers, EnrichThrows(w) PROVE CallersInv' /\ PoolNext
  BY <1>0, <1>4 DEF EnrichThrows, CallersTypeOK, PoolNext, WorkerStep
<1>5. ASSUME NEW w \in Workers, WorkerDies(w) PROVE CallersInv' /\ PoolNext
  BY <1>0, <1>5 DEF WorkerDies, CallersTypeOK, PoolNext, Asleep
<1>6. CASE LockTime
  BY <1>0, <1>6 DEF LockTime, CallersTypeOK, PoolNext
<1>7. ASSUME NEW w \in Workers, Sweep(w) \/ SweepThrows(w)
      PROVE  CallersInv' /\ (PoolNext \/ UNCHANGED poolVars)
  <2>1. aborts' \in 0..MaxAborts
    BY <1>0, <1>7 DEF Sweep, SweepReclaim, SweepScan, SweepEnqueue, SweepThrows, CallersTypeOK
  <2>2. CallersInv'
    BY <1>0, <1>7, <2>1, SweeperMoves DEF CallersTypeOK
  <2>3. CASE SweepReclaim(w) \/ SweepScan(w) \/ SweepThrows(w)
    BY <2>2, <2>3 DEF SweepReclaim, SweepScan, SweepThrows, PoolNext
  <2>4. CASE SweepEnqueue(w)
    <3>1. PICK e \in sweeper[w].ids : Enqueue(e, "created", WorkerVersion)
      BY <2>4 DEF SweepEnqueue
    <3>2. e \in Entries
      BY <1>0, <3>1 DEF CallersTypeOK
    <3>3. Submit
      BY <1>0, <2>4, <3>1, <3>2 DEF SweepEnqueue, Submit
    <3> QED BY <2>2, <3>3 DEF PoolNext
  <2> QED BY <1>7, <2>3, <2>4 DEF Sweep
<1> QED BY <1>1, <1>2, <1>3, <1>4, <1>5, <1>6, <1>7 DEF PipelineWorker

(* Both invariants together are inductive, and every step is the pool's.   *)
LEMMA PipelineStep ==
  /\ PipelineInit => CallersInv /\ BaseInv
  /\ CallersInv /\ BaseInv /\ [PipelineNext]_pipelineVars
       => CallersInv' /\ BaseInv' /\ [PoolNext]_poolVars
<1>1. PipelineInit => CallersInv /\ BaseInv
  BY CallersInitInv, BaseInvInductive DEF PipelineInit
<1>2. ASSUME CallersInv, BaseInv, PipelineNext
      PROVE  CallersInv' /\ [PoolNext]_poolVars
  BY <1>2, RequestSteps, OtherSteps DEF PipelineNext
<1>3. ASSUME CallersInv, UNCHANGED pipelineVars
      PROVE  CallersInv' /\ UNCHANGED poolVars
  BY <1>3 DEF pipelineVars, CallersInv, CallersTypeOK, StoreTypeOK, InHand
<1> QED BY <1>1, <1>2, <1>3, BaseInvInductive

(* Whatever handlers, workers and sweeper do, the queue sees the worker    *)
(* pool: every theorem about the pool holds of the pipeline.               *)
THEOREM PipelineRunsPool == PipelineSpec => PoolSpec
<1>1. PipelineInit => PoolInit
  BY DEF PipelineInit
<1> QED BY <1>1, PipelineStep, PTL DEF PipelineSpec, PoolSpec

(* Every variable of the pipeline keeps its type.                          *)
THEOREM PipelineTypeCorrect == PipelineSpec => []PipelineTypeOK
<1>1. CallersInv /\ BaseInv => PipelineTypeOK
  BY DEF CallersInv, CallersTypeOK, BaseInv, PipelineTypeOK
<1> QED BY <1>1, PipelineStep, PTL DEF PipelineSpec

(* In the whole pipeline, with any faults, active keys stay unique and     *)
(* every processing job stays visible to the reaper.                       *)
THEOREM PipelineQueueCorrect == PipelineSpec => [](UniqueActiveKey /\ LockedIffProcessing)
<1>1. BaseInv => UniqueActiveKey /\ LockedIffProcessing
  BY DEF BaseInv, QueueInv
<1> QED BY <1>1, PipelineStep, PTL DEF PipelineSpec

-----------------------------------------------------------------------------
(* Stale entries have work, when auditors wait for their last edit and no  *)
(* handler dies.  The argument: an edit of an entry is written only while  *)
(* no recomputation of it is active and no other handler is about to mark  *)
(* it, so the result written last for a recomputation was written after    *)
(* the mark, and completing that job leaves nothing stale behind.          *)

\* Job j recomputes e after an edit, and is not yet over.
Recomputes(j, e) == Active(j) /\ jobs[j].entry = e /\ jobs[j].reason = "core_changed"
Underway(e)      == \E j \in JobIds : Recomputes(j, e)
Failed(j, e)     == jobs[j].status = "failed" /\ jobs[j].entry = e

\* Handler r is to write its edit of e, is still first to do so, or has
\* written it and is to mark and enqueue e.
Writing(r, e) == req[r].pc = "write" /\ req[r].entry = e
Current(r, e) == Writing(r, e) /\ req[r].base = entries[e].version
Marking(r, e) == req[r].pc \in {"mark", "enqueueChange"} /\ req[r].entry = e

OneMarker ==
  \A e \in Entries : \A r, s \in Requests : Marking(r, e) /\ Marking(s, e) => r = s

EditsAlone ==
  \A e \in Entries : \A r \in Requests :
    /\ Marking(r, e) \/ Current(r, e) => ~Underway(e)
    /\ Current(r, e) => \A s \in Requests : ~Marking(s, e)

EditsExisting ==
  \A e \in Entries : \A r \in Requests :
    Marking(r, e) \/ Writing(r, e) => Exists(e) /\ req[r].base <= entries[e].version

FreshResult ==
  \A w \in Workers : \A j \in JobIds : \A e \in Entries :
    At(w, "wrote") /\ worker[w].job = j /\ Recomputes(j, e) => entries[e].status # "stale"

Promised ==
  \A e \in Entries : entries[e].status = "stale" =>
    \/ \E r \in Requests : Marking(r, e)
    \/ \E j \in JobIds : Failed(j, e)
    \/ Underway(e)

StaleInv == OneMarker /\ EditsAlone /\ EditsExisting /\ FreshResult /\ Promised

\* The queue goes on: no recomputation appears, and none but those in S
\* disappears, except by being given up.
Steady(S) ==
  \A j \in JobIds : \A e \in Entries :
    /\ Recomputes(j, e)' => Recomputes(j, e)
    /\ Recomputes(j, e) => Recomputes(j, e)' \/ Failed(j, e)' \/ j \in S
    /\ Failed(j, e) => Failed(j, e)'

(* Commands on jobs that are processing keep all recomputations but those  *)
(* they complete.                                                          *)
LEMMA CommandsAreSteady ==
  ASSUME QueueTypeOK, FreshSlots, QueueAssumption
  PROVE  /\ UNCHANGED queueVars => Steady({})
         /\ \A e \in Entries, v \in Versions :
              "created" \in Reasons /\ Enqueue(e, "created", v) => Steady({})
         /\ \A w \in Workers, j \in JobIds : ClaimNext(w, j) => Steady({})
         /\ \A j \in JobIds : jobs[j].status = "processing" =>
              /\ Requeue(j) \/ Bury(j) => Steady({})
              /\ Complete(j) => Steady({j})
         /\ \A j \in JobIds : LockExpires(j) => Steady({})
         /\ ReclaimStale => Steady({})
<1> USE DEF Steady, Recomputes, Failed, Active, Live
<1>1. ASSUME UNCHANGED queueVars PROVE Steady({})
  BY <1>1 DEF queueVars
<1>2. ASSUME NEW e \in Entries, NEW v \in Versions, "created" \in Reasons, Enqueue(e, "created", v)
      PROVE  Steady({})
  <2>1. CASE UNCHANGED queueVars
    BY <1>1, <2>1
  <2>2. CASE ~ UNCHANGED queueVars
    <3>1. /\ tail + 1 \in JobIds /\ OnlyChanges(tail + 1)
          /\ jobs'[tail + 1] = NewJob(e, "created", v)
      BY <1>2, <2>2, EnqueueEffect
    <3>2. jobs[tail + 1].status = "absent" /\ jobs'[tail + 1].reason = "created"
      BY <3>1 DEF FreshSlots, NewJob, QueueTypeOK, JobIds
    <3> QED BY <3>1, <3>2 DEF OnlyChanges
  <2> QED BY <2>1, <2>2
<1>3. ASSUME NEW w \in Workers, NEW j \in JobIds, ClaimNext(w, j) PROVE Steady({})
  BY <1>3, ClaimEffect DEF OnlyChanges, SameKey
<1>4. ASSUME NEW j \in JobIds, jobs[j].status = "processing", Requeue(j) \/ Bury(j)
      PROVE  Steady({})
  <2>1. PICK s \in {"pending", "failed"} : Settles(j, s) /\ tail' = tail
    BY <1>4 DEF Requeue, Bury, Settles
  <2>2. OnlyChanges(j) /\ SameKey(j) /\ jobs'[j].status = s
    BY <2>1, SettleEffect DEF Dead
  <2> QED BY <1>4, <2>2 DEF OnlyChanges, SameKey
<1>5. ASSUME NEW j \in JobIds, jobs[j].status = "processing", Complete(j) PROVE Steady({j})
  <2>1. OnlyChanges(j) /\ SameKey(j) /\ jobs'[j].status = "completed"
    BY <1>5, SettleEffect DEF Complete, Settles, Dead
  <2> QED BY <1>5, <2>1 DEF OnlyChanges, SameKey
<1>6. ASSUME NEW j \in JobIds, LockExpires(j) PROVE Steady({})
  BY <1>6, ExpiryEffect DEF OnlyChanges, SameKey
<1>7. ASSUME ReclaimStale PROVE Steady({})
  BY <1>7, ReapEffect DEF SameKey, Expired
<1> QED BY <1>1, <1>2, <1>3, <1>4, <1>5, <1>6, <1>7

(* What a steady queue leaves to show when handlers and entries stand      *)
(* still: results are written, and jobs completed, in the order they were. *)
LEMMA SteadyKeepsStaleInv ==
  ASSUME StaleInv, NEW S \in SUBSET JobIds, Steady(S), UNCHANGED <<entries, req>>,
         \A w \in Workers : At(w, "wrote")' => At(w, "wrote") /\ worker'[w].job = worker[w].job,
         \A j \in S : \A e \in Entries : Recomputes(j, e) => entries[e].status # "stale"
  PROVE  StaleInv'
<1> USE DEF StaleInv, Marking, Writing, Current, Underway, Exists
<1>1. \A e \in Entries : Underway(e)' => Underway(e)
  BY DEF Steady
<1>2. OneMarker' /\ EditsAlone' /\ EditsExisting'
  BY <1>1 DEF OneMarker, EditsAlone, EditsExisting
<1>3. FreshResult'
  <2> SUFFICES ASSUME NEW w \in Workers, NEW j \in JobIds, NEW e \in Entries,
                      At(w, "wrote")', worker'[w].job = j, Recomputes(j, e)'
               PROVE  entries'[e].status # "stale"
    BY DEF FreshResult
  <2>1. At(w, "wrote") /\ worker[w].job = j /\ Recomputes(j, e)
    BY DEF Steady
  <2> QED BY <2>1 DEF FreshResult
<1>4. Promised'
  <2> SUFFICES ASSUME NEW e \in Entries, entries[e].status = "stale"
               PROVE  \/ \E r \in Requests : Marking(r, e)
                      \/ \E j \in JobIds : Failed(j, e)'
                      \/ Underway(e)'
    BY DEF Promised
  <2>1. \A j \in JobIds : Recomputes(j, e) => Recomputes(j, e)' \/ Failed(j, e)'
    BY DEF Steady
  <2>2. \A j \in JobIds : Failed(j, e) => Failed(j, e)'
    BY DEF Steady
  <2> QED BY <2>1, <2>2 DEF Promised
<1> QED BY <1>2, <1>3, <1>4

(* A handler that lets go, or was not marking, changes nothing here.       *)
LEMMA HandlersKeepStaleInv ==
  ASSUME StaleInv, Steady({}), UNCHANGED worker, NEW r \in Requests, CallersInv,
         \A s \in Requests \ {r} : req'[s] = req[s],
         req[r].pc \notin {"mark", "enqueueChange"},
         req'[r].pc \notin {"write", "mark", "enqueueChange"},
         \A e \in Entries : \/ entries'[e] = entries[e]
                            \/ ~Exists(e) /\ entries'[e].status # "stale"
  PROVE  StaleInv'
<1> USE DEF StaleInv, Marking, Writing, Current, Underway, Exists
<1>1. \A e \in Entries : Underway(e)' => Underway(e)
  BY DEF Steady
<1>2. \A s \in Requests, e \in Entries :
        /\ Marking(s, e)' <=> Marking(s, e)
        /\ Writing(s, e)' => Writing(s, e) /\ req'[s] = req[s]
  OBVIOUS
<1>3. \A s \in Requests, e \in Entries : Marking(s, e) \/ Writing(s, e) => entries'[e] = entries[e]
  BY DEF EditsExisting
<1>4. OneMarker' /\ EditsAlone' /\ EditsExisting'
  <2>1. OneMarker'
    BY <1>2 DEF OneMarker
  <2>2. \A s \in Requests, e \in Entries : Current(s, e)' => Current(s, e)
    BY <1>2, <1>3
  <2>3. EditsAlone'
    BY <1>1, <1>2, <2>2 DEF EditsAlone
  <2>4. EditsExisting'
    BY <1>2, <1>3 DEF EditsExisting
  <2> QED BY <2>1, <2>3, <2>4
<1>5. FreshResult'
  <2> SUFFICES ASSUME NEW w \in Workers, NEW j \in JobIds, NEW e \in Entries,
                      At(w, "wrote")', worker'[w].job = j, Recomputes(j, e)'
               PROVE  entries'[e].status # "stale"
    BY DEF FreshResult
  <2>1. At(w, "wrote") /\ worker[w].job = j /\ Recomputes(j, e)
    BY DEF Steady, At
  <2> QED BY <2>1 DEF FreshResult
<1>6. Promised'
  <2> SUFFICES ASSUME NEW e \in Entries, entries[e].status = "stale"
               PROVE  \/ \E s \in Requests : Marking(s, e)
                      \/ \E j \in JobIds : Failed(j, e)'
                      \/ Underway(e)'
    BY <1>2 DEF Promised
  <2>1. \A j \in JobIds : Recomputes(j, e) => Recomputes(j, e)' \/ Failed(j, e)'
    BY DEF Steady
  <2>2. \A j \in JobIds : Failed(j, e) => Failed(j, e)'
    BY DEF Steady
  <2> QED BY <2>1, <2>2 DEF Promised
<1> QED BY <1>4, <1>5, <1>6

(* Each step of a handler, when auditors wait and no handler dies.         *)
LEMMA RequestsKeepStaleInv ==
  ASSUME PatientEdits, MaxAborts = 0, CallersInv, RefInv, StaleInv, NEW r \in Requests,
         CreateEntry(r) \/ ReadForEdit(r) \/ RequestStep(r) \/ AbortRequest(r)
  PROVE  StaleInv'
<1> USE QueueAssumption, PipelineAssumption DEF OthersIdle
<1>0. /\ QueueTypeOK /\ FreshSlots /\ ServerVersion \in Versions
      /\ "created" \in Reasons /\ "core_changed" \in Reasons
      /\ req \in [Requests -> Handler] /\ StoreTypeOK /\ InHand /\ aborts \in 0..MaxAborts
  BY DEF RefInv, BudgetInv, LeaseInv, BaseInv, PoolTypeOK, QueueInv, PipelineAssumption,
         Reasons, CallersInv, CallersTypeOK
<1>1. CASE CreateEntry(r)
  <2>1. PICK e \in Entries, c \in Cores : /\ ~Exists(e) /\ Create(e, c)
              /\ req' = [req EXCEPT ![r] = [Free EXCEPT !.pc = "admit", !.entry = e]]
              /\ req[r].pc = "free"
    BY <1>1 DEF CreateEntry
  <2>2. \A f \in Entries : entries'[f] = entries[f] \/ (~Exists(f) /\ entries'[f].status # "stale")
    BY <1>0, <2>1 DEF Create, NewEntry, StoreTypeOK
  <2>3. req'[r].pc = "admit" /\ \A s \in Requests \ {r} : req'[s] = req[s]
    BY <1>0, <2>1 DEF Free
  <2> QED BY <1>0, <1>1, <2>1, <2>2, <2>3, CommandsAreSteady, HandlersKeepStaleInv
          DEF CreateEntry
<1>2. CASE Admit(r) \/ EnqueueCreated(r)
  <2>1. /\ req[r].pc \in {"admit", "enqueue"} /\ req'[r].pc \in {"enqueue", "free"}
        /\ \A s \in Requests \ {r} : req'[s] = req[s]
        /\ entries' = entries /\ worker' = worker
    BY <1>0, <1>2 DEF Admit, EnqueueCreated, Advance, Return, Free, Handler
  <2>2. UNCHANGED queueVars \/ Enqueue(req[r].entry, "created", ServerVersion)
    BY <1>2 DEF Admit, EnqueueCreated
  <2>3. req[r].entry \in Entries
    BY <1>0, <2>1 DEF InHand
  <2> QED BY <1>0, <2>1, <2>2, <2>3, CommandsAreSteady, HandlersKeepStaleInv
<1>3. CASE Conflict(r)
  <2>1. /\ req[r].pc = "write" /\ req'[r].pc = "free"
        /\ \A s \in Requests \ {r} : req'[s] = req[s]
        /\ entries' = entries /\ worker' = worker /\ UNCHANGED queueVars
    BY <1>0, <1>3 DEF Conflict, Return, Free
  <2> QED BY <1>0, <2>1, CommandsAreSteady, HandlersKeepStaleInv
<1>4. ~AbortRequest(r)
  BY <1>0, MaxAborts = 0 DEF AbortRequest
<1>5. CASE ReadForEdit(r)
  <2>1. PICK e \in Entries, c \in Cores :
          /\ Exists(e) /\ Quiet(e)
          /\ req' = [req EXCEPT ![r] = [pc |-> "write", entry |-> e, patch |-> c,
                                        base |-> entries[e].version,
                                        changed |-> entries[e].core # c]]
    BY <1>5, PatientEdits DEF ReadForEdit
  <2>2. /\ req[r].pc = "free" /\ UNCHANGED <<jobs, entries, worker>>
    BY <1>5 DEF ReadForEdit, queueVars
  <2>3. /\ req'[r].pc = "write" /\ req'[r].entry = e /\ req'[r].base = entries[e].version
        /\ \A s \in Requests \ {r} : req'[s] = req[s]
    BY <1>0, <2>1
  <2>4. ~Underway(e) /\ \A s \in Requests : ~Marking(s, e)
    BY <2>1 DEF Quiet, Underway, Recomputes, Marking, Handles
  <2>5. \A s \in Requests, f \in Entries :
          /\ Marking(s, f)' <=> Marking(s, f)
          /\ Writing(s, f)' => (Writing(s, f) /\ req'[s] = req[s]) \/ (s = r /\ f = e)
          /\ Underway(f)' <=> Underway(f)
    BY <2>2, <2>3 DEF Marking, Writing, Underway, Recomputes, Active
  <2>6. entries[e].version \in Nat
    BY <1>0 DEF StoreTypeOK, Entry
  <2>7. OneMarker' /\ EditsExisting'
    BY <2>1, <2>2, <2>3, <2>5, <2>6 DEF StaleInv, OneMarker, EditsExisting, Exists, Marking
  <2>8. EditsAlone'
    BY <2>2, <2>3, <2>4, <2>5 DEF StaleInv, EditsAlone, Current
  <2>9. FreshResult' /\ Promised'
    BY <2>2, <2>5 DEF StaleInv, FreshResult, Promised, Recomputes, Failed, Active, At
  <2> QED BY <2>7, <2>8, <2>9 DEF StaleInv
<1>6. CASE WriteCore(r)
  <2>1. PICK e \in Entries : e = req[r].entry
    BY <1>0, <1>6 DEF WriteCore, InHand
  <2>2. Current(r, e) /\ UNCHANGED <<jobs, worker>>
    BY <1>6, <2>1 DEF WriteCore, UpdateCore, Current, Writing, queueVars
  <2>3. ~Underway(e) /\ \A s \in Requests : ~Marking(s, e)
    BY <2>2 DEF StaleInv, EditsAlone
  <2>4. /\ \A f \in Entries : /\ entries'[f].status = entries[f].status
                              /\ entries'[f].exists = entries[f].exists
        /\ \A f \in Entries \ {e} : entries'[f] = entries[f]
        /\ entries'[e].version = entries[e].version + 1
        /\ \A f \in Entries : entries[f].version \in Nat
    BY <1>0, <1>6, <2>1 DEF WriteCore, UpdateCore, StoreTypeOK, Entry
  <2>5. /\ req'[r].pc \in {"mark", "free"}
        /\ req'[r].pc = "mark" => req'[r].entry = e /\ req'[r].base = req[r].base
        /\ \A s \in Requests \ {r} : req'[s] = req[s]
        /\ \A s \in Requests : req[s].base \in Nat
    BY <1>0, <1>6, <2>1 DEF WriteCore, Advance, Return, Free, Handler
  <2>6. \A s \in Requests, f \in Entries :
          /\ Marking(s, f)' =>
               (Marking(s, f) /\ req'[s] = req[s] /\ f # e) \/ (s = r /\ f = e)
          /\ Marking(s, f) => Marking(s, f)'
          /\ Writing(s, f)' => Writing(s, f) /\ req'[s] = req[s]
          /\ Underway(f)' <=> Underway(f)
    BY <2>2, <2>3, <2>5 DEF Marking, Writing, Current, Underway, Recomputes, Active
  <2>7. OneMarker'
    BY <2>3, <2>6 DEF StaleInv, OneMarker
  <2>8. \A s \in Requests, f \in Entries : Current(s, f)' => Current(s, f) /\ f # e
    <3>1. \A s \in Requests : Writing(s, e) => req[s].base <= entries[e].version
      BY DEF StaleInv, EditsExisting
    <3> QED BY <2>4, <2>5, <2>6, <3>1 DEF Current
  <2>9. EditsAlone'
    BY <2>3, <2>6, <2>8 DEF StaleInv, EditsAlone
  <2>10. EditsExisting'
    <3> SUFFICES ASSUME NEW f \in Entries, NEW s \in Requests, Marking(s, f)' \/ Writing(s, f)'
                 PROVE  entries[f].exists /\ req'[s].base <= entries'[f].version
      BY <2>4 DEF EditsExisting, Exists
    <3>1. Writing(r, e) /\ (Marking(s, f) \/ Writing(s, f) \/ (s = r /\ f = e))
      BY <2>2, <2>6 DEF Current
    <3>2. entries[f].exists /\ req[s].base <= entries[f].version
      BY <3>1 DEF StaleInv, EditsExisting, Exists
    <3>3. req'[s].base = req[s].base
      BY <2>5, <2>6 DEF Marking, Writing
    <3>4. entries'[f].version = entries[f].version \/ entries'[f].version = entries[f].version + 1
      BY <2>4
    <3>5. req[s].base \in Nat /\ entries[f].version \in Nat
      BY <2>4, <2>5
    <3> QED BY <3>2, <3>3, <3>4, <3>5
  <2>11. FreshResult'
    BY <2>2, <2>4 DEF StaleInv, FreshResult, Recomputes, Active, At
  <2>12. Promised'
    BY <2>2, <2>4, <2>6 DEF StaleInv, Promised, Failed
  <2> QED BY <2>7, <2>9, <2>10, <2>11, <2>12 DEF StaleInv
<1>7. CASE MarkStale(r)
  <2>1. PICK e \in Entries : e = req[r].entry
    BY <1>0, <1>7 DEF MarkStale, InHand
  <2>2. Marking(r, e) /\ UNCHANGED <<jobs, worker>>
    BY <1>7, <2>1 DEF MarkStale, Marking, queueVars
  <2>3. ~Underway(e)
    BY <2>2 DEF StaleInv, EditsAlone
  <2>4. /\ \A f \in Entries : /\ entries'[f].version = entries[f].version
                              /\ entries'[f].exists = entries[f].exists
        /\ \A f \in Entries \ {e} : entries'[f] = entries[f]
    BY <1>0, <1>7, <2>1 DEF MarkStale, MarkIntelligenceStale, StoreTypeOK, Entry
  <2>5. /\ req'[r].pc = "enqueueChange" /\ req'[r].entry = e /\ req'[r].base = req[r].base
        /\ \A s \in Requests \ {r} : req'[s] = req[s]
    BY <1>0, <1>7, <2>1 DEF MarkStale, Advance, Handler
  <2>6. \A s \in Requests, f \in Entries :
          /\ Marking(s, f)' <=> Marking(s, f)
          /\ Writing(s, f)' <=> Writing(s, f)
          /\ Current(s, f)' <=> Current(s, f)
          /\ req'[s].base = req[s].base
          /\ Underway(f)' <=> Underway(f)
    BY <2>2, <2>4, <2>5 DEF Marking, Writing, Current, Underway, Recomputes, Active
  <2>7. OneMarker' /\ EditsAlone' /\ EditsExisting'
    BY <2>4, <2>6 DEF StaleInv, OneMarker, EditsAlone, EditsExisting, Exists
  <2>8. FreshResult'
    <3> SUFFICES ASSUME NEW w \in Workers, NEW j \in JobIds, NEW f \in Entries,
                        At(w, "wrote"), worker[w].job = j, Recomputes(j, f)
                 PROVE  entries'[f].status # "stale"
      BY <2>2 DEF FreshResult, Recomputes, Active, At
    <3>1. f # e
      BY <2>3 DEF Underway
    <3> QED BY <2>4, <3>1 DEF StaleInv, FreshResult
  <2>9. Promised'
    <3> SUFFICES ASSUME NEW f \in Entries, entries'[f].status = "stale"
                 PROVE  \/ \E s \in Requests : Marking(s, f)
                        \/ \E j \in JobIds : Failed(j, f)
                        \/ Underway(f)
      BY <2>2, <2>6 DEF Promised, Failed
    <3>1. CASE f = e  BY <2>2, <3>1
    <3>2. CASE f # e  BY <2>4, <3>2 DEF StaleInv, Promised
    <3> QED BY <3>1, <3>2
  <2> QED BY <2>7, <2>8, <2>9 DEF StaleInv
<1>8. CASE EnqueueChange(r)
  <2>1. PICK e \in Entries : e = req[r].entry
    BY <1>0, <1>8 DEF EnqueueChange, InHand
  <2>2. Marking(r, e) /\ UNCHANGED <<entries, worker>>
    BY <1>8, <2>1 DEF EnqueueChange, Marking
  <2>3. /\ ~Underway(e)
        /\ \A s \in Requests : ~Current(s, e) /\ (Marking(s, e) => s = r)
    BY <2>2 DEF StaleInv, EditsAlone, OneMarker
  <2>4. /\ req'[r].pc = "free"
        /\ \A s \in Requests \ {r} : req'[s] = req[s]
    BY <1>0, <1>8 DEF EnqueueChange, Return, Free
  <2>5. ~KeyTaken(IdempotencyKey(e, "core_changed", ServerVersion), 0)
    BY <2>3 DEF KeyTaken, KeyOf, IdempotencyKey, Underway, Recomputes
  <2>6. PICK k \in JobIds : /\ OnlyChanges(k) /\ jobs[k].status = "absent"
                           /\ jobs'[k] = NewJob(e, "core_changed", ServerVersion)
    <3>1. Enqueue(e, "core_changed", ServerVersion) /\ tail' = tail + 1
      BY <1>8, <2>1, <2>5 DEF EnqueueChange, Enqueue
    <3>2. ~ UNCHANGED queueVars
      BY <1>0, <3>1 DEF queueVars, QueueTypeOK
    <3>3. /\ tail + 1 \in JobIds /\ OnlyChanges(tail + 1)
          /\ jobs'[tail + 1] = NewJob(e, "core_changed", ServerVersion)
      BY <1>0, <3>1, <3>2, EnqueueEffect
    <3> QED BY <1>0, <3>3 DEF FreshSlots, JobIds, QueueTypeOK
  <2>7. /\ Recomputes(k, e)'
        /\ \A j \in JobIds, f \in Entries :
             /\ Recomputes(j, f)' => Recomputes(j, f) \/ (j = k /\ f = e)
             /\ Recomputes(j, f) => Recomputes(j, f)'
             /\ Failed(j, f) => Failed(j, f)'
    BY <2>6 DEF OnlyChanges, Recomputes, Failed, Active, Live, NewJob
  <2>8. \A s \in Requests, f \in Entries :
          /\ Marking(s, f)' => Marking(s, f) /\ f # e /\ req'[s] = req[s]
          /\ Writing(s, f)' => Writing(s, f) /\ req'[s] = req[s]
          /\ f # e => (Marking(s, f)' <=> Marking(s, f)) /\ (Underway(f)' <=> Underway(f))
    BY <2>1, <2>2, <2>3, <2>4, <2>7 DEF Marking, Writing, Underway
  <2>9. OneMarker' /\ EditsExisting'
    BY <2>2, <2>8 DEF StaleInv, OneMarker, EditsExisting, Exists
  <2>10. EditsAlone'
    <3>1. \A s \in Requests, f \in Entries : Current(s, f)' => Current(s, f) /\ f # e
      BY <2>2, <2>3, <2>8 DEF Current
    <3> QED BY <2>8, <3>1 DEF StaleInv, EditsAlone
  <2>11. FreshResult'
    <3> SUFFICES ASSUME NEW w \in Workers, NEW j \in JobIds, NEW f \in Entries,
                        At(w, "wrote"), worker[w].job = j, Recomputes(j, f)'
                 PROVE  entries[f].status # "stale"
      BY <2>2 DEF FreshResult, At
    <3>1. j # k
      BY <2>6 DEF RefInv, OnProcessing, Busy, At
    <3> QED BY <2>7, <3>1 DEF StaleInv, FreshResult
  <2>12. Promised'
    <3> SUFFICES ASSUME NEW f \in Entries, entries[f].status = "stale"
                 PROVE  \/ \E s \in Requests : Marking(s, f)'
                        \/ \E j \in JobIds : Failed(j, f)'
                        \/ Underway(f)'
      BY <2>2 DEF Promised
    <3>1. CASE f = e  BY <2>7, <3>1 DEF Underway
    <3>2. CASE f # e  BY <2>7, <2>8, <3>2 DEF StaleInv, Promised
    <3> QED BY <3>1, <3>2
  <2> QED BY <2>9, <2>10, <2>11, <2>12 DEF StaleInv
<1> QED BY <1>1, <1>2, <1>3, <1>4, <1>5, <1>6, <1>7, <1>8 DEF RequestStep

(* The workers' and the sweepers' steps.                                   *)
LEMMA OthersKeepStaleInv ==
  ASSUME LeaseRespected, RepliesArrive, CallersInv, RefInv, StaleInv,
         \/ \E w \in Workers :
              \/ PipelineWorker(w) \/ WorkerDies(w) \/ LeaseLost(w)
              \/ Sweep(w) \/ SweepThrows(w)
         \/ LockTime
  PROVE  StaleInv'
<1> USE QueueAssumption, PipelineAssumption DEF RequestsIdle
<1>0. /\ QueueTypeOK /\ FreshSlots /\ WorkerVersion \in Versions /\ "created" \in Reasons
      /\ worker \in [Workers -> [pc : Steps, job : JobIds \cup {NoJob}]]
      /\ CallersTypeOK /\ StoreTypeOK
      /\ \A w \in Workers : Busy(w) =>
           worker[w].job \in JobIds /\ jobs[worker[w].job].status = "processing"
  BY DEF RefInv, OnProcessing, BudgetInv, LeaseInv, BaseInv, PoolTypeOK, QueueInv, QueueTypeOK,
         PipelineAssumption, Reasons, CallersInv, CallersTypeOK, OnFilledSlot, JobIds
\* A worker that only moves on, not to "wrote", or rests.
<1>1. ASSUME NEW w \in Workers, Rest(w) \/ \E s \in Steps \ {"wrote"} : Move(w, s)
      PROVE  \A v \in Workers : At(v, "wrote")' => At(v, "wrote") /\ worker'[v].job = worker[v].job
  BY <1>0, <1>1 DEF Rest, Idle, Move, At
<1>2. ASSUME NEW w \in Workers, LoopStep(w) PROVE StaleInv'
  <2>0. UNCHANGED <<entries, req>>
    BY <1>2 DEF LoopStep
  <2>1. CASE ClaimJob(w)
    <3>1. PICK j \in JobIds : /\ ClaimNext(w, j)
                             /\ worker' = [worker EXCEPT ![w] = [pc |-> "claimed", job |-> j]]
      BY <2>1 DEF ClaimJob
    <3>2. \A v \in Workers : At(v, "wrote")' => At(v, "wrote") /\ worker'[v].job = worker[v].job
      BY <1>0, <3>1 DEF At
    <3> QED BY <1>0, <2>0, <3>1, <3>2, CommandsAreSteady, SteadyKeepsStaleInv
  <2>2. CASE CompleteJob(w)
    <3>1. PICK j \in JobIds : j = worker[w].job /\ jobs[j].status = "processing" /\ Complete(j)
      BY <1>0, <2>2 DEF CompleteJob, At, Busy
    <3>2. Steady({j})
      BY <1>0, <3>1, CommandsAreSteady
    <3>3. \A e \in Entries : Recomputes(j, e) => entries[e].status # "stale"
      BY <2>2, <3>1 DEF CompleteJob, StaleInv, FreshResult
    <3>4. Rest(w)
      BY <2>2 DEF CompleteJob
    <3> QED BY <1>1, <2>0, <3>2, <3>3, <3>4, SteadyKeepsStaleInv
  <2>3. CASE FailLookup(w)
    <3>1. UNCHANGED queueVars /\ \E s \in Steps \ {"wrote"} : Move(w, s)
      BY <2>3 DEF FailLookup, queueVars, Steps
    <3> QED BY <1>0, <1>1, <2>0, <3>1, CommandsAreSteady, SteadyKeepsStaleInv
  <2>4. CASE RequeueJob(w) \/ BuryJob(w)
    <3>1. PICK j \in JobIds : /\ j = worker[w].job /\ jobs[j].status = "processing"
                             /\ (Requeue(j) \/ Bury(j) \/ UNCHANGED queueVars)
      BY <1>0, <2>4 DEF RequeueJob, BuryJob, At, Busy
    <3>2. Steady({})
      BY <1>0, <3>1, CommandsAreSteady
    <3>3. Rest(w)
      BY <2>4 DEF RequeueJob, BuryJob
    <3> QED BY <1>1, <2>0, <3>2, <3>3, SteadyKeepsStaleInv
  <2>5. ~LoseCompleteReply(w)
    BY RepliesArrive DEF LoseCompleteReply
  <2> QED BY <1>2, <2>1, <2>2, <2>3, <2>4, <2>5 DEF LoopStep
<1>3. ASSUME NEW w \in Workers, EnrichRead(w) \/ EnrichThrows(w) \/ WorkerDies(w) PROVE StaleInv'
  <2>1. /\ UNCHANGED <<entries, req>> /\ UNCHANGED queueVars
        /\ Rest(w) \/ \E s \in Steps \ {"wrote"} : Move(w, s)
    BY <1>3 DEF EnrichRead, EnrichThrows, WorkerDies, ReadEntry, EnrichFails, Crash, Steps,
                queueVars
  <2> QED BY <1>0, <1>1, <2>1, CommandsAreSteady, SteadyKeepsStaleInv
<1>4. ASSUME NEW w \in Workers, EnrichWrite(w) PROVE StaleInv'
  <2>1. PICK k \in JobIds, e \in Entries : k = worker[w].job /\ e = jobs[k].entry
    BY <1>0, <1>4 DEF EnrichWrite, WriteResult, At, Busy, QueueTypeOK, Job
  <2>2. /\ UNCHANGED <<jobs, req>> /\ Move(w, "wrote")
        /\ SetIntelligence(e, seen[w], WorkerVersion)
    BY <1>4, <2>1 DEF EnrichWrite, WriteResult
  <2>3. /\ entries'[e].status = "completed"
        /\ \A f \in Entries : /\ entries'[f].version = entries[f].version
                              /\ entries'[f].exists = entries[f].exists
        /\ \A f \in Entries \ {e} : entries'[f] = entries[f]
    BY <1>0, <2>2 DEF SetIntelligence, StoreTypeOK, Entry
  <2>4. OneMarker' /\ EditsAlone' /\ EditsExisting'
    <3>1. \A s \in Requests, f \in Entries :
            /\ Marking(s, f)' = Marking(s, f) /\ Writing(s, f)' = Writing(s, f)
            /\ Current(s, f)' = Current(s, f) /\ Underway(f)' = Underway(f)
      BY <2>2, <2>3 DEF Marking, Writing, Current, Underway, Recomputes, Active
    <3>2. OneMarker'
      BY <3>1 DEF StaleInv, OneMarker
    <3>3. EditsAlone'
      BY <3>1 DEF StaleInv, EditsAlone
    <3>4. EditsExisting'
      BY <2>2, <2>3, <3>1 DEF StaleInv, EditsExisting, Exists
    <3> QED BY <3>2, <3>3, <3>4
  <2>5. FreshResult'
    <3> SUFFICES ASSUME NEW v \in Workers, NEW j \in JobIds, NEW f \in Entries,
                        At(v, "wrote")', worker'[v].job = j, Recomputes(j, f)
                 PROVE  entries'[f].status # "stale"
      BY <2>2 DEF FreshResult, Recomputes, Active
    <3>1. CASE v = w
      <4>1. f = e
        BY <1>0, <2>1, <2>2, <3>1 DEF Move, Recomputes
      <4> QED BY <2>3, <4>1
    <3>2. CASE v # w
      <4>1. At(v, "wrote") /\ worker[v].job = j
        BY <1>0, <2>2, <3>2 DEF Move, At
      <4>2. entries[f].status # "stale"
        BY <4>1 DEF StaleInv, FreshResult
      <4> QED BY <2>3, <4>2
    <3> QED BY <3>1, <3>2
  <2>6. Promised'
    BY <2>2, <2>3 DEF StaleInv, Promised, Marking, Failed, Underway, Recomputes, Active
  <2> QED BY <2>4, <2>5, <2>6 DEF StaleInv
<1>5. ASSUME NEW w \in Workers, LeaseLost(w) PROVE FALSE
  BY <1>5, LeaseRespected DEF LeaseLost, LeaseOverrun
<1>6. ASSUME UNCHANGED <<entries, req, worker>>, Steady({}) PROVE StaleInv'
  BY <1>6, SteadyKeepsStaleInv DEF At
<1>7. CASE LockTime
  BY <1>0, <1>6, <1>7, CommandsAreSteady DEF LockTime, LockAgesOut
<1>8. ASSUME NEW w \in Workers, Sweep(w) \/ SweepThrows(w) PROVE StaleInv'
  <2>1. UNCHANGED <<entries, req, worker>>
    BY <1>0, <1>8, SweeperMoves
  <2>2. \/ UNCHANGED queueVars \/ ReclaimStale
        \/ \E e \in Entries : Enqueue(e, "created", WorkerVersion)
    <3>1. sweeper[w].ids \subseteq Entries
      BY <1>0 DEF CallersTypeOK
    <3> QED BY <1>0, <1>8, <3>1, SweeperMoves
  <2> QED BY <1>0, <1>6, <2>1, <2>2, CommandsAreSteady
<1> QED BY <1>2, <1>3, <1>4, <1>5, <1>7, <1>8 DEF PipelineWorker

(* When auditors wait for the recomputation of their last edit, no handler *)
(* dies half-way and workers keep their leases, a stale entry always has a *)
(* recomputation under way, owed to it, or given up.                       *)
THEOREM PipelineStaleHasWork ==
  ASSUME PatientEdits, MaxAborts = 0, LeaseRespected, RepliesArrive
  PROVE  PipelineSpec => []StaleHasWork
<1> DEFINE Inv == CallersInv /\ RefInv /\ StaleInv
<1>1. PipelineInit => Inv
  <2> SUFFICES ASSUME PipelineInit PROVE Inv
    OBVIOUS
  <2>1. CallersInv /\ RefInv
    BY PipelineStep, RefInvInductive, LeaseRespected, RepliesArrive DEF PipelineInit
  <2>2. /\ \A r \in Requests : req[r].pc = "free"
        /\ \A w \in Workers : worker[w].pc = "idle"
        /\ \A e \in Entries : entries[e].status = "pending"
    BY DEF PipelineInit, CallersInit, Free, PoolInit, Idle, StoreInit, NewEntry
  <2>3. StaleInv
    BY <2>2 DEF StaleInv, OneMarker, EditsAlone, EditsExisting, FreshResult, Promised, Marking,
                Writing, Current, At
  <2> QED BY <2>1, <2>3
<1>2. Inv /\ [PipelineNext]_pipelineVars => Inv'
  <2> SUFFICES ASSUME Inv, [PipelineNext]_pipelineVars PROVE Inv'
    OBVIOUS
  <2>1. CallersInv' /\ [PoolNext]_poolVars
    BY PipelineStep DEF RefInv, BudgetInv, LeaseInv
  <2>2. RefInv'
    BY <2>1, RefInvInductive, LeaseRespected, RepliesArrive
  <2>3. CASE PipelineNext
    BY <2>1, <2>2, <2>3, RequestsKeepStaleInv, OthersKeepStaleInv, PatientEdits, MaxAborts = 0,
       LeaseRespected, RepliesArrive DEF PipelineNext
  <2>4. CASE UNCHANGED pipelineVars
    <3>1. UNCHANGED <<jobs, worker, req, entries>>
      BY <2>4 DEF pipelineVars, poolVars
    <3>2. StaleInv'
      BY <3>1 DEF StaleInv, OneMarker, EditsAlone, EditsExisting, FreshResult, Promised, Marking,
                  Writing, Current, At, Exists, Underway, Recomputes, Failed, Active
    <3> QED BY <2>1, <2>2, <3>2
  <2> QED BY <2>3, <2>4
<1>3. Inv => StaleHasWork
  BY DEF StaleInv, Promised, StaleHasWork, Marking, Owed, GivenUp, Failed, InQueue, Underway,
         Recomputes
<1> QED BY <1>1, <1>2, <1>3, PTL DEF PipelineSpec

-----------------------------------------------------------------------------
(* Whoever remembers an entry (a handler, the sweeper, a job) remembers    *)
(* one that exists: nothing but the identifiers of stored entries is ever  *)
(* passed on.                                                              *)

Known ==
  /\ \A r \in Requests : req[r].pc # "free" => Exists(req[r].entry)
  /\ \A w \in Workers : \A e \in sweeper[w].ids : Exists(e)
  /\ \A j \in 1..tail : Exists(jobs[j].entry)

\* Entries are not deleted.
Grown == \A e \in Entries : Exists(e) => Exists(e)'

\* Jobs stay with their entry, and a new one is for an entry that exists.
Slotted ==
  /\ \A j \in 1..tail : jobs'[j].entry = jobs[j].entry
  /\ \A j \in 1..tail' :
       j \in 1..tail \/ (jobs'[j].entry \in Entries /\ entries[jobs'[j].entry].exists)

\* What may become of a handler and of the sweepers.
HandlersStill ==
  \A r \in Requests : req'[r].pc # "free" =>
    \/ req[r].pc # "free" /\ req'[r].entry = req[r].entry
    \/ entries'[req'[r].entry].exists

SweepersStill ==
  \A w \in Workers : \A e \in sweeper'[w].ids : e \in Entries /\ Exists(e)

Orderly == Grown /\ Slotted /\ HandlersStill /\ SweepersStill

(* The commands of the queue, when only existing entries are enqueued.     *)
LEMMA CommandsAreSlotted ==
  ASSUME QueueTypeOK, QueueAssumption
  PROVE  /\ UNCHANGED queueVars => Slotted
         /\ \A e \in Entries, r \in Reasons, v \in Versions :
              Exists(e) /\ Enqueue(e, r, v) => Slotted
         /\ \A w \in Workers, j \in JobIds : ClaimNext(w, j) => Slotted
         /\ \A j \in JobIds : Complete(j) \/ Requeue(j) \/ Bury(j) \/ LockExpires(j) => Slotted
         /\ ReclaimStale => Slotted
<1> USE DEF Slotted
<1>0. tail \in Nat /\ 1..tail \subseteq JobIds
  BY DEF QueueTypeOK, JobIds
<1>1. ASSUME UNCHANGED queueVars PROVE Slotted
  BY <1>1 DEF queueVars
<1>2. ASSUME NEW e \in Entries, NEW r \in Reasons, NEW v \in Versions, Exists(e), Enqueue(e, r, v)
      PROVE  Slotted
  <2>1. CASE UNCHANGED queueVars
    BY <1>1, <2>1
  <2>2. CASE ~ UNCHANGED queueVars
    <3>1. /\ tail' = tail + 1 /\ OnlyChanges(tail + 1)
          /\ jobs'[tail + 1] = NewJob(e, r, v)
      BY <1>2, <2>2, EnqueueEffect
    <3>2. jobs'[tail + 1].entry = e
      BY <3>1 DEF NewJob
    <3> QED BY <1>0, <1>2, <3>1, <3>2 DEF OnlyChanges, Exists
  <2> QED BY <2>1, <2>2
<1>3. ASSUME NEW w \in Workers, NEW j \in JobIds, ClaimNext(w, j) PROVE Slotted
  BY <1>0, <1>3, ClaimEffect DEF OnlyChanges, SameKey
<1>4. ASSUME NEW j \in JobIds, Complete(j) \/ Requeue(j) \/ Bury(j) PROVE Slotted
  <2>1. PICK s \in Live \cup Dead : Settles(j, s) /\ tail' = tail
    BY <1>4, SettleCases DEF Live, Dead
  <2> QED BY <1>0, <2>1, SettleEffect DEF OnlyChanges, SameKey
<1>5. ASSUME NEW j \in JobIds, LockExpires(j) PROVE Slotted
  BY <1>0, <1>5, ExpiryEffect DEF OnlyChanges, SameKey
<1>6. ASSUME ReclaimStale PROVE Slotted
  BY <1>0, <1>6, ReapEffect DEF SameKey
<1> QED BY <1>1, <1>2, <1>3, <1>4, <1>5, <1>6

(* An orderly step passes on only what exists.                             *)
LEMMA KnownKept ==
  ASSUME CallersInv, BaseInv, Known, Orderly
  PROVE  Known'
<1> USE DEF Orderly
<1>0. InHand /\ \A j \in 1..tail : jobs[j].entry \in Entries
  <2>1. 1..tail \subseteq JobIds
    BY QueueAssumption DEF BaseInv, PoolTypeOK, QueueTypeOK, JobIds
  <2> QED BY <2>1 DEF CallersInv, BaseInv, PoolTypeOK, QueueTypeOK, Job
<1>1. ASSUME NEW r \in Requests, req'[r].pc # "free"
      PROVE  entries'[req'[r].entry].exists
  <2>1. req[r].pc # "free" => req[r].entry \in Entries /\ Exists(req[r].entry)
    BY <1>0 DEF InHand, Known
  <2> QED BY <1>1, <2>1 DEF HandlersStill, Grown, Exists
<1>2. \A w \in Workers : \A e \in sweeper'[w].ids : entries'[e].exists
  BY DEF SweepersStill, Grown, Exists
<1>3. ASSUME NEW j \in 1..tail' PROVE entries'[jobs'[j].entry].exists
  <2>1. CASE j \in 1..tail
    <3>1. jobs'[j].entry = jobs[j].entry /\ jobs[j].entry \in Entries /\ Exists(jobs[j].entry)
      BY <1>0, <2>1 DEF Slotted, Known
    <3> QED BY <3>1 DEF Grown, Exists
  <2>2. CASE j \notin 1..tail
    <3>1. jobs'[j].entry \in Entries /\ Exists(jobs'[j].entry)
      BY <2>2 DEF Slotted, Exists
    <3> QED BY <3>1 DEF Grown, Exists
  <2> QED BY <2>1, <2>2
<1> QED BY <1>1, <1>2, <1>3 DEF Known, Exists

(* Handlers and a sweep that stand still are orderly.                      *)
LEMMA StandingStill ==
  ASSUME CallersInv, Known
  PROVE  /\ UNCHANGED req => HandlersStill
         /\ UNCHANGED sweeper => SweepersStill
<1>1. UNCHANGED req => HandlersStill
  BY DEF HandlersStill
<1>2. UNCHANGED sweeper => SweepersStill
  BY DEF SweepersStill, Known, CallersInv, CallersTypeOK
<1> QED BY <1>1, <1>2

(* No update of an entry deletes it.                                       *)
LEMMA EntriesGrow ==
  ASSUME StoreTypeOK
  PROVE  /\ UNCHANGED entries => Grown
         /\ \A e \in Entries, c \in Cores : Create(e, c) => Grown
         /\ \A e \in Entries, c \in Cores, n \in Nat : UpdateCore(e, c, n) => Grown
         /\ \A e \in Entries : \A c, v : SetIntelligence(e, c, v) => Grown
         /\ \A e \in Entries : \A c : SetRiskOnly(e, c) => Grown
         /\ \A e \in Entries : \A r : MarkIntelligenceStale(e, r) => Grown
<1> USE DEF Grown, Exists
<1>0. DOMAIN entries = Entries /\ \A e \in Entries : entries[e] \in Entry
  BY DEF StoreTypeOK
<1>1. ASSUME NEW e \in Entries, NEW c \in Cores, Create(e, c) PROVE Grown
  BY <1>0, <1>1 DEF Create, NewEntry
<1>2. ASSUME NEW e \in Entries, NEW c \in Cores, NEW n \in Nat, UpdateCore(e, c, n) PROVE Grown
  <2>1. entries' = [entries EXCEPT ![e] = [entries[e] EXCEPT !.core = c,
                                             !.version = entries[e].version + 1]]
    BY <1>2 DEF UpdateCore
  <2> QED BY <1>0, <2>1 DEF Entry
<1>3. ASSUME NEW e \in Entries, NEW c, NEW v, SetIntelligence(e, c, v) PROVE Grown
  <2>1. entries' = [entries EXCEPT ![e] = [entries[e] EXCEPT !.status = "completed",
                      !.reason = None, !.model = v, !.risk = c, !.vectors = c]]
    BY <1>3 DEF SetIntelligence
  <2> QED BY <1>0, <2>1 DEF Entry
<1>4. ASSUME NEW e \in Entries, NEW c, SetRiskOnly(e, c) PROVE Grown
  <2>1. entries' = [entries EXCEPT ![e] = [entries[e] EXCEPT !.status = "completed",
                                             !.reason = None, !.risk = c]]
    BY <1>4 DEF SetRiskOnly
  <2> QED BY <1>0, <2>1 DEF Entry
<1>5. ASSUME NEW e \in Entries, NEW r, MarkIntelligenceStale(e, r) PROVE Grown
  <2>1. entries' = [entries EXCEPT ![e] = [entries[e] EXCEPT !.status = "stale", !.reason = r]]
    BY <1>5 DEF MarkIntelligenceStale
  <2> QED BY <1>0, <2>1 DEF Entry
<1> QED BY <1>1, <1>2, <1>3, <1>4, <1>5

LEMMA RequestsAreOrderly ==
  ASSUME CallersInv, BaseInv, Known, NEW r \in Requests,
         CreateEntry(r) \/ ReadForEdit(r) \/ RequestStep(r) \/ AbortRequest(r)
  PROVE  Orderly
<1> USE QueueAssumption, PipelineAssumption DEF OthersIdle
<1>0. /\ QueueTypeOK /\ StoreTypeOK /\ req \in [Requests -> Handler] /\ InHand
      /\ ServerVersion \in Versions /\ "created" \in Reasons /\ "core_changed" \in Reasons
      /\ req[r].pc # "free" => Exists(req[r].entry) /\ req[r].entry \in Entries
  BY DEF BaseInv, PoolTypeOK, CallersInv, CallersTypeOK, Known, InHand, PipelineAssumption, Reasons
<1>1. SweepersStill
  BY StandingStill DEF CreateEntry, ReadForEdit, RequestStep, AbortRequest, Admit,
     EnqueueCreated, WriteCore, Conflict, MarkStale, EnqueueChange
<1>2. CASE CreateEntry(r)
  <2>1. PICK e \in Entries, c \in Cores :
          /\ Create(e, c)
          /\ req' = [req EXCEPT ![r] = [Free EXCEPT !.pc = "admit", !.entry = e]]
    BY <1>2 DEF CreateEntry
  <2>2. /\ req'[r].entry = e /\ entries'[e].exists
        /\ \A s \in Requests \ {r} : req'[s] = req[s]
    BY <1>0, <2>1 DEF Free, Create, NewEntry, StoreTypeOK
  <2>3. HandlersStill
    BY <2>2 DEF HandlersStill
  <2> QED BY <1>0, <1>1, <1>2, <2>1, <2>3, EntriesGrow, CommandsAreSlotted
          DEF CreateEntry, Orderly
<1>3. CASE ReadForEdit(r)
  <2>0. PICK e \in Entries, c \in Cores :
          /\ Exists(e)
          /\ req' = [req EXCEPT ![r] = [pc |-> "write", entry |-> e, patch |-> c,
                                        base |-> entries[e].version,
                                        changed |-> entries[e].core # c]]
    BY <1>3 DEF ReadForEdit
  <2>1. Exists(e) /\ req'[r].entry = e /\ \A s \in Requests \ {r} : req'[s] = req[s]
    BY <1>0, <2>0
  <2>2. HandlersStill
    <3>1. entries'[req'[r].entry].exists
      BY <1>3, <2>1 DEF ReadForEdit, Exists
    <3> QED BY <2>1, <3>1 DEF HandlersStill
  <2> QED BY <1>0, <1>1, <1>3, <2>2, EntriesGrow, CommandsAreSlotted DEF ReadForEdit, Orderly
<1>4. CASE RequestStep(r) \/ AbortRequest(r)
  <2>1. req[r].pc # "free" /\ (\/ Return(r)
                           \/ \E pc \in {"enqueue", "mark", "enqueueChange"} : Advance(r, pc))
    BY <1>4 DEF RequestStep, AbortRequest, Admit, EnqueueCreated, WriteCore, Conflict, MarkStale,
                EnqueueChange
  <2>2. HandlersStill
    <3>1. /\ req'[r].pc = "free" \/ req'[r].entry = req[r].entry
          /\ \A s \in Requests \ {r} : req'[s] = req[s]
      BY <1>0, <2>1 DEF Return, Advance, Free, Handler
    <3> QED BY <2>1, <3>1 DEF HandlersStill
  <2>3. Grown
    <3>1. CASE WriteCore(r)
      BY <1>0, <3>1, EntriesGrow DEF WriteCore, InHand, Handler
    <3>2. CASE MarkStale(r)
      BY <1>0, <2>1, <3>2, EntriesGrow DEF MarkStale
    <3> QED BY <1>0, <1>4, <3>1, <3>2, EntriesGrow
            DEF RequestStep, AbortRequest, Admit, EnqueueCreated, Conflict, EnqueueChange
  <2>4. \/ UNCHANGED queueVars
        \/ \E reason \in Reasons : Enqueue(req[r].entry, reason, ServerVersion)
    BY <1>0, <1>4 DEF RequestStep, AbortRequest, Admit, EnqueueCreated, WriteCore, Conflict,
                      MarkStale, EnqueueChange
  <2>5. Slotted
    BY <1>0, <2>1, <2>4, CommandsAreSlotted
  <2> QED BY <1>1, <2>2, <2>3, <2>5 DEF Orderly
<1> QED BY <1>2, <1>3, <1>4

LEMMA OthersAreOrderly ==
  ASSUME CallersInv, BaseInv, Known,
         \/ \E w \in Workers :
              \/ PipelineWorker(w) \/ WorkerDies(w) \/ LeaseLost(w)
              \/ Sweep(w) \/ SweepThrows(w)
         \/ LockTime
  PROVE  Orderly
<1> USE QueueAssumption, PipelineAssumption DEF RequestsIdle
<1>0. /\ QueueTypeOK /\ StoreTypeOK /\ WorkerVersion \in Versions /\ "created" \in Reasons
      /\ \A w \in Workers : \A e \in sweeper[w].ids : e \in Entries /\ Exists(e)
      /\ \A w \in Workers : Busy(w) =>
           worker[w].job \in JobIds /\ jobs[worker[w].job].entry \in Entries
  BY DEF BaseInv, PoolTypeOK, CallersInv, CallersTypeOK, PipelineAssumption, OnFilledSlot,
         QueueTypeOK, JobIds, Job, Known, Reasons
<1>1. HandlersStill
  BY StandingStill DEF PipelineWorker, LoopStep, EnrichRead, EnrichWrite, EnrichThrows,
     WorkerDies, LeaseLost, LockTime, Sweep, SweepReclaim, SweepScan, SweepEnqueue, SweepThrows
<1>2. ASSUME NEW w \in Workers, LoopStep(w) PROVE Orderly
  <2>1. \/ UNCHANGED queueVars
        \/ \E j \in JobIds : ClaimNext(w, j) \/ Complete(j) \/ Requeue(j) \/ Bury(j)
    <3>1. CASE ClaimJob(w)           BY <3>1 DEF ClaimJob
    <3>2. CASE CompleteJob(w)        BY <1>0, <3>2 DEF CompleteJob, At, Busy
    <3>3. CASE LoseCompleteReply(w)  BY <1>0, <3>3 DEF LoseCompleteReply, At, Busy
    <3>4. CASE FailLookup(w)         BY <3>4 DEF FailLookup, queueVars
    <3>5. CASE RequeueJob(w)         BY <1>0, <3>5 DEF RequeueJob, At, Busy
    <3>6. CASE BuryJob(w)            BY <1>0, <3>6 DEF BuryJob, At, Busy
    <3> QED BY <1>2, <3>1, <3>2, <3>3, <3>4, <3>5, <3>6 DEF LoopStep
  <2>2. UNCHANGED <<entries, sweeper>>
    BY <1>2 DEF LoopStep
  <2>3. Slotted
    BY <1>0, <2>1, CommandsAreSlotted
  <2> QED BY <1>0, <1>1, <2>2, <2>3, EntriesGrow, StandingStill DEF Orderly
<1>3. ASSUME NEW w \in Workers,
             EnrichRead(w) \/ EnrichWrite(w) \/ EnrichThrows(w) \/ WorkerDies(w)
      PROVE  Orderly
  <2>1. UNCHANGED queueVars
    BY <1>3 DEF EnrichRead, EnrichWrite, EnrichThrows, WorkerDies, ReadEntry, WriteResult,
                EnrichFails, Crash, queueVars
  <2>2. Grown
    <3>1. CASE EnrichWrite(w)
      BY <1>0, <3>1, EntriesGrow DEF EnrichWrite, WriteResult, At, Busy
    <3> QED BY <1>0, <1>3, <3>1, EntriesGrow DEF EnrichRead, EnrichThrows, WorkerDies
  <2>3. SweepersStill
    <3>1. CASE UNCHANGED sweeper
      BY <3>1, StandingStill
    <3>2. CASE sweeper' = [sweeper EXCEPT ![w] = Asleep]
      BY <1>0, <3>2 DEF SweepersStill, Asleep, CallersInv, CallersTypeOK
    <3> QED BY <1>3, <3>1, <3>2 DEF EnrichRead, EnrichWrite, EnrichThrows, WorkerDies
  <2> QED BY <1>0, <1>1, <2>1, <2>2, <2>3, CommandsAreSlotted DEF Orderly
<1>4. CASE (\E w \in Workers : LeaseLost(w)) \/ LockTime
  <2>1. UNCHANGED <<entries, sweeper>> /\ \E j \in JobIds : LockExpires(j)
    BY <1>0, <1>4 DEF LeaseLost, LeaseOverrun, LockTime, LockAgesOut
  <2> QED BY <1>0, <1>1, <2>1, EntriesGrow, CommandsAreSlotted, StandingStill DEF Orderly
<1>5. ASSUME NEW w \in Workers, Sweep(w) \/ SweepThrows(w) PROVE Orderly
  <2>1. CallersTypeOK
    BY DEF CallersInv
  <2>2. Slotted /\ UNCHANGED entries
    BY <1>0, <1>5, <2>1, SweeperMoves, CommandsAreSlotted
  <2>3. SweepersStill
    <3>1. \A e \in FirstPending(SweepBatch) : e \in Entries /\ Exists(e)
      BY DEF FirstPending
    <3> QED BY <1>0, <1>5, <2>1, <3>1, SweeperMoves DEF SweepersStill
  <2> QED BY <1>0, <1>1, <2>2, <2>3, EntriesGrow DEF Orderly
<1> QED BY <1>2, <1>3, <1>4, <1>5 DEF PipelineWorker

LEMMA PipelineIsOrderly ==
  ASSUME CallersInv, BaseInv, Known, PipelineNext
  PROVE  Orderly
BY RequestsAreOrderly, OthersAreOrderly DEF PipelineNext
=============================================================================

------------------------- MODULE EnrichmentPipeline -------------------------
(***************************************************************************)
(* The whole enrichment pipeline: request handlers that create and edit    *)
(* entries (EntryService), the worker pool that enriches them              *)
(* (EnrichmentWorker, EnrichmentService) and the sweeper that finds the    *)
(* entries nobody enqueued (EnrichmentSweeper).  They share the entries    *)
(* and the queue_jobs collections and nothing else; every step is one      *)
(* database command, with what the process remembers from the previous.    *)
(*                                                                         *)
(* A request handler that has timed out runs on after its 503, so a retry  *)
(* by the client is another request of the same kind.                      *)
(***************************************************************************)
EXTENDS WorkerPool, EntryStore

CONSTANTS
  Requests,        \* concurrent request handlers
  ServerVersion,   \* MODEL_VERSION of the API server
  WorkerVersion,   \* MODEL_VERSION of the worker processes and their sweepers
  SweepBatch,      \* SWEEPER_BATCH
  MaxEdits,        \* bound: PUT requests
  MaxFailures,     \* bound: enrichments that throw
  MaxAborts,       \* bound: request handlers and sweeps that throw half-way
  PatientEdits     \* auditors wait for the recomputation of their last edit

ASSUME PipelineAssumption ==
  /\ Entries \subseteq Nat
  /\ ServerVersion \in Versions /\ WorkerVersion \in Versions
  /\ SweepBatch \in Nat \ {0}
  /\ MaxEdits \in Nat /\ MaxFailures \in Nat /\ MaxAborts \in Nat
  /\ PatientEdits \in BOOLEAN

VARIABLES
  req,             \* per request handler: its next step and what it holds
  seen,            \* per worker: the core its enrich() has read
  sweeper,         \* per worker process: its sweeper's next step and what it has read
  edits, failures, aborts   \* how often the bounds have been drawn on

pipelineVars == <<poolVars, entries, req, seen, sweeper, edits, failures, aborts>>

Handler == [pc    : {"free", "admit", "enqueue", "write", "mark", "enqueueChange"},
            entry : Entries \cup {None},
            patch : Cores \cup {None},
            base  : Nat,
            changed : BOOLEAN]

Free == [pc |-> "free", entry |-> None, patch |-> None, base |-> 0, changed |-> FALSE]

Asleep == [pc |-> "sleep", ids |-> {}]

PipelineTypeOK ==
  /\ PoolTypeOK /\ StoreTypeOK
  /\ req \in [Requests -> Handler]
  /\ seen \in [Workers -> Cores \cup {None}]
  /\ sweeper \in [Workers -> [pc : {"sleep", "scan", "enqueue"}, ids : SUBSET Entries]]
  /\ edits \in 0..MaxEdits /\ failures \in 0..MaxFailures /\ aborts \in 0..MaxAborts

CallersInit ==
  /\ req = [r \in Requests |-> Free]
  /\ seen = [w \in Workers |-> None]
  /\ sweeper = [w \in Workers |-> Asleep]
  /\ edits = 0 /\ failures = 0 /\ aborts = 0

PipelineInit == PoolInit /\ StoreInit /\ CallersInit

-----------------------------------------------------------------------------
(* EntryService.create.                                                    *)

Handles(r, e)   == req[r].pc # "free" /\ req[r].entry = e
Advance(r, pc)  == req' = [req EXCEPT ![r].pc = pc]
Return(r)       == req' = [req EXCEPT ![r] = Free]
OthersIdle      == UNCHANGED <<worker, crashes, seen, sweeper, failures>>

CreateEntry(r) ==
  /\ req[r].pc = "free"
  /\ \E e \in Entries, c \in Cores :
       /\ ~Exists(e) /\ \A f \in Entries : f < e => Exists(f)
       /\ Create(e, c)
       /\ req' = [req EXCEPT ![r] = [Free EXCEPT !.pc = "admit", !.entry = e]]
  /\ UNCHANGED <<queueVars, edits, aborts>> /\ OthersIdle

\* AdmissionControl may answer either way; over the ceiling nothing is enqueued.
Admit(r) ==
  /\ req[r].pc = "admit"
  /\ Advance(r, "enqueue") \/ Return(r)
  /\ UNCHANGED <<queueVars, entries, edits, aborts>> /\ OthersIdle

EnqueueCreated(r) ==
  /\ req[r].pc = "enqueue"
  /\ Enqueue(req[r].entry, "created", ServerVersion)
  /\ Return(r)
  /\ UNCHANGED <<entries, edits, aborts>> /\ OthersIdle

-----------------------------------------------------------------------------
(* EntryService.updateCore.                                                *)

\* Nothing of an earlier edit of e that has been written is under way.
Quiet(e) == /\ \A r \in Requests : Handles(r, e) => req[r].pc = "write"
            /\ \A j \in JobIds : Active(j) => ~(jobs[j].entry = e /\ jobs[j].reason = "core_changed")

\* findById, and didAnalyticalChange on what it returned.
ReadForEdit(r) ==
  /\ req[r].pc = "free"
  /\ edits < MaxEdits /\ edits' = edits + 1
  /\ \E e \in Entries, c \in Cores :
       /\ Exists(e)
       /\ PatientEdits => Quiet(e)
       /\ req' = [req EXCEPT ![r] = [pc |-> "write", entry |-> e, patch |-> c,
                                     base |-> entries[e].version,
                                     changed |-> entries[e].core # c]]
  /\ UNCHANGED <<queueVars, entries, aborts>> /\ OthersIdle

WriteCore(r) ==
  /\ req[r].pc = "write"
  /\ UpdateCore(req[r].entry, req[r].patch, req[r].base)
  /\ IF req[r].changed THEN Advance(r, "mark") ELSE Return(r)
  /\ UNCHANGED <<queueVars, edits, aborts>> /\ OthersIdle

\* The version has moved on: 409.
Conflict(r) ==
  /\ req[r].pc = "write"
  /\ entries[req[r].entry].version # req[r].base
  /\ Return(r)
  /\ UNCHANGED <<queueVars, entries, edits, aborts>> /\ OthersIdle

MarkStale(r) ==
  /\ req[r].pc = "mark"
  /\ MarkIntelligenceStale(req[r].entry, "core_changed")
  /\ Advance(r, "enqueueChange")
  /\ UNCHANGED <<queueVars, edits, aborts>> /\ OthersIdle

\* Broken variant: the edit is marked but not enqueued.
SkipEnqueue(r) ==
  /\ req[r].pc = "enqueueChange"
  /\ Return(r)
  /\ UNCHANGED <<queueVars, entries, edits, aborts>> /\ OthersIdle

EnqueueChange(r) ==
  /\ req[r].pc = "enqueueChange"
  /\ Enqueue(req[r].entry, "core_changed", ServerVersion)
  /\ Return(r)
  /\ UNCHANGED <<entries, edits, aborts>> /\ OthersIdle

\* The API process dies, or a command throws: the rest is never done.
AbortRequest(r) ==
  /\ req[r].pc # "free"
  /\ aborts < MaxAborts /\ aborts' = aborts + 1
  /\ Return(r)
  /\ UNCHANGED <<queueVars, entries, edits>> /\ OthersIdle

RequestStep(r) ==
  \/ Admit(r) \/ EnqueueCreated(r)
  \/ WriteCore(r) \/ Conflict(r) \/ MarkStale(r) \/ EnqueueChange(r)

-----------------------------------------------------------------------------
(* The workers, over the entries.                                          *)

RequestsIdle == UNCHANGED <<req, sweeper, edits, aborts>>

EnrichRead(w) ==
  /\ ReadEntry(w)
  /\ seen' = [seen EXCEPT ![w] = entries[jobs[worker[w].job].entry].core]
  /\ UNCHANGED <<entries, failures>> /\ RequestsIdle

EnrichWrite(w) ==
  /\ WriteResult(w)
  /\ SetIntelligence(jobs[worker[w].job].entry, seen[w], WorkerVersion)
  /\ seen' = [seen EXCEPT ![w] = None]
  /\ UNCHANGED failures /\ RequestsIdle

EnrichThrows(w) ==
  /\ EnrichFails(w)
  /\ failures < MaxFailures /\ failures' = failures + 1
  /\ seen' = [seen EXCEPT ![w] = None]
  /\ UNCHANGED entries /\ RequestsIdle

\* The steps of the loop that touch the queue only.
LoopStep(w) ==
  /\ \/ ClaimJob(w) \/ CompleteJob(w) \/ LoseCompleteReply(w)
     \/ FailLookup(w) \/ RequeueJob(w) \/ BuryJob(w)
  /\ UNCHANGED <<entries, seen, failures>> /\ RequestsIdle

\* With the process goes its sweeper; when fail() has thrown, only the job.
WorkerDies(w) ==
  /\ Crash(w)
  /\ seen' = [seen EXCEPT ![w] = None]
  /\ sweeper' \in {sweeper, [sweeper EXCEPT ![w] = Asleep]}
  /\ UNCHANGED <<entries, failures, req, edits, aborts>>

PipelineWorker(w) == LoopStep(w) \/ EnrichRead(w) \/ EnrichWrite(w) \/ EnrichThrows(w)

LockTime ==
  /\ \E j \in JobIds : LockAgesOut(j)
  /\ UNCHANGED <<entries, seen, failures>> /\ RequestsIdle

LeaseLost(w) ==
  /\ LeaseOverrun(w)
  /\ UNCHANGED <<entries, seen, failures>> /\ RequestsIdle

-----------------------------------------------------------------------------
(* EnrichmentSweeper.tick, in each worker process.                         *)

SweepTo(w, state) == sweeper' = [sweeper EXCEPT ![w] = state]

SweepReclaim(w) ==
  /\ sweeper[w].pc = "sleep"
  /\ \/ Reap
     \/ (\A j \in JobIds : ~Expired(j)) /\ UNCHANGED poolVars
  /\ SweepTo(w, [pc |-> "scan", ids |-> {}])
  /\ UNCHANGED <<entries, req, seen, edits, failures, aborts>>

\* Broken variant: the sweep finds no entry.
SweepScanNothing(w) ==
  /\ sweeper[w].pc = "scan"
  /\ SweepTo(w, Asleep)
  /\ UNCHANGED <<poolVars, entries, req, seen, edits, failures, aborts>>

SweepScan(w) ==
  /\ sweeper[w].pc = "scan"
  /\ LET ids == FirstPending(SweepBatch) IN
       SweepTo(w, IF ids = {} THEN Asleep ELSE [pc |-> "enqueue", ids |-> ids])
  /\ UNCHANGED <<poolVars, entries, req, seen, edits, failures, aborts>>

SweepEnqueue(w) ==
  /\ sweeper[w].pc = "enqueue"
  /\ LET ids == sweeper[w].ids IN
       \E e \in ids :
         /\ \A f \in ids : e <= f
         /\ Enqueue(e, "created", WorkerVersion)
         /\ SweepTo(w, IF ids = {e} THEN Asleep ELSE [pc |-> "enqueue", ids |-> ids \ {e}])
  /\ UNCHANGED <<worker, crashes, entries, req, seen, edits, failures, aborts>>

\* The tick's catch block: the rest of the batch is left for the next tick.
SweepThrows(w) ==
  /\ sweeper[w].pc # "sleep"
  /\ aborts < MaxAborts /\ aborts' = aborts + 1
  /\ SweepTo(w, Asleep)
  /\ UNCHANGED <<poolVars, entries, req, seen, edits, failures>>

Sweep(w) == SweepReclaim(w) \/ SweepScan(w) \/ SweepEnqueue(w)

-----------------------------------------------------------------------------

PipelineNext ==
  \/ \E r \in Requests : CreateEntry(r) \/ ReadForEdit(r) \/ RequestStep(r) \/ AbortRequest(r)
  \/ \E w \in Workers :
       \/ PipelineWorker(w) \/ WorkerDies(w) \/ LeaseLost(w)
       \/ Sweep(w) \/ SweepThrows(w)
  \/ LockTime

PipelineSpec == PipelineInit /\ [][PipelineNext]_pipelineVars

\* Handlers run to completion, live workers keep polling, time passes and
\* sweepers reschedule themselves; clients need not send anything.
PipelineFairness ==
  /\ \A r \in Requests : WF_pipelineVars(RequestStep(r))
  /\ \A w \in Workers : WF_pipelineVars(PipelineWorker(w)) /\ WF_pipelineVars(Sweep(w))
  /\ WF_pipelineVars(LockTime)

FairPipelineSpec == PipelineSpec /\ PipelineFairness

-----------------------------------------------------------------------------
(* Properties.                                                             *)

Settled(e) == /\ entries[e].status = "completed"
              /\ entries[e].risk = entries[e].core /\ entries[e].vectors = entries[e].core

\* A handler still owes e a mark or a job.
Owed(e) == \E r \in Requests : req[r].entry = e /\ req[r].pc \in {"mark", "enqueueChange"}

InQueue(e) == \E j \in JobIds : jobs[j].entry = e /\ Active(j)
GivenUp(e) == \E j \in JobIds : jobs[j].entry = e /\ jobs[j].status = "failed"

(* A stale entry awaits recomputation: a job for it is in the queue, about *)
(* to be put there, or has been given up (Intelligence.ts: "core field     *)
(* changed; awaiting recomputation").                                      *)
StaleHasWork ==
  \A e \in Entries : entries[e].status = "stale" => Owed(e) \/ InQueue(e) \/ GivenUp(e)

(* What is shown as completed was computed from the entry as it is, unless *)
(* a recomputation is under way or has been given up (Entry.ts: a change   *)
(* of an analytical field invalidates all previously computed              *)
(* intelligence).                                                          *)
CompletedIsCurrent ==
  \A e \in Entries : Exists(e) /\ entries[e].status = "completed" =>
    Settled(e) \/ Owed(e) \/ InQueue(e) \/ GivenUp(e)

(* Every entry that is created is eventually enriched, although admission  *)
(* control may defer it, its handler may die before it is enqueued, and    *)
(* its job may be lost or given up: the sweeper finds it.                  *)
EventuallyEnriched == \A e \in Entries : Exists(e) ~> entries[e].risk # None

(* After every edit the intelligence catches up with the entry.            *)
EventuallyCurrent == \A e \in Entries : Exists(e) ~> Settled(e)
=============================================================================

------------------------------ MODULE BatchJobs ------------------------------
(***************************************************************************)
(* The two jobs that walk the whole collection while the pipeline runs:    *)
(* ModelMigrationService and ComplianceReevaluationService, started from   *)
(* the admin endpoints or the command line, more than once and beside each *)
(* other.  Both read the collection through a cursor, BatchSize entries at *)
(* a time, and act on each entry as it was when it was fetched.            *)
(***************************************************************************)
EXTENDS EnrichmentPipeline

CONSTANTS
  Migrations,      \* the runs of migrate
  Reevaluations,   \* the runs of reevaluate
  Overlapping,     \* a run may start while another of its kind is under way
  Target,          \* the version entries are migrated to
  BatchSize        \* BATCH_SIZE

ASSUME BatchAssumption ==
  /\ Migrations \cap Reevaluations = {}
  /\ Overlapping \in BOOLEAN
  /\ Target \in Versions
  /\ BatchSize \in Nat \ {0}

VARIABLES
  walk,            \* per run: its step, what it has read, the batch in hand
  migrated,        \* history: entries a migration has skipped or enqueued
  stranded         \* history: entries a migration has marked and maybe left without a job

batchVars == <<pipelineVars, walk, migrated, stranded>>

Walks == Migrations \cup Reevaluations

NoBatch == [e \in {} |-> e]

\* read: the identifiers the cursor has passed; batch: the entries fetched and
\* still to be handled, as they were read.
Ready == [pc |-> "ready", read |-> {}, batch |-> NoBatch]
Over  == [pc |-> "over",  read |-> {}, batch |-> NoBatch]

BatchTypeOK ==
  /\ PipelineTypeOK
  /\ \A b \in Walks :
       /\ walk[b].pc \in {"ready", "fetch", "visit", "enqueue", "over"}
       /\ walk[b].read \subseteq Entries /\ DOMAIN walk[b].batch \subseteq Entries
       /\ \A e \in DOMAIN walk[b].batch : walk[b].batch[e] \in Entry
  /\ migrated \subseteq Entries /\ stranded \subseteq Entries

\* The collection as earlier releases left it: each entry of S was enriched at
\* some version, or is pending still.
Inherited(S) ==
  \E v \in [S -> Versions \cup {None}], c \in [S -> Cores] :
    entries = [e \in Entries |->
                 IF e \notin S
                   THEN [NewEntry(CHOOSE d \in Cores : TRUE) EXCEPT !.exists = FALSE]
                 ELSE IF v[e] = None
                   THEN NewEntry(c[e])
                   ELSE [NewEntry(c[e]) EXCEPT !.status = "completed", !.model = v[e],
                                               !.risk = c[e], !.vectors = c[e]]]

BatchInit ==
  /\ PoolInit /\ CallersInit
  /\ \E n \in Entries \cup {0} : Inherited({e \in Entries : e <= n})
  /\ walk = [b \in Walks |-> Ready]
  /\ migrated = {} /\ stranded = {}

-----------------------------------------------------------------------------
(* The cursor.                                                             *)

Unread(b) == {e \in Entries : Exists(e) /\ \A f \in walk[b].read : f < e}

NextUnread(b, e) == e \in Unread(b) /\ \A f \in Unread(b) : e <= f

NextInBatch(b, e) ==
  /\ e \in DOMAIN walk[b].batch
  /\ \A f \in DOMAIN walk[b].batch : e <= f

\* The batch without e; an empty batch sends the walk back to the cursor.
Done(b, e) ==
  LET rest == DOMAIN walk[b].batch \ {e} IN
    walk' = [walk EXCEPT ![b].pc = IF rest = {} THEN "fetch" ELSE "visit",
                         ![b].batch = [f \in rest |-> walk[b].batch[f]]]

\* The migration has marked e and owes it a job.
Owes(b, e) == walk[b].pc = "enqueue" /\ NextInBatch(b, e)

UnderWay(b) == walk[b].pc \notin {"ready", "over"}

Kin(b) == IF b \in Migrations THEN Migrations ELSE Reevaluations

StartWalk(b) ==
  /\ walk[b].pc = "ready"
  /\ Overlapping \/ \A c \in Kin(b) : ~UnderWay(c)
  /\ walk' = [walk EXCEPT ![b].pc = "fetch"]
  /\ UNCHANGED <<pipelineVars, migrated, stranded>>

\* Broken variant: the cursor selects what the migration looks at.
FetchedVersion(e) == [model |-> entries[e].model]

\* What the cursor returns of an entry: all of it, as it is now.
Fetched(e) == entries[e]

\* A batch that is full is handed out.
FetchNext(b) ==
  /\ walk[b].pc = "fetch"
  /\ \E e \in Entries :
       /\ NextUnread(b, e)
       /\ LET ids == DOMAIN walk[b].batch \cup {e} IN
            walk' = [walk EXCEPT ![b] =
                      [pc    |-> IF Cardinality(ids) = BatchSize THEN "visit" ELSE "fetch",
                       read  |-> walk[b].read \cup {e},
                       batch |-> [f \in ids |-> IF f = e THEN Fetched(e) ELSE walk[b].batch[f]]]]
  /\ UNCHANGED <<pipelineVars, migrated, stranded>>

\* A last batch that is not full is handed out; the cursor finds nothing more,
\* whatever is created from now on.
LastBatch(b) ==
  /\ walk[b].pc = "fetch" /\ Unread(b) = {}
  /\ DOMAIN walk[b].batch # {}
  /\ walk' = [walk EXCEPT ![b].pc = "visit", ![b].read = Entries]
  /\ UNCHANGED <<pipelineVars, migrated, stranded>>

EndWalk(b) ==
  /\ walk[b].pc = "fetch" /\ Unread(b) = {}
  /\ DOMAIN walk[b].batch = {}
  /\ walk' = [walk EXCEPT ![b] = Over]
  /\ UNCHANGED <<pipelineVars, migrated, stranded>>

\* The process running the batch job dies, or a command throws.
AbortWalk(b) ==
  /\ UnderWay(b)
  /\ aborts < MaxAborts /\ aborts' = aborts + 1
  /\ walk' = [walk EXCEPT ![b] = Over]
  /\ stranded' = stranded \cup {e \in Entries : Owes(b, e)}
  /\ UNCHANGED <<poolVars, entries, req, seen, sweeper, edits, failures, migrated>>

PipelineIdle == UNCHANGED <<worker, crashes, req, seen, sweeper, edits, failures, aborts>>

-----------------------------------------------------------------------------
(* ModelMigrationService.migrate.                                          *)

MigrateSkip(b, e) ==
  /\ walk[b].pc = "visit" /\ NextInBatch(b, e)
  /\ walk[b].batch[e].model = Target
  /\ Done(b, e) /\ migrated' = migrated \cup {e}
  /\ UNCHANGED <<queueVars, entries, stranded>> /\ PipelineIdle

\* A worker has written e for a migration's job and has not completed the job,
\* which an insert would find active.
Late(e) ==
  \E w \in Workers :
    At(w, "wrote") /\ jobs[worker[w].job].entry = e /\ jobs[worker[w].job].reason = "model_migration"

MigrateMark(b, e) ==
  /\ walk[b].pc = "visit" /\ NextInBatch(b, e)
  /\ walk[b].batch[e].model # Target
  /\ MarkIntelligenceStale(e, "model_migration")
  /\ walk' = [walk EXCEPT ![b].pc = "enqueue"]
  /\ stranded' = stranded \cup {f \in {e} : Late(f)}
  /\ UNCHANGED <<queueVars, migrated>> /\ PipelineIdle

\* Broken variant: the job is not inserted.
MigrateEnqueueNothing(b, e) ==
  /\ Owes(b, e)
  /\ Done(b, e) /\ migrated' = migrated \cup {e}
  /\ UNCHANGED <<queueVars, entries, stranded>> /\ PipelineIdle

MigrateEnqueue(b, e) ==
  /\ Owes(b, e)
  /\ Enqueue(e, "model_migration", Target)
  /\ Done(b, e) /\ migrated' = migrated \cup {e}
  /\ stranded' = IF tail' = tail THEN stranded ELSE stranded \ {e}
  /\ UNCHANGED entries /\ PipelineIdle

-----------------------------------------------------------------------------
(* ComplianceReevaluationService.reevaluate.                               *)

ReevaluateSkip(b, e) ==
  /\ walk[b].pc = "visit" /\ NextInBatch(b, e)
  /\ walk[b].batch[e].vectors = None
  /\ Done(b, e)
  /\ UNCHANGED <<queueVars, entries, migrated, stranded>> /\ PipelineIdle

ReevaluateRiskOnly(b, e) ==
  /\ walk[b].pc = "visit" /\ NextInBatch(b, e)
  /\ walk[b].batch[e].vectors # None
  /\ SetRiskOnly(e, walk[b].batch[e].core)
  /\ Done(b, e)
  /\ UNCHANGED <<queueVars, migrated, stranded>> /\ PipelineIdle

-----------------------------------------------------------------------------

MigrationStep(b, e)    == MigrateSkip(b, e) \/ MigrateMark(b, e) \/ MigrateEnqueue(b, e)
ReevaluationStep(b, e) == ReevaluateSkip(b, e) \/ ReevaluateRiskOnly(b, e)

WalkStep(b) ==
  \/ FetchNext(b) \/ LastBatch(b) \/ EndWalk(b)
  \/ \E e \in Entries :
       \/ b \in Migrations /\ MigrationStep(b, e)
       \/ b \in Reevaluations /\ ReevaluationStep(b, e)

NoWalk == UNCHANGED <<walk, migrated, stranded>>

BatchNext ==
  \/ PipelineNext /\ NoWalk
  \/ \E b \in Walks : StartWalk(b) \/ WalkStep(b) \/ AbortWalk(b)

BatchSpec == BatchInit /\ [][BatchNext]_batchVars

\* A batch job that was started is carried through unless it dies.
FairBatchSpec ==
  /\ BatchSpec
  /\ \A r \in Requests : WF_batchVars(RequestStep(r) /\ NoWalk)
  /\ \A w \in Workers :
       WF_batchVars(PipelineWorker(w) /\ NoWalk) /\ WF_batchVars(Sweep(w) /\ NoWalk)
  /\ WF_batchVars(LockTime /\ NoWalk)
  /\ \A b \in Walks : WF_batchVars(WalkStep(b))

-----------------------------------------------------------------------------
(* Properties.                                                             *)

(* An entry a migration has handled carries the target version, unless a   *)
(* job for it is left in the queue or has been given up                    *)
(* (ModelMigrationService.ts: "The worker then re-enriches with the new    *)
(* model"), however often the migration is started.                        *)
MigrationReachesTarget ==
  \A e \in migrated : entries[e].model = Target \/ InQueue(e) \/ GivenUp(e)

(* An entry a migration has handled is current, at whatever version, or    *)
(* has a job left or about to be inserted, however often migrations are    *)
(* started and whatever they overlap with (ModelMigrationService.ts:       *)
(* "marks its intelligence stale and enqueues a full recomputation").      *)
(* Excused is what the code does lose: an entry whose last mark came       *)
(* between the write and the complete() of an earlier migration job, which *)
(* then stops the insert, or was never followed by one because the run     *)
(* died.                                                                   *)
MigratedIsSettled ==
  \A e \in migrated :
    Settled(e) \/ InQueue(e) \/ GivenUp(e) \/ e \in stranded \/ \E b \in Migrations : Owes(b, e)

(* An entry shown as completed has embeddings of the same core as its      *)
(* risk, unless a handler is still about to mark it or to enqueue it       *)
(* (EnrichmentService.ts: "embeddings stay valid").                        *)
EmbeddingsStayValid ==
  \A e \in Entries : entries[e].status = "completed" /\ ~Owed(e) =>
    entries[e].vectors = entries[e].risk

(* Every entry a migration has handled is, in the end and for good,        *)
(* current and at the target version (ModelMigrationService.ts: "The       *)
(* worker then re-enriches with the new model"), unless a run has stranded *)
(* it and no later run has inserted a job for it.                          *)
MigrationSettles ==
  \A e \in Entries :
    (e \in migrated) ~> []((Settled(e) /\ entries[e].model = Target) \/ e \in stranded)
=============================================================================

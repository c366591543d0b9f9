----------------------------- MODULE AuditDesk -----------------------------
(***************************************************************************)
(* Editing one entry, field by field: the form of UpdateControls, other    *)
(* clients of PUT and PATCH, EntryController's validation and              *)
(* EntryService.updateCore and updateAuditMetadata, one step per await.    *)
(*                                                                         *)
(* The entry was enriched from basis before the session starts, and no     *)
(* worker gets to it before the session ends: what enrichment and edits do *)
(* to each other is the subject of EnrichmentPipeline, which leaves out    *)
(* the fields.  A comment is not followed.                                 *)
(***************************************************************************)
EXTENDS RiskRules

CONSTANTS
  Auditors,     \* open dashboards
  Api,          \* any other client
  Handlers,     \* concurrent PUT and PATCH requests
  Inputs,       \* per field of an entry: the values that are entered
  Empty,        \* an amount that has been deleted from the form
  Keep,         \* a field that is not in a patch
  Edited,       \* bound: the entries that are edited; others are only looked at
  MaxSaves,     \* bound: PUT requests
  MaxPatches    \* bound: PATCH requests

ASSUME DeskAssumption ==
  /\ Api \notin Auditors /\ Empty \notin Amounts
  /\ Keep \notin Amounts /\ Keep \notin Descriptions
  /\ Keep \notin GlNumbers /\ Keep \notin Dates
  /\ Edited \subseteq Core /\ 0 \in Amounts
  /\ DOMAIN Inputs = {"amount", "debit", "credit", "description", "glNumber", "postingDate"}
  /\ Inputs.amount \subseteq Amounts /\ Inputs.debit \subseteq Sums
  /\ Inputs.credit \subseteq Sums /\ Inputs.description \subseteq Descriptions
  /\ Inputs.glNumber \subseteq GlNumbers /\ Inputs.postingDate \subseteq Dates
  /\ MaxSaves \in Nat /\ MaxPatches \in Nat

VARIABLES
  core, version, stale,
  auditStatus,  \* auditMetadata.status
  form,         \* per auditor: the state of UpdateControls
  handler,      \* per PUT or PATCH request: where its handler is
  saves, patches,
  basis,        \* what the intelligence was computed from
  torn          \* history: a handler died between its two writes

entryVars == <<core, version, stale, auditStatus>>
deskVars == <<entryVars, form, handler, saves, patches, basis, torn>>

MutableFields    == DOMAIN Inputs
FormFields       == {"amount", "description", "glNumber"}
AuditStatuses    == {"open", "in_review", "approved", "rejected"}

\* The state of UpdateControls, and which of its fields were touched; while it
\* is fetching, the entry that is on its way to the modal.
Form == [pc : {"closed", "fetching", "open"}, amount : Amounts \cup {Empty}, description : Descriptions,
         glNumber : GlNumbers, status : AuditStatuses,
         touched : SUBSET (FormFields \cup {"status"})]

NoForm == [pc |-> "closed", amount |-> Empty, description |-> Blank,
           glNumber |-> "missing", status |-> "open", touched |-> {}]

\* updateCoreSchema: any of the mutable fields (those that say nothing to the
\* rules are left out).
Patch == [amount : Amounts \cup {Keep}, debit : Sums \cup {Keep}, credit : Sums \cup {Keep},
          description : Descriptions \cup {Keep}, glNumber : GlNumbers \cup {Keep},
          postingDate : Dates \cup {Keep}]

NoPatch == [amount |-> Keep, debit |-> Keep, credit |-> Keep, description |-> Keep,
            glNumber |-> Keep, postingDate |-> Keep]

\* A PUT or, if meta, a PATCH: its next step, who sent it and still waits for
\* it, what it sets, and what updateCore holds.
Request == [pc : {"free", "read", "write", "mark", "patch", "reply"},
            by : Auditors \cup {Api}, awaited : BOOLEAN, meta : BOOLEAN,
            patch : Patch, status : AuditStatuses, touched : SUBSET (MutableFields \cup {"status"}),
            base : Nat, analytical : BOOLEAN]

Free == [pc |-> "free", by |-> Api, awaited |-> FALSE, meta |-> FALSE,
         patch |-> NoPatch, status |-> "open", touched |-> {}, base |-> 0, analytical |-> FALSE]

DeskTypeOK ==
  /\ core \in Core /\ basis \in Core
  /\ version \in Nat /\ saves \in 0..MaxSaves /\ patches \in 0..MaxPatches
  /\ stale \in BOOLEAN /\ torn \in BOOLEAN
  /\ auditStatus \in AuditStatuses
  /\ form \in [Auditors -> Form] /\ handler \in [Handlers -> Request]

DeskInit ==
  /\ core \in Core /\ basis = core
  /\ version = 0 /\ stale = FALSE /\ auditStatus = "open"
  /\ form = [a \in Auditors |-> NoForm]
  /\ handler = [h \in Handlers |-> Free]
  /\ saves = 0 /\ patches = 0 /\ torn = FALSE

-----------------------------------------------------------------------------
(* The form.                                                               *)

\* The modal's GET is served.
FetchEntry(a) ==
  /\ form[a].pc = "closed" /\ basis \in Edited
  /\ form' = [form EXCEPT ![a] = [pc |-> "fetching", amount |-> core.amount,
                                  description |-> core.description,
                                  glNumber |-> core.glNumber,
                                  status |-> auditStatus, touched |-> {}]]
  /\ UNCHANGED <<entryVars, handler, saves, patches, basis, torn>>

\* The first answer mounts the form, which takes its values and no later ones.
OpenForm(a) ==
  /\ form[a].pc = "fetching"
  /\ form' = [form EXCEPT ![a].pc = "open"]
  /\ UNCHANGED <<entryVars, handler, saves, patches, basis, torn>>

Typed(f) == IF f = "amount" THEN Inputs.amount \cup {Empty}
            ELSE IF f = "status" THEN {"open", "approved"} ELSE Inputs[f]

Type(a) ==
  /\ form[a].pc = "open"
  /\ \E f \in FormFields \cup {"status"} : \E v \in Typed(f) :
       /\ v # form[a][f]
       /\ form' = [form EXCEPT ![a][f] = v, ![a].touched = @ \cup {f}]
  /\ UNCHANGED <<entryVars, handler, saves, patches, basis, torn>>

CloseForm(a) ==
  /\ form[a].pc # "closed"
  /\ form' = [form EXCEPT ![a] = NoForm]
  /\ handler' = [h \in Handlers |-> IF handler[h].by = a
                                      THEN [handler[h] EXCEPT !.awaited = FALSE]
                                      ELSE handler[h]]
  /\ UNCHANGED <<entryVars, saves, patches, basis, torn>>

\* Broken variant: the text is sent as it is.
NumberAsTyped(text) == text

\* JavaScript's Number: an empty text is 0.
Number(text) == IF text = Empty THEN 0 ELSE text

\* The state savingCore, savingMeta of the form.
Saving(a, meta) ==
  \E h \in Handlers : handler[h].by = a /\ handler[h].awaited /\ handler[h].meta = meta

Receive(h, who, patch, touched) ==
  /\ handler[h].pc = "free" /\ saves < MaxSaves /\ basis \in Edited
  /\ saves' = saves + 1
  /\ handler' = [handler EXCEPT ![h] = [Free EXCEPT !.pc = "read", !.by = who,
                   !.awaited = who \in Auditors, !.patch = patch, !.touched = touched]]
  /\ UNCHANGED <<entryVars, form, patches, basis, torn>>

\* All three fields are sent, without a version.
SaveCore(a, h) ==
  /\ form[a].pc = "open" /\ ~Saving(a, FALSE)
  /\ Receive(h, a, [NoPatch EXCEPT !.amount = Number(form[a].amount),
                               !.description = form[a].description,
                               !.glNumber = form[a].glNumber],
         form[a].touched \cap FormFields)

\* A PUT of one field by another client.
ApiPut(h) == \E f \in MutableFields : \E v \in Inputs[f] : Receive(h, Api, [NoPatch EXCEPT ![f] = v], {f})

\* PATCH audit-metadata always sends the status.
SaveMeta(a, h) ==
  /\ form[a].pc = "open" /\ ~Saving(a, TRUE)
  /\ handler[h].pc = "free" /\ patches < MaxPatches
  /\ patches' = patches + 1
  /\ handler' = [handler EXCEPT ![h] = [Free EXCEPT !.pc = "patch", !.by = a, !.awaited = TRUE,
                   !.meta = TRUE, !.status = form[a].status,
                   !.touched = form[a].touched \cap {"status"}]]
  /\ UNCHANGED <<entryVars, form, saves, basis, torn>>

-----------------------------------------------------------------------------
(* EntryService.updateCore and updateAuditMetadata.                        *)

\* What was read and sent is not used again after the write.
Step(h, pc) == handler' = [handler EXCEPT ![h] =
                 [Free EXCEPT !.pc = pc, !.by = handler[h].by, !.awaited = handler[h].awaited,
                              !.meta = handler[h].meta]]

\* Broken variant: glNumber does not count.
AnalyticalFieldsOld == {"amount", "description", "postingDate"}

AnalyticalFields == {"amount", "description", "glNumber", "postingDate"}

DidAnalyticalChange(patch) == \E f \in AnalyticalFields : patch[f] \notin {Keep, core[f]}

ReadEntry(h) ==
  /\ handler[h].pc = "read"
  /\ handler' = [handler EXCEPT ![h].pc = "write", ![h].base = version,
                   ![h].analytical = DidAnalyticalChange(handler[h].patch)]
  /\ UNCHANGED <<entryVars, form, saves, patches, basis, torn>>

Patched(patch) ==
  LET Merged(f) == IF patch[f] = Keep THEN core[f] ELSE patch[f]
  IN  [amount |-> Merged("amount"), debit |-> Merged("debit"), credit |-> Merged("credit"),
       description |-> Merged("description"), glNumber |-> Merged("glNumber"),
       postingDate |-> Merged("postingDate")]

\* Broken variant: the version is not compared.
UpdateCoreBlindly(h) ==
  /\ handler[h].pc = "write"
  /\ core' = Patched(handler[h].patch) /\ version' = version + 1
  /\ Step(h, IF handler[h].analytical THEN "mark" ELSE "reply")
  /\ UNCHANGED <<stale, auditStatus, form, saves, patches, basis, torn>>

UpdateCore(h) ==
  /\ handler[h].pc = "write" /\ handler[h].base = version
  /\ core' = Patched(handler[h].patch) /\ version' = version + 1
  /\ Step(h, IF handler[h].analytical THEN "mark" ELSE "reply")
  /\ UNCHANGED <<stale, auditStatus, form, saves, patches, basis, torn>>

\* 409.
Conflict(h) ==
  /\ handler[h].pc = "write" /\ handler[h].base # version
  /\ Step(h, "reply")
  /\ UNCHANGED <<entryVars, form, saves, patches, basis, torn>>

MarkIntelligenceStale(h) ==
  /\ handler[h].pc = "mark"
  /\ stale' = TRUE
  /\ Step(h, "reply")
  /\ UNCHANGED <<core, version, auditStatus, form, saves, patches, basis, torn>>

\* One command, whatever the status is by now.
UpdateAuditMetadata(h) ==
  /\ handler[h].pc = "patch"
  /\ auditStatus' = handler[h].status
  /\ Step(h, "reply")
  /\ UNCHANGED <<core, version, stale, form, saves, patches, basis, torn>>

Reply(h) ==
  /\ handler[h].pc = "reply"
  /\ handler' = [handler EXCEPT ![h] = Free]
  /\ UNCHANGED <<entryVars, form, saves, patches, basis, torn>>

\* 503 from RequestTimeout: the form may save again while the handler runs on.
\* Whether another client still waits makes no difference.
TimesOut(h) ==
  /\ handler[h].awaited
  /\ handler' = [handler EXCEPT ![h].awaited = FALSE]
  /\ UNCHANGED <<entryVars, form, saves, patches, basis, torn>>

\* The database command fails (500), or the process dies.
Fails(h) ==
  /\ handler[h].pc \in {"read", "write", "mark", "patch"}
  /\ handler' = [handler EXCEPT ![h] = Free]
  /\ torn' = (torn \/ handler[h].pc = "mark")
  /\ UNCHANGED <<entryVars, form, saves, patches, basis>>

DeskNext ==
  \/ \E a \in Auditors : FetchEntry(a) \/ OpenForm(a) \/ Type(a) \/ CloseForm(a)
  \/ \E h \in Handlers :
       \/ \E a \in Auditors : SaveCore(a, h) \/ SaveMeta(a, h)
       \/ ApiPut(h)
       \/ ReadEntry(h) \/ UpdateCore(h) \/ Conflict(h) \/ MarkIntelligenceStale(h)
       \/ UpdateAuditMetadata(h) \/ Reply(h) \/ TimesOut(h) \/ Fails(h)

DeskSpec == DeskInit /\ [][DeskNext]_deskVars

-----------------------------------------------------------------------------
(* Properties.                                                             *)

AnalyticalPart(c) == <<c.amount, c.description, c.glNumber, c.postingDate>>

(* An analytical field is changed only by a handler that knows it changes  *)
(* one and goes on to mark the entry stale: what another handler did since *)
(* it read the entry never turns a harmless edit into an analytical one.   *)
NoSilentEdit ==
  [][AnalyticalPart(core') # AnalyticalPart(core) =>
       \E h \in Handlers : handler[h].pc = "write" /\ handler'[h].pc = "mark"]_deskVars

FieldOf == [BALANCE |-> "debit", HIGH_AMOUNT |-> "amount", TEMPORAL_WEEKEND |-> "postingDate",
            TEMPORAL_LATE_NIGHT |-> "postingDate", SEMANTIC |-> "description",
            GL_MISSING |-> "glNumber", GL_MALFORMED |-> "glNumber",
            DESCRIPTION_MISSING |-> "description"]

(* The dashboard's severity badge and the compliance flag agree, although  *)
(* RiskScoringService and ComplianceService each keep the threshold.       *)
ReviewIffHigh ==
  "HIGH_RISK_REVIEW" \in Assess(core).flags <=> Assess(core).severity = "high"

(* The two services that look for the same signals agree: a field raises   *)
(* the risk score exactly when an anomaly is reported on it, and an entry  *)
(* scores 0 exactly when nothing is reported.                              *)
SignalsAgree ==
  LET result == Assess(core)
  IN  /\ {FieldOf[code] : code \in result.factors} = {a.field : a \in result.anomalies}
      /\ result.score = 0 <=> result.anomalies = {}

(* The intelligence shown as up to date is what the rules say of the       *)
(* entry: CORE_ANALYTICAL_FIELDS misses no field the rules read but debit  *)
(* and credit, whose edits leave it outdated; between the two writes of an *)
(* edit, or when the process died there, it may be outdated too.           *)
ShownIsExplained ==
  ~stale /\ ~torn /\ (\A h \in Handlers : handler[h].pc # "mark") =>
    Assess([core EXCEPT !.debit = basis.debit, !.credit = basis.credit]) = Assess(basis)

(* A save changes only the fields its author has edited ("instead of       *)
(* silently overwriting", README).                                         *)
NoUnseenOverwrite ==
  [][\A f \in MutableFields : core'[f] # core[f] =>
       \E h \in Handlers : handler'[h].pc # handler[h].pc /\ f \in handler[h].touched]_deskVars
=============================================================================

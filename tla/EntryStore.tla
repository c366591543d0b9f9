----------------------------- MODULE EntryStore -----------------------------
(***************************************************************************)
(* The entries collection behind MongoEntryRepository: the fields of a     *)
(* journal entry that the pipeline's control looks at, and one operator    *)
(* per atomic update.                                                      *)
(*                                                                         *)
(* core stands for the analytical fields (CORE_ANALYTICAL_FIELDS): two     *)
(* cores are equal when didAnalyticalChange sees no difference.  A         *)
(* computed field is abstracted to the core it was computed from: risk for *)
(* score, severity, factors, anomalies and flags, vectors for the          *)
(* embeddings.                                                             *)
(***************************************************************************)
EXTENDS Naturals, FiniteSets, Domain

CONSTANTS
  Cores,        \* values of the analytical fields
  None          \* null: not computed, no model version, no stale reason

ASSUME StoreAssumption == Cores # {} /\ None \notin Cores \cup Versions \cup Reasons

VARIABLE entries

Statuses == {"pending", "processing", "completed", "failed", "stale"}

Entry == [exists  : BOOLEAN,
          core    : Cores,
          version : Nat,
          status  : Statuses,
          reason  : Reasons \cup {None},
          model   : Versions \cup {None},
          risk    : Cores \cup {None},
          vectors : Cores \cup {None}]

NewEntry(c) == [exists |-> TRUE, core |-> c, version |-> 0, status |-> "pending",
                reason |-> None, model |-> None, risk |-> None, vectors |-> None]

StoreTypeOK == entries \in [Entries -> Entry]

StoreInit ==
  entries = [e \in Entries |-> [NewEntry(CHOOSE c \in Cores : TRUE) EXCEPT !.exists = FALSE]]

Exists(e) == entries[e].exists

Create(e, c) == entries' = [entries EXCEPT ![e] = NewEntry(c)]

\* findOneAndUpdate: matches only the version the caller has read.
UpdateCore(e, c, base) ==
  /\ entries[e].version = base
  /\ entries' = [entries EXCEPT ![e].core = c, ![e].version = @ + 1]

\* Broken variant: the arguments are swapped.
SetIntelligenceSwapped(e, c, v) ==
  entries' = [entries EXCEPT ![e].status = "completed", ![e].reason = None, ![e].model = c,
                             ![e].risk = v, ![e].vectors = v]

\* Only the given sub-paths are set, whatever the entry holds by now.
SetIntelligence(e, c, v) ==
  entries' = [entries EXCEPT ![e].status = "completed", ![e].reason = None, ![e].model = v,
                             ![e].risk = c, ![e].vectors = c]

\* reevaluateRiskOnly: everything but vectors and model version.
SetRiskOnly(e, c) ==
  entries' = [entries EXCEPT ![e].status = "completed", ![e].reason = None, ![e].risk = c]

MarkIntelligenceStale(e, r) ==
  entries' = [entries EXCEPT ![e].status = "stale", ![e].reason = r]

\* The first n pending entries in _id order.
FirstPending(n) ==
  LET Pending == {e \in Entries : Exists(e) /\ entries[e].status = "pending"}
  IN  {e \in Pending : Cardinality({f \in Pending : f < e}) < n}
=============================================================================

------------------------------- MODULE Domain -------------------------------
(* What the journal and the job queue both speak about.                    *)

CONSTANTS
  Entries,      \* identifiers of journal entries
  Versions      \* model versions

ASSUME DomainAssumption == Entries # {} /\ Versions # {}

\* Why an entry is enriched.
Reasons == {"created", "core_changed", "model_migration", "risk_reevaluation"}
=============================================================================

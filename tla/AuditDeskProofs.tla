-------------------------- MODULE AuditDeskProofs --------------------------
(***************************************************************************)
(* Proofs about AuditDesk, for any number of auditors and handlers and any *)
(* amounts and dates.                                                      *)
(***************************************************************************)
EXTENDS AuditDesk, TLAPS

-----------------------------------------------------------------------------
(* The rules.                                                              *)

(* The risk score is a number from 0 to 100.                               *)
LEMMA ScoreBounded ==
  ASSUME NEW c \in Core
  PROVE  RiskScore(c) \in 0..100
<1> DEFINE text == Points(IsSuspicious(c.description), Capped(12 * c.description, 24))
<1>1. c.description \in Int
  BY DEF Core, Descriptions, Blank
<1>2. text \in Nat
  BY <1>1 DEF Points, IsSuspicious, Capped
<1>3. \A signal : \A weight \in Nat : Points(signal, weight) \in Nat
  BY DEF Points
<1>4. RawScore(c) \in Nat
  BY <1>2, <1>3 DEF RawScore, Contributions
<1> QED
  BY <1>4 DEF RiskScore, Capped

(* At every score the two services draw the line at the same place.        *)
LEMMA ThresholdsAgree ==
  ASSUME NEW c \in Core, NEW score \in Int
  PROVE  "HIGH_RISK_REVIEW" \in ComplianceFlags(c, score) <=> Severity(score) = "high"
<1>1. "HIGH_RISK_REVIEW" \in ComplianceFlags(c, score) <=> score >= 67
  BY DEF ComplianceFlags, HighRiskThreshold
<1>2. Severity(score) = "high" <=> score >= 67
  BY DEF Severity
<1> QED
  BY <1>1, <1>2

(* Which factors an entry has, signal by signal.                           *)
LEMMA FactorsOf ==
  ASSUME NEW c \in Core
  PROVE  /\ RiskFactors(c) \subseteq DOMAIN FieldOf
         /\ "BALANCE" \in RiskFactors(c) <=> IsUnbalanced(c)
         /\ "HIGH_AMOUNT" \in RiskFactors(c) <=> IsHighAmount(c.amount)
         /\ "TEMPORAL_WEEKEND" \in RiskFactors(c) <=> IsWeekend(c.postingDate)
         /\ "TEMPORAL_LATE_NIGHT" \in RiskFactors(c) <=> IsLateNight(c.postingDate)
         /\ "SEMANTIC" \in RiskFactors(c) <=> IsSuspicious(c.description)
         /\ "GL_MISSING" \in RiskFactors(c) <=> c.glNumber = "missing"
         /\ "GL_MALFORMED" \in RiskFactors(c) <=> c.glNumber = "malformed"
         /\ "DESCRIPTION_MISSING" \in RiskFactors(c) <=> c.description = Blank
<1>1. /\ Points(IsUnbalanced(c), 30) > 0 <=> IsUnbalanced(c)
      /\ Points(IsHighAmount(c.amount), 25) > 0 <=> IsHighAmount(c.amount)
      /\ Points(IsWeekend(c.postingDate), 10) > 0 <=> IsWeekend(c.postingDate)
      /\ Points(IsLateNight(c.postingDate), 15) > 0 <=> IsLateNight(c.postingDate)
      /\ Points(c.glNumber = "missing", 18) > 0 <=> c.glNumber = "missing"
      /\ Points(c.glNumber = "malformed", 10) > 0 <=> c.glNumber = "malformed"
      /\ Points(c.description = Blank, 10) > 0 <=> c.description = Blank
  BY DEF Points
<1>2. Points(IsSuspicious(c.description), Capped(12 * c.description, 24)) > 0
        <=> IsSuspicious(c.description)
  BY DEF Points, IsSuspicious, Capped, Core, Descriptions, Blank
<1>3. /\ Contributions(c)["BALANCE"] > 0 <=> IsUnbalanced(c)
      /\ Contributions(c)["HIGH_AMOUNT"] > 0 <=> IsHighAmount(c.amount)
      /\ Contributions(c)["TEMPORAL_WEEKEND"] > 0 <=> IsWeekend(c.postingDate)
      /\ Contributions(c)["TEMPORAL_LATE_NIGHT"] > 0 <=> IsLateNight(c.postingDate)
      /\ Contributions(c)["SEMANTIC"] > 0 <=> IsSuspicious(c.description)
      /\ Contributions(c)["GL_MISSING"] > 0 <=> c.glNumber = "missing"
      /\ Contributions(c)["GL_MALFORMED"] > 0 <=> c.glNumber = "malformed"
      /\ Contributions(c)["DESCRIPTION_MISSING"] > 0 <=> c.description = Blank
  BY <1>1, <1>2 DEF Contributions
<1>4. /\ DOMAIN Contributions(c) = DOMAIN FieldOf
      /\ DOMAIN FieldOf = {"BALANCE", "HIGH_AMOUNT", "TEMPORAL_WEEKEND", "TEMPORAL_LATE_NIGHT",
                           "SEMANTIC", "GL_MISSING", "GL_MALFORMED", "DESCRIPTION_MISSING"}
  BY DEF Contributions, FieldOf
<1> QED
  BY <1>3, <1>4 DEF RiskFactors

(* Which anomalies an entry has, signal by signal.                         *)
LEMMA AnomaliesOf ==
  ASSUME NEW c \in Core, NEW a
  PROVE  a \in Anomalies(c) <=>
           \/ IsUnbalanced(c) /\ a = Anomaly("balance_mismatch", "debit", "high")
           \/ IsHighAmount(c.amount) /\ a = Anomaly("numeric_outlier", "amount", "medium")
           \/ /\ IsWeekend(c.postingDate) \/ IsLateNight(c.postingDate)
              /\ a = Anomaly("temporal_anomaly", "postingDate", TemporalSeverity(c.postingDate))
           \/ IsSuspicious(c.description) /\ a = Anomaly("semantic_anomaly", "description", "medium")
           \/ c.description = Blank /\ a = Anomaly("missing_required_field", "description", "low")
           \/ c.glNumber = "missing" /\ a = Anomaly("missing_required_field", "glNumber", "medium")
           \/ c.glNumber = "malformed" /\ a = Anomaly("gl_pattern_anomaly", "glNumber", "low")
BY Zenon DEF Anomalies

\* Field f of an entry raises an objection.
Objectionable(c, f) ==
  \/ f = "debit" /\ IsUnbalanced(c)
  \/ f = "amount" /\ IsHighAmount(c.amount)
  \/ f = "postingDate" /\ (IsWeekend(c.postingDate) \/ IsLateNight(c.postingDate))
  \/ f = "description" /\ (IsSuspicious(c.description) \/ c.description = Blank)
  \/ f = "glNumber" /\ c.glNumber \in {"missing", "malformed"}

(* The risk factors are about the fields that raise an objection.          *)
LEMMA FieldsOfFactors ==
  ASSUME NEW c \in Core, NEW f
  PROVE  f \in {FieldOf[code] : code \in RiskFactors(c)} <=> Objectionable(c, f)
<1>1. /\ FieldOf["BALANCE"] = "debit" /\ FieldOf["HIGH_AMOUNT"] = "amount"
      /\ FieldOf["TEMPORAL_WEEKEND"] = "postingDate" /\ FieldOf["TEMPORAL_LATE_NIGHT"] = "postingDate"
      /\ FieldOf["SEMANTIC"] = "description" /\ FieldOf["DESCRIPTION_MISSING"] = "description"
      /\ FieldOf["GL_MISSING"] = "glNumber" /\ FieldOf["GL_MALFORMED"] = "glNumber"
      /\ DOMAIN FieldOf = {"BALANCE", "HIGH_AMOUNT", "TEMPORAL_WEEKEND", "TEMPORAL_LATE_NIGHT",
                           "SEMANTIC", "GL_MISSING", "GL_MALFORMED", "DESCRIPTION_MISSING"}
  BY DEF FieldOf
<1> HIDE DEF FieldOf
<1>2. f \in {FieldOf[code] : code \in RiskFactors(c)} => Objectionable(c, f)
  BY <1>1, FactorsOf DEF Objectionable
<1>3. Objectionable(c, f) => f \in {FieldOf[code] : code \in RiskFactors(c)}
  BY <1>1, FactorsOf DEF Objectionable
<1> QED BY <1>2, <1>3

(* So are the anomalies.                                                   *)
LEMMA FieldsOfAnomalies ==
  ASSUME NEW c \in Core, NEW f
  PROVE  f \in {a.field : a \in Anomalies(c)} <=> Objectionable(c, f)
<1>1. \A t, g, s : Anomaly(t, g, s).field = g
  BY DEF Anomaly
<1>2. ASSUME NEW a \in Anomalies(c) PROVE Objectionable(c, a.field)
  BY <1>1, <1>2, AnomaliesOf DEF Objectionable
<1>3. ASSUME Objectionable(c, f) PROVE \E a \in Anomalies(c) : a.field = f
  BY <1>1, <1>3, AnomaliesOf DEF Objectionable
<1> QED BY <1>2, <1>3

(* An entry scores nothing when no field of it raises an objection.        *)
LEMMA ScoreOfNothing ==
  ASSUME NEW c \in Core
  PROVE  RiskScore(c) = 0 <=> \A f : ~Objectionable(c, f)
<1> DEFINE p == Contributions(c)
<1>1. /\ p.BALANCE \in Nat /\ p.HIGH_AMOUNT \in Nat /\ p.TEMPORAL_WEEKEND \in Nat
      /\ p.TEMPORAL_LATE_NIGHT \in Nat /\ p.SEMANTIC \in Nat /\ p.GL_MISSING \in Nat
      /\ p.GL_MALFORMED \in Nat /\ p.DESCRIPTION_MISSING \in Nat
  BY DEF Contributions, Points, IsSuspicious, Capped, Core, Descriptions, Blank
<1>2. RiskScore(c) = 0 <=>
        /\ p.BALANCE = 0 /\ p.HIGH_AMOUNT = 0 /\ p.TEMPORAL_WEEKEND = 0
        /\ p.TEMPORAL_LATE_NIGHT = 0 /\ p.SEMANTIC = 0 /\ p.GL_MISSING = 0
        /\ p.GL_MALFORMED = 0 /\ p.DESCRIPTION_MISSING = 0
  <2>1. RawScore(c) = p.BALANCE + p.HIGH_AMOUNT + p.TEMPORAL_WEEKEND + p.TEMPORAL_LATE_NIGHT
                      + p.SEMANTIC + p.GL_MISSING + p.GL_MALFORMED + p.DESCRIPTION_MISSING
    BY DEF RawScore
  <2> HIDE DEF p
  <2>2. PICK b, h, w, l, s, m, f, d \in Nat :
          /\ b = p.BALANCE /\ h = p.HIGH_AMOUNT /\ w = p.TEMPORAL_WEEKEND
          /\ l = p.TEMPORAL_LATE_NIGHT /\ s = p.SEMANTIC /\ m = p.GL_MISSING
          /\ f = p.GL_MALFORMED /\ d = p.DESCRIPTION_MISSING
    BY <1>1
  <2>3. RawScore(c) = b + h + w + l + s + m + f + d
    BY <2>1, <2>2
  <2>4. RiskScore(c) = 0 <=> b + h + w + l + s + m + f + d = 0
    BY <2>3 DEF RiskScore, Capped
  <2>5. b + h + w + l + s + m + f + d = 0 <=>
          b = 0 /\ h = 0 /\ w = 0 /\ l = 0 /\ s = 0 /\ m = 0 /\ f = 0 /\ d = 0
    OBVIOUS
  <2> QED BY <2>2, <2>4, <2>5, Zenon
<1>3. RiskScore(c) = 0 <=> RiskFactors(c) = {}
  BY <1>1, <1>2 DEF RiskFactors, Contributions
<1>4. RiskFactors(c) = {} <=> \A f : ~Objectionable(c, f)
  BY FieldsOfFactors
<1> QED BY <1>3, <1>4

-----------------------------------------------------------------------------
(* Types.                                                                  *)

(* The records the slots start from have their types.                      *)
LEMMA NoPatchType == NoPatch \in Patch
BY DEF NoPatch, Patch

LEMMA FreeType == Free \in Request
BY NoPatchType DEF Free, Request, AuditStatuses

LEMMA NoFormType == NoForm \in Form
BY DEF NoForm, Form, AuditStatuses, Blank, Descriptions, GlNumbers

(* Initially every variable has its type.                                  *)
LEMMA DeskInitType == DeskInit => DeskTypeOK
<1> SUFFICES ASSUME DeskInit PROVE DeskTypeOK
  OBVIOUS
<1>1. version \in Nat /\ saves \in 0..MaxSaves /\ patches \in 0..MaxPatches
  BY DeskAssumption DEF DeskInit
<1>2. stale \in BOOLEAN /\ torn \in BOOLEAN
  BY Zenon DEF DeskInit
<1>3. form \in [Auditors -> Form] /\ handler \in [Handlers -> Request]
  BY FreeType, NoFormType DEF DeskInit
<1> QED
  BY <1>1, <1>2, <1>3 DEF DeskInit, DeskTypeOK, AuditStatuses

(* A patch of one field is a patch.                                        *)
LEMMA SingleFieldPatch ==
  ASSUME NEW f \in MutableFields, NEW v \in Inputs[f]
  PROVE  [NoPatch EXCEPT ![f] = v] \in Patch
BY DeskAssumption DEF MutableFields, NoPatch, Patch

(* What a patch makes of an entry is an entry.                             *)
LEMMA PatchedType ==
  ASSUME core \in Core, NEW patch \in Patch
  PROVE  Patched(patch) \in Core
BY DEF Patched, Patch, Core

(* A typed value keeps the form a form.                                    *)
LEMMA TypedForm ==
  ASSUME NEW r \in Form, NEW f \in FormFields \cup {"status"}, NEW v \in Typed(f)
  PROVE  [r EXCEPT ![f] = v, !.touched = @ \cup {f}] \in Form
<1>1. CASE f = "amount"
  BY <1>1, DeskAssumption DEF Typed, Form, FormFields
<1>2. CASE f = "description"
  BY <1>2, DeskAssumption DEF Typed, Form, FormFields
<1>3. CASE f = "glNumber"
  BY <1>3, DeskAssumption DEF Typed, Form, FormFields
<1>4. CASE f = "status"
  BY <1>4, DeskAssumption DEF Typed, Form, FormFields, AuditStatuses
<1> QED
  BY <1>1, <1>2, <1>3, <1>4 DEF FormFields

(* Every step preserves the types.                                         *)
LEMMA DeskNextType == DeskTypeOK /\ [DeskNext]_deskVars => DeskTypeOK'
<1> SUFFICES ASSUME DeskTypeOK, [DeskNext]_deskVars PROVE DeskTypeOK'
  OBVIOUS
<1> USE DeskAssumption DEF DeskTypeOK
<1>0. \A h \in Handlers : handler[h] \in Request
  OBVIOUS
<1>1. ASSUME NEW a \in Auditors, FetchEntry(a) \/ OpenForm(a) PROVE DeskTypeOK'
  <2>1. CASE FetchEntry(a)
    BY <2>1 DEF FetchEntry, entryVars, Core, Form, FormFields
  <2>2. CASE OpenForm(a)
    <3>1. [form[a] EXCEPT !.pc = "open"] \in Form
      BY DEF Form
    <3> QED
      BY <2>2, <3>1 DEF OpenForm, entryVars
  <2> QED
    BY <1>1, <2>1, <2>2
<1>2. ASSUME NEW a \in Auditors, Type(a) PROVE DeskTypeOK'
  <2>1. PICK f \in FormFields \cup {"status"} : \E v \in Typed(f) :
          form' = [form EXCEPT ![a][f] = v, ![a].touched = @ \cup {f}]
    BY <1>2 DEF Type
  <2>2. PICK v \in Typed(f) : form' = [form EXCEPT ![a][f] = v, ![a].touched = @ \cup {f}]
    BY <2>1
  <2>3. form' = [form EXCEPT ![a] = [form[a] EXCEPT ![f] = v, !.touched = @ \cup {f}]]
    BY <2>2 DEF Form, FormFields
  <2>4. form' \in [Auditors -> Form]
    BY <2>3, TypedForm
  <2> QED
    BY <1>2, <2>4 DEF Type, entryVars
<1>3. ASSUME NEW a \in Auditors, CloseForm(a) PROVE DeskTypeOK'
  <2>1. ASSUME NEW h \in Handlers PROVE [handler[h] EXCEPT !.awaited = FALSE] \in Request
    <3> HIDE DEF DeskTypeOK
    <3> QED
      BY <1>0 DEF Request
  <2> QED
    BY <1>3, <2>1, NoFormType DEF CloseForm, entryVars
<1>4. ASSUME NEW h \in Handlers, NEW a \in Auditors, SaveMeta(a, h) PROVE DeskTypeOK'
  <2>1. form[a].status \in AuditStatuses
    BY DEF Form
  <2>2. [Free EXCEPT !.pc = "patch", !.by = a, !.awaited = TRUE, !.meta = TRUE,
                     !.status = form[a].status, !.touched = form[a].touched \cap {"status"}]
          \in Request
    BY <2>1, FreeType DEF Request
  <2>3. handler' \in [Handlers -> Request]
    BY <1>4, <2>2, Zenon DEF SaveMeta
  <2>4. patches' \in 0..MaxPatches /\ UNCHANGED <<entryVars, form, saves, basis, torn>>
    BY <1>4 DEF SaveMeta
  <2> QED
    BY <2>3, <2>4 DEF entryVars
<1>5. ASSUME NEW h \in Handlers, NEW who \in Auditors \cup {Api}, NEW patch \in Patch,
             NEW touched \in SUBSET MutableFields, Receive(h, who, patch, touched)
      PROVE DeskTypeOK'
  <2>1. \A b \in BOOLEAN : [Free EXCEPT !.pc = "read", !.by = who, !.awaited = b,
                                        !.patch = patch, !.touched = touched] \in Request
    BY FreeType DEF Request
  <2>2. (who \in Auditors) \in BOOLEAN
    BY SMT
  <2>3. [Free EXCEPT !.pc = "read", !.by = who, !.awaited = who \in Auditors,
                     !.patch = patch, !.touched = touched] \in Request
    BY <2>1, <2>2, Zenon
  <2>4. handler' \in [Handlers -> Request]
    BY <1>5, <2>3, Zenon DEF Receive
  <2>5. UNCHANGED <<entryVars, form, patches, basis, torn>>
    BY <1>5, Zenon DEF Receive
  <2>6. saves < MaxSaves /\ saves' = saves + 1
    BY <1>5, Zenon DEF Receive
  <2>7. saves' \in 0..MaxSaves
    BY <2>6
  <2> QED
    BY <2>4, <2>5, <2>7 DEF entryVars
<1>6. ASSUME NEW h \in Handlers, NEW a \in Auditors, SaveCore(a, h) PROVE DeskTypeOK'
  <2> DEFINE patch == [NoPatch EXCEPT !.amount = Number(form[a].amount),
                                      !.description = form[a].description,
                                      !.glNumber = form[a].glNumber]
  <2>1. patch \in Patch
    BY DEF NoPatch, Patch, Number, Form
  <2>2. form[a].touched \cap FormFields \in SUBSET MutableFields
    BY DEF FormFields, MutableFields
  <2> QED
    BY <1>5, <1>6, <2>1, <2>2 DEF SaveCore
<1>7. ASSUME NEW h \in Handlers, ApiPut(h) PROVE DeskTypeOK'
  <2>1. PICK f \in MutableFields : \E v \in Inputs[f] : Receive(h, Api, [NoPatch EXCEPT ![f] = v], {f})
    BY <1>7 DEF ApiPut
  <2>2. PICK v \in Inputs[f] : Receive(h, Api, [NoPatch EXCEPT ![f] = v], {f})
    BY <2>1
  <2>3. {f} \in SUBSET MutableFields /\ Api \in Auditors \cup {Api}
    OBVIOUS
  <2>4. [NoPatch EXCEPT ![f] = v] \in Patch
    BY SingleFieldPatch
  <2> HIDE DEF DeskTypeOK
  <2> QED
    BY <1>5, <2>2, <2>3, <2>4
<1>8. ASSUME NEW h \in Handlers, ReadEntry(h) PROVE DeskTypeOK'
  <2>1. \A b \in BOOLEAN :
          [handler[h] EXCEPT !.pc = "write", !.base = version, !.analytical = b] \in Request
    <3>1. version \in Nat
      OBVIOUS
    <3> HIDE DEF DeskTypeOK
    <3> QED
      BY <1>0, <3>1 DEF Request
  <2>2. DidAnalyticalChange(handler[h].patch) \in BOOLEAN
    BY Zenon DEF DidAnalyticalChange
  <2>3. handler' \in [Handlers -> Request]
    BY <1>8, <2>1, <2>2 DEF ReadEntry
  <2> QED
    BY <1>8, <2>3 DEF ReadEntry, entryVars
<1>9. ASSUME NEW h \in Handlers, NEW pc \in {"mark", "reply"}, Step(h, pc)
      PROVE handler' \in [Handlers -> Request]
  <2>1. [Free EXCEPT !.pc = pc, !.by = handler[h].by, !.awaited = handler[h].awaited,
                     !.meta = handler[h].meta] \in Request
    BY FreeType DEF Request
  <2> QED
    BY <1>9, <2>1 DEF Step
<1>10. ASSUME NEW h \in Handlers, UpdateCore(h) PROVE DeskTypeOK'
  <2>1. core' \in Core
    BY <1>10, PatchedType DEF UpdateCore, Request
  <2>2. handler' \in [Handlers -> Request]
    BY <1>9, <1>10 DEF UpdateCore
  <2> QED
    BY <1>10, <2>1, <2>2 DEF UpdateCore
<1>11. ASSUME NEW h \in Handlers, Conflict(h) PROVE DeskTypeOK'
  BY <1>9, <1>11 DEF Conflict, entryVars
<1>12. ASSUME NEW h \in Handlers, MarkIntelligenceStale(h) \/ UpdateAuditMetadata(h)
       PROVE  DeskTypeOK'
  <2>1. handler[h].status \in AuditStatuses
    BY DEF Request
  <2> QED
    BY <1>9, <1>12, <2>1 DEF MarkIntelligenceStale, UpdateAuditMetadata
<1>13. ASSUME NEW h \in Handlers, Reply(h) \/ TimesOut(h) \/ Fails(h) PROVE DeskTypeOK'
  <2>1. [handler[h] EXCEPT !.awaited = FALSE] \in Request
    BY DEF Request
  <2>2. handler' \in [Handlers -> Request]
    BY <1>13, <2>1, FreeType DEF Reply, TimesOut, Fails
  <2> QED
    BY <1>13, <2>2 DEF Reply, TimesOut, Fails, entryVars
<1>14. CASE UNCHANGED deskVars
  BY <1>14 DEF deskVars, entryVars
<1> HIDE DEF DeskTypeOK
<1> QED
  BY <1>1, <1>2, <1>3, <1>4, <1>6, <1>7, <1>8, <1>10, <1>11, <1>12, <1>13, <1>14 DEF DeskNext

(* Type correctness.                                                       *)
THEOREM DeskTypeCorrect == DeskSpec => []DeskTypeOK
BY DeskInitType, DeskNextType, PTL DEF DeskSpec

-----------------------------------------------------------------------------
(* The review flag.                                                        *)

(* The severity badge and the review flag agree on every entry a session   *)
(* can make, whatever the amounts: at no score do the two copies of the    *)
(* threshold differ.                                                       *)
THEOREM ReviewIffHighCorrect == DeskSpec => []ReviewIffHigh
<1>1. DeskTypeOK => ReviewIffHigh
  <2> SUFFICES ASSUME core \in Core PROVE ReviewIffHigh
    BY DEF DeskTypeOK
  <2>1. RiskScore(core) \in Int
    BY ScoreBounded
  <2>2. "HIGH_RISK_REVIEW" \in ComplianceFlags(core, RiskScore(core))
          <=> Severity(RiskScore(core)) = "high"
    BY <2>1, ThresholdsAgree
  <2>3. /\ Assess(core).flags = ComplianceFlags(core, RiskScore(core))
        /\ Assess(core).severity = Severity(RiskScore(core))
    BY DEF Assess
  <2> QED
    BY <2>2, <2>3 DEF ReviewIffHigh
<1> QED
  BY <1>1, DeskTypeCorrect, PTL

(* The two services that look for the same signals agree for every entry   *)
(* there can be: a field raises the risk score exactly when an anomaly is  *)
(* reported on it, and an entry scores 0 exactly when nothing is reported. *)
THEOREM SignalsAgreeCorrect == DeskSpec => []SignalsAgree
<1>1. core \in Core => SignalsAgree
  <2> SUFFICES ASSUME core \in Core PROVE SignalsAgree
    OBVIOUS
  <2>1. {FieldOf[code] : code \in RiskFactors(core)} = {a.field : a \in Anomalies(core)}
    BY FieldsOfFactors, FieldsOfAnomalies
  <2>2. Anomalies(core) = {} <=> \A f : ~Objectionable(core, f)
    BY FieldsOfAnomalies
  <2> QED BY <2>1, <2>2, ScoreOfNothing DEF SignalsAgree, Assess
<1> QED BY <1>1, DeskTypeCorrect, PTL DEF DeskTypeOK

-----------------------------------------------------------------------------
(* Edits that are not marked.                                              *)

(* What a handler decided holds for as long as its write can succeed: the  *)
(* version it read is not ahead, and while it is the entry's own, so is    *)
(* the comparison it made.                                                 *)
Decided(h) ==
  /\ handler[h].base <= version
  /\ handler[h].pc = "write" /\ handler[h].base = version =>
       (handler[h].analytical <=> DidAnalyticalChange(handler[h].patch))

DecisionsHold == \A h \in Handlers : Decided(h)

(* A patch that changes no analytical field leaves their part alone.       *)
LEMMA HarmlessPatch ==
  ASSUME core \in Core, NEW patch \in Patch, ~DidAnalyticalChange(patch)
  PROVE  AnalyticalPart(Patched(patch)) = AnalyticalPart(core)
<1>1. \A f \in {"amount", "description", "glNumber", "postingDate"} :
        patch[f] = Keep \/ patch[f] = core[f]
  BY DEF DidAnalyticalChange, AnalyticalFields
<1>2. /\ Patched(patch).amount = core.amount
      /\ Patched(patch).description = core.description
      /\ Patched(patch).glNumber = core.glNumber
      /\ Patched(patch).postingDate = core.postingDate
  BY <1>1 DEF Patched
<1> QED
  BY <1>2 DEF AnalyticalPart

(* A handler whose record a step leaves alone has still decided well, if   *)
(* the entry is left alone or a write has moved its version on.            *)
LEMMA OthersDecided ==
  ASSUME DeskTypeOK, NEW h \in Handlers, Decided(h), handler'[h] = handler[h],
         (core' = core /\ version' = version) \/ version' = version + 1
  PROVE  Decided(h)'
<1>1. handler[h].base \in Nat /\ version \in Nat
  BY DEF DeskTypeOK, Request
<1>2. CASE core' = core /\ version' = version
  BY <1>2 DEF Decided, DidAnalyticalChange
<1>3. CASE version' = version + 1
  BY <1>1, <1>3 DEF Decided
<1> QED
  BY <1>2, <1>3

(* A handler that is not about to write has nothing to decide.             *)
LEMMA IdleDecided ==
  ASSUME NEW h \in Handlers, handler'[h].pc # "write", handler'[h].base <= version'
  PROVE  Decided(h)'
BY DEF Decided

(* Every step keeps every handler's decision good.                         *)
LEMMA DecisionsInvariant == DeskTypeOK /\ DecisionsHold /\ [DeskNext]_deskVars => DecisionsHold'
<1> SUFFICES ASSUME DeskTypeOK, DecisionsHold, [DeskNext]_deskVars, NEW k \in Handlers
             PROVE  Decided(k)'
  BY DEF DecisionsHold
<1>t. /\ Decided(k) /\ handler \in [Handlers -> Request] /\ version \in Nat
      /\ handler[k] \in Request /\ handler[k].base \in Nat
  BY DEF DecisionsHold, DeskTypeOK, Request
<1>1. CASE handler' = handler /\ core' = core /\ version' = version
  BY <1>1, <1>t, OthersDecided
<1>2. ASSUME NEW a \in Auditors, CloseForm(a) PROVE Decided(k)'
  <2>1. /\ handler'[k].base = handler[k].base /\ handler'[k].pc = handler[k].pc
        /\ handler'[k].analytical = handler[k].analytical
        /\ handler'[k].patch = handler[k].patch
    BY <1>2, <1>t DEF CloseForm, Request
  <2>2. core' = core /\ version' = version
    BY <1>2 DEF CloseForm, entryVars
  <2> QED
    BY <1>t, <2>1, <2>2 DEF Decided, DidAnalyticalChange
<1>3. ASSUME NEW h \in Handlers, NEW who, NEW patch, NEW touched, Receive(h, who, patch, touched)
      PROVE  Decided(k)'
  <2>1. core' = core /\ version' = version
    BY <1>3, Zenon DEF Receive, entryVars
  <2> DEFINE b == who \in Auditors
  <2>2. handler' = [handler EXCEPT ![h] = [Free EXCEPT !.pc = "read", !.by = who,
                      !.awaited = b, !.patch = patch, !.touched = touched]]
    BY <1>3, Zenon DEF Receive
  <2> HIDE DEF b
  <2>3. CASE k = h
    <3>1. handler'[k].pc = "read" /\ handler'[k].base = 0
      BY <1>t, <2>2, <2>3 DEF Free
    <3> QED
      BY <1>t, <2>1, <3>1, IdleDecided
  <2>4. CASE k # h
    BY <1>t, <2>1, <2>2, <2>4, OthersDecided
  <2> QED
    BY <2>3, <2>4
<1>4. ASSUME NEW h \in Handlers, ReadEntry(h) PROVE Decided(k)'
  <2> DEFINE b == DidAnalyticalChange(handler[h].patch)
  <2>1. core' = core /\ version' = version
    BY <1>4, Zenon DEF ReadEntry, entryVars
  <2>2. handler' = [handler EXCEPT ![h].pc = "write", ![h].base = version, ![h].analytical = b]
    BY <1>4, Zenon DEF ReadEntry
  <2>3. b <=> DidAnalyticalChange(handler[h].patch)
    OBVIOUS
  <2> HIDE DEF b
  <2>4. CASE k = h
    <3>1. /\ handler'[k].base = version /\ handler'[k].analytical = b
          /\ handler'[k].patch = handler[k].patch
      BY <1>t, <2>2, <2>4 DEF Request
    <3> QED
      BY <1>t, <2>1, <2>3, <2>4, <3>1 DEF Decided, DidAnalyticalChange
  <2>5. CASE k # h
    BY <1>t, <2>1, <2>2, <2>5, OthersDecided
  <2> QED
    BY <2>4, <2>5
<1>5. ASSUME NEW h \in Handlers, NEW pc \in {"mark", "reply"}, Step(h, pc),
             (core' = core /\ version' = version) \/ version' = version + 1
      PROVE  Decided(k)'
  <2>1. CASE k = h
    <3>1. handler'[k].pc # "write" /\ handler'[k].base = 0
      BY <1>5, <1>t, <2>1 DEF Step, Free
    <3>2. version' \in Nat
      BY <1>5, <1>t
    <3> QED
      BY <3>1, <3>2, IdleDecided
  <2>2. CASE k # h
    BY <1>5, <1>t, <2>2, OthersDecided DEF Step
  <2> QED
    BY <2>1, <2>2
<1>6. ASSUME NEW h \in Handlers, UpdateCore(h) PROVE Decided(k)'
  BY <1>5, <1>6 DEF UpdateCore
<1>7. ASSUME NEW h \in Handlers, Conflict(h) \/ MarkIntelligenceStale(h) \/ UpdateAuditMetadata(h)
      PROVE  Decided(k)'
  BY <1>5, <1>7 DEF Conflict, MarkIntelligenceStale, UpdateAuditMetadata, entryVars
<1>8. ASSUME NEW h \in Handlers, Reply(h) \/ Fails(h) PROVE Decided(k)'
  <2>1. core' = core /\ version' = version /\ handler' = [handler EXCEPT ![h] = Free]
    BY <1>8 DEF Reply, Fails, entryVars
  <2>2. CASE k = h
    BY <1>t, <2>1, <2>2, IdleDecided DEF Free
  <2>3. CASE k # h
    BY <1>t, <2>1, <2>3, OthersDecided
  <2> QED
    BY <2>2, <2>3
<1>9. ASSUME NEW h \in Handlers, TimesOut(h) PROVE Decided(k)'
  <2>1. core' = core /\ version' = version /\ handler' = [handler EXCEPT ![h].awaited = FALSE]
    BY <1>9 DEF TimesOut, entryVars
  <2>2. /\ handler'[k].base = handler[k].base /\ handler'[k].pc = handler[k].pc
        /\ handler'[k].analytical = handler[k].analytical
        /\ handler'[k].patch = handler[k].patch
    BY <1>t, <2>1 DEF Request
  <2> QED
    BY <1>t, <2>1, <2>2 DEF Decided, DidAnalyticalChange
<1>10. ASSUME NEW a \in Auditors, FetchEntry(a) \/ OpenForm(a) \/ Type(a) PROVE Decided(k)'
  BY <1>1, <1>10, Zenon DEF FetchEntry, OpenForm, Type, entryVars
<1>11. ASSUME NEW h \in Handlers, ApiPut(h) \/ \E a \in Auditors : SaveCore(a, h) PROVE Decided(k)'
  BY <1>3, <1>11, Zenon DEF ApiPut, SaveCore
<1>12. ASSUME NEW h \in Handlers, NEW a \in Auditors, SaveMeta(a, h) PROVE Decided(k)'
  <2> DEFINE new == [Free EXCEPT !.pc = "patch", !.by = a, !.awaited = TRUE, !.meta = TRUE,
                       !.status = form[a].status, !.touched = form[a].touched \cap {"status"}]
  <2>1. core' = core /\ version' = version /\ handler' = [handler EXCEPT ![h] = new]
    BY <1>12, Zenon DEF SaveMeta, entryVars
  <2>2. new.pc # "write" /\ new.base = 0
    BY DEF Free
  <2> HIDE DEF new
  <2>3. CASE k = h
    BY <1>t, <2>1, <2>2, <2>3, IdleDecided
  <2>4. CASE k # h
    BY <1>t, <2>1, <2>4, OthersDecided
  <2> QED
    BY <2>3, <2>4
<1>13. CASE UNCHANGED deskVars
  BY <1>1, <1>13, Zenon DEF deskVars, entryVars
<1> QED
  BY <1>2, <1>4, <1>6, <1>7, <1>8, <1>9, <1>10, <1>11, <1>12, <1>13, Zenon DEF DeskNext

(* The decisions are good in every state.                                  *)
LEMMA DecisionsHoldAlways == DeskSpec => [](DeskTypeOK /\ DecisionsHold)
<1>1. DeskInit => DecisionsHold
  BY DEF DeskInit, DecisionsHold, Decided, Free
<1> QED
  BY <1>1, DeskInitType, DeskNextType, DecisionsInvariant, PTL DEF DeskSpec

(* Only UpdateCore touches the entry's fields.                             *)
LEMMA OnlyUpdateCoreEdits ==
  ASSUME [DeskNext]_deskVars, core' # core
  PROVE  \E h \in Handlers : UpdateCore(h)
BY Zenon DEF DeskNext, deskVars, entryVars, FetchEntry, OpenForm, Type, CloseForm, SaveMeta,
     SaveCore, ApiPut, Receive, ReadEntry, Conflict, MarkIntelligenceStale,
     UpdateAuditMetadata, Reply, TimesOut, Fails

(* A step that changes an analytical field leaves its handler about to     *)
(* mark the entry.                                                         *)
LEMMA EditIsMarked ==
  ASSUME DeskTypeOK, DecisionsHold, [DeskNext]_deskVars,
         AnalyticalPart(core') # AnalyticalPart(core)
  PROVE  \E h \in Handlers : handler[h].pc = "write" /\ handler'[h].pc = "mark"
<1>1. core' # core
  BY DEF AnalyticalPart
<1>2. PICK h \in Handlers : UpdateCore(h)
  BY <1>1, OnlyUpdateCoreEdits
<1>3. handler[h].pc = "write" /\ handler[h].base = version /\ core' = Patched(handler[h].patch)
  BY <1>2 DEF UpdateCore
<1>4. core \in Core /\ handler[h].patch \in Patch /\ handler \in [Handlers -> Request]
  BY DEF DeskTypeOK, Request
<1>5. DidAnalyticalChange(handler[h].patch)
  BY <1>3, <1>4, HarmlessPatch
<1>6. handler[h].analytical
  BY <1>3, <1>5, Zenon DEF DecisionsHold, Decided
<1>7. Step(h, "mark")
  BY <1>2, <1>6 DEF UpdateCore
<1>8. handler'[h].pc = "mark"
  BY <1>4, <1>7 DEF Step, Free
<1> QED
  BY <1>3, <1>8

(* No edit turns analytical behind the back of the handler that makes it.  *)
THEOREM NoSilentEditCorrect == DeskSpec => NoSilentEdit
<1>1. DeskTypeOK /\ DecisionsHold /\ [DeskNext]_deskVars =>
        [AnalyticalPart(core') # AnalyticalPart(core) =>
           \E h \in Handlers : handler[h].pc = "write" /\ handler'[h].pc = "mark"]_deskVars
  BY EditIsMarked
<1> QED
  BY <1>1, DecisionsHoldAlways, PTL DEF DeskSpec, NoSilentEdit

-----------------------------------------------------------------------------
(* What is shown.                                                          *)

(* Where nothing says otherwise, the analytical fields are the ones that   *)
(* were enriched.                                                          *)
AnalyticalAsEnriched ==
  ~stale /\ ~torn /\ (\A h \in Handlers : handler[h].pc # "mark") =>
    AnalyticalPart(core) = AnalyticalPart(basis)

(* What says otherwise keeps saying so.                                    *)
LEMMA WarningKept ==
  ASSUME DeskTypeOK, [DeskNext]_deskVars, stale \/ torn \/ \E h \in Handlers : handler[h].pc = "mark"
  PROVE  stale' \/ torn' \/ \E h \in Handlers : handler'[h].pc = "mark"
<1>1. stale => stale'
  BY Zenon DEF DeskNext, deskVars, entryVars, FetchEntry, OpenForm, Type, CloseForm, SaveMeta,
       SaveCore, ApiPut, Receive, ReadEntry, UpdateCore, Conflict, MarkIntelligenceStale,
       UpdateAuditMetadata, Reply, TimesOut, Fails
<1>2. torn => torn'
  BY Zenon DEF DeskNext, deskVars, entryVars, FetchEntry, OpenForm, Type, CloseForm, SaveMeta,
       SaveCore, ApiPut, Receive, ReadEntry, UpdateCore, Conflict, MarkIntelligenceStale,
       UpdateAuditMetadata, Reply, TimesOut, Fails
<1>3. ASSUME NEW k \in Handlers, handler[k].pc = "mark"
      PROVE  stale' \/ torn' \/ handler'[k].pc = "mark"
  <2>t. handler \in [Handlers -> Request] /\ handler[k] \in Request
    BY DEF DeskTypeOK
  <2>1. CASE handler'[k] = handler[k]
    BY <1>3, <2>1
  <2>2. ASSUME NEW a \in Auditors, CloseForm(a) PROVE handler'[k].pc = "mark"
    BY <1>3, <2>t, <2>2 DEF CloseForm, Request
  <2>3. ASSUME NEW h \in Handlers, NEW new, handler[h].pc # "mark", handler' = [handler EXCEPT ![h] = new]
        PROVE  handler'[k].pc = "mark"
    BY <1>3, <2>t, <2>3
  <2>4. ASSUME NEW h \in Handlers, ApiPut(h) \/ \E a \in Auditors : SaveCore(a, h)
        PROVE  handler'[k].pc = "mark"
    <3>1. PICK who, patch, touched : Receive(h, who, patch, touched)
      BY <2>4, Zenon DEF ApiPut, SaveCore
    <3> DEFINE new == [Free EXCEPT !.pc = "read", !.by = who, !.awaited = who \in Auditors,
                                   !.patch = patch, !.touched = touched]
    <3>2. handler[h].pc = "free" /\ handler' = [handler EXCEPT ![h] = new]
      BY <3>1, Zenon DEF Receive
    <3> HIDE DEF new
    <3> QED
      BY <2>3, <3>2
  <2>5. ASSUME NEW h \in Handlers, ReadEntry(h) PROVE handler'[k] = handler[k]
    <3> DEFINE b == DidAnalyticalChange(handler[h].patch)
    <3>1. handler[h].pc = "read"
          /\ handler' = [handler EXCEPT ![h].pc = "write", ![h].base = version, ![h].analytical = b]
      BY <2>5, Zenon DEF ReadEntry
    <3> HIDE DEF b
    <3> QED
      BY <1>3, <2>t, <3>1
  <2>6. ASSUME NEW h \in Handlers, UpdateCore(h) \/ Conflict(h) \/ UpdateAuditMetadata(h) \/ Reply(h)
        PROVE  handler'[k].pc = "mark"
    BY <2>3, <2>6 DEF UpdateCore, Conflict, UpdateAuditMetadata, Reply, Step
  <2>7. ASSUME NEW h \in Handlers, MarkIntelligenceStale(h) PROVE stale'
    BY <2>7 DEF MarkIntelligenceStale
  <2>8. ASSUME NEW h \in Handlers, TimesOut(h) PROVE handler'[k].pc = "mark"
    BY <1>3, <2>t, <2>8 DEF TimesOut, Request
  <2>9. ASSUME NEW h \in Handlers, Fails(h) PROVE torn' \/ handler'[k].pc = "mark"
    <3>1. CASE handler[h].pc = "mark"
      BY <2>9, <3>1, Zenon DEF Fails
    <3>2. CASE handler[h].pc # "mark"
      BY <2>3, <2>9, <3>2, Zenon DEF Fails
    <3> QED
      BY <3>1, <3>2
  <2>10. ASSUME NEW a \in Auditors, FetchEntry(a) \/ OpenForm(a) \/ Type(a)
         PROVE  handler'[k] = handler[k]
    BY <2>10, Zenon DEF FetchEntry, OpenForm, Type
  <2>11. ASSUME NEW h \in Handlers, NEW a \in Auditors, SaveMeta(a, h)
         PROVE  handler'[k].pc = "mark"
    <3> DEFINE new == [Free EXCEPT !.pc = "patch", !.by = a, !.awaited = TRUE, !.meta = TRUE,
                         !.status = form[a].status, !.touched = form[a].touched \cap {"status"}]
    <3>1. handler[h].pc = "free" /\ handler' = [handler EXCEPT ![h] = new]
      BY <2>11, Zenon DEF SaveMeta
    <3> HIDE DEF new
    <3> QED
      BY <2>3, <3>1
  <2>12. CASE UNCHANGED deskVars
    BY <2>1, <2>12, Zenon DEF deskVars
  <2> QED
    BY <2>1, <2>2, <2>4, <2>5, <2>6, <2>7, <2>8, <2>9, <2>10, <2>11, <2>12, Zenon DEF DeskNext
<1> QED
  BY <1>1, <1>2, <1>3, Zenon

(* Every step keeps the analytical fields as enriched where nothing says   *)
(* otherwise.                                                              *)
LEMMA AsEnrichedInvariant ==
  DeskTypeOK /\ DecisionsHold /\ AnalyticalAsEnriched /\ [DeskNext]_deskVars => AnalyticalAsEnriched'
<1> SUFFICES ASSUME DeskTypeOK, DecisionsHold, AnalyticalAsEnriched, [DeskNext]_deskVars,
                    ~stale', ~torn', \A h \in Handlers : handler'[h].pc # "mark"
             PROVE  AnalyticalPart(core') = AnalyticalPart(basis')
  BY Zenon DEF AnalyticalAsEnriched
<1>1. ~stale /\ ~torn /\ \A h \in Handlers : handler[h].pc # "mark"
  BY WarningKept, Zenon
<1>2. AnalyticalPart(core') = AnalyticalPart(core)
  BY EditIsMarked, Zenon
<1>3. basis' = basis
  BY Zenon DEF DeskNext, deskVars, entryVars, FetchEntry, OpenForm, Type, CloseForm, SaveMeta,
       SaveCore, ApiPut, Receive, ReadEntry, UpdateCore, Conflict, MarkIntelligenceStale,
       UpdateAuditMetadata, Reply, TimesOut, Fails
<1> QED
  BY <1>1, <1>2, <1>3, Zenon DEF AnalyticalAsEnriched

(* The intelligence shown as up to date is what the rules say of the entry *)
(* up to debit and credit.                                                 *)
THEOREM ShownIsExplainedCorrect == DeskSpec => []ShownIsExplained
<1>1. DeskInit => AnalyticalAsEnriched
  BY DEF DeskInit, AnalyticalAsEnriched
<1>2. DeskTypeOK /\ AnalyticalAsEnriched => ShownIsExplained
  <2> SUFFICES ASSUME core \in Core, basis \in Core, AnalyticalPart(core) = AnalyticalPart(basis)
               PROVE  Assess([core EXCEPT !.debit = basis.debit, !.credit = basis.credit])
                        = Assess(basis)
    BY Zenon DEF DeskTypeOK, AnalyticalAsEnriched, ShownIsExplained
  <2>1. /\ core.amount = basis.amount /\ core.description = basis.description
        /\ core.glNumber = basis.glNumber /\ core.postingDate = basis.postingDate
    BY DEF AnalyticalPart
  <2>2. [core EXCEPT !.debit = basis.debit, !.credit = basis.credit] = basis
    BY <2>1 DEF Core
  <2> QED
    BY <2>2
<1> QED
  BY <1>1, <1>2, AsEnrichedInvariant, DecisionsHoldAlways, PTL DEF DeskSpec
=============================================================================

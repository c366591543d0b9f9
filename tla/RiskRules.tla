----------------------------- MODULE RiskRules -----------------------------
(***************************************************************************)
(* What one enrichment computes from the fields of an entry: the signals   *)
(* (signals.ts), the risk score and its factors (RiskScoringService), the  *)
(* anomalies (AnomalyDetectionService) and the compliance flags            *)
(* (ComplianceService).  Pure functions, used by AuditDesk.                *)
(*                                                                         *)
(* Weights and scores are in hundredths: toFixed(4) makes the sums of the  *)
(* code's two-digit weights exact before they are compared.  A description *)
(* is abstracted to the number of suspicious words it contains, or Blank;  *)
(* a GL number to what glIssue says of it.  Messages are left out.         *)
(***************************************************************************)
EXTENDS Integers

CONSTANTS
  Amounts,      \* values of amount, debit and credit
  Dates         \* posting dates: UTC day of the week and hour

ASSUME RulesAssumption ==
  /\ Amounts \subseteq Int
  /\ Dates \subseteq [day : 0..6, hour : 0..23]

Blank        == -1
Descriptions == Blank .. 5
GlNumbers    == {"missing", "malformed", "valid"}

\* Of the sums only amount may be negative (validation.ts).
Sums == {a \in Amounts : a >= 0}

Core == [amount : Amounts, debit : Sums, credit : Sums,
         description : Descriptions, glNumber : GlNumbers, postingDate : Dates]

-----------------------------------------------------------------------------
(* signals.ts.                                                             *)

HighAmountThreshold == 1000000
LateNightBeforeHour == 6

IsUnbalanced(c) == ~ \/ c.debit = c.amount /\ c.credit = 0
                     \/ c.credit = c.amount /\ c.debit = 0

IsHighAmount(amount) == amount > HighAmountThreshold \/ -amount > HighAmountThreshold

IsWeekend(date)   == date.day \in {0, 6}
IsLateNight(date) == date.hour < LateNightBeforeHour

IsSuspicious(description) == description > 0

-----------------------------------------------------------------------------
(* RiskScoringService.assess.                                              *)

Capped(n, max) == IF n > max THEN max ELSE n

Points(signal, weight) == IF signal THEN weight ELSE 0

Contributions(c) ==
  [BALANCE             |-> Points(IsUnbalanced(c), 30),
   HIGH_AMOUNT         |-> Points(IsHighAmount(c.amount), 25),
   TEMPORAL_WEEKEND    |-> Points(IsWeekend(c.postingDate), 10),
   TEMPORAL_LATE_NIGHT |-> Points(IsLateNight(c.postingDate), 15),
   SEMANTIC            |-> Points(IsSuspicious(c.description), Capped(12 * c.description, 24)),
   GL_MISSING          |-> Points(c.glNumber = "missing", 18),
   GL_MALFORMED        |-> Points(c.glNumber = "malformed", 10),
   DESCRIPTION_MISSING |-> Points(c.description = Blank, 10)]

RiskFactors(c) == {code \in DOMAIN Contributions(c) : Contributions(c)[code] > 0}

RawScore(c) ==
  LET p == Contributions(c)
  IN  p.BALANCE + p.HIGH_AMOUNT + p.TEMPORAL_WEEKEND + p.TEMPORAL_LATE_NIGHT
      + p.SEMANTIC + p.GL_MISSING + p.GL_MALFORMED + p.DESCRIPTION_MISSING

RiskScore(c) == Capped(RawScore(c), 100)

\* Broken variant: a score at the threshold is not high yet.
SeverityAbove(score) ==
  IF score > 67 THEN "high" ELSE IF score >= 34 THEN "medium" ELSE "low"

Severity(score) ==
  IF score >= 67 THEN "high" ELSE IF score >= 34 THEN "medium" ELSE "low"

-----------------------------------------------------------------------------
(* AnomalyDetectionService.detect.                                         *)

Anomaly(type, field, severity) == [type |-> type, field |-> field, severity |-> severity]

TemporalSeverity(date) == IF IsLateNight(date) THEN "medium" ELSE "low"

\* Broken variant: a description without words is not looked at.
AnomaliesOfText(c) ==
  {a \in {Anomaly("balance_mismatch", "debit", "high"),
          Anomaly("semantic_anomaly", "description", "medium")} :
     \/ a.type = "balance_mismatch" /\ IsUnbalanced(c)
     \/ a.type = "semantic_anomaly" /\ IsSuspicious(c.description)}

Anomalies(c) ==
  LET When(signal, anomaly) == IF signal THEN {anomaly} ELSE {}
  IN  UNION {When(IsUnbalanced(c), Anomaly("balance_mismatch", "debit", "high")),
             When(IsHighAmount(c.amount), Anomaly("numeric_outlier", "amount", "medium")),
             When(IsWeekend(c.postingDate) \/ IsLateNight(c.postingDate),
                  Anomaly("temporal_anomaly", "postingDate", TemporalSeverity(c.postingDate))),
             When(IsSuspicious(c.description), Anomaly("semantic_anomaly", "description", "medium")),
             When(c.description = Blank, Anomaly("missing_required_field", "description", "low")),
             When(c.glNumber = "missing", Anomaly("missing_required_field", "glNumber", "medium")),
             When(c.glNumber = "malformed", Anomaly("gl_pattern_anomaly", "glNumber", "low"))}

-----------------------------------------------------------------------------
(* ComplianceService.evaluate, with its own copy of the risk threshold.    *)

HighRiskThreshold == 67

ComplianceFlags(c, score) ==
  {flag \in {"DOUBLE_ENTRY_VIOLATION", "MATERIALITY_THRESHOLD",
             "GL_ACCOUNT_REQUIRED", "HIGH_RISK_REVIEW"} :
     \/ flag = "DOUBLE_ENTRY_VIOLATION" /\ IsUnbalanced(c)
     \/ flag = "MATERIALITY_THRESHOLD" /\ IsHighAmount(c.amount)
     \/ flag = "GL_ACCOUNT_REQUIRED" /\ c.glNumber = "missing"
     \/ flag = "HIGH_RISK_REVIEW" /\ score >= HighRiskThreshold}

\* What one enrichment stores of it (EnrichmentService.enrich, vectors aside).
Assess(c) == [score     |-> RiskScore(c),
              severity  |-> Severity(RiskScore(c)),
              factors   |-> RiskFactors(c),
              anomalies |-> Anomalies(c),
              flags     |-> ComplianceFlags(c, RiskScore(c))]
=============================================================================

------------------------------ MODULE LegalClock ------------------------------
(***************************************************************************)
(* The clock of Article 14 in a vulnerability record (cra_evidence/        *)
(* vuln.py, VulnerabilityRecord): its deadlines, and what is overdue or    *)
(* late at an instant.  An optional instant is a set of at most one.       *)
(***************************************************************************)
EXTENDS Calendar

STAGES == {"early_warning", "notification", "final_report"}
EARLY_WARNING_HOURS == 24
NOTIFICATION_HOURS == 72
FINAL_REPORT_HOURS_AFTER_FIX == 14 * 24

\* the fields the clock reads; the status word is none of them
VulnerabilityRecord(products, ids, instants) ==
  LET option == {{}} \cup {{t} : t \in instants}
  IN  [product : products, vuln_id : ids, kind : {"vulnerability", "incident"},
       actively_exploited : BOOLEAN, awareness : instants, fix : option,
       sent : [STAGES -> option]]

\* __post_init__ at an instant
Accepted(rec, at) ==
  /\ \A s \in STAGES : \A t \in rec.sent[s] : t >= rec.awareness
  /\ rec.awareness <= at

\* deadlines: the final report's is undetermined until there is a fix or, for
\* an incident, until the notification was submitted
Deadlines(rec) ==
  [early_warning |-> {rec.awareness + EARLY_WARNING_HOURS},
   notification |-> {rec.awareness + NOTIFICATION_HOURS},
   final_report |->
     IF rec.kind = "incident" THEN {AddMonths(t, 1) : t \in rec.sent["notification"]}
     ELSE {t + FINAL_REPORT_HOURS_AFTER_FIX : t \in rec.fix}]

\* faulty: what was sent before the notification was due is not late
LateByNotification(rec) ==
  {s \in STAGES : \E t \in rec.sent[s], due \in Deadlines(rec)["notification"] : t > due}

\* _state of a stage: sent, but after it was due
Late(rec) ==
  {s \in STAGES : \E t \in rec.sent[s], due \in Deadlines(rec)[s] : t > due}

\* _state of a stage: not sent, and due before
Overdue(rec, at) ==
  {s \in STAGES : rec.sent[s] = {} /\ \E due \in Deadlines(rec)[s] : at > due}

Reportable(rec) == rec.actively_exploited \/ rec.kind = "incident"

\* _overdue
Flags(rec, at, applicable) ==
  [overdue |-> IF applicable THEN Overdue(rec, at) ELSE {},
   late |-> IF applicable THEN Late(rec) ELSE {}]

\* art14_obligation under a reading
Obliged(rec, reading) == Reportable(rec) /\ rec.awareness >= ObligationFrom("manufacturer", reading)

\* faulty: one reading picked in silence
AnswerOfUtc(rec, at) ==
  LET applicable == Obliged(rec, "utc")
  IN  [reporting_applicable |-> {applicable}, flags |-> Flags(rec, at, applicable)]

\* overdue: when the readings disagree, none applies, and the flags are those
\* of the one that obliges
Answer(rec, at) ==
  LET net == Net([r \in READINGS |-> Obliged(rec, r)])
  IN  [reporting_applicable |-> net, flags |-> Flags(rec, at, net # {FALSE})]
=============================================================================

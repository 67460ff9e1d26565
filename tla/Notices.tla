-------------------------------- MODULE Notices --------------------------------
(***************************************************************************)
(* Vulnerability records and notices in one ledger (cra_evidence/locker.py *)
(* record_vulnerability and record_notice; srp_notice.py, SRPNotice; the   *)
(* `notice` command).  What a record says is evaluated, and a notice is    *)
(* built and the ledger scanned for the records it refers to, before the   *)
(* append takes the ledger's lock: other processes append in between, and  *)
(* what one of them has written and not yet answered for may be taken back *)
(* after it has been read (module AppendLog).                              *)
(***************************************************************************)
EXTENDS LegalClock, Sequences

CONSTANTS
  Users,     \* processes that record vulnerabilities and notices
  Product,   \* the product of their lockers
  Products,  \* the products of the lockers that share the ledger
  Ids,       \* CVE and EUVD identifiers
  Instants,  \* the instants the clock shows
  PeriodStarts,  \* more instants from which periods of years are counted
  Records,   \* vulnerability records that may be recorded
  Payloads,  \* stream, stage, fields and declared reason of a notice, as a user gives them
  MaxLog     \* bound: entries ever written to the ledger

\* the instants are ones of the calendar, with ten years after each
ASSUME NoticesAssumption ==
  /\ Product \in Products
  /\ \A t \in Instants \cup PeriodStarts : t \in Int /\ 24 <= t /\ t < 24 * (NewYear[LastYear - 10] - 1)
  /\ Records \subseteq VulnerabilityRecord(Products, Ids, Instants)
  /\ MaxLog \in Nat

VARIABLES
  now,    \* the clock
  log,    \* the entries ever written to the ledger, in that order
  kept,   \* those among the first `kept` that are in the ledger have been answered for
  gone,   \* the places in log of entries that were taken back
  draft   \* the record or notice each user is about to append, or NoDraft

ledgerVars == <<log, kept, gone>>
vars == <<now, ledgerVars, draft>>

-----------------------------------------------------------------------------
(* The schema: one field of each row of stage codes, and those whose       *)
(* values are read.  R required, O optional, A if available, C carried     *)
(* from the stage before, - not at this stage.                             *)

STREAMS == {"vulnerability", "incident"}
Order == [early_warning |-> 1, notification |-> 2, final_report |-> 3]

COMMON_FIELDS ==
  [title |-> <<"R", "C", "C">>, component_name |-> <<"O", "C", "C">>,
   sensitivity_justification |-> <<"O", "O", "C">>, user_measures |-> <<"O", "O", "R">>,
   attack_vector |-> <<"-", "O", "O">>]

VULN_FIELDS ==
  [cve_id |-> <<"O", "C", "C">>, euvd_id |-> <<"O", "C", "C">>,
   awareness_datetime_utc |-> <<"R", "C", "C">>, general_information |-> <<"O", "R", "C">>,
   corrective_available_date |-> <<"O", "O", "R">>, malicious_actor |-> <<"O", "O", "A">>,
   particular_exceptional_circumstances |-> <<"-", "O", "-">>]

INCIDENT_FIELDS ==
  [suspected_malicious |-> <<"R", "C", "C">>, incident_nature |-> <<"O", "R", "C">>,
   awareness_datetime_utc |-> <<"R", "R", "C">>, incident_datetime_utc |-> <<"O", "R", "O">>,
   mitigation_measures |-> <<"O", "O", "R">>]

OwnFields(stream) == IF stream = "vulnerability" THEN VULN_FIELDS ELSE INCIDENT_FIELDS
Fields(stream) == DOMAIN COMMON_FIELDS \cup DOMAIN OwnFields(stream)

Code(stream, k) ==
  IF k \in DOMAIN COMMON_FIELDS THEN COMMON_FIELDS[k] ELSE OwnFields(stream)[k]

\* a payload gives a field of its stream a value, or none; a date has one instant
ASSUME PayloadsAssumption ==
  \A p \in Payloads :
    /\ p.stream \in STREAMS /\ p.stage \in STAGES /\ p.reason \in BOOLEAN
    /\ DOMAIN p.fields = Fields(p.stream)
    /\ \A k \in {"awareness_datetime_utc", "corrective_available_date"} \cap Fields(p.stream) :
         p.fields[k] \subseteq Nat /\ \A t, u \in p.fields[k] : t = u

Empty(stream) == [k \in Fields(stream) |-> {}]

\* faulty: carried by what the stage before says of the field
CarriedByPrevious(stream, stage, fields, previous) ==
  [k \in Fields(stream) |->
     IF fields[k] = {} /\ Order[stage] > 1 /\ Code(stream, k)[Order[stage] - 1] = "C"
     THEN previous[k] ELSE fields[k]]

\* SRPNotice.__post_init__: what this payload leaves empty is carried
Carried(stream, stage, fields, previous) ==
  [k \in Fields(stream) |->
     IF fields[k] = {} /\ Code(stream, k)[Order[stage]] = "C" THEN previous[k] ELSE fields[k]]

Needed(stream, stage, k) ==
  LET code == Code(stream, k) IN
    \/ code[Order[stage]] = "R"
    \/ code[Order[stage]] = "C" /\ \E i \in 1..Order[stage] - 1 : code[i] = "R"

Missing(stream, stage, fields) ==
  {k \in Fields(stream) : Needed(stream, stage, k) /\ fields[k] = {}}

Awareness(fields) == fields["awareness_datetime_utc"]

\* faulty: every stage is due when the early warning is
DeadlineOfEarlyWarning(stream, stage, fields) ==
  {t + EARLY_WARNING_HOURS : t \in Awareness(fields)}

\* deadline_utc: none when it is undetermined
Deadline(stream, stage, fields) ==
  IF Awareness(fields) = {} THEN {}
  ELSE CASE stage = "early_warning" -> {t + EARLY_WARNING_HOURS : t \in Awareness(fields)}
         [] stage = "notification" -> {t + NOTIFICATION_HOURS : t \in Awareness(fields)}
         [] stage = "final_report" ->
              IF stream = "incident" THEN {}
              ELSE {t + FINAL_REPORT_HOURS_AFTER_FIX :
                      t \in fields["corrective_available_date"]}

-----------------------------------------------------------------------------
(* The ledger's entries: for a vulnerability record, what overdue answered *)
(* and when it did.  Ghosts of a notice: the notice its fields were        *)
(* carried from (`from`); and when its call opened the ledger, how many    *)
(* entries had been written (`begun`), were answered for (`sure`) and had  *)
(* been taken back (`lost`).                                               *)

\* the entries among the first n that are in the ledger
Standing(n) == (1..n) \ gone

Vulns(S) == {i \in S : log[i].entry = "cra_vuln" /\ log[i].rec.product = Product}

\* record_notice: an identifier of another stream is no field
NoticeIds(notice) ==
  IF notice.stream = "vulnerability" THEN notice.fields["cve_id"] \cup notice.fields["euvd_id"]
  ELSE {}

\* faulty: the first record of each vulnerability
BoundToFirst(ids, S) ==
  {i \in Vulns(S) : /\ log[i].rec.vuln_id \in ids
                    /\ \A j \in Vulns(S) : log[j].rec.vuln_id = log[i].rec.vuln_id => j >= i}

\* the last record of each vulnerability among the entries read
BoundTo(ids, S) ==
  {i \in Vulns(S) : /\ log[i].rec.vuln_id \in ids
                    /\ \A j \in Vulns(S) : log[j].rec.vuln_id = log[i].rec.vuln_id => j <= i}

NoDraft == [step |-> "none"]
Working(u) == draft[u] # NoDraft

\* bound: what is under way has room in the ledger
Room == Len(log) + Cardinality({u \in Users : Working(u)}) < MaxLog

Init ==
  /\ now \in Instants
  /\ log = <<>> /\ kept = 0 /\ gone = {}
  /\ draft = [u \in Users |-> NoDraft]

Tick ==
  /\ now' \in {t \in Instants : t > now}
  /\ UNCHANGED <<ledgerVars, draft>>

\* an append syncs what is in the file: from here on it is answered for
Promise ==
  /\ kept < Len(log)
  /\ kept' = Len(log)
  /\ UNCHANGED <<now, log, gone, draft>>

\* the last entry, if nobody has answered for it, is truncated by the append
\* that wrote it; several of them go in a power cut
TakeBack(k) ==
  /\ kept < k /\ k \in Standing(Len(log))
  /\ gone' = gone \cup k..Len(log)
  /\ UNCHANGED <<now, log, kept, draft>>

\* record_vulnerability of any locker: overdue() reads the clock, and then
\* the append waits for the ledger's locks
Evaluate(u, rec) ==
  /\ ~ Working(u)
  /\ Room
  /\ Accepted(rec, now)
  /\ draft' = [draft EXCEPT ![u] =
       [step |-> "evaluated",
        made |-> [entry |-> "cra_vuln", rec |-> rec, at |-> now, answer |-> Answer(rec, now)]]]
  /\ UNCHANGED <<now, ledgerVars>>

AppendRecord(u) ==
  /\ draft[u].step = "evaluated"
  /\ Len(log) < MaxLog
  /\ log' = Append(log, draft[u].made)
  /\ draft' = [draft EXCEPT ![u] = NoDraft]
  /\ UNCHANGED <<now, kept, gone>>

\* notices of this stream made at the stage before: each has its drop file
Previous(stream, stage) ==
  {i \in 1..Len(log) : /\ log[i].entry = "cra_srp_notice" /\ log[i].stream = stream
                       /\ Order[log[i].stage] = Order[stage] - 1}

\* SRPNotice, from the fields of the notice before or without; its drop file
Build(u, payload) ==
  /\ ~ Working(u)
  /\ Room
  /\ \E from \in {0} \cup Previous(payload.stream, payload.stage) :
       LET stage == payload.stage
           fields == Carried(payload.stream, stage, payload.fields,
                             IF from = 0 THEN Empty(payload.stream) ELSE log[from].fields)
       IN  /\ Code(payload.stream, "awareness_datetime_utc")[Order[stage]] = "R"
                => Awareness(fields) # {}
           /\ \A t \in Awareness(fields) : t <= now
           /\ draft' = [draft EXCEPT ![u] =
                [step |-> "built", entry |-> "cra_srp_notice", stream |-> payload.stream,
                 stage |-> stage, fields |-> fields, reason |-> payload.reason, bound |-> {},
                 read |-> {}, upto |-> 0, begun |-> 0, sure |-> 0, lost |-> {}, from |-> from]]
  /\ UNCHANGED <<now, ledgerVars>>

\* record_notice opens the ledger, without its lock, if the notice names an
\* identifier; a first part of it is read
OpenLedger(u, n) ==
  /\ draft[u].step = "built" /\ NoticeIds(draft[u]) # {}
  /\ draft' = [draft EXCEPT ![u] =
       [@ EXCEPT !.step = "reading", !.read = Standing(n), !.upto = n,
                 !.begun = Len(log), !.sure = kept, !.lost = gone]]
  /\ UNCHANGED <<now, ledgerVars>>

\* the rest as it is by now: when part of what was read is no longer there,
\* the reader may be past the start of what took its place
Rest(d) ==
  {Standing(Len(log)) \cap k..Len(log) :
     k \in {k \in d.upto + 1..Len(log) + 1 : d.read \cap gone = {} => k = d.upto + 1}}

\* faulty: bound to the first record
ScanFirst(u) ==
  /\ draft[u].step = "reading"
  /\ \E rest \in Rest(draft[u]) :
       LET bound == BoundToFirst(NoticeIds(draft[u]), draft[u].read \cup rest)
           aw == Awareness(draft[u].fields)
           agrees == \A i \in bound :
                       aw # {} /\ (aw = {log[i].rec.awareness} \/ draft[u].reason)
       IN  draft' = [draft EXCEPT ![u] =
                       IF agrees THEN [@ EXCEPT !.step = "scanned", !.bound = bound,
                                                !.read = {}, !.upto = 0]
                                 ELSE NoDraft]
  /\ UNCHANGED <<now, ledgerVars>>

\* the rest is read, and the notice bound: an awareness that is absent is
\* refused, a different one needs a reason
Scan(u) ==
  /\ draft[u].step = "reading"
  /\ \E rest \in Rest(draft[u]) :
       LET bound == BoundTo(NoticeIds(draft[u]), draft[u].read \cup rest)
           aw == Awareness(draft[u].fields)
           agrees == \A i \in bound :
                       aw # {} /\ (aw = {log[i].rec.awareness} \/ draft[u].reason)
       IN  draft' = [draft EXCEPT ![u] =
                       IF agrees THEN [@ EXCEPT !.step = "scanned", !.bound = bound,
                                                !.read = {}, !.upto = 0]
                                 ELSE NoDraft]
  /\ UNCHANGED <<now, ledgerVars>>

\* ... and the notice appended
AppendNotice(u) ==
  /\ \/ draft[u].step = "scanned"
     \/ draft[u].step = "built" /\ NoticeIds(draft[u]) = {}
  /\ Len(log) < MaxLog
  /\ LET n == draft[u]
         missing == Missing(n.stream, n.stage, n.fields)
     IN  log' = Append(log, [entry |-> n.entry, stream |-> n.stream, stage |-> n.stage,
                             fields |-> n.fields, complete |-> missing = {},
                             deadline |-> Deadline(n.stream, n.stage, n.fields),
                             bound |-> n.bound, reason |-> n.reason, begun |-> n.begun,
                             sure |-> n.sure, lost |-> n.lost, from |-> n.from])
  /\ draft' = [draft EXCEPT ![u] = NoDraft]
  /\ UNCHANGED <<now, kept, gone>>

\* the drop file or the append fails, the ledger read is not whole lines, or
\* the process is killed
GiveUp(u) ==
  /\ Working(u)
  /\ draft' = [draft EXCEPT ![u] = NoDraft]
  /\ UNCHANGED <<now, ledgerVars>>

Next ==
  \/ Tick \/ Promise \/ \E k \in 1..Len(log) : TakeBack(k)
  \/ \E u \in Users :
       \/ \E rec \in Records : Evaluate(u, rec)
       \/ \E payload \in Payloads : Build(u, payload)
       \/ \E n \in 0..Len(log) : OpenLedger(u, n)
       \/ AppendRecord(u) \/ Scan(u) \/ AppendNotice(u) \/ GiveUp(u)

Spec == Init /\ [][Next]_vars

-----------------------------------------------------------------------------
(* Properties.                                                             *)

Recorded(entry) == {i \in 1..Len(log) : log[i].entry = entry}
Optional(x, S) == x \subseteq S /\ Cardinality(x) <= 1

\* every variable stays in its set; a record that is in the ledger passed its
\* checks when it was made
NoticesTypeOK ==
  /\ now \in Instants
  /\ Len(log) <= MaxLog /\ kept \in 0..Len(log) /\ gone \subseteq 1..Len(log)
  /\ \A i \in Recorded("cra_vuln") :
       log[i].rec \in Records /\ log[i].at <= now /\ Accepted(log[i].rec, log[i].at)
  /\ \A i \in Recorded("cra_srp_notice") :
       /\ log[i].stage \in STAGES /\ Optional(log[i].deadline, Nat)
       /\ DOMAIN log[i].fields = Fields(log[i].stream)
       /\ Optional(Awareness(log[i].fields), 0..now)
       /\ log[i].bound \subseteq Recorded("cra_vuln") \cap 1..i - 1
  /\ \A u \in Users : draft[u].step \in {"none", "evaluated", "built", "reading", "scanned"}

(* The readings of 11 September 2026, computed by the calendar, are the    *)
(* instants the code's documents name; an awareness before the first is    *)
(* reported in none, and between them the flags are those of the one that  *)
(* obliges: nothing overdue in either is hidden (vuln.py, overdue).        *)
Start == [utc |-> 6072, europe_brussels |-> 6070]

NothingHidden ==
  \A i \in Recorded("cra_vuln") :
    LET rec == log[i].rec
        obliges == {r \in READINGS : Reportable(rec) /\ rec.awareness >= Start[r]}
        answer == log[i].answer
    IN  /\ answer.flags.overdue = (IF obliges = {} THEN {} ELSE Overdue(rec, log[i].at))
        /\ TRUE \in answer.reporting_applicable <=> obliges = READINGS
        /\ FALSE \in answer.reporting_applicable <=> obliges = {}

(* "a status word cannot extinguish an obligation that was never           *)
(* fulfilled" (vuln.py:68-69): a stage that was overdue when one record of *)
(* the event was evaluated is overdue or late in every record of the same  *)
(* event evaluated then or later, wherever the two stand in the ledger,    *)
(* unless that one claims to have sent it before the first instant.        *)
SameEvent(a, b) ==
  /\ a.product = b.product /\ a.vuln_id = b.vuln_id /\ a.kind = b.kind
  /\ a.awareness = b.awareness /\ a.actively_exploited = b.actively_exploited
  /\ a.fix = b.fix
  /\ a.kind = "incident" => a.sent["notification"] = b.sent["notification"]

SilenceIsNoExit ==
  \A i, j \in Recorded("cra_vuln") :
    log[i].at <= log[j].at /\ SameEvent(log[i].rec, log[j].rec) =>
      \A s \in log[i].answer.flags.overdue :
        \/ s \in log[j].answer.flags.overdue \cup log[j].answer.flags.late
        \/ \E t \in log[j].rec.sent[s] : t < log[i].at

(* Whatever is appended or taken back during the call, a notice accounts   *)
(* for every record of its identifiers that somebody had been answered for *)
(* when the call opened the ledger: it is bound to that record or to a     *)
(* later one of the same vulnerability.  When nothing written until the    *)
(* notice has been taken back since the ledger was opened, it is bound to  *)
(* the last records at one moment of the call.  Without a declared reason  *)
(* it states their awareness (locker.py, record_notice).                   *)
Accounts(notice, S) ==
  \A i \in Vulns(S) :
    log[i].rec.vuln_id \in NoticeIds(notice) =>
      \E j \in notice.bound : j >= i /\ log[j].rec.vuln_id = log[i].rec.vuln_id

BoundAsOfTheCall ==
  \A i \in Recorded("cra_srp_notice") :
    LET notice == log[i] IN
      /\ Accounts(notice, Standing(notice.sure))
      /\ gone \cap 1..i - 1 \subseteq notice.lost =>
           \E n \in notice.begun..i - 1 : notice.bound = BoundTo(NoticeIds(notice), Standing(n))
      /\ ~ notice.reason =>
           \A j \in notice.bound : Awareness(notice.fields) = {log[j].rec.awareness}

(* "the LAST record per vuln_id is the current legal state"                *)
(* (locker.py:195): a notice accounts for every record that is in the      *)
(* ledger before it.                                                       *)
BoundToLast ==
  \A i \in Recorded("cra_srp_notice") : Accounts(log[i], Standing(i - 1))

(* "the legal clock cannot be moved in a notice without touching the       *)
(* record that started it" (locker.py:191-192): the deadline a notice      *)
(* computes is the one of each record it is bound to, until the final      *)
(* report, whose own field a notice may state otherwise.                   *)
SameDeadline ==
  \A i \in Recorded("cra_srp_notice") :
    ~ log[i].reason /\ log[i].stage # "final_report" =>
      \A j \in log[i].bound : log[i].deadline = Deadlines(log[j].rec)[log[i].stage]

(* What was stated at a stage is stated at every later one that carries it *)
(* on, through any number of notices; and a notice built on a complete one *)
(* lacks nothing but what its own stage requires (srp_notice.py, missing). *)
CarriedOn ==
  \A i \in Recorded("cra_srp_notice") :
    LET n == log[i] IN
      n.from # 0 =>
        LET p == log[n.from] IN
          /\ \A k \in Fields(n.stream) :
               p.fields[k] # {} /\ Code(n.stream, k)[Order[n.stage]] = "C" => n.fields[k] # {}
          /\ p.complete /\ (\A k \in Fields(n.stream) :
                               Code(n.stream, k)[Order[n.stage]] = "R" => n.fields[k] # {})
               => n.complete

(* 00:00 under a reading is where its date changes, also in the nights     *)
(* when the clocks do ("no transition falls at midnight", applicability.py *)
(* day_start): checked for each hour of the sixty days after an instant.   *)
MidnightsFrom(t) ==
  \A u \in t..t + 24 * 60, r \in READINGS :
    LET start == DayStart(LocalDate(u, r), r)
    IN  start <= u /\ LocalDate(start - 1, r) # LocalDate(u, r)

(* A period of years ends when the same date of the last year is over, or  *)
(* the last of its month (applicability.py, years_after); what is kept     *)
(* until latest_until is kept long enough under both readings, and a       *)
(* support period to that instant meets the minimum.  The days themselves  *)
(* start at midnight.                                                      *)
Anniversary(date, years) ==
  [y |-> date.y + years, m |-> date.m,
   d |-> IF date.m = 2 /\ date.d = 29 /\ ~ Leap(date.y + years) THEN 28 ELSE date.d]

PeriodsFrom(t) ==
  \A r \in READINGS :
    LET five == YearsAfter(t, 5, r)
        ten == YearsAfter(t, 10, r)
    IN  /\ LocalDate(five - 1, r) = Anniversary(LocalDate(t, r), 5)
        /\ LocalDate(ten - 1, r) = Anniversary(LocalDate(t, r), 10)
        /\ LocalDate(ten, r) # LocalDate(ten - 1, r)
        /\ SupportStatus(t, five, FALSE) # "below_minimum"
        /\ SupportStatus(t, five - 1, FALSE) # "meets_minimum"
        /\ SupportStatus(t, LatestUntil(t, {}), FALSE) = "meets_minimum"
        /\ \A end \in {five, ten, ten + 1} :
             LatestUntil(t, {end}) >= ten /\ LatestUntil(t, {end}) >= end

\* what is said of the clock alone is looked at before anything is recorded
Idle == log = <<>> /\ \A u \in Users : ~Working(u)

PeriodsAreWhole == Idle => \A t \in {now} \cup PeriodStarts : MidnightsFrom(t) /\ PeriodsFrom(t)

(* Article 69(2) and the exit status of `obligations` (cli.py:449-456,     *)
(* applicability.py, legacy_product_scope), for products placed now or     *)
(* around the start of 11 December 2027, with or without a modification:   *)
(* no finding about a product that is before that day in both readings,    *)
(* always one when it is after it, and below five years, in both; none     *)
(* when a reason is declared; and a longer support period never makes a    *)
(* finding.  A reporting obligation once in force stays in force, and      *)
(* arises for an awareness exactly when it is.                             *)
Full == [utc |-> 17016, europe_brussels |-> 17015]
AroundFull == (17016 - 3)..(17016 + 1)

ScopeOK(placed, mod, end) ==
  LET found == ObligationsCode(placed, mod, end, FALSE) = 1
      dates == {placed} \cup mod
  IN  /\ (\A u \in dates : u < Full.europe_brussels) => ~found
      /\ (\E u \in dates : u >= Full.utc) /\ (\A r \in READINGS : end < YearsAfter(placed, 5, r)) => found
      /\ ObligationsCode(placed, mod, end, TRUE) # 1
      /\ ObligationsCode(placed, mod, end + 1, FALSE) = 1 => found

InForceOK(role, at) ==
  LET start == IF role = "manufacturer" THEN Start ELSE Full
  IN  /\ TRUE \in InForce(role, at) <=> \A r \in READINGS : at >= start[r]
      /\ FALSE \in InForce(role, at) <=> \A r \in READINGS : at < start[r]

ScopeFollowsDates ==
  Idle =>
    /\ \A placed \in {now} \cup PeriodStarts \cup AroundFull :
         \A mod \in {{}} \cup {{u} : u \in {v \in AroundFull : v >= placed}}, r \in READINGS, k \in -1..1 :
            ScopeOK(placed, mod, YearsAfter(placed, 5, r) + k)
    /\ \A role \in ROLES, at \in {now} \cup PeriodStarts \cup AroundFull : InForceOK(role, at)
=============================================================================

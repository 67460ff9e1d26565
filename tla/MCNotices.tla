------------------------------ MODULE MCNotices ------------------------------
(* Two lockers share a ledger, and two processes use it.  The instants are *)
(* those around the start of Article 14 and of a missed early warning; the *)
(* days are around a 29 February.  The clocks change within sixty days of  *)
(* both, once each way.                                                    *)
EXTENDS Notices, TLC

Sep10at22 == 6070     \* 11 September 2026 begins in Brussels
Sep11 == 6072         \* ... and in UTC
Feb29 == 18960        \* of 2028
MCInstants == {Sep10at22, Sep11, Sep11 + 25}
MCPeriodStarts == {Feb29 - 1, Feb29}

Symmetry == Permutations(Users)

Nothing == {}
Rec(product, id, kind, exploited, aw, fix, ew, nt) ==
  [product |-> product, vuln_id |-> id, kind |-> kind, actively_exploited |-> exploited,
   awareness |-> aw, fix |-> fix,
   sent |-> [early_warning |-> ew, notification |-> nt, final_report |-> Nothing]]

MCRecords ==
  {Rec("p", "cve", "vulnerability", TRUE, Sep10at22, Nothing, Nothing, Nothing)}
  \cup {Rec("p", "cve", "vulnerability", TRUE, Sep11, {Sep11}, ew, Nothing) :
          ew \in {Nothing, {Sep11 + 25}}}
  \cup {Rec("q", "cve", "incident", FALSE, Sep11, Nothing, {Sep11}, {Sep11 + 25})}

Payload(stream, stage, values, reason) ==
  [stream |-> stream, stage |-> stage, reason |-> reason,
   fields |-> [k \in Fields(stream) |-> IF k \in DOMAIN values THEN values[k] ELSE {}]]
Given == {"given"}

MCPayloads ==
  {Payload("vulnerability", "early_warning",
     [title |-> Given, cve_id |-> {"cve"}, awareness_datetime_utc |-> {Sep11}], FALSE),
   Payload("vulnerability", "notification", [general_information |-> Given, euvd_id |-> {"cve"}], FALSE),
   Payload("vulnerability", "final_report",
     [user_measures |-> Given, corrective_available_date |-> {Sep11 + 25}], TRUE),
   Payload("incident", "early_warning",
     [title |-> Given, suspected_malicious |-> Given, awareness_datetime_utc |-> {Sep11}], FALSE)}
=============================================================================

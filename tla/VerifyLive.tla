------------------------------ MODULE VerifyLive ------------------------------
(***************************************************************************)
(* The ledger and signed-tip checks of verify_pack (cra_evidence/          *)
(* verify_pack.py, verify_tip in signing.py) on a ledger that processes    *)
(* may be appending to: the verifier takes no lock, reads the ledger a     *)
(* buffer at a time, and opens the tip only after it has judged the chain. *)
(* The ledger it is given may also be a copy that lost the end of its tail.*)
(***************************************************************************)
EXTENDS Ledger

VARIABLES
  vstep,   \* where the verifier is
  view,    \* the bytes of the ledger it has read
  snap,    \* the entries it read, once their chain is accepted
  said,    \* what it said last
  sealed,  \* ghost: the entries a tip was written for, and that the tip counts
  began,   \* ghost: the entries promised when it opened the ledger
  missing, \* ghost: the sealed entries not in snap when it read the tip
  copied   \* the ledger is a copy without its end; nobody appends to it

auditVars == <<vstep, view, snap, said, sealed, began, missing, copied>>
liveVars == <<vars, auditVars>>

Sayings == {"none", "chain_refused", "tip_absent", "tail_truncated", "unsealed_tail",
            "tip_of_another_ledger", "tail_rewritten", "verified"}

\* every variable stays in its set; a snapshot is never empty
AuditTypeOK ==
  /\ TypeOK
  /\ vstep \in {"idle", "reading", "tip"}
  /\ view \in Seq(Cell)
  /\ snap \in Seq(Entry) /\ (vstep = "tip" => snap # <<>>)
  /\ said \in Sayings
  /\ sealed \subseteq Entry /\ began \subseteq Entry /\ missing \subseteq Entry
  /\ copied \in BOOLEAN

AuditInit ==
  /\ Init
  /\ vstep = "idle" /\ view = <<>> /\ snap = <<>> /\ said = "none"
  /\ sealed = {} /\ began = {} /\ missing = {}
  /\ copied = FALSE

Contents(s) == {s[k] : k \in 1..Len(s)}

-----------------------------------------------------------------------------
(* The verifier.                                                           *)

\* open_regular, and a first part of the file
Open1(k) ==
  /\ vstep = "idle"
  /\ k <= Len(file)
  /\ view' = SubSeq(file, 1, k)
  /\ began' = promised
  /\ said' = "none" /\ missing' = {} /\ snap' = <<>>
  /\ vstep' = "reading"
  /\ UNCHANGED <<vars, sealed, copied>>

\* faulty: a short read is taken for the end of the file
ReadRestStops ==
  /\ vstep = "reading"
  /\ ChainOK(view)
  /\ snap' = LogOf(view)
  /\ view' = <<>> /\ vstep' = "tip"
  /\ UNCHANGED <<vars, said, sealed, began, missing, copied>>

\* the rest of the file as it is by now; Ledger.verify on what was read
ReadRest ==
  /\ vstep = "reading"
  /\ LET all == view \o SubSeq(file, Len(view) + 1, Len(file)) IN
       \/ /\ ChainOK(all)
          /\ snap' = LogOf(all)
          /\ vstep' = "tip"
          /\ UNCHANGED said
       \/ /\ ~ChainOK(all)
          /\ said' = "chain_refused"
          /\ vstep' = "idle"
          /\ UNCHANGED snap
  /\ view' = <<>>
  /\ UNCHANGED <<vars, sealed, began, missing, copied>>

\* faulty: more entries than the snapshot are no reason to refuse the tip
JudgeLongerTip(t) ==
  IF t.n = 0 THEN "tip_absent"
  ELSE IF t.n < Len(snap) THEN "unsealed_tail"
  ELSE IF t.first # SelfHash(snap[1]) THEN "tip_of_another_ledger"
  ELSE "verified"

\* verify_tip, for a tip whose signature verifies
Judge(t) ==
  IF t.n = 0 THEN "tip_absent"
  ELSE IF Len(snap) < t.n THEN "tail_truncated"
  ELSE IF t.n < Len(snap) THEN "unsealed_tail"
  ELSE IF t.first # SelfHash(snap[1]) THEN "tip_of_another_ledger"
  ELSE IF t.last # SelfHash(snap[Len(snap)]) THEN "tail_rewritten"
  ELSE "verified"

\* the tip is opened, read whole (it is renamed into place) and judged
ReadTip ==
  /\ vstep = "tip"
  /\ said' = Judge(tip)
  /\ missing' = sealed \ Contents(snap)
  /\ snap' = <<>>
  /\ vstep' = "idle"
  /\ UNCHANGED <<vars, view, sealed, began, copied>>

-----------------------------------------------------------------------------
(* The writers and the environment.                                        *)

Appends(p) ==
  /\ ~copied
  /\ \/ \E d \in Data : Call(p, d)
     \/ Advance(p) \/ Crash(p)
  /\ sealed' = sealed \cup (IF tip' # tip THEN {entry[p]} ELSE {})
  /\ UNCHANGED <<vstep, view, snap, said, began, missing, copied>>

\* a power cut also ends the verification; an older tip counts fewer entries
AuditPowerLoss ==
  /\ PowerLoss /\ ~copied
  /\ sealed' = {e \in sealed : e.idx < tip'.n}
  /\ vstep' = "idle" /\ view' = <<>> /\ snap' = <<>> /\ said' = "none"
  /\ began' = {} /\ missing' = {}
  /\ UNCHANGED copied

\* the ledger is handed over without some of its last lines
DropTail ==
  /\ ~copied /\ vstep = "idle"
  /\ \A p \in Writers : pc[p] = "idle"
  /\ \E i \in LineStarts(file) : file' = SubSeq(file, 1, i - 1)
  /\ disk' = file'
  /\ copied' = TRUE
  /\ UNCHANGED <<flock, tip, tipDisk, lock, pc, entry, first, rest, end, answer, promised,
                 used, vstep, view, snap, said, sealed, began, missing>>

AuditNext ==
  \/ \E k \in 0..Len(file) : Open1(k)
  \/ ReadRest \/ ReadTip
  \/ \E p \in Writers : Appends(p)
  \/ AuditPowerLoss \/ DropTail

AuditSpec == AuditInit /\ [][AuditNext]_liveVars

-----------------------------------------------------------------------------
(* Properties.                                                             *)

(* A chain that is accepted misses nothing that was promised when the      *)
(* ledger was opened, although lines are written, rolled back and replaced *)
(* between the two parts that are read.                                    *)
AcceptedHoldsPromised == vstep = "tip" /\ ~copied => began \subseteq Contents(snap)

(* "tip verified: no tail truncation" (verify_pack.py:333): the entries    *)
(* read include every entry that a tip was written for by the time the tip *)
(* was read, also those appended since the ledger was read.                *)
VerifiedIsComplete == said = "verified" => missing = {}
=============================================================================

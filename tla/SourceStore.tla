------------------------------ MODULE SourceStore ------------------------------
(***************************************************************************)
(* CRAEvidenceLocker.record_sbom with a source document                    *)
(* (cra_evidence/locker.py): the document is copied into the store next to *)
(* the ledger before its record is appended, and an append that fails      *)
(* takes the copy away again.  A stored copy is named by the digest of its *)
(* bytes, so the store is the set of the documents it holds.               *)
(***************************************************************************)
EXTENDS Ledger

CONSTANTS
  Docs,       \* generators' documents, each standing for its bytes
  DocOf,      \* the document each record binds
  Overlap     \* may two processes record one document at the same time?

ASSUME SourceConstants ==
  /\ DocOf \in [Data -> Docs]
  /\ Overlap \in BOOLEAN

VARIABLES
  spc,      \* where each process is in record_sbom
  rec,      \* the record it is making
  created,  \* it wrote the copy itself
  store,    \* the documents in the store
  cut       \* ghost: those missing because of a power cut

srcVars == <<spc, rec, created, store, cut>>
allVars == <<vars, srcVars>>

SourceSteps == {"idle", "look", "compare", "copy", "append", "appending", "scan", "remove"}

Doc(p) == DocOf[rec[p]]

\* every variable stays in its set; a copy is taken away only by its maker
SourceTypeOK ==
  /\ TypeOK
  /\ spc \in [Writers -> SourceSteps]
  /\ rec \in [Writers -> Data]
  /\ created \in [Writers -> BOOLEAN]
  /\ store \subseteq Docs /\ cut \subseteq Docs
  /\ \A p \in Writers : spc[p] \in {"scan", "remove"} => created[p]

SourceInit ==
  /\ Init
  /\ spc = [p \in Writers |-> "idle"]
  /\ rec = [p \in Writers |-> CHOOSE d \in Data : TRUE]
  /\ created = [p \in Writers |-> FALSE]
  /\ store = {} /\ cut = {}

-----------------------------------------------------------------------------
(* record_sbom, in the order of its statements.                            *)

At(p, l) == spc' = [spc EXCEPT ![p] = l]

\* the document is read, its index derived again and found equal
RecordCall(p, d) ==
  /\ spc[p] = "idle" /\ pc[p] = "idle"
  /\ d \notin used
  /\ \A q \in Writers : spc[q] # "idle" =>
       /\ rec[q] # d
       /\ Overlap \/ Doc(q) # DocOf[d]
  /\ rec' = [rec EXCEPT ![p] = d]
  /\ created' = [created EXCEPT ![p] = FALSE]
  /\ At(p, "look")
  /\ UNCHANGED <<vars, store, cut>>

\* os.path.exists(dst)
Look(p) ==
  /\ spc[p] = "look"
  /\ At(p, IF Doc(p) \in store THEN "compare" ELSE "copy")
  /\ UNCHANGED <<vars, rec, created, store, cut>>

\* the stored bytes are compared; a file that is gone by now is an OSError
Compare(p) ==
  /\ spc[p] = "compare"
  /\ At(p, IF Doc(p) \in store THEN "append" ELSE "idle")
  /\ UNCHANGED <<vars, rec, created, store, cut>>

\* write_tmp and commit_tmp: the whole copy, or nothing and nothing recorded
Copy(p) ==
  /\ spc[p] = "copy"
  /\ \/ /\ store' = store \cup {Doc(p)}
        /\ created' = [created EXCEPT ![p] = TRUE]
        /\ At(p, "append")
     \/ /\ At(p, "idle")
        /\ UNCHANGED <<created, store>>
  /\ UNCHANGED <<vars, rec, cut>>

\* Ledger.append of the record begins
AppendRecord(p) ==
  /\ spc[p] = "append"
  /\ Call(p, rec[p])
  /\ At(p, "appending")
  /\ UNCHANGED <<rec, created, store, cut>>

\* append is back: recorded, or any exception
Appended(p) ==
  /\ spc[p] = "appending" /\ pc[p] = "idle"
  /\ At(p, IF answer[p] # "recorded" /\ created[p] THEN "scan" ELSE "idle")
  /\ UNCHANGED <<vars, rec, created, store, cut>>

\* faulty: takes the copy away without looking
ScanNothing(p) ==
  /\ spc[p] = "scan"
  /\ At(p, "remove")
  /\ UNCHANGED <<vars, rec, created, store, cut>>

\* is the document in a record?  A line that does not parse ends the call
Scan(p) ==
  /\ spc[p] = "scan"
  /\ At(p, IF (\E i \in Starts(file) : DocOf[file[i].e.data] = Doc(p)) \/ Unparsable(file)
           THEN "idle" ELSE "remove")
  /\ UNCHANGED <<vars, rec, created, store, cut>>

\* os.remove(created), whose failure is passed over
Remove(p) ==
  /\ spc[p] = "remove"
  /\ store' \in {store, store \ {Doc(p)}}
  /\ At(p, "idle")
  /\ UNCHANGED <<vars, rec, created, cut>>

-----------------------------------------------------------------------------
(* The environment.                                                        *)

InAppend(p) == Advance(p) /\ UNCHANGED srcVars

\* the process is killed; a copy it made stays
Killed(p) ==
  /\ spc[p] # "idle"
  /\ At(p, "idle")
  /\ Crash(p) \/ (pc[p] = "idle" /\ UNCHANGED vars)
  /\ UNCHANGED <<rec, created, store, cut>>

\* the store's folder is never synced: names in it may be gone, and a record
\* whose truncation was not synced may be back after its copy was removed
SourcePowerLoss ==
  /\ PowerLoss
  /\ spc' = [p \in Writers |-> "idle"]
  /\ store' \in SUBSET store
  /\ cut' = (cut \cup store \cup {DocOf[file'[i].e.data] : i \in Starts(file')}) \ store'
  /\ UNCHANGED <<rec, created>>

SourceStep(p) ==
  \/ Look(p) \/ Compare(p) \/ Copy(p) \/ AppendRecord(p) \/ Appended(p)
  \/ Scan(p) \/ Remove(p)

SourceNext ==
  \/ \E p \in Writers : \/ \E d \in Data : RecordCall(p, d)
                        \/ SourceStep(p) \/ InAppend(p) \/ Killed(p)
  \/ SourcePowerLoss

SourceSpec == SourceInit /\ [][SourceNext]_allVars

-----------------------------------------------------------------------------
(* Properties.                                                             *)

(* "the evidence is the document": every record the ledger shows, promised *)
(* or not, has its document in the store, unless a power cut removed the   *)
(* copy or brought the record back.  The undo of a failed call never       *)
(* deletes a document in use, also when the append did succeed and only    *)
(* the tip could not be written, or when the rollback failed and the whole *)
(* line stayed.                                                            *)
ShownIsStored ==
  \A i \in Starts(file) : DocOf[file[i].e.data] \in store \cup cut

(* "undo this call's copy - unless a concurrent record already relies on   *)
(* it" (locker.py:156): the document of a record whose fsync has returned  *)
(* is in the store, also when two processes record one document at once.   *)
DocumentStored ==
  \A e \in promised : DocOf[e.data] \in store \cup cut
=============================================================================

-------------------------- MODULE SourceStoreProofs --------------------------
(***************************************************************************)
(* For any processes, any documents and any failures: every record the     *)
(* ledger shows has its document in the store of module SourceStore, as    *)
(* long as no two processes record one document at the same time.          *)
(***************************************************************************)
EXTENDS SourceStore, LedgerProofs

-----------------------------------------------------------------------------
(* The inductive invariant.                                                *)

\* what a process in record_sbom can rely on; a copy that is about to be taken
\* away is in no record that shows
Recording(p) ==
  /\ pc[p] # "idle" => spc[p] = "appending"
  /\ spc[p] = "appending" => entry[p].data = rec[p]
  /\ spc[p] \in {"append", "appending"} => Doc(p) \in store
  /\ spc[p] = "remove" => \A i \in Starts(file) : DocOf[file[i].e.data] # Doc(p)

\* no document is recorded twice at one time
OneEach ==
  \A p, q \in Writers : p # q /\ spc[p] # "idle" /\ spc[q] # "idle" => Doc(p) # Doc(q)

SInv ==
  /\ SourceTypeOK
  /\ \A p \in Writers : Recording(p)
  /\ OneEach
  /\ ShownIsStored

RInv == IInv /\ AInv /\ SInv

-----------------------------------------------------------------------------
(* The ledger under the store.                                             *)

LEMMA SourceLedgerStep ==
  ASSUME SourceTypeOK, [SourceNext]_allVars
  PROVE  [Next]_vars
<1>1. ASSUME NEW p \in Writers, AppendRecord(p) PROVE [Next]_vars
  <2>1. Call(p, rec[p]) /\ rec[p] \in Data
    BY <1>1 DEF AppendRecord, SourceTypeOK
  <2> QED BY <2>1 DEF Next
<1>2. ASSUME NEW p \in Writers, InAppend(p) \/ Killed(p) PROVE [Next]_vars
  BY <1>2 DEF InAppend, Killed, Next
<1>3. ASSUME SourcePowerLoss PROVE [Next]_vars
  BY <1>3 DEF SourcePowerLoss, Next
<1>4. ASSUME NEW p \in Writers, NEW d \in Data, RecordCall(p, d) PROVE [Next]_vars
  BY <1>4 DEF RecordCall
<1> QED BY <1>1, <1>2, <1>3, <1>4
        DEF SourceNext, SourceStep, Look, Compare, Copy, Appended, Scan, Remove, allVars

-----------------------------------------------------------------------------
(* Types.                                                                  *)

LEMMA DocType == ASSUME NEW d \in Data PROVE DocOf[d] \in Docs
  BY SourceConstants

LEMMA SourceTypeStep ==
  ASSUME SourceTypeOK, TypeOK', [SourceNext]_allVars
  PROVE  SourceTypeOK'
<1> USE DEF SourceTypeOK
<1>1. ASSUME NEW p \in Writers, NEW l \in SourceSteps, At(p, l)
      PROVE  /\ spc' \in [Writers -> SourceSteps] /\ spc'[p] = l
             /\ \A q \in Writers : q # p => spc'[q] = spc[q]
  BY <1>1 DEF At
<1>2. ASSUME NEW p \in Writers, NEW d \in Data, RecordCall(p, d) PROVE SourceTypeOK'
  <2>1. At(p, "look") /\ "look" \in SourceSteps
    BY <1>2 DEF RecordCall, SourceSteps
  <2>2. /\ spc' \in [Writers -> SourceSteps] /\ spc'[p] = "look"
        /\ \A q \in Writers : q # p => spc'[q] = spc[q]
    BY <1>1, <2>1
  <2>3. rec' \in [Writers -> Data] /\ created' \in [Writers -> BOOLEAN]
    BY <1>2 DEF RecordCall
  <2>4. \A q \in Writers : spc'[q] \in {"scan", "remove"} => created'[q]
    BY <1>2, <2>2 DEF RecordCall
  <2> QED BY <1>2, <2>2, <2>3, <2>4 DEF RecordCall
<1>3. ASSUME NEW p \in Writers, NEW l \in SourceSteps, At(p, l), UNCHANGED <<rec, created, cut>>,
             store' \subseteq Docs, l \in {"scan", "remove"} => created[p]
      PROVE  SourceTypeOK'
  <2>1. /\ spc' \in [Writers -> SourceSteps] /\ spc'[p] = l
        /\ \A q \in Writers : q # p => spc'[q] = spc[q]
    BY <1>1, <1>3
  <2> QED BY <1>3, <2>1
<1>4. ASSUME NEW p \in Writers, Copy(p) PROVE SourceTypeOK'
  <2>1. CASE At(p, "idle") /\ UNCHANGED <<created, store>>
    BY <1>3, <1>4, <2>1 DEF Copy, SourceSteps
  <2>2. CASE /\ store' = store \cup {Doc(p)}
             /\ created' = [created EXCEPT ![p] = TRUE]
             /\ At(p, "append")
    <3>1. Doc(p) \in Docs
      BY DocType DEF Doc
    <3>2. "append" \in SourceSteps
      BY DEF SourceSteps
    <3>3. /\ spc' \in [Writers -> SourceSteps] /\ spc'[p] = "append"
          /\ \A q \in Writers : q # p => spc'[q] = spc[q]
      BY <1>1, <2>2, <3>2
    <3>4. created' \in [Writers -> BOOLEAN] /\ store' \subseteq Docs
      BY <2>2, <3>1
    <3>5. \A q \in Writers : spc'[q] \in {"scan", "remove"} => created'[q]
      BY <2>2, <3>3
    <3> QED BY <1>4, <3>3, <3>4, <3>5 DEF Copy
  <2> QED BY <1>4, <2>1, <2>2 DEF Copy
<1>5. ASSUME NEW p \in Writers, SourceStep(p), ~Copy(p) PROVE SourceTypeOK'
  <2>1. /\ \E l \in SourceSteps : At(p, l) /\ (l \in {"scan", "remove"} => created[p])
        /\ UNCHANGED <<rec, created, cut>> /\ store' \subseteq Docs
    <3>1. CASE Look(p) \/ Compare(p) \/ AppendRecord(p)
      BY <3>1 DEF Look, Compare, AppendRecord, SourceSteps
    <3>2. CASE Appended(p) \/ Scan(p)
      BY <3>2 DEF Appended, Scan, SourceSteps
    <3>3. CASE Remove(p)
      BY <3>3 DEF Remove, SourceSteps
    <3> QED BY <1>5, <3>1, <3>2, <3>3 DEF SourceStep
  <2> QED BY <1>3, <2>1
<1>6. ASSUME UNCHANGED srcVars PROVE SourceTypeOK'
  BY <1>6 DEF srcVars
<1>7. ASSUME NEW p \in Writers, Killed(p) PROVE SourceTypeOK'
  BY <1>3, <1>7 DEF Killed, SourceSteps
<1>8. ASSUME SourcePowerLoss PROVE SourceTypeOK'
  <2>1. \A i \in Starts(file') : file'[i].e \in Entry
    BY StartsType DEF TypeOK
  <2>2. \A i \in Starts(file') : DocOf[file'[i].e.data] \in Docs
    BY <2>1, DocType DEF Entry
  <2> QED BY <1>8, <2>2 DEF SourcePowerLoss, SourceSteps
<1> QED BY <1>2, <1>4, <1>5, <1>6, <1>7, <1>8 DEF SourceNext, InAppend, allVars

-----------------------------------------------------------------------------
(* The steps of record_sbom.                                               *)

\* a step of record_sbom that leaves the ledger alone
LEMMA StoreStep ==
  ASSUME SInv, SourceTypeOK', UNCHANGED vars, NEW p \in Writers,
         \A q \in Writers : q # p => spc'[q] = spc[q] /\ rec'[q] = rec[q],
         pc[p] = "idle", cut' = cut,
         \/ store \subseteq store'
         \/ store \ {Doc(p)} \subseteq store' /\ spc[p] = "remove",
         spc'[p] # "idle" =>
           \A q \in Writers : q # p /\ spc[q] # "idle" => Doc(q) # DocOf[rec'[p]],
         spc'[p] = "append" => DocOf[rec'[p]] \in store',
         spc'[p] # "appending",
         spc'[p] = "remove" => \A i \in Starts(file) : DocOf[file[i].e.data] # DocOf[rec'[p]]
  PROVE  SInv'
<1>1. file' = file /\ pc' = pc /\ entry' = entry
  BY DEF vars, fileVars
<1>2. ASSUME NEW q \in Writers PROVE Recording(q)'
  <2>1. CASE q = p
    BY <1>1, <2>1 DEF Recording, Doc
  <2>2. CASE q # p
    <3>1. Recording(q) /\ spc'[q] = spc[q] /\ rec'[q] = rec[q]
      BY <2>2 DEF SInv
    <3>2. spc[q] \in {"append", "appending"} => Doc(q) \in store'
      BY <2>2, <3>1 DEF SInv, OneEach, Recording
    <3> QED BY <1>1, <3>1, <3>2 DEF Recording, Doc
  <2> QED BY <2>1, <2>2
<1>3. OneEach'
  <2> SUFFICES ASSUME NEW a \in Writers, NEW b \in Writers, a # b,
                      spc'[a] # "idle", spc'[b] # "idle"
               PROVE  DocOf[rec'[a]] # DocOf[rec'[b]]
    BY DEF OneEach, Doc
  <2> QED BY DEF SInv, OneEach, Doc
<1>4. ShownIsStored'
  BY <1>1 DEF SInv, ShownIsStored, Recording
<1> QED BY <1>2, <1>3, <1>4 DEF SInv

LEMMA QuietSourceStep ==
  ASSUME Overlap = FALSE, RInv, SourceTypeOK', NEW p \in Writers,
         \/ \E d \in Data : RecordCall(p, d)
         \/ SourceStep(p) /\ ~AppendRecord(p)
         \/ Killed(p) /\ UNCHANGED vars
  PROVE  SInv'
<1>1. SInv /\ SourceTypeOK /\ Recording(p)
  BY DEF RInv, SInv
<1>2. ASSUME NEW l, At(p, l)
      PROVE  spc'[p] = l /\ \A q \in Writers : q # p => spc'[q] = spc[q]
  BY <1>1, <1>2 DEF At, SourceTypeOK
<1>3. spc[p] # "idle" => \A q \in Writers : q # p /\ spc[q] # "idle" => Doc(q) # DocOf[rec[p]]
  BY <1>1 DEF SInv, OneEach, Doc
<1>4. CASE \E d \in Data : RecordCall(p, d)
  <2>1. PICK d \in Data : RecordCall(p, d)
    BY <1>4
  <2>2. /\ pc[p] = "idle" /\ UNCHANGED <<vars, store, cut>> /\ At(p, "look")
        /\ rec'[p] = d /\ \A q \in Writers : q # p => rec'[q] = rec[q]
        /\ \A q \in Writers : spc[q] # "idle" => Doc(q) # DocOf[d]
    BY <1>1, <2>1 DEF RecordCall, SourceTypeOK
  <2> QED BY <1>1, <1>2, <2>2, StoreStep
<1>5. CASE Look(p) \/ Compare(p) \/ Appended(p) \/ Scan(p)
  <2>1. /\ UNCHANGED <<vars, rec, store, cut>> /\ spc[p] # "idle" /\ pc[p] = "idle"
        /\ spc'[p] \notin {"appending"} /\ (spc'[p] = "append" => Doc(p) \in store)
        /\ (spc'[p] = "remove" => \A i \in Starts(file) : DocOf[file[i].e.data] # Doc(p))
        /\ \A q \in Writers : q # p => spc'[q] = spc[q]
    BY <1>1, <1>2, <1>5 DEF Look, Compare, Appended, Scan, Recording
  <2> QED BY <1>1, <1>3, <2>1, StoreStep DEF Doc
<1>6. CASE Copy(p)
  <2>1. /\ UNCHANGED <<vars, rec, cut>> /\ spc[p] # "idle" /\ pc[p] = "idle"
        /\ store \subseteq store' /\ spc'[p] \in {"append", "idle"}
        /\ (spc'[p] = "append" => Doc(p) \in store')
        /\ \A q \in Writers : q # p => spc'[q] = spc[q]
    BY <1>1, <1>2, <1>6 DEF Copy, Recording
  <2> QED BY <1>1, <1>3, <2>1, StoreStep DEF Doc
<1>7. CASE Remove(p)
  <2>1. /\ UNCHANGED <<vars, rec, cut>> /\ spc[p] = "remove" /\ pc[p] = "idle"
        /\ store \ {Doc(p)} \subseteq store' /\ spc'[p] = "idle"
        /\ \A q \in Writers : q # p => spc'[q] = spc[q]
    BY <1>1, <1>2, <1>7 DEF Remove, Recording
  <2> QED BY <1>1, <2>1, StoreStep
<1>8. CASE Killed(p) /\ UNCHANGED vars
  <2>1. UNCHANGED <<vars, rec, store, cut>> /\ spc[p] # "idle" /\ At(p, "idle")
    BY <1>8 DEF Killed
  <2>2. pc[p] = "idle"
    <3>1. Crash(p) => pc'[p] = "idle" /\ pc[p] # "idle"
      BY <1>1 DEF SourceTypeOK, TypeOK, Crash, Return, Goto
    <3> QED BY <1>8, <3>1 DEF Killed, vars
  <2> QED BY <1>1, <1>2, <2>1, <2>2, StoreStep
<1> QED BY <1>4, <1>5, <1>6, <1>7, <1>8 DEF SourceStep

-----------------------------------------------------------------------------
(* The steps of the ledger.                                                *)

LEMMA AppendRecordStep ==
  ASSUME RInv, SourceTypeOK', NEW p \in Writers, AppendRecord(p)
  PROVE  SInv'
<1>1. /\ spc[p] = "append" /\ Call(p, rec[p]) /\ At(p, "appending")
      /\ UNCHANGED <<rec, created, store, cut>> /\ SInv /\ SourceTypeOK /\ TypeOK
  BY DEF AppendRecord, RInv, SInv, IInv
<1>2. /\ spc'[p] = "appending" /\ entry'[p].data = rec[p] /\ file' = file
      /\ \A q \in Writers : q # p =>
           spc'[q] = spc[q] /\ pc'[q] = pc[q] /\ entry'[q] = entry[q]
  BY <1>1 DEF SourceTypeOK, TypeOK, At, Call, Goto, Unplaced, fileVars
<1>3. ASSUME NEW q \in Writers PROVE Recording(q)'
  <2>1. Recording(q)
    BY <1>1 DEF SInv
  <2>2. CASE q = p
    BY <1>1, <1>2, <2>1, <2>2 DEF Recording, Doc
  <2>3. CASE q # p
    BY <1>1, <1>2, <2>1, <2>3 DEF Recording, Doc
  <2> QED BY <2>2, <2>3
<1>4. OneEach'
  BY <1>1, <1>2 DEF SInv, OneEach, Doc
<1>5. ShownIsStored'
  BY <1>1, <1>2 DEF SInv, ShownIsStored
<1> QED BY <1>3, <1>4, <1>5 DEF SInv

\* what a step of append makes readable is the record of the call, whose copy
\* is in the store, and of no other document
LEMMA InAppendStep ==
  ASSUME RInv, SourceTypeOK', NEW p \in Writers, InAppend(p)
  PROVE  SInv'
<1>1. /\ Advance(p) /\ UNCHANGED srcVars /\ SInv /\ SourceTypeOK /\ TypeOK /\ IInv /\ AInv
      /\ UNCHANGED <<spc, rec, created, store, cut>>
  BY DEF InAppend, RInv, SInv, IInv, srcVars
<1>2. /\ entry'[p].data = entry[p].data
      /\ \A q \in Writers : q # p => pc'[q] = pc[q] /\ entry'[q] = entry[q]
  BY <1>1, AdvanceMine
<1>3. pc[p] # "idle"
  BY <1>1 DEF Advance, LockFile, NoFlock, ReadTail, SeekEnd, Write, WriteFails, Sync, SyncFails,
              Undo, WriteTip, TipFails
<1>4. spc[p] = "appending" /\ entry[p].data = rec[p] /\ Doc(p) \in store
  BY <1>1, <1>3 DEF SInv, Recording
<1>5. ASSUME NEW i \in Starts(file')
      PROVE  \/ i \in Starts(file) /\ file'[i] = file[i]
             \/ DocOf[file'[i].e.data] = Doc(p)
  BY <1>1, <1>4, NewlyShown DEF Doc
<1>6. ASSUME NEW q \in Writers PROVE Recording(q)'
  <2>1. Recording(q)
    BY <1>1 DEF SInv
  <2>2. CASE q = p
    BY <1>1, <1>2, <1>4, <2>2 DEF Recording, Doc
  <2>3. CASE q # p
    <3>1. ASSUME spc[q] = "remove", NEW i \in Starts(file')
          PROVE  DocOf[file'[i].e.data] # Doc(q)
      <4>1. Doc(p) # Doc(q)
        BY <1>1, <1>4, <2>3, <3>1 DEF SInv, OneEach
      <4> QED BY <1>5, <2>1, <3>1, <4>1 DEF Recording
    <3> QED BY <1>1, <1>2, <2>1, <2>3, <3>1 DEF Recording, Doc
  <2> QED BY <2>2, <2>3
<1>7. OneEach'
  BY <1>1 DEF SInv, OneEach, Doc
<1>8. ShownIsStored'
  BY <1>1, <1>4, <1>5 DEF SInv, ShownIsStored
<1> QED BY <1>6, <1>7, <1>8 DEF SInv

LEMMA KilledInside ==
  ASSUME RInv, SourceTypeOK', NEW p \in Writers, Killed(p), Crash(p)
  PROVE  SInv'
<1>1. /\ spc[p] # "idle" /\ At(p, "idle") /\ UNCHANGED <<rec, created, store, cut>>
      /\ SInv /\ SourceTypeOK /\ TypeOK
  BY DEF Killed, RInv, SInv, IInv
<1>2. /\ spc'[p] = "idle" /\ pc'[p] = "idle" /\ UNCHANGED <<file, entry>>
      /\ \A q \in Writers : q # p => spc'[q] = spc[q] /\ pc'[q] = pc[q]
  BY <1>1 DEF SourceTypeOK, TypeOK, At, Crash, Return, Goto
<1>3. ASSUME NEW q \in Writers PROVE Recording(q)'
  <2>1. Recording(q)
    BY <1>1 DEF SInv
  <2> QED BY <1>1, <1>2, <2>1 DEF Recording, Doc
<1>4. OneEach' /\ ShownIsStored'
  BY <1>1, <1>2 DEF SInv, OneEach, ShownIsStored, Doc
<1> QED BY <1>3, <1>4 DEF SInv

LEMMA SourceInvariant ==
  ASSUME Serialised, Overlap = FALSE, RInv, [SourceNext]_allVars
  PROVE  RInv'
<1>1. IInv /\ AInv /\ SInv /\ SourceTypeOK
  BY DEF RInv, SInv
<1>2. IInv' /\ AInv'
  <2>1. [Next]_vars
    BY <1>1, SourceLedgerStep
  <2> QED BY <1>1, <2>1, NextInvariant, NextOwn
<1>3. SourceTypeOK'
  BY <1>1, <1>2, SourceTypeStep DEF IInv
<1>4. ASSUME SourcePowerLoss PROVE SInv'
  <2>1. /\ \A p \in Writers : spc'[p] = "idle" /\ pc'[p] = "idle"
        /\ \A i \in Starts(file') : DocOf[file'[i].e.data] \in store' \cup cut'
    BY <1>4 DEF SourcePowerLoss, PowerLoss
  <2> QED BY <1>3, <2>1 DEF SInv, Recording, OneEach, ShownIsStored
<1>5. ASSUME UNCHANGED allVars PROVE SInv'
  BY <1>1, <1>3, <1>5
     DEF SInv, Recording, OneEach, ShownIsStored, Doc, allVars, srcVars, vars, fileVars
<1>6. SInv'
  BY <1>3, <1>4, <1>5, QuietSourceStep, AppendRecordStep, InAppendStep, KilledInside
     DEF SourceNext, Killed
<1> QED BY <1>2, <1>6 DEF RInv

LEMMA SourceInitInvariant == SourceInit => RInv
<1> SUFFICES ASSUME SourceInit PROVE RInv
  OBVIOUS
<1>1. IInv /\ AInv /\ TypeOK /\ file = <<>> /\ \A p \in Writers : pc[p] = "idle"
  BY InitInvariant, InitOwn DEF SourceInit, Init, IInv
<1>2. (CHOOSE d \in Data : TRUE) \in Data
  BY LedgerConstants
<1>3. SourceTypeOK
  BY <1>1, <1>2 DEF SourceInit, SourceTypeOK, SourceSteps
<1>4. Starts(file) = {}
  BY <1>1 DEF Starts, LineStarts
<1>5. SInv
  BY <1>1, <1>3, <1>4 DEF SourceInit, SInv, Recording, OneEach, ShownIsStored
<1> QED BY <1>1, <1>5 DEF RInv

LEMMA SourceAlways ==
  ASSUME Serialised, Overlap = FALSE
  PROVE  SourceSpec => []RInv
<1>1. Serialised /\ Overlap = FALSE
  OBVIOUS
<1>2. RInv /\ [SourceNext]_allVars => RInv'
  BY <1>1, SourceInvariant
<1> QED BY <1>2, SourceInitInvariant, PTL DEF SourceSpec

-----------------------------------------------------------------------------
(* What the store keeps.                                                   *)

(* record_sbom keeps every variable in its set, also when documents are    *)
(* recorded by two processes at once.                                      *)
THEOREM SourceTypesKept ==
  ASSUME Serialised
  PROVE  SourceSpec => []SourceTypeOK
<1>1. Serialised
  OBVIOUS
<1>2. SourceInit => IInv /\ SourceTypeOK
  BY SourceInitInvariant DEF RInv, SInv
<1>3. IInv /\ SourceTypeOK /\ [SourceNext]_allVars => (IInv /\ SourceTypeOK)'
  BY <1>1, SourceLedgerStep, NextInvariant, SourceTypeStep DEF IInv
<1> QED BY <1>2, <1>3, PTL DEF SourceSpec

(* The undo of a failed call never takes away the document of a record the *)
(* ledger shows, promised or not.                                          *)
THEOREM RecordsKeepDocuments ==
  ASSUME Serialised, Overlap = FALSE
  PROVE  SourceSpec => []ShownIsStored
<1>1. RInv => ShownIsStored
  BY DEF RInv, SInv
<1> QED BY <1>1, SourceAlways, PTL

(* "unless a concurrent record already relies on it" holds where no two    *)
(* processes record one document at once: what fsync returned for has its  *)
(* document.                                                               *)
THEOREM PromisesKeepDocuments ==
  ASSUME Serialised, Overlap = FALSE
  PROVE  SourceSpec => []DocumentStored
<1>1. RInv => DocumentStored
  <2> SUFFICES ASSUME RInv, NEW e \in promised PROVE DocOf[e.data] \in store \cup cut
    BY DEF DocumentStored
  <2>1. file \in Seq(Cell) /\ Chained(file) /\ e.idx \in Nat
    BY DEF RInv, IInv, TypeOK, FileOK, Entry
  <2>2. 3*e.idx + 2 <= Len(file) /\ file[3*e.idx + 1] = Open(e)
    BY DEF RInv, IInv, PromisedOK
  <2>3. 3*e.idx + 1 \in Starts(file) /\ file[3*e.idx + 1].e = e
    BY <2>1, <2>2, ChainedLinks, CellParts
  <2> QED BY <2>3 DEF RInv, SInv, ShownIsStored
<1> QED BY <1>1, SourceAlways, PTL
=============================================================================

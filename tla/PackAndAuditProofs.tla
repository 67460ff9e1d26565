-------------------------- MODULE PackAndAuditProofs --------------------------
(***************************************************************************)
(* What is made from the ledger and what is judged of it while others      *)
(* append, for any processes, records, packs and failures.                 *)
(*                                                                         *)
(* A pack of module EvidencePack stands at its path only when its anchor   *)
(* is promised, its bytes are not thrown away while it is anchored, and    *)
(* the ledger state it declares is one the ledger has.                     *)
(*                                                                         *)
(* What verify_pack accepts of a ledger that is being written (module      *)
(* VerifyLive) holds what was promised when it was opened, and what it     *)
(* calls verified misses no entry a tip was written for, also when the     *)
(* ledger is a copy that lost the end of its tail.                         *)
(***************************************************************************)
EXTENDS EvidencePack, VerifyLive, LedgerProofs

-----------------------------------------------------------------------------
(* The pack writer: the inductive invariant.                               *)

\* k declares as many entries as its last hash commits to, each with a record
\* given to append before k was named
Sound(k) ==
  /\ k.n > 0 /\ Len(k.last) = k.n
  /\ \A i \in 1..k.n : \E d \in used : k.last[i] = <<i - 1, d>> /\ d # k.name

\* what a process in evidence_pack has made so far
Making(p) ==
  /\ ppc[p] \in {"binding", "counts", "write", "anchor", "anchoring"} => Sound(draft[p])
  /\ ppc[p] \in {"anchor", "anchoring"} => draft[p] \in tmps
  /\ ppc[p] = "anchoring" => Mine(p) /\ entry[p].data = draft[p].name

\* no two processes are at one temporary
OwnDrafts ==
  \A p, q \in Packers :
    p # q /\ ppc[p] \in {"anchor", "anchoring"} /\ ppc[q] \in {"anchor", "anchoring"}
      => draft[p] # draft[q]

\* a pack that stands is sound, and its anchor promised
Standing(k) == k # NoPack => Sound(k) /\ \E e \in promised : e.data = k.name

PInv ==
  /\ PackTypeOK
  /\ \A p \in Packers : Making(p)
  /\ OwnDrafts
  /\ Standing(out) /\ Standing(outDisk)

QInv == IInv /\ AInv /\ PInv

-----------------------------------------------------------------------------
(* The ledger under the packs.                                             *)

\* the anchor a draft will append is a record
LEMMA DraftName ==
  ASSUME PInv, NEW p \in Packers, ppc[p] \in {"anchor", "anchoring"}
  PROVE  draft[p] \in Pack /\ draft[p].name \in Anchors /\ draft[p].name \in Data
  BY PackConstants DEF PInv, PackTypeOK, Making, Pack

\* whatever the pack writer does, the ledger sees appends, deaths and power cuts
LEMMA PackLedgerStep ==
  ASSUME PInv, [PackNext]_allVars
  PROVE  [Next]_vars
<1>1. Packers \subseteq Writers
  BY PackConstants
<1>2. ASSUME NEW p \in Packers, PackCall(p) \/ PackStep(p) PROVE [Next]_vars
  <2>1. CASE AppendAnchor(p)
    <3>1. Call(p, draft[p].name) /\ draft[p].name \in Data
      BY <2>1, DraftName DEF AppendAnchor
    <3> QED BY <1>1, <3>1 DEF Next
  <2>2. CASE ~AppendAnchor(p)
    BY <1>2, <2>2 DEF PackCall, PackStep, ReadChain, ReadAgain, WriteTmp, Rename,
                      RenameFails, Remove
  <2> QED BY <2>1, <2>2
<1>3. ASSUME NEW p \in Writers, Records(p) \/ InAppend(p) \/ Killed(p) PROVE [Next]_vars
  BY <1>3 DEF Records, InAppend, Killed, Next
<1>4. ASSUME PackPowerLoss PROVE [Next]_vars
  BY <1>4 DEF PackPowerLoss, Next
<1>5. ASSUME UNCHANGED allVars PROVE [Next]_vars
  BY <1>5 DEF allVars
<1> QED BY <1>2, <1>3, <1>4, <1>5 DEF PackNext

LEMMA LedgerKept ==
  ASSUME Serialised, QInv, [PackNext]_allVars
  PROVE  IInv' /\ AInv'
<1>1. IInv /\ AInv /\ [Next]_vars
  BY PackLedgerStep DEF QInv
<1> QED BY <1>1, NextInvariant, NextOwn

\* promises and records are only added
LEMMA OnlyAdded ==
  ASSUME [Next]_vars
  PROVE  promised \subseteq promised' /\ used \subseteq used'
<1>1. used \subseteq used'
  BY DEF Next, Advance, Call, LockFile, NoFlock, ReadTail, SeekEnd, Write, WriteFails, Sync,
         SyncFails, Undo, WriteTip, TipFails, Crash, PowerLoss, vars, fileVars
<1> QED BY <1>1, PromisedStep

LEMMA SoundKept ==
  ASSUME NEW k, Sound(k), used \subseteq used'
  PROVE  Sound(k)'
  BY DEF Sound

LEMMA StandingKept ==
  ASSUME NEW k, Standing(k), used \subseteq used', promised \subseteq promised'
  PROVE  Standing(k)'
  BY SoundKept DEF Standing

-----------------------------------------------------------------------------
(* Types.                                                                  *)

LEMMA PackInDraft ==
  /\ Pack \subseteq Draft
  /\ \A k \in Draft, a \in Anchors : k.n > 0 => [k EXCEPT !.name = a] \in Pack
  BY DEF Pack, Draft

LEMMA PackTypeStep ==
  ASSUME QInv, TypeOK', [PackNext]_allVars
  PROVE  PackTypeOK'
<1> USE DEF PackTypeOK
<1>0. PackTypeOK
  BY DEF QInv, PInv
<1>1. ASSUME NEW p \in Packers, NEW l \in PackSteps, At(p, l)
      PROVE  ppc' \in [Packers -> PackSteps]
  BY <1>0, <1>1 DEF At
<1>2. ASSUME NEW p \in Packers, NEW r \in Reports, PackReturn(p, r)
      PROVE  ppc' \in [Packers -> PackSteps] /\ report' \in [Packers -> Reports]
  BY <1>0, <1>1, <1>2 DEF PackReturn, PackSteps
<1>3. ASSUME NEW p \in Packers, PackCall(p) PROVE PackTypeOK'
  <2>1. ppc' \in [Packers -> PackSteps]
    BY <1>1, <1>3 DEF PackCall, PackSteps
  <2> QED BY <1>0, <1>3, <2>1 DEF PackCall, Reports
<1>4. ASSUME NEW p \in Packers, ReadChain(p) PROVE PackTypeOK'
  <2>1. CASE PackReturn(p, "refused") /\ UNCHANGED draft
    <3>1. ppc' \in [Packers -> PackSteps] /\ report' \in [Packers -> Reports]
      BY <1>2, <2>1 DEF Reports
    <3> QED BY <1>0, <1>4, <2>1, <3>1 DEF ReadChain
  <2>2. CASE /\ draft' = [draft EXCEPT ![p] = [n |-> Count(file), last |-> LastHash(file),
                                               name |-> NONE]]
             /\ At(p, "binding") /\ UNCHANGED report
    <3>1. ppc' \in [Packers -> PackSteps]
      BY <1>1, <2>2 DEF PackSteps
    <3>2. Count(file) \in Nat /\ LastHash(file) \in Digest
      BY TailType DEF QInv, IInv, TypeOK, FileOK
    <3>3. [n |-> Count(file), last |-> LastHash(file), name |-> NONE] \in Draft
      BY <3>2 DEF Draft
    <3> QED BY <1>0, <1>4, <2>2, <3>1, <3>3 DEF ReadChain
  <2> QED BY <1>4, <2>1, <2>2 DEF ReadChain
<1>5. ASSUME NEW p \in Packers, ReadAgain(p) PROVE PackTypeOK'
  <2>1. ppc' \in [Packers -> PackSteps] /\ report' \in [Packers -> Reports]
    <3>1. CASE At(p, "counts") /\ UNCHANGED report
      BY <1>0, <1>1, <3>1 DEF PackSteps
    <3>2. CASE At(p, "write") /\ UNCHANGED report
      BY <1>0, <1>1, <3>2 DEF PackSteps
    <3>3. CASE PackReturn(p, "refused")
      BY <1>2, <3>3 DEF Reports
    <3> QED BY <1>5, <3>1, <3>2, <3>3 DEF ReadAgain
  <2> QED BY <1>0, <1>5, <2>1 DEF ReadAgain
<1>6. ASSUME NEW p \in Packers, WriteTmp(p) PROVE PackTypeOK'
  <2>1. CASE PackReturn(p, "nothing_written") /\ UNCHANGED <<draft, tmps>>
    <3>1. ppc' \in [Packers -> PackSteps] /\ report' \in [Packers -> Reports]
      BY <1>2, <2>1 DEF Reports
    <3> QED BY <1>0, <1>6, <2>1, <3>1 DEF WriteTmp
  <2>2. CASE \E a \in Anchors \ (used \cup {t.name : t \in tmps}) :
               LET pack == [draft[p] EXCEPT !.name = a] IN
                 /\ draft' = [draft EXCEPT ![p] = pack]
                 /\ tmps' = tmps \cup {pack}
                 /\ At(p, "anchor")
                 /\ UNCHANGED report
    <3>1. PICK a \in Anchors : /\ draft' = [draft EXCEPT ![p] = [draft[p] EXCEPT !.name = a]]
                               /\ tmps' = tmps \cup {[draft[p] EXCEPT !.name = a]}
                               /\ At(p, "anchor") /\ UNCHANGED report
      BY <2>2
    <3> DEFINE pack == [draft[p] EXCEPT !.name = a]
    <3>2. draft[p] \in Draft /\ draft[p].n > 0
      BY <1>0, <1>6 DEF QInv, PInv, Making, Sound, WriteTmp
    <3>3. pack \in Pack /\ pack \in Draft
      BY <3>2, PackInDraft
    <3>4. ppc' \in [Packers -> PackSteps]
      BY <1>1, <3>1 DEF PackSteps
    <3> HIDE DEF pack
    <3>5. draft' = [draft EXCEPT ![p] = pack] /\ tmps' = tmps \cup {pack}
      BY <3>1 DEF pack
    <3> QED BY <1>0, <1>6, <3>1, <3>3, <3>4, <3>5 DEF WriteTmp
  <2> QED BY <1>6, <2>1, <2>2 DEF WriteTmp
<1>7. ASSUME NEW p \in Packers, AppendAnchor(p) PROVE PackTypeOK'
  <2>1. ppc' \in [Packers -> PackSteps]
    BY <1>1, <1>7 DEF AppendAnchor, PackSteps
  <2> QED BY <1>0, <1>7, <2>1 DEF AppendAnchor
<1>8. ASSUME NEW p \in Packers, Rename(p) PROVE PackTypeOK'
  <2>1. draft[p] \in Pack
    BY <1>8, DraftName DEF QInv, Rename, Anchored
  <2>2. ppc' \in [Packers -> PackSteps] /\ report' \in [Packers -> Reports]
    <3>1. (IF answer[p] = "recorded" THEN "written" ELSE "tip_not_written") \in Reports
      BY DEF Reports
    <3> QED BY <1>2, <1>8, <3>1 DEF Rename
  <2> QED BY <1>0, <1>8, <2>1, <2>2 DEF Rename
<1>9. ASSUME NEW p \in Packers, RenameFails(p) PROVE PackTypeOK'
  <2>1. ppc' \in [Packers -> PackSteps] /\ report' \in [Packers -> Reports]
    BY <1>2, <1>9 DEF RenameFails, Reports
  <2> QED BY <1>0, <1>9, <2>1 DEF RenameFails
<1>10. ASSUME NEW p \in Packers, Remove(p) PROVE PackTypeOK'
  <2>1. ppc' \in [Packers -> PackSteps] /\ report' \in [Packers -> Reports]
    BY <1>2, <1>10 DEF Remove, Reports
  <2> QED BY <1>0, <1>10, <2>1 DEF Remove
<1>11. ASSUME UNCHANGED packVars PROVE PackTypeOK'
  BY <1>0, <1>11 DEF packVars
<1>12. ASSUME NEW p \in Writers, Killed(p) PROVE PackTypeOK'
  <2>1. CASE p \in Packers /\ PackReturn(p, "none") /\ UNCHANGED <<draft, tmps, out, outDisk>>
    <3>1. ppc' \in [Packers -> PackSteps] /\ report' \in [Packers -> Reports]
      BY <1>2, <2>1 DEF Reports
    <3> QED BY <1>0, <2>1, <3>1
  <2> QED BY <1>11, <1>12, <2>1 DEF Killed
<1>13. ASSUME PackPowerLoss PROVE PackTypeOK'
  BY <1>0, <1>13 DEF PackPowerLoss, PackSteps, Reports
<1> QED BY <1>3, <1>4, <1>5, <1>6, <1>7, <1>8, <1>9, <1>10, <1>11, <1>12, <1>13
        DEF PackNext, PackStep, Records, InAppend, allVars

-----------------------------------------------------------------------------
(* The drafts and the pack at the path.                                    *)

\* the ledger may do what it likes while a process makes a pack, except to the
\* process's own append
LEMMA MakingKept ==
  ASSUME NEW p \in Packers, Making(p), ppc'[p] = ppc[p], draft'[p] = draft[p],
         used \subseteq used',
         ppc[p] \in {"anchor", "anchoring"} => draft[p] \in tmps',
         ppc[p] = "anchoring" => Mine(p)' /\ entry'[p].data = entry[p].data
  PROVE  Making(p)'
  BY SoundKept DEF Making

\* what evidence_pack has to show for a step of its own
LEMMA OwnPackStep ==
  ASSUME QInv, PackTypeOK', [Next]_vars, NEW p \in Packers,
         \A q \in Packers : q # p =>
           ppc'[q] = ppc[q] /\ draft'[q] = draft[q] /\ (Mine(q) => Mine(q)')
           /\ entry'[q].data = entry[q].data,
         tmps \subseteq tmps' \/ (ppc[p] = "anchoring" /\ tmps \ {draft[p]} \subseteq tmps'),
         Making(p)',
         ppc'[p] \in {"anchor", "anchoring"} =>
           \/ ppc[p] \in {"anchor", "anchoring"} /\ draft'[p] = draft[p]
           \/ draft'[p] \notin tmps,
         Standing(out)', Standing(outDisk)'
  PROVE  PInv'
<1>1. used \subseteq used'
  BY OnlyAdded
<1>2. ASSUME NEW q \in Packers, q # p PROVE Making(q)'
  <2>1. Making(q)
    BY DEF QInv, PInv
  <2>2. ppc[q] \in {"anchor", "anchoring"} => draft[q] \in tmps'
    BY <1>2, <2>1 DEF QInv, PInv, Making, OwnDrafts
  <2>3. ppc[q] = "anchoring" => Mine(q)' /\ entry'[q].data = entry[q].data
    BY <1>2, <2>1 DEF Making
  <2> QED BY <1>1, <1>2, <2>1, <2>2, <2>3, MakingKept
<1>3. ASSUME NEW q \in Packers, q # p, ppc'[q] \in {"anchor", "anchoring"},
             ppc'[p] \in {"anchor", "anchoring"}
      PROVE  draft'[q] # draft'[p]
  <2>1. ppc[q] \in {"anchor", "anchoring"} /\ draft'[q] = draft[q] /\ draft[q] \in tmps
    BY <1>3 DEF QInv, PInv, Making
  <2>2. CASE draft'[p] \notin tmps
    BY <2>1, <2>2
  <2>3. CASE ppc[p] \in {"anchor", "anchoring"} /\ draft'[p] = draft[p]
    BY <1>3, <2>1, <2>3 DEF QInv, PInv, OwnDrafts
  <2> QED BY <1>3, <2>2, <2>3
<1>4. OwnDrafts'
  <2> SUFFICES ASSUME NEW q \in Packers, NEW r \in Packers, q # r,
                      ppc'[q] \in {"anchor", "anchoring"}, ppc'[r] \in {"anchor", "anchoring"}
               PROVE  draft'[q] # draft'[r]
    BY DEF OwnDrafts
  <2>1. CASE q # p /\ r # p
    BY <2>1 DEF QInv, PInv, OwnDrafts
  <2> QED BY <1>3, <2>1
<1> QED BY <1>2, <1>4 DEF PInv

\* the state read from a ledger that verifies is one of its own
LEMMA ReadSound ==
  ASSUME IInv, AInv, ChainOK(file)
  PROVE  Sound([n |-> Count(file), last |-> LastHash(file), name |-> NONE])
<1>1. file \in Seq(Cell) /\ Chained(file) /\ Len(file) \in Nat
  BY DEF IInv, TypeOK, FileOK
<1>2. PICK n : Closed(file, n)
  BY <1>1, ClosedExists
<1>3. n \in Nat /\ 3*n - 1 <= Len(file) /\ Count(file) = n
  <2>1. Count(file) = n
    BY <1>1, <1>2, ChainedTail
  <2> QED BY <1>2, <2>1 DEF Closed
<1>4. n > 0
  <2>1. Starts(file) # {}
    BY DEF ChainOK
  <2>2. n # 0
    BY <1>1, <1>2, <2>1, ClosedStarts, ThirdsEmpty
  <2> QED BY <1>3, <2>2
<1> DEFINE s == LogOf(file)
<1>5. s \in Seq(Entry) /\ Len(s) = n /\ IsChain(s) /\ \A k \in 1..n : s[k] = file[3*k - 2].e
  BY <1>1, <1>2, ChainedLog
<1>6. LastHash(file) = SelfHash(s[n])
  BY <1>1, <1>2, <1>3, <1>4, <1>5, ChainedTail
<1>7. Len(SelfHash(s[n])) = n /\ \A i \in 1..n : SelfHash(s[n])[i] = <<i - 1, s[i].data>>
  <2>1. n \in 1..Len(s)
    BY <1>3, <1>4, <1>5
  <2> HIDE DEF s
  <2> QED BY <1>5, <2>1, ChainHash
<1>8. ASSUME NEW i \in 1..n PROVE s[i].data \in used /\ s[i].data # NONE
  <2>1. i - 1 \in Nat /\ 3*(i - 1) + 1 = 3*i - 2 /\ 3*i - 2 \in 1..Len(file)
    BY <1>1, <1>3
  <2>2. EntryCells(file, i - 1)
    BY <1>1, <2>1 DEF Chained
  <2>3. file[3*i - 2].part = "open" /\ file[3*i - 2].e \in Entry
    BY <1>1, <2>1, <2>2 DEF EntryCells
  <2>4. s[i].data \in Shown(file) /\ s[i].data \in Data
    BY <1>5, <2>1, <2>3 DEF Shown, Entry
  <2> QED BY <2>4, PackConstants DEF AInv, Known
<1> HIDE DEF s
<1> QED BY <1>3, <1>4, <1>6, <1>7, <1>8 DEF Sound

\* a pack is named after every record that its ledger state commits to
LEMMA NamedSound ==
  ASSUME NEW k \in Draft, Sound(k), NEW a \in Anchors, a \notin used
  PROVE  Sound([k EXCEPT !.name = a])
<1> DEFINE j == [k EXCEPT !.name = a]
<1>1. j.n = k.n /\ j.last = k.last /\ j.name = a
  BY DEF Draft
<1> HIDE DEF j
<1>2. Sound(j)
  BY <1>1 DEF Sound
<1> QED BY <1>2 DEF j

\* steps of evidence_pack during which the ledger's variables do not change
LEMMA QuietPackStep ==
  ASSUME QInv, PackTypeOK', NEW p \in Packers, UNCHANGED vars,
         PackCall(p) \/ ReadChain(p) \/ ReadAgain(p) \/ WriteTmp(p) \/ Rename(p)
           \/ RenameFails(p) \/ Remove(p)
  PROVE  PInv'
<1>1. PackTypeOK /\ Making(p) /\ Standing(out) /\ Standing(outDisk) /\ IInv /\ AInv
  BY DEF QInv, PInv
<1>2. UNCHANGED <<promised, used, entry, pc, answer, file>>
  BY DEF vars, fileVars
<1>3. /\ \A q \in Packers : q # p =>
           ppc'[q] = ppc[q] /\ draft'[q] = draft[q] /\ (Mine(q) => Mine(q)')
           /\ entry'[q].data = entry[q].data
  BY <1>1, <1>2 DEF PackTypeOK, PackCall, ReadChain, ReadAgain, WriteTmp, Rename, RenameFails,
                    Remove, PackReturn, At, Mine
<1>4. \A k : Standing(k) => Standing(k)'
  BY <1>2 DEF Standing, Sound
<1>5. \A k : Sound(k) => Sound(k)'
  BY <1>2 DEF Sound
<1>6. CASE At(p, "chain") /\ UNCHANGED <<draft, tmps, out, outDisk>>
  <2>1. ppc'[p] = "chain"
    BY <1>1, <1>6 DEF PackTypeOK, At
  <2>2. Making(p)' /\ Standing(out)' /\ Standing(outDisk)'
    BY <1>1, <1>4, <1>6, <2>1 DEF Making
  <2> QED BY <1>3, <1>6, <2>1, <2>2, OwnPackStep
<1>7. ASSUME At(p, "idle"), UNCHANGED <<draft, out, outDisk>>,
             tmps \subseteq tmps' \/ (ppc[p] = "anchoring" /\ tmps \ {draft[p]} \subseteq tmps')
      PROVE  PInv'
  <2>1. ppc'[p] = "idle"
    BY <1>1, <1>7 DEF PackTypeOK, At
  <2>2. Making(p)' /\ Standing(out)' /\ Standing(outDisk)'
    BY <1>1, <1>4, <1>7, <2>1 DEF Making
  <2> QED BY <1>3, <1>7, <2>1, <2>2, OwnPackStep
<1>8. CASE ReadChain(p)
  <2>1. CASE PackReturn(p, "refused") /\ UNCHANGED draft
    BY <1>7, <1>8, <2>1 DEF ReadChain, PackReturn
  <2>2. CASE /\ ChainOK(file)
             /\ draft' = [draft EXCEPT ![p] = [n |-> Count(file), last |-> LastHash(file),
                                               name |-> NONE]]
             /\ At(p, "binding")
    <3>1. ppc'[p] = "binding"
          /\ draft'[p] = [n |-> Count(file), last |-> LastHash(file), name |-> NONE]
      BY <1>1, <2>2 DEF PackTypeOK, At
    <3>2. Sound(draft'[p])
      BY <1>1, <2>2, <3>1, ReadSound
    <3>3. UNCHANGED <<tmps, out, outDisk>>
      BY <1>8 DEF ReadChain
    <3>4. Making(p)' /\ Standing(out)' /\ Standing(outDisk)'
      BY <1>1, <1>4, <1>5, <3>1, <3>2, <3>3 DEF Making
    <3> QED BY <1>3, <3>1, <3>3, <3>4, OwnPackStep
  <2> QED BY <1>8, <2>1, <2>2 DEF ReadChain
<1>9. CASE ReadAgain(p)
  <2>1. UNCHANGED <<draft, tmps, out, outDisk>> /\ ppc[p] \in {"binding", "counts"}
    BY <1>9 DEF ReadAgain
  <2>2. CASE PackReturn(p, "refused")
    BY <1>7, <2>1, <2>2 DEF PackReturn
  <2>3. CASE At(p, "counts") \/ At(p, "write")
    <3>1. ppc'[p] \in {"counts", "write"}
      BY <1>1, <2>3 DEF PackTypeOK, At
    <3>2. Making(p)' /\ Standing(out)' /\ Standing(outDisk)'
      BY <1>1, <1>4, <1>5, <2>1, <3>1 DEF Making
    <3> QED BY <1>3, <2>1, <3>1, <3>2, OwnPackStep
  <2> QED BY <1>9, <2>2, <2>3 DEF ReadAgain
<1>10. CASE WriteTmp(p)
  <2>1. CASE PackReturn(p, "nothing_written") /\ UNCHANGED <<draft, tmps>>
    BY <1>7, <1>10, <2>1 DEF WriteTmp, PackReturn
  <2>2. CASE \E a \in Anchors \ (used \cup {t.name : t \in tmps}) :
               LET pack == [draft[p] EXCEPT !.name = a] IN
                 /\ draft' = [draft EXCEPT ![p] = pack]
                 /\ tmps' = tmps \cup {pack}
                 /\ At(p, "anchor")
                 /\ UNCHANGED report
    <3>1. PICK a \in Anchors \ (used \cup {t.name : t \in tmps}) :
                 /\ draft' = [draft EXCEPT ![p] = [draft[p] EXCEPT !.name = a]]
                 /\ tmps' = tmps \cup {[draft[p] EXCEPT !.name = a]}
                 /\ At(p, "anchor")
      BY <2>2
    <3> DEFINE pack == [draft[p] EXCEPT !.name = a]
    <3>2. draft[p] \in Draft /\ Sound(draft[p]) /\ UNCHANGED <<out, outDisk>>
      BY <1>1, <1>10 DEF PackTypeOK, Making, WriteTmp
    <3>3. Sound(pack) /\ pack.name = a
      BY <3>2, NamedSound DEF Draft
    <3>4. pack \notin tmps
      BY <3>1, <3>3
    <3> HIDE DEF pack
    <3>5. draft'[p] = pack /\ tmps' = tmps \cup {pack} /\ ppc'[p] = "anchor"
      BY <1>1, <3>1 DEF PackTypeOK, At, pack
    <3>6. Making(p)' /\ Standing(out)' /\ Standing(outDisk)'
      BY <1>1, <1>4, <1>5, <3>2, <3>3, <3>5 DEF Making
    <3> QED BY <1>3, <3>4, <3>5, <3>6, OwnPackStep
  <2> QED BY <1>10, <2>1, <2>2 DEF WriteTmp
<1>11. CASE Rename(p)
  <2>1. /\ out' = draft[p] /\ tmps' = tmps \ {draft[p]} /\ outDisk' \in {outDisk, draft[p]}
        /\ At(p, "idle") /\ UNCHANGED draft /\ ppc[p] = "anchoring" /\ pc[p] = "idle"
        /\ answer[p] \in {"recorded", "tip_not_written"}
    BY <1>11 DEF Rename, PackReturn, Anchored
  <2>2. entry[p].data = draft[p].name /\ Sound(draft[p])
    BY <1>1, <2>1 DEF Making
  <2>3. entry[p] \in promised
    BY <1>1, <2>1, PackConstants DEF AInv, Own
  <2>4. Standing(draft[p])
    BY <2>2, <2>3 DEF Standing
  <2>5. ppc'[p] = "idle"
    BY <1>1, <2>1 DEF PackTypeOK, At
  <2>6. Making(p)' /\ Standing(out)' /\ Standing(outDisk)'
    BY <1>1, <1>4, <2>1, <2>4, <2>5 DEF Making
  <2> QED BY <1>3, <2>1, <2>5, <2>6, OwnPackStep
<1>12. CASE RenameFails(p)
  BY <1>7, <1>12 DEF RenameFails, PackReturn
<1>13. CASE Remove(p)
  BY <1>7, <1>13 DEF Remove, PackReturn, NotAnchored
<1>14. CASE PackCall(p)
  BY <1>6, <1>14 DEF PackCall
<1> QED BY <1>8, <1>9, <1>10, <1>11, <1>12, <1>13, <1>14

\* a step of the ledger that evidence_pack takes no part in
LEMMA BeneathStep ==
  ASSUME QInv, PackTypeOK', [Next]_vars, UNCHANGED <<ppc, draft, tmps, out, outDisk>>,
         \A p \in Packers : ppc[p] = "anchoring" => Mine(p)' /\ entry'[p].data = entry[p].data
  PROVE  PInv'
<1>1. used \subseteq used' /\ promised \subseteq promised'
  BY OnlyAdded
<1>2. ASSUME NEW p \in Packers PROVE Making(p)'
  <2>1. Making(p) /\ (ppc[p] \in {"anchor", "anchoring"} => draft[p] \in tmps)
    BY DEF QInv, PInv, Making
  <2> QED BY <1>1, <2>1, MakingKept
<1>3. OwnDrafts'
  BY DEF QInv, PInv, OwnDrafts
<1>4. Standing(out)' /\ Standing(outDisk)'
  BY <1>1, StandingKept DEF QInv, PInv
<1> QED BY <1>2, <1>3, <1>4 DEF PInv

LEMMA AnchorStep ==
  ASSUME QInv, PackTypeOK', [Next]_vars, NEW p \in Packers, AppendAnchor(p)
  PROVE  PInv'
<1>1. /\ ppc[p] = "anchor" /\ Call(p, draft[p].name) /\ At(p, "anchoring")
      /\ UNCHANGED <<draft, tmps, out, outDisk>> /\ Making(p) /\ TypeOK /\ PackTypeOK
      /\ p \in Writers /\ Packers \subseteq Writers
  BY PackConstants DEF AppendAnchor, QInv, PInv, IInv
<1>2. used \subseteq used' /\ promised \subseteq promised'
  BY OnlyAdded
<1>3. /\ ppc'[p] = "anchoring" /\ pc'[p] = "opened" /\ entry'[p].data = draft[p].name
      /\ \A q \in Packers : q # p =>
           ppc'[q] = ppc[q] /\ draft'[q] = draft[q] /\ (Mine(q) => Mine(q)')
           /\ entry'[q].data = entry[q].data
  BY <1>1 DEF PackTypeOK, TypeOK, At, Call, Goto, Mine, Unplaced
<1>4. Making(p)'
  BY <1>1, <1>2, <1>3, SoundKept DEF Making, Mine
<1>5. Standing(out)' /\ Standing(outDisk)'
  BY <1>1, <1>2, StandingKept DEF QInv, PInv
<1> QED BY <1>1, <1>3, <1>4, <1>5, OwnPackStep

LEMMA KilledStep ==
  ASSUME QInv, PackTypeOK', [Next]_vars, NEW p \in Writers, Killed(p)
  PROVE  PInv'
<1>0. PackTypeOK /\ TypeOK
  BY DEF QInv, PInv, IInv
<1>1. ASSUME Crash(p) \/ UNCHANGED vars
      PROVE  \A q \in Writers : q # p => (Mine(q) => Mine(q)') /\ entry'[q].data = entry[q].data
  BY <1>0, <1>1 DEF TypeOK, Crash, Return, Goto, Mine, vars
<1>2. CASE p \in Packers /\ ppc[p] # "idle"
  <2>1. /\ At(p, "idle") /\ UNCHANGED <<draft, tmps, out, outDisk>>
        /\ Crash(p) \/ UNCHANGED vars
    BY <1>2 DEF Killed, PackReturn
  <2>2. /\ ppc'[p] = "idle"
        /\ \A q \in Packers : q # p => ppc'[q] = ppc[q]
    BY <1>0, <1>2, <2>1 DEF PackTypeOK, At
  <2>3. \A q \in Packers : q # p => (Mine(q) => Mine(q)') /\ entry'[q].data = entry[q].data
    BY <1>1, <2>1, PackConstants
  <2>4. Making(p)'
    BY <2>2 DEF Making
  <2>5. Standing(out)' /\ Standing(outDisk)'
    BY <2>1, OnlyAdded, StandingKept DEF QInv, PInv
  <2> QED BY <1>2, <2>1, <2>2, <2>3, <2>4, <2>5, OwnPackStep
<1>3. CASE (p \in Packers => ppc[p] = "idle") /\ Crash(p) /\ UNCHANGED packVars
  <2>1. ASSUME NEW q \in Packers, ppc[q] = "anchoring"
        PROVE  Mine(q)' /\ entry'[q].data = entry[q].data
    <3>1. q # p /\ q \in Writers /\ Mine(q)
      BY <1>3, <2>1, PackConstants DEF QInv, PInv, Making
    <3> QED BY <1>1, <1>3, <3>1
  <2> QED BY <1>3, <2>1, BeneathStep DEF packVars
<1> QED BY <1>2, <1>3 DEF Killed

LEMMA PackInvariant ==
  ASSUME Serialised, QInv, [PackNext]_allVars
  PROVE  QInv'
<1>1. IInv' /\ AInv' /\ [Next]_vars
  BY LedgerKept, PackLedgerStep DEF QInv
<1>2. PackTypeOK'
  BY <1>1, PackTypeStep DEF IInv
<1>3. TypeOK
  BY DEF QInv, IInv
<1>4. PInv'
  <2>1. ASSUME NEW p \in Packers, PackCall(p) \/ PackStep(p) PROVE PInv'
    BY <1>1, <1>2, <2>1, QuietPackStep, AnchorStep
       DEF PackStep, PackCall, ReadChain, ReadAgain, WriteTmp, Rename, RenameFails, Remove
  <2>2. ASSUME NEW p \in Writers, Records(p) PROVE PInv'
    <3>1. PICK d \in Data : Call(p, d)
      BY <2>2 DEF Records
    <3>2. (p \in Packers => ppc[p] = "idle") /\ UNCHANGED packVars
      BY <2>2 DEF Records
    <3>3. ASSUME NEW q \in Packers, ppc[q] = "anchoring"
          PROVE  Mine(q)' /\ entry'[q].data = entry[q].data
      <4>1. q # p /\ q \in Writers /\ Mine(q)
        BY <3>2, <3>3, PackConstants DEF QInv, PInv, Making
      <4> QED BY <1>3, <3>1, <4>1 DEF TypeOK, Call, Goto, Mine
    <3> QED BY <1>1, <1>2, <3>2, <3>3, BeneathStep DEF packVars
  <2>3. ASSUME NEW p \in Writers, InAppend(p) PROVE PInv'
    <3>1. Advance(p) /\ UNCHANGED packVars
      BY <2>3 DEF InAppend
    <3>2. ASSUME NEW q \in Packers, ppc[q] = "anchoring"
          PROVE  Mine(q)' /\ entry'[q].data = entry[q].data
      <4>1. q \in Writers /\ Mine(q)
        BY <3>2, PackConstants DEF QInv, PInv, Making
      <4>2. CASE q = p
        BY <1>3, <3>1, <4>2, AdvanceMine
      <4>3. CASE q # p
        BY <1>3, <3>1, <4>1, <4>3, AdvanceMine DEF Mine
      <4> QED BY <4>2, <4>3
    <3> QED BY <1>1, <1>2, <3>1, <3>2, BeneathStep DEF packVars
  <2>4. ASSUME NEW p \in Writers, Killed(p) PROVE PInv'
    BY <1>1, <1>2, <2>4, KilledStep
  <2>5. ASSUME PackPowerLoss PROVE PInv'
    <3>1. /\ \A p \in Packers : ppc'[p] = "idle"
          /\ out' \in {out, outDisk} /\ outDisk' = out'
      BY <2>5 DEF PackPowerLoss
    <3>2. Standing(out)' /\ Standing(outDisk)'
      BY <1>1, <3>1, OnlyAdded, StandingKept DEF QInv, PInv
    <3>3. OwnDrafts' /\ \A p \in Packers : Making(p)'
      BY <3>1 DEF OwnDrafts, Making
    <3> QED BY <1>2, <3>2, <3>3 DEF PInv
  <2>6. ASSUME UNCHANGED allVars PROVE PInv'
    <3>1. UNCHANGED vars /\ UNCHANGED packVars
      BY <2>6 DEF allVars
    <3>2. \A q \in Packers : ppc[q] = "anchoring" => Mine(q)' /\ entry'[q].data = entry[q].data
      BY <3>1 DEF QInv, PInv, Making, Mine, vars
    <3> QED BY <1>1, <1>2, <3>1, <3>2, BeneathStep DEF packVars
  <2> QED BY <2>1, <2>2, <2>3, <2>4, <2>5, <2>6 DEF PackNext
<1> QED BY <1>1, <1>4 DEF QInv

LEMMA PackInitInvariant == PackInit => QInv
<1> SUFFICES ASSUME PackInit PROVE QInv
  OBVIOUS
<1>1. Init /\ IInv /\ AInv
  BY InitInvariant, InitOwn DEF PackInit
<1>2. TypeOK
  BY <1>1 DEF IInv
<1>3. GENESIS \in Digest
  BY DEF GENESIS, Digest
<1>4. NoPack \in Draft
  BY <1>3 DEF NoPack, Draft
<1>5. PackTypeOK
  BY <1>2, <1>4 DEF PackInit, PackTypeOK, PackSteps, Reports
<1>6. PInv
  BY <1>5 DEF PackInit, PInv, Making, OwnDrafts, Standing
<1> QED BY <1>1, <1>6 DEF QInv

LEMMA PackAlways ==
  ASSUME Serialised
  PROVE  PackSpec => []QInv
<1>1. Serialised
  OBVIOUS
<1>2. QInv /\ [PackNext]_allVars => QInv'
  BY <1>1, PackInvariant
<1> QED BY <1>2, PackInitInvariant, PTL DEF PackSpec

-----------------------------------------------------------------------------
(* What the pack writer keeps.                                             *)

(* A process that writes packs does nothing to the ledger but append: all  *)
(* that holds of the ledger alone holds while packs are made from it.      *)
THEOREM PacksOnlyAppend ==
  ASSUME Serialised
  PROVE  PackSpec => Spec
<1>1. PackInit => Init
  BY DEF PackInit
<1>2. QInv /\ [PackNext]_allVars => [Next]_vars
  BY PackLedgerStep DEF QInv
<1> QED BY <1>1, <1>2, PackAlways, PTL DEF PackSpec, Spec

(* evidence_pack keeps every variable in its set.                          *)
THEOREM PackTypesKept ==
  ASSUME Serialised
  PROVE  PackSpec => []PackTypeOK
<1>1. QInv => PackTypeOK
  BY DEF QInv, PInv
<1> QED BY <1>1, PackAlways, PTL

(* A pack stands at its path only when its anchor is in the ledger and     *)
(* promised, wherever a process died or the power was cut.                 *)
THEOREM AnchorComesFirst ==
  ASSUME Serialised
  PROVE  PackSpec => []PackAnchored
<1>1. QInv => PackAnchored
  <2> SUFFICES ASSUME QInv, out # NoPack
               PROVE  \E i \in AnchorsOf(out) : file[i].e \in promised
    BY DEF PackAnchored
  <2>1. PICK e \in promised : e.data = out.name
    BY DEF QInv, PInv, Standing
  <2>2. file \in Seq(Cell) /\ Chained(file) /\ e.idx \in Nat
    BY DEF QInv, IInv, TypeOK, FileOK, Entry
  <2>3. 3*e.idx + 2 <= Len(file) /\ file[3*e.idx + 1] = Open(e)
    BY DEF QInv, IInv, PromisedOK
  <2>4. 3*e.idx + 1 \in Starts(file) /\ file[3*e.idx + 1].e = e
    BY <2>2, <2>3, ChainedLinks, CellParts
  <2> QED BY <2>1, <2>4 DEF AnchorsOf
<1> QED BY <1>1, PackAlways, PTL

(* The bytes of a pack whose anchor is promised are never thrown away: no  *)
(* cleanup, of this call or another, removes them.                         *)
THEOREM AnchoredPackStays ==
  ASSUME Serialised
  PROVE  PackSpec => AnchoredStays
<1>1. ASSUME QInv, [PackNext]_allVars, NEW k \in tmps \cup {out},
             \E e \in promised : e.data = k.name
      PROVE  k \in tmps' \cup {out'} \/ (k = out /\ out' \in tmps) \/ PowerLoss
  <2>1. ASSUME NEW p \in Packers, Rename(p)
        PROVE  k \in tmps' \cup {out'} \/ (k = out /\ out' \in tmps)
    <3>1. out' = draft[p] /\ tmps' = tmps \ {draft[p]} /\ draft[p] \in tmps
      BY <1>1, <2>1 DEF Rename, Anchored, QInv, PInv, Making
    <3> QED BY <1>1, <3>1
  <2>2. ASSUME NEW p \in Packers, Remove(p) PROVE k \in tmps' \cup {out'}
    <3>1. /\ ppc[p] = "anchoring" /\ pc[p] = "idle"
          /\ answer[p] \notin {"recorded", "tip_not_written"}
          /\ tmps \ {draft[p]} \subseteq tmps' /\ out' = out
      BY <2>2 DEF Remove, NotAnchored, Anchored
    <3>2. p \in Writers /\ Mine(p) /\ entry[p].data = draft[p].name /\ Own(p)
      BY <1>1, <3>1, PackConstants DEF QInv, PInv, Making, AInv
    <3>3. answer[p] \in Failed
      BY <1>1, <3>1, <3>2 DEF QInv, IInv, TypeOK, Answers, Failed, Mine
    <3>4. \A e \in promised : e.data # draft[p].name
      BY <3>2, <3>3 DEF Own
    <3>5. k # draft[p]
      BY <1>1, <3>4
    <3> QED BY <1>1, <3>1, <3>5
  <2>3. CASE tmps \subseteq tmps' /\ out' = out
    BY <1>1, <2>3
  <2>4. (\E p \in Packers : Rename(p) \/ Remove(p)) \/ (tmps \subseteq tmps' /\ out' = out)
          \/ PackPowerLoss
    BY <1>1 DEF PackNext, PackStep, PackCall, ReadChain, ReadAgain, WriteTmp, AppendAnchor,
                RenameFails, Records, InAppend, Killed, allVars, packVars
  <2> QED BY <2>1, <2>2, <2>3, <2>4 DEF PackPowerLoss
<1>2. QInv /\ [PackNext]_allVars =>
        [\A k \in tmps \cup {out} :
           (\E e \in promised : e.data = k.name)
             => k \in tmps' \cup {out'} \/ (k = out /\ out' \in tmps) \/ PowerLoss]_allVars
  BY <1>1
<1> QED BY <1>2, PackAlways, PTL DEF PackSpec, AnchoredStays

(* When the last entry a pack declares is promised, the ledger has it at   *)
(* the place the pack says, and the pack's anchor comes after it, although *)
(* the ledger was read without its lock.                                   *)
THEOREM DeclaredStateHolds ==
  ASSUME Serialised
  PROVE  PackSpec => []DeclaredIfPromised
<1>1. QInv => DeclaredIfPromised
  <2> SUFFICES ASSUME QInv, NEW e \in promised, SelfHash(e) = out.last
               PROVE  Declared(out) /\ \A i \in AnchorsOf(out) : file[i].e.idx >= out.n
    BY DEF DeclaredIfPromised
  <2>1. file \in Seq(Cell) /\ Chained(file) /\ Len(file) \in Nat /\ e \in Entry /\ e.idx \in Nat
    BY DEF QInv, IInv, TypeOK, FileOK, Entry
  <2>2. 3*e.idx + 2 <= Len(file) /\ file[3*e.idx + 1] = Open(e)
    BY DEF QInv, IInv, PromisedOK
  <2>3. /\ 3*e.idx + 1 \in Starts(file) /\ file[3*e.idx + 1].e = e
        /\ Cardinality(Before(file, 3*e.idx + 1)) = e.idx
    BY <2>1, <2>2, ChainedLinks, CellParts
  <2>4. PICK m : Closed(file, m)
    BY <2>1, ClosedExists
  <2>5. m \in Nat /\ e.idx + 1 \in 1..m /\ Len(file) <= 3*m + 1 /\ 3*m - 1 <= Len(file)
    BY <2>1, <2>2, <2>4 DEF Closed
  <2> DEFINE s == LogOf(file)
             n == e.idx + 1
  <2>6. s \in Seq(Entry) /\ Len(s) = m /\ IsChain(s) /\ \A k \in 1..m : s[k] = file[3*k - 2].e
    BY <2>1, <2>4, ChainedLog
  <2>7. s[n] = e
    <3>1. 3*n - 2 = 3*e.idx + 1
      BY <2>1
    <3> QED BY <2>3, <2>5, <2>6, <3>1
  <2> HIDE DEF s, n
  <2>8. Len(out.last) = n /\ \A i \in 1..n : out.last[i] = <<i - 1, s[i].data>>
    <3>1. n \in 1..Len(s)
      BY <2>5, <2>6 DEF n
    <3>2. SelfHash(s[n]) = out.last
      BY <2>7
    <3>3. /\ Len(SelfHash(s[n])) = n
          /\ \A i \in 1..n : SelfHash(s[n])[i] = <<i - 1, s[i].data>>
      BY <2>6, <3>1, ChainHash
    <3> QED BY <3>2, <3>3
  <2>9. Sound(out)
    <3>1. out # NoPack
      BY <2>1, <2>5, <2>8 DEF NoPack, GENESIS, n
    <3> QED BY <3>1 DEF QInv, PInv, Standing
  <2>10. out.n = n
    BY <2>8, <2>9 DEF Sound
  <2>11. Declared(out)
    <3>1. Cardinality(Before(file, 3*e.idx + 1)) = out.n - 1
      BY <2>1, <2>3, <2>10 DEF n
    <3> QED BY <2>3, <3>1 DEF Declared
  <2>12. ASSUME NEW i \in AnchorsOf(out) PROVE file[i].e.idx >= out.n
    <3>1. i \in Starts(file) /\ file[i].e.data = out.name
      BY DEF AnchorsOf
    <3>2. PICK j \in Nat : i = 3*j + 1 /\ 3*j + 2 <= Len(file)
      BY <2>1, <3>1, ChainedStarts
    <3>3. EntryCells(file, j)
      BY <2>1 DEF Chained
    <3>4. file[i].e.idx = j
      BY <2>1, <3>2, <3>3 DEF EntryCells
    <3>5. ASSUME j < n PROVE FALSE
      <4>1. j + 1 \in 1..n /\ j + 1 \in 1..m /\ 3*(j + 1) - 2 = i /\ (j + 1) - 1 = j
        BY <2>5, <3>2, <3>5 DEF n
      <4>2. s[j + 1].data = out.name
        BY <2>6, <3>1, <4>1
      <4>3. out.last[j + 1] = <<j, out.name>>
        BY <2>8, <4>1, <4>2
      <4>4. PICK d \in used : out.last[j + 1] = <<j, d>> /\ d # out.name
        BY <2>9, <2>10, <4>1 DEF Sound
      <4> QED BY <4>3, <4>4
    <3> QED BY <2>1, <2>10, <3>4, <3>5 DEF n
  <2> QED BY <2>11, <2>12
<1> QED BY <1>1, PackAlways, PTL

-----------------------------------------------------------------------------
(* The verifier beside the writers: the inductive invariant.               *)

\* the tip's last hash commits to every entry a tip was written for
SealedOK ==
  \A e \in sealed : e.idx < tip.n /\ SelfHash(e) = SubSeq(tip.last, 1, e.idx + 1)

\* what was promised when the ledger was opened is in the file as it was read,
\* as far as it was read, whatever was rolled back and written since
ReadOK ==
  /\ began \subseteq promised
  /\ \A e \in began : \A i \in 1..(3*e.idx + 2) : i <= Len(view) => view[i] = file[i]

\* the chain that was accepted
JudgedOK == IsChain(snap) /\ (~copied => began \subseteq Contents(snap))

\* a ledger that somebody appends to
LiveOK == IInv /\ sealed \subseteq promised

VInv ==
  /\ AuditTypeOK
  /\ ~copied => LiveOK
  /\ SealedOK
  /\ vstep = "reading" /\ ~copied => ReadOK
  /\ vstep = "tip" => JudgedOK
  /\ VerifiedIsComplete

-----------------------------------------------------------------------------
(* The entries a hash commits to.                                          *)

LEMMA StartOf ==
  ASSUME NEW X, NEW a \in Seq(X), NEW b \in Seq(X), Len(a) <= Len(b),
         \A i \in 1..Len(a) : a[i] = b[i]
  PROVE  a = SubSeq(b, 1, Len(a))
  OBVIOUS

\* the hash of an entry of a chain starts with that of every one before it
LEMMA ChainCommits ==
  ASSUME NEW s \in Seq(Entry), IsChain(s), NEW k \in 1..Len(s), NEW n \in 1..Len(s), k <= n
  PROVE  SelfHash(s[k]) = SubSeq(SelfHash(s[n]), 1, k)
<1> DEFINE a == SelfHash(s[k])
           b == SelfHash(s[n])
           X == Nat \X Data
<1>1. a \in Digest /\ Len(a) = k /\ \A i \in 1..k : a[i] = <<i - 1, s[i].data>>
  BY ChainHash
<1>2. b \in Digest /\ Len(b) = n /\ \A i \in 1..n : b[i] = <<i - 1, s[i].data>>
  BY ChainHash
<1>3. a \in Seq(X) /\ b \in Seq(X)
  BY <1>1, <1>2 DEF Digest
<1>4. a = SubSeq(b, 1, k)
  <2> HIDE DEF a, b, X
  <2>1. \A i \in 1..k : i \in 1..n
    OBVIOUS
  <2>2. \A i \in 1..k : a[i] = b[i]
    BY <1>1, <1>2, <2>1
  <2>3. Len(a) <= Len(b) /\ \A i \in 1..Len(a) : a[i] = b[i]
    BY <1>1, <1>2, <2>2
  <2> QED BY <1>1, <1>3, <2>3, StartOf
<1> QED BY <1>4

\* the hash of a promised entry commits to every promised one before it
LEMMA Committed ==
  ASSUME IInv, NEW e \in promised, NEW d \in promised, e.idx <= d.idx
  PROVE  SelfHash(e) = SubSeq(SelfHash(d), 1, e.idx + 1)
<1>1. /\ file \in Seq(Cell) /\ Chained(file) /\ Len(file) \in Nat
      /\ e.idx \in Nat /\ d.idx \in Nat
  BY DEF IInv, TypeOK, FileOK, Entry
<1>2. /\ 3*e.idx + 2 <= Len(file) /\ file[3*e.idx + 1].e = e
      /\ 3*d.idx + 2 <= Len(file) /\ file[3*d.idx + 1].e = d
  BY CellParts DEF IInv, PromisedOK
<1>3. PICK m : Closed(file, m)
  BY <1>1, ClosedExists
<1> DEFINE s == LogOf(file)
           k == e.idx + 1
           n == d.idx + 1
<1>4. s \in Seq(Entry) /\ Len(s) = m /\ IsChain(s) /\ \A i \in 1..m : s[i] = file[3*i - 2].e
  BY <1>1, <1>3, ChainedLog
<1> HIDE DEF s
<1>5. /\ k \in 1..m /\ n \in 1..m /\ k <= n
      /\ 3*k - 2 = 3*e.idx + 1 /\ 3*n - 2 = 3*d.idx + 1
  <2>1. m \in Nat /\ Len(file) <= 3*m + 1
    BY <1>3 DEF Closed
  <2>2. 3*e.idx + 2 <= Len(file) /\ 3*d.idx + 2 <= Len(file)
    BY <1>2
  <2>3. e.idx + 1 <= m /\ d.idx + 1 <= m
    BY <1>1, <2>1, <2>2
  <2>4. \A a \in Nat : a + 1 <= m => a + 1 \in 1..m /\ 3*(a + 1) - 2 = 3*a + 1
    BY <2>1
  <2>5. k \in 1..m /\ 3*k - 2 = 3*e.idx + 1
    BY <1>1, <2>3, <2>4
  <2>6. n \in 1..m /\ 3*n - 2 = 3*d.idx + 1
    BY <1>1, <2>3, <2>4
  <2>7. k <= n
    BY <1>1
  <2> HIDE DEF k, n
  <2> QED BY <2>5, <2>6, <2>7
<1>6. s[k] = e /\ s[n] = d
  <2> HIDE DEF k, n
  <2> QED BY <1>2, <1>4, <1>5
<1>7. SelfHash(s[k]) = SubSeq(SelfHash(s[n]), 1, k)
  <2> HIDE DEF k, n
  <2> QED BY <1>4, <1>5, ChainCommits
<1> QED BY <1>6, <1>7

\* a chain whose last hash is the tip's holds every entry the tip commits to
LEMMA ChainSeals ==
  ASSUME NEW s \in Seq(Entry), IsChain(s), Len(s) > 0, NEW e \in Entry, e.idx < Len(s),
         SelfHash(e) = SubSeq(SelfHash(s[Len(s)]), 1, e.idx + 1)
  PROVE  e \in Contents(s)
<1> DEFINE k == e.idx + 1
<1>1. k \in 1..Len(s) /\ Len(s) \in 1..Len(s) /\ k <= Len(s)
  BY DEF Entry
<1>2. SelfHash(e) = SubSeq(SelfHash(s[Len(s)]), 1, k)
  OBVIOUS
<1> HIDE DEF k
<1>3. SelfHash(s[k]) = SelfHash(e)
  BY <1>1, <1>2, ChainCommits
<1>4. s[k] \in Entry
  BY <1>1
<1>5. s[k] = e
  BY <1>3, <1>4, HashTells
<1> QED BY <1>1, <1>5 DEF Contents

-----------------------------------------------------------------------------
(* What is read.                                                           *)

\* a file that is accepted and starts as a chained one does holds its entries
LEMMA AcceptedHolds ==
  ASSUME NEW f \in Seq(Cell), Chained(f), NEW g \in Seq(Cell), ~Unparsable(g),
         NEW j \in Nat, 3*j + 2 <= Len(f), 3*j + 2 <= Len(g),
         \A i \in 1..(3*j + 2) : g[i] = f[i]
  PROVE  f[3*j + 1].e \in Contents(LogOf(g))
<1> DEFINE i == 3*j + 1
           k == Cardinality(Before(g, i)) + 1
<1>1. Len(f) \in Nat /\ Len(g) \in Nat /\ i \in Nat /\ i \in 1..Len(f) /\ i \in 1..Len(g)
  OBVIOUS
<1>2. i \in LineStarts(f) /\ WholeAt(f, i) /\ f[i] \in Cell
  <2>1. i \in Starts(f)
    BY ChainedLinks
  <2> QED BY <1>1, <2>1 DEF Starts
<1>3. g[i] = f[i] /\ g[i] # NL
  <2>1. g[i] = f[i] /\ f[i].part = "open"
    BY <1>1, <1>2 DEF WholeAt
  <2> QED BY <1>2, <2>1, CellParts
<1>4. i \in LineStarts(g)
  <2>1. i = 1 \/ (i - 1 \in 1..(3*j + 2) /\ f[i - 1] = NL)
    BY <1>1, <1>2 DEF LineStarts
  <2> QED BY <1>1, <2>1 DEF LineStarts
<1>5. i \in Starts(g)
  BY <1>3, <1>4 DEF Unparsable
<1>6. k \in 1..Len(LogOf(g)) /\ LogOf(g)[k] = g[i].e
  <2>1. Len(LogOf(g)) = Count(g) /\ LogOf(g)[k] = g[i].e
    BY <1>5, LogPlaces
  <2>2. Cardinality(Before(g, i)) \in 0..(Count(g) - 1)
    BY <1>5, StartRanks
  <2>3. Count(g) \in Nat
    BY StartsType
  <2> QED BY <2>1, <2>2, <2>3
<1> HIDE DEF k
<1> QED BY <1>3, <1>6 DEF Contents

\* the two parts of a file that was read
LEMMA TwoParts ==
  ASSUME NEW v \in Seq(Cell), NEW f \in Seq(Cell)
  PROVE  LET all == v \o SubSeq(f, Len(v) + 1, Len(f)) IN
           /\ all \in Seq(Cell) /\ Len(all) >= Len(v) /\ Len(all) >= Len(f)
           /\ \A i \in 1..Len(f) : all[i] = IF i <= Len(v) THEN v[i] ELSE f[i]
<1> DEFINE r == SubSeq(f, Len(v) + 1, Len(f))
           all == v \o r
<1>1. Len(v) \in Nat /\ Len(f) \in Nat
  OBVIOUS
<1>2. /\ r \in Seq(Cell)
      /\ Len(r) = IF Len(v) + 1 <= Len(f) THEN Len(f) - Len(v) ELSE 0
      /\ \A i \in 1..Len(r) : r[i] = f[Len(v) + i]
  <2>1. CASE Len(v) + 1 <= Len(f)
    BY <1>1, <2>1
  <2>2. CASE Len(v) + 1 > Len(f)
    BY <1>1, <2>2
  <2> QED BY <1>1, <2>1, <2>2
<1> HIDE DEF r
<1>3. /\ all \in Seq(Cell) /\ Len(all) = Len(v) + Len(r)
      /\ \A i \in 1..Len(v) : all[i] = v[i]
      /\ \A i \in 1..Len(r) : all[Len(v) + i] = r[i]
  BY <1>2, Joined
<1> HIDE DEF all
<1>4. ASSUME NEW i \in 1..Len(f) PROVE all[i] = IF i <= Len(v) THEN v[i] ELSE f[i]
  <2>1. CASE i <= Len(v)
    BY <1>1, <1>3, <2>1
  <2>2. CASE i > Len(v)
    <3>1. i - Len(v) \in 1..Len(r) /\ Len(v) + (i - Len(v)) = i
      BY <1>1, <1>2, <2>2
    <3>2. all[Len(v) + (i - Len(v))] = f[Len(v) + (i - Len(v))]
      BY <1>2, <1>3, <3>1
    <3> QED BY <1>1, <2>2, <3>1, <3>2
  <2> QED BY <1>1, <2>1, <2>2
<1>5. all \in Seq(Cell) /\ Len(all) >= Len(v) /\ Len(all) >= Len(f)
  BY <1>1, <1>2, <1>3
<1> QED BY <1>4, <1>5 DEF all, r

-----------------------------------------------------------------------------
(* The writers and the environment.                                        *)

\* a step of the ledger while it is read: what was promised does not move
LEMMA ReadOKKept ==
  ASSUME IInv, IInv', [Next]_vars, ReadOK, UNCHANGED <<view, began>>
  PROVE  ReadOK'
<1>1. promised \subseteq promised'
  BY PromisedStep
<1>2. ASSUME NEW e \in began PROVE \A i \in 1..(3*e.idx + 2) : file'[i] = file[i]
  BY <1>1, PromisedSame DEF ReadOK
<1> QED BY <1>1, <1>2 DEF ReadOK

\* a tip is written for an entry that is promised, and commits to all it counts
LEMMA AppendSeals ==
  ASSUME LiveOK, IInv', AuditTypeOK, SealedOK, NEW p \in Writers, Appends(p)
  PROVE  SealedOK' /\ sealed' \subseteq promised' /\ sealed' \subseteq Entry
<1>1. [Next]_vars
  BY DEF Appends, Next
<1>2. promised \subseteq promised' /\ TypeOK /\ GoingOK
  BY <1>1, PromisedStep DEF LiveOK, IInv
<1>3. CASE tip' = tip
  BY <1>2, <1>3 DEF Appends, LiveOK, AuditTypeOK, SealedOK
<1>4. CASE tip' # tip
  <2>1. WriteTip(p)
    BY <1>4 DEF Appends, Advance, Call, LockFile, NoFlock, ReadTail, SeekEnd, Write,
                WriteFails, Sync, SyncFails, Undo, TipFails, Crash, fileVars
  <2>2. /\ entry[p] \in promised /\ tip.n <= entry[p].idx /\ promised' = promised
        /\ tip'.n = entry[p].idx + 1 /\ tip'.last = SelfHash(entry[p])
        /\ sealed' = sealed \cup {entry[p]}
    BY <1>2, <1>4, <2>1 DEF WriteTip, GoingOK, Going, Appends
  <2>3. ASSUME NEW e \in sealed'
        PROVE  /\ e \in promised' /\ e \in Entry /\ e.idx < tip'.n
               /\ SelfHash(e) = SubSeq(tip'.last, 1, e.idx + 1)
    <3>1. e \in promised /\ e.idx <= entry[p].idx
      <4>1. CASE e = entry[p]
        <5>1. entry[p].idx \in Nat
          BY <1>2 DEF TypeOK, Entry
        <5> QED BY <2>2, <4>1, <5>1
      <4>2. CASE e \in sealed
        <5>1. e \in promised /\ e.idx < tip.n /\ e.idx \in Nat /\ tip.n \in Nat
          BY <1>2, <4>2 DEF LiveOK, SealedOK, TypeOK, Entry, Tip
        <5>2. entry[p].idx \in Nat
          BY <1>2 DEF TypeOK, Entry
        <5> QED BY <2>2, <5>1, <5>2
      <4> QED BY <2>2, <2>3, <4>1, <4>2
    <3>2. SelfHash(e) = SubSeq(SelfHash(entry[p]), 1, e.idx + 1)
      BY <2>2, <3>1, Committed DEF LiveOK
    <3>3. e \in Entry /\ e.idx \in Nat /\ entry[p].idx \in Nat
      BY <1>2, <3>1 DEF TypeOK, Entry
    <3> QED BY <2>2, <3>1, <3>2, <3>3
  <2> QED BY <2>3 DEF SealedOK
<1> QED BY <1>3, <1>4

\* an older tip commits to all that it counts
LEMMA PowerLossSeals ==
  ASSUME LiveOK, AuditTypeOK, SealedOK, AuditPowerLoss
  PROVE  SealedOK' /\ sealed' \subseteq promised' /\ sealed' \subseteq Entry
<1>1. /\ sealed' = {e \in sealed : e.idx < tip'.n} /\ promised' = promised
      /\ tip' \in {tip, tipDisk}
  BY DEF AuditPowerLoss, PowerLoss
<1>2. ASSUME NEW e \in sealed, e.idx < tip'.n
      PROVE  SelfHash(e) = SubSeq(tip'.last, 1, e.idx + 1)
  <2>1. e \in promised /\ e.idx \in Nat /\ tip'.n \in Nat
    BY <1>1 DEF LiveOK, IInv, TypeOK, Entry, Tip
  <2>2. Vouched(tip')
    BY <1>1 DEF LiveOK, IInv, TipOK, Vouched
  <2>3. PICK d \in promised : d.idx + 1 = tip'.n /\ SelfHash(d) = tip'.last
    BY <1>2, <2>1, <2>2 DEF Vouched
  <2>4. e.idx <= d.idx
    <3>1. d.idx \in Nat
      BY DEF LiveOK, IInv, TypeOK, Entry
    <3> QED BY <1>2, <2>1, <2>3, <3>1
  <2> QED BY <2>1, <2>3, <2>4, Committed DEF LiveOK
<1> QED BY <1>1, <1>2 DEF LiveOK, AuditTypeOK, SealedOK

-----------------------------------------------------------------------------
(* Every step.                                                             *)

LEMMA LedgerUnchanged ==
  ASSUME IInv, UNCHANGED vars
  PROVE  IInv'
  BY DEF IInv, TypeOK, LockHeld, FileOK, PromisedOK, TipOK, Vouched, GoingOK, Going, vars, fileVars

LEMMA ReadRestStep ==
  ASSUME VInv, ReadRest
  PROVE  VInv'
<1> DEFINE all == view \o SubSeq(file, Len(view) + 1, Len(file))
<1>0. /\ AuditTypeOK /\ SealedOK /\ VerifiedIsComplete /\ vstep = "reading"
      /\ (~copied => LiveOK /\ ReadOK) /\ view \in Seq(Cell) /\ file \in Seq(Cell)
  BY DEF VInv, ReadRest, AuditTypeOK, TypeOK
<1>1. /\ all \in Seq(Cell) /\ Len(all) >= Len(view) /\ Len(all) >= Len(file)
      /\ \A i \in 1..Len(file) : all[i] = IF i <= Len(view) THEN view[i] ELSE file[i]
  BY <1>0, TwoParts
<1>2. /\ \/ ChainOK(all) /\ snap' = LogOf(all) /\ vstep' = "tip" /\ UNCHANGED said
         \/ said' = "chain_refused" /\ vstep' = "idle" /\ UNCHANGED snap
      /\ view' = <<>> /\ UNCHANGED <<vars, sealed, began, missing, copied>>
  BY DEF ReadRest
<1> HIDE DEF all
<1>3. ASSUME ChainOK(all)
      PROVE  LogOf(all) \in Seq(Entry) /\ LogOf(all) # <<>> /\ IsChain(LogOf(all))
  <2>1. LogOf(all) \in Seq(Entry) /\ Len(LogOf(all)) = Count(all)
    BY <1>1, LogPlaces
  <2>2. Count(all) # 0
    <3>1. IsFiniteSet(Starts(all)) /\ Starts(all) # {}
      BY <1>1, <1>3, StartsType DEF ChainOK
    <3> QED BY <3>1, FS_EmptySet DEF Count
  <2>3. IsChain(LogOf(all))
    BY <1>1, <1>3, LogChain DEF ChainOK
  <2> QED BY <2>1, <2>2, <2>3
<1>4. ASSUME ChainOK(all), ~copied, NEW e \in began
      PROVE  e \in Contents(LogOf(all))
  <2>1. /\ Chained(file) /\ e \in promised /\ e.idx \in Nat
        /\ \A i \in 1..(3*e.idx + 2) : i <= Len(view) => view[i] = file[i]
    BY <1>0, <1>4 DEF LiveOK, ReadOK, IInv, FileOK, TypeOK, Entry
  <2>2. 3*e.idx + 2 <= Len(file) /\ file[3*e.idx + 1].e = e
    BY <1>0, <1>4, <2>1, CellParts DEF LiveOK, IInv, PromisedOK
  <2>3. 3*e.idx + 2 <= Len(all) /\ \A i \in 1..(3*e.idx + 2) : all[i] = file[i]
    <3> DEFINE n == 3*e.idx + 2
    <3>1. /\ n \in Nat /\ n <= Len(file) /\ Len(file) \in Nat /\ Len(all) \in Nat
          /\ \A i \in 1..n : i <= Len(view) => view[i] = file[i]
      BY <1>0, <1>1, <2>1, <2>2
    <3> HIDE DEF n
    <3>2. n <= Len(all) /\ \A i \in 1..n : i \in 1..Len(file)
      BY <1>1, <3>1
    <3>3. \A i \in 1..n : all[i] = file[i]
      BY <1>1, <3>1, <3>2
    <3> QED BY <3>2, <3>3 DEF n
  <2>4. ~Unparsable(all)
    BY <1>4 DEF ChainOK
  <2>5. file[3*e.idx + 1].e \in Contents(LogOf(all))
    BY <1>0, <1>1, <2>1, <2>2, <2>3, <2>4, AcceptedHolds
  <2> QED BY <2>2, <2>5
<1>5. AuditTypeOK'
  BY <1>0, <1>2, <1>3 DEF AuditTypeOK, TypeOK, vars, fileVars, Sayings
<1>6. ~copied' => LiveOK'
  BY <1>0, <1>2, LedgerUnchanged DEF LiveOK, vars
<1>7. vstep' = "tip" => JudgedOK'
  BY <1>2, <1>3, <1>4 DEF JudgedOK
<1>8. SealedOK' /\ VerifiedIsComplete' /\ vstep' # "reading"
  BY <1>0, <1>2 DEF SealedOK, VerifiedIsComplete, vars, fileVars
<1> QED BY <1>5, <1>6, <1>7, <1>8 DEF VInv

LEMMA ReadTipStep ==
  ASSUME VInv, ReadTip
  PROVE  VInv'
<1>1. /\ AuditTypeOK /\ SealedOK /\ JudgedOK /\ snap # <<>> /\ snap \in Seq(Entry)
      /\ (~copied => LiveOK) /\ tip.n \in Nat
  BY DEF VInv, ReadTip, AuditTypeOK, TypeOK, Tip
<1>2. /\ said' = Judge(tip) /\ missing' = sealed \ Contents(snap) /\ snap' = <<>>
      /\ vstep' = "idle" /\ UNCHANGED <<vars, view, sealed, began, copied>>
  BY DEF ReadTip
<1>3. ASSUME Judge(tip) = "verified", NEW e \in sealed PROVE e \in Contents(snap)
  <2>1. Len(snap) = tip.n /\ tip.n # 0 /\ tip.last = SelfHash(snap[Len(snap)])
    BY <1>1, <1>3 DEF Judge
  <2>2. e \in Entry /\ e.idx < Len(snap) /\ SelfHash(e) = SubSeq(tip.last, 1, e.idx + 1)
    BY <1>1, <2>1 DEF AuditTypeOK, SealedOK
  <2>3. Len(snap) > 0
    BY <1>1, <2>1
  <2> QED BY <1>1, <2>1, <2>2, <2>3, ChainSeals DEF JudgedOK
<1>4. AuditTypeOK'
  BY <1>1, <1>2 DEF AuditTypeOK, TypeOK, vars, fileVars, Sayings, Judge
<1>5. ~copied' => LiveOK'
  BY <1>1, <1>2, LedgerUnchanged DEF LiveOK, vars
<1>6. SealedOK' /\ VerifiedIsComplete' /\ vstep' = "idle"
  BY <1>1, <1>2, <1>3 DEF SealedOK, VerifiedIsComplete, vars, fileVars
<1> QED BY <1>4, <1>5, <1>6 DEF VInv

LEMMA Open1Step ==
  ASSUME VInv, NEW k \in 0..Len(file), Open1(k)
  PROVE  VInv'
<1>1. /\ view' = SubSeq(file, 1, k) /\ began' = promised /\ said' = "none" /\ missing' = {}
      /\ snap' = <<>> /\ vstep' = "reading" /\ UNCHANGED <<vars, sealed, copied>>
      /\ AuditTypeOK /\ SealedOK /\ (~copied => LiveOK) /\ file \in Seq(Cell)
  BY DEF VInv, Open1, AuditTypeOK, TypeOK
<1>2. view' \in Seq(Cell) /\ \A i \in 1..Len(view') : view'[i] = file[i]
  BY <1>1, SubSeqType
<1>3. AuditTypeOK'
  BY <1>1, <1>2 DEF AuditTypeOK, TypeOK, vars, fileVars, Sayings
<1>4. ~copied' => LiveOK'
  BY <1>1, LedgerUnchanged DEF LiveOK, vars
<1>5. ~copied' => ReadOK'
  <2> SUFFICES ASSUME ~copied' PROVE ReadOK'
    OBVIOUS
  <2>1. promised \subseteq Entry /\ UNCHANGED <<file, promised>> /\ Len(view') \in Nat
    BY <1>1, <1>2 DEF AuditTypeOK, TypeOK, vars, fileVars
  <2>2. ASSUME NEW e \in began', NEW i \in 1..(3*e.idx + 2), i <= Len(view')
        PROVE  view'[i] = file'[i]
    <3>1. e.idx \in Nat
      BY <1>1, <2>1 DEF Entry
    <3>2. i \in 1..Len(view')
      BY <2>1, <2>2, <3>1
    <3> QED BY <1>2, <2>1, <3>2
  <2> QED BY <1>1, <2>1, <2>2 DEF ReadOK
<1>6. SealedOK' /\ VerifiedIsComplete'
  BY <1>1 DEF SealedOK, VerifiedIsComplete, vars, fileVars
<1> QED BY <1>1, <1>3, <1>4, <1>5, <1>6 DEF VInv

LEMMA AppendsStep ==
  ASSUME Serialised, VInv, NEW p \in Writers, Appends(p)
  PROVE  VInv'
<1>1. /\ ~copied /\ UNCHANGED <<vstep, view, snap, said, began, missing, copied>>
      /\ AuditTypeOK /\ LiveOK /\ SealedOK /\ [Next]_vars
  BY DEF VInv, Appends, Next
<1>2. IInv' /\ promised \subseteq promised'
  BY <1>1, NextInvariant, PromisedStep DEF LiveOK
<1>3. SealedOK' /\ sealed' \subseteq promised' /\ sealed' \subseteq Entry
  BY <1>1, <1>2, AppendSeals
<1>4. AuditTypeOK'
  BY <1>1, <1>2, <1>3 DEF AuditTypeOK, IInv
<1>5. LiveOK'
  BY <1>2, <1>3 DEF LiveOK
<1>6. vstep' = "reading" => ReadOK'
  BY <1>1, <1>2, ReadOKKept DEF VInv, LiveOK
<1>7. (vstep' = "tip" => JudgedOK') /\ VerifiedIsComplete'
  BY <1>1 DEF VInv, JudgedOK, VerifiedIsComplete
<1> QED BY <1>3, <1>4, <1>5, <1>6, <1>7 DEF VInv

LEMMA AuditPowerLossStep ==
  ASSUME Serialised, VInv, AuditPowerLoss
  PROVE  VInv'
<1>1. /\ ~copied /\ PowerLoss /\ AuditTypeOK /\ LiveOK /\ SealedOK /\ [Next]_vars
      /\ vstep' = "idle" /\ view' = <<>> /\ snap' = <<>> /\ said' = "none"
      /\ began' = {} /\ missing' = {} /\ UNCHANGED copied
  BY DEF VInv, AuditPowerLoss, Next
<1>2. IInv'
  BY <1>1, NextInvariant DEF LiveOK
<1>3. SealedOK' /\ sealed' \subseteq promised' /\ sealed' \subseteq Entry
  BY <1>1, PowerLossSeals
<1>4. AuditTypeOK'
  BY <1>1, <1>2, <1>3 DEF AuditTypeOK, IInv, Sayings
<1>5. LiveOK' /\ VerifiedIsComplete'
  BY <1>1, <1>2, <1>3 DEF LiveOK, VerifiedIsComplete
<1> QED BY <1>1, <1>3, <1>4, <1>5 DEF VInv

\* a copy keeps the tip; nothing else is said of its file
LEMMA DropTailStep ==
  ASSUME VInv, DropTail
  PROVE  VInv'
<1>1. /\ copied' = TRUE /\ vstep = "idle" /\ disk' = file'
      /\ UNCHANGED <<flock, tip, tipDisk, lock, pc, entry, first, rest, end, answer, promised,
                     used, vstep, view, snap, said, sealed, began, missing>>
      /\ AuditTypeOK /\ SealedOK /\ file \in Seq(Cell)
  BY DEF VInv, DropTail, AuditTypeOK, TypeOK
<1>2. file' \in Seq(Cell)
  <2>1. PICK i \in LineStarts(file) : file' = SubSeq(file, 1, i - 1)
    BY DEF DropTail
  <2>2. i - 1 \in 0..Len(file)
    BY <1>1 DEF LineStarts
  <2> QED BY <1>1, <2>1, <2>2, SubSeqType
<1>3. AuditTypeOK'
  BY <1>1, <1>2 DEF AuditTypeOK, TypeOK
<1> QED BY <1>1, <1>3 DEF VInv, SealedOK, VerifiedIsComplete

LEMMA AuditInvariant ==
  ASSUME Serialised, VInv, [AuditNext]_liveVars
  PROVE  VInv'
<1>1. ASSUME UNCHANGED liveVars PROVE VInv'
  <2>1. UNCHANGED vars /\ UNCHANGED auditVars
    BY <1>1 DEF liveVars
  <2>2. AuditTypeOK'
    BY <2>1 DEF VInv, AuditTypeOK, TypeOK, vars, fileVars, auditVars
  <2>3. ~copied' => LiveOK'
    BY <2>1, LedgerUnchanged DEF VInv, LiveOK, vars, auditVars
  <2> QED BY <2>1, <2>2, <2>3
          DEF VInv, SealedOK, ReadOK, JudgedOK, VerifiedIsComplete, vars, fileVars, auditVars
<1> QED BY <1>1, Open1Step, ReadRestStep, ReadTipStep, AppendsStep, AuditPowerLossStep,
           DropTailStep DEF AuditNext

LEMMA AuditInitInvariant == AuditInit => VInv
<1> SUFFICES ASSUME AuditInit PROVE VInv
  OBVIOUS
<1>1. IInv
  BY InitInvariant DEF AuditInit
<1>2. AuditTypeOK
  <2>1. TypeOK
    BY <1>1 DEF IInv
  <2>2. /\ vstep = "idle" /\ view = <<>> /\ snap = <<>> /\ said = "none"
        /\ sealed = {} /\ began = {} /\ missing = {} /\ copied = FALSE
    BY DEF AuditInit
  <2>3. <<>> \in Seq(Cell) /\ <<>> \in Seq(Entry)
    OBVIOUS
  <2>4. said \in Sayings /\ copied \in BOOLEAN
    BY <2>2 DEF Sayings
  <2> QED BY <2>1, <2>2, <2>3, <2>4 DEF AuditTypeOK
<1> QED BY <1>1, <1>2 DEF AuditInit, VInv, LiveOK, SealedOK, VerifiedIsComplete

LEMMA AuditAlways ==
  ASSUME Serialised
  PROVE  AuditSpec => []VInv
<1>1. Serialised
  OBVIOUS
<1>2. VInv /\ [AuditNext]_liveVars => VInv'
  BY <1>1, AuditInvariant
<1> QED BY <1>2, AuditInitInvariant, PTL DEF AuditSpec

-----------------------------------------------------------------------------
(* What the verifier can be relied on for.                                 *)

(* The verifier keeps every variable in its set.                           *)
THEOREM AuditTypesKept ==
  ASSUME Serialised
  PROVE  AuditSpec => []AuditTypeOK
<1>1. VInv => AuditTypeOK
  BY DEF VInv
<1> QED BY <1>1, AuditAlways, PTL

(* Whatever the writers did between the two parts that were read, a chain  *)
(* that verify accepts misses nothing promised when the ledger was opened. *)
THEOREM AcceptedMissesNothing ==
  ASSUME Serialised
  PROVE  AuditSpec => []AcceptedHoldsPromised
<1>1. VInv => AcceptedHoldsPromised
  BY DEF VInv, JudgedOK, AcceptedHoldsPromised
<1> QED BY <1>1, AuditAlways, PTL

(* A tip that verifies leaves out no entry a tip was written for, although *)
(* it is read after the ledger and without the lock, and also when the     *)
(* ledger is a copy that lost the end of its tail.                         *)
THEOREM VerifiedMissesNothing ==
  ASSUME Serialised
  PROVE  AuditSpec => []VerifiedIsComplete
<1>1. VInv => VerifiedIsComplete
  BY DEF VInv
<1> QED BY <1>1, AuditAlways, PTL
=============================================================================

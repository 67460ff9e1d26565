----------------------------- MODULE EvidencePack -----------------------------
(***************************************************************************)
(* CRAEvidenceLocker.evidence_pack (cra_evidence/locker.py) over a ledger  *)
(* other processes append to: read the ledger three times, write the pack  *)
(* to a temporary, append its anchor, rename the temporary to the path the *)
(* user gave.  The locker's threading lock orders the calls of one process *)
(* and of no other; the file lock is held by the append alone.             *)
(***************************************************************************)
EXTENDS Ledger

CONSTANTS
  Packers,   \* processes that write packs, all to one path
  Anchors    \* records that anchor a pack: each stands for one pack_sha3

ASSUME PackConstants ==
  /\ Packers \subseteq Writers
  /\ Anchors \subseteq Data
  /\ NONE \notin Data

VARIABLES
  ppc,      \* where each process is in evidence_pack
  draft,    \* the pack it is making
  tmps,     \* the temporaries next to the path
  out,      \* the pack at the path
  outDisk,  \* that pack on the medium (its rename is never synced)
  report    \* what its last evidence_pack came back with

packVars == <<ppc, draft, tmps, out, outDisk, report>>
allVars == <<vars, packVars>>

\* ledger_entries, ledger_last_self_hash, and the anchor that names pack_sha3
Pack == [n : Nat \ {0}, last : Digest, name : Anchors]
Draft == [n : Nat, last : Digest, name : Anchors \cup {NONE}]
NoPack == [n |-> 0, last |-> GENESIS, name |-> NONE]

PackSteps == {"idle", "chain", "binding", "counts", "write", "anchor", "anchoring"}
Reports == {"none", "refused", "nothing_written", "written", "tip_not_written", "kept_tmp"}

\* every variable stays in its set; no pack is over an empty ledger
PackTypeOK ==
  /\ TypeOK
  /\ ppc \in [Packers -> PackSteps]
  /\ draft \in [Packers -> Draft]
  /\ tmps \subseteq Pack
  /\ {out, outDisk} \subseteq Pack \cup {NoPack}
  /\ report \in [Packers -> Reports]

PackInit ==
  /\ Init
  /\ ppc = [p \in Packers |-> "idle"]
  /\ draft = [p \in Packers |-> NoPack]
  /\ tmps = {}
  /\ out = NoPack /\ outDisk = NoPack
  /\ report = [p \in Packers |-> "none"]

-----------------------------------------------------------------------------
(* evidence_pack, in the order of its statements.                          *)

At(p, l) == ppc' = [ppc EXCEPT ![p] = l]

\* the call comes back, or raises, with report r
PackReturn(p, r) == At(p, "idle") /\ report' = [report EXCEPT ![p] = r]

\* the path is not a directory; the threading lock is taken
PackCall(p) ==
  /\ ppc[p] = "idle" /\ pc[p] = "idle"
  /\ At(p, "chain")
  /\ report' = [report EXCEPT ![p] = "none"]
  /\ UNCHANGED <<vars, draft, tmps, out, outDisk>>

\* Ledger.verify: the state the pack will declare, read without the file lock
ReadChain(p) ==
  /\ ppc[p] = "chain"
  /\ \/ /\ ChainOK(file)
        /\ draft' = [draft EXCEPT ![p] = [n |-> Count(file), last |-> LastHash(file),
                                          name |-> NONE]]
        /\ At(p, "binding")
        /\ UNCHANGED report
     \/ /\ ~ChainOK(file)
        /\ PackReturn(p, "refused")
        /\ UNCHANGED draft
  /\ UNCHANGED <<vars, tmps, out, outDisk>>

\* faulty: the number of entries declared is the one of the last reading
ReadAgainCounts(p) ==
  /\ ~Unparsable(file)
  /\ \/ ppc[p] = "binding" /\ At(p, "counts") /\ UNCHANGED draft
     \/ /\ ppc[p] = "counts" /\ At(p, "write")
        /\ draft' = [draft EXCEPT ![p].n = Count(file)]
  /\ UNCHANGED <<vars, tmps, out, outDisk, report>>

\* the file is read again for the record digests, and again for the counts: a
\* line that does not parse by then stops the call
ReadAgain(p) ==
  /\ \/ ppc[p] = "binding" /\ ~Unparsable(file) /\ At(p, "counts") /\ UNCHANGED report
     \/ ppc[p] = "counts" /\ ~Unparsable(file) /\ At(p, "write") /\ UNCHANGED report
     \/ ppc[p] \in {"binding", "counts"} /\ Unparsable(file) /\ PackReturn(p, "refused")
  /\ UNCHANGED <<vars, draft, tmps, out, outDisk>>

\* faulty: the pack is put in place before its anchor is appended
WriteTmpInPlace(p) ==
  /\ ppc[p] = "write"
  /\ \E a \in Anchors \ (used \cup {t.name : t \in tmps}) :
       LET pack == [draft[p] EXCEPT !.name = a] IN
         /\ draft' = [draft EXCEPT ![p] = pack]
         /\ out' = pack
         /\ At(p, "anchor")
  /\ UNCHANGED <<vars, tmps, outDisk, report>>

\* pack_sha3, and write_tmp: a synced temporary of its own, or nothing
WriteTmp(p) ==
  /\ ppc[p] = "write"
  /\ \/ \E a \in Anchors \ (used \cup {t.name : t \in tmps}) :
          LET pack == [draft[p] EXCEPT !.name = a] IN
            /\ draft' = [draft EXCEPT ![p] = pack]
            /\ tmps' = tmps \cup {pack}
            /\ At(p, "anchor")
            /\ UNCHANGED report
     \/ PackReturn(p, "nothing_written") /\ UNCHANGED <<draft, tmps>>
  /\ UNCHANGED <<vars, out, outDisk>>

\* Ledger.append of the anchor begins
AppendAnchor(p) ==
  /\ ppc[p] = "anchor"
  /\ Call(p, draft[p].name)
  /\ At(p, "anchoring")
  /\ UNCHANGED <<draft, tmps, out, outDisk, report>>

\* faulty: every exception of append is taken for "nothing was recorded"
AnchoredIffRecorded(p) ==
  ppc[p] = "anchoring" /\ pc[p] = "idle" /\ answer[p] = "recorded"

\* append is back, and the anchor is in the chain, tip or no tip
Anchored(p) ==
  /\ ppc[p] = "anchoring" /\ pc[p] = "idle"
  /\ answer[p] \in {"recorded", "tip_not_written"}

\* append is back with any other exception
NotAnchored(p) == ppc[p] = "anchoring" /\ pc[p] = "idle" /\ ~Anchored(p)

\* os.replace: the pack appears; only then is a missing tip reported
Rename(p) ==
  /\ Anchored(p)
  /\ out' = draft[p]
  /\ tmps' = tmps \ {draft[p]}
  /\ outDisk' \in {outDisk, draft[p]}
  /\ PackReturn(p, IF answer[p] = "recorded" THEN "written" ELSE "tip_not_written")
  /\ UNCHANGED <<vars, draft>>

\* os.replace raises: the complete pack stays in its temporary
RenameFails(p) ==
  /\ Anchored(p)
  /\ PackReturn(p, "kept_tmp")
  /\ UNCHANGED <<vars, draft, tmps, out, outDisk>>

\* tmp.unlink, which may raise itself
Remove(p) ==
  /\ NotAnchored(p)
  /\ tmps' \in {tmps, tmps \ {draft[p]}}
  /\ PackReturn(p, "nothing_written")
  /\ UNCHANGED <<vars, draft, out, outDisk>>

-----------------------------------------------------------------------------
(* The other calls and the environment.                                    *)

\* the locker's lock: no record_* of a process while it makes a pack
Records(p) ==
  /\ p \in Packers => ppc[p] = "idle"
  /\ \E d \in Data \ Anchors : Call(p, d)
  /\ UNCHANGED packVars

InAppend(p) == Advance(p) /\ UNCHANGED packVars

\* the process is killed; a temporary stays
Killed(p) ==
  \/ /\ p \in Packers /\ ppc[p] # "idle"
     /\ PackReturn(p, "none")
     /\ Crash(p) \/ (pc[p] = "idle" /\ UNCHANGED vars)
     /\ UNCHANGED <<draft, tmps, out, outDisk>>
  \/ /\ p \in Packers => ppc[p] = "idle"
     /\ Crash(p)
     /\ UNCHANGED packVars

\* names that were never synced may be gone, and the path may show an older pack
PackPowerLoss ==
  /\ PowerLoss
  /\ ppc' = [p \in Packers |-> "idle"]
  /\ report' = [p \in Packers |-> "none"]
  /\ tmps' \in SUBSET tmps
  /\ out' \in {out, outDisk}
  /\ outDisk' = out'
  /\ UNCHANGED draft

PackStep(p) ==
  \/ ReadChain(p) \/ ReadAgain(p) \/ WriteTmp(p) \/ AppendAnchor(p)
  \/ Rename(p) \/ RenameFails(p) \/ Remove(p)

PackNext ==
  \/ \E p \in Packers : PackCall(p) \/ PackStep(p)
  \/ \E p \in Writers : Records(p) \/ InAppend(p) \/ Killed(p)
  \/ PackPowerLoss

PackSpec == PackInit /\ [][PackNext]_allVars

-----------------------------------------------------------------------------
(* Properties.                                                             *)

\* the entries of the ledger that anchor pack k
AnchorsOf(k) == {i \in Starts(file) : file[i].e.data = k.name}

\* the ledger has, at the place pack k declares, the entry k declares
Declared(k) ==
  \E i \in Starts(file) : /\ Cardinality(Before(file, i)) = k.n - 1
                          /\ SelfHash(file[i].e) = k.last

(* "the pack appears only once its anchor is in the chain": the pack at    *)
(* the path is anchored by a promised entry, whatever failed or died, also *)
(* after a power cut.                                                      *)
PackAnchored ==
  out # NoPack => \E i \in AnchorsOf(out) : file[i].e \in promised

(* "the pack it anchors must not be deleted": the bytes of a pack whose    *)
(* anchor append answered for stay in the folder, at the path or in the    *)
(* temporary, until a later pack replaces them; a power cut aside.         *)
AnchoredStays ==
  [][\A k \in tmps \cup {out} :
       (\E e \in promised : e.data = k.name)
         => k \in tmps' \cup {out'} \/ (k = out /\ out' \in tmps) \/ PowerLoss]_allVars

(* A verifier refuses the state a pack declares only if the ledger took    *)
(* back an entry no append had answered for: when the declared entry is    *)
(* promised, it is where the pack says and the anchor comes after it,      *)
(* although the ledger was read without its lock.                          *)
DeclaredIfPromised ==
  (\E e \in promised : SelfHash(e) = out.last)
    => Declared(out) /\ \A i \in AnchorsOf(out) : file[i].e.idx >= out.n

(* "the ledger state the pack DECLARES must be the state the ledger HAS at *)
(* that point" (verify_pack.py:310).                                       *)
DeclaredHeld == out # NoPack => Declared(out)
=============================================================================

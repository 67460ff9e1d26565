-------------------------------- MODULE Ledger --------------------------------
(***************************************************************************)
(* Ledger.append (cra_evidence/ledger.py) as run by several processes on   *)
(* one ledger file, step by step: open, exclusive lock, tail read, write   *)
(* loop, fsync, rollback, signed tip.  The environment may make any write, *)
(* fsync, truncation or tip write fail, kill a process between any two     *)
(* steps, or cut the power.                                                *)
(*                                                                         *)
(* Definitions introduced by "faulty:" are wrong versions of the one that  *)
(* follows them; no specification uses them.  They show that a property    *)
(* notices the mistake.                                                    *)
(***************************************************************************)
EXTENDS LedgerLines

CONSTANTS
  Writers,       \* processes (or Ledger objects) that append
  AllowUnlocked, \* those that passed allow_unlocked=True
  Keyed,         \* those that hold a tip key
  Flock,         \* what the file system may answer to flock: {TRUE}, {FALSE} or both
  NONE           \* no process

ASSUME LedgerConstants ==
  /\ AllowUnlocked \subseteq Writers
  /\ Keyed \subseteq Writers
  /\ Flock \subseteq BOOLEAN
  /\ NONE \notin Writers
  /\ Data # {}

VARIABLES
  flock,    \* this file system supports flock
  file,     \* the ledger as the operating system shows it
  disk,     \* the ledger as the last fsync left it on the medium
  tip,      \* the signed tip next to it
  tipDisk,  \* the tip on the medium (its rename is never synced)
  lock,     \* the process that holds the exclusive lock, or NONE
  pc,       \* where each process is in append
  entry,    \* the entry it is appending
  first,    \* the self_hash the tip will name as ledger_id
  rest,     \* the cells its write loop has still to write
  end,      \* the length of the file it found before writing
  answer,   \* what its last append came back with
  promised, \* ghost: the entries whose fsync has returned
  used      \* ghost: the records given to append so far

fileVars == <<flock, file, disk, tip, tipDisk, lock>>
vars == <<fileVars, pc, entry, first, rest, end, answer, promised, used>>

\* how many entries, first and last self_hash; n = 0: there is no tip file
Tip == [n : Nat, first : Digest, last : Digest]
NoTip == [n |-> 0, first |-> GENESIS, last |-> GENESIS]

Steps == {"idle", "opened", "locked", "found", "write", "sync", "undo", "tip"}

Answers == {"none", "recorded", "tip_not_written", "not_recorded",
            "maybe_part", "not_continuable", "refused", "no_lock"}

\* every variable stays in its set
TypeOK ==
  /\ flock \in Flock
  /\ file \in Seq(Cell) /\ disk \in Seq(Cell)
  /\ tip \in Tip /\ tipDisk \in Tip
  /\ lock \in Writers \cup {NONE}
  /\ pc \in [Writers -> Steps]
  /\ entry \in [Writers -> Entry]
  /\ first \in [Writers -> Digest]
  /\ rest \in [Writers -> Seq(Cell)]
  /\ end \in [Writers -> Nat]
  /\ answer \in [Writers -> Answers]
  /\ promised \subseteq Entry
  /\ used \subseteq Data

\* a record that has no place in the ledger yet
Unplaced(d) == [idx |-> 0, prev |-> GENESIS, data |-> d]

Init ==
  /\ flock \in Flock
  /\ file = <<>> /\ disk = <<>>
  /\ tip = NoTip /\ tipDisk = NoTip
  /\ lock = NONE
  /\ pc = [p \in Writers |-> "idle"]
  /\ entry = [p \in Writers |-> Unplaced(CHOOSE d \in Data : TRUE)]
  /\ first = [p \in Writers |-> GENESIS]
  /\ rest = [p \in Writers |-> <<>>]
  /\ end = [p \in Writers |-> 0]
  /\ answer = [p \in Writers |-> "none"]
  /\ promised = {}
  /\ used = {}

-----------------------------------------------------------------------------
(* Steps every call shares.                                                *)

Goto(p, l) == pc' = [pc EXCEPT ![p] = l]

\* leaving the `with` block closes the file, which gives the lock back
Release(p) == lock' = IF lock = p THEN NONE ELSE lock

\* the call comes back to its caller with answer a
Return(p, a) ==
  /\ Goto(p, "idle")
  /\ answer' = [answer EXCEPT ![p] = a]
  /\ rest' = [rest EXCEPT ![p] = <<>>]
  /\ end' = [end EXCEPT ![p] = 0]
  /\ first' = [first EXCEPT ![p] = GENESIS]
  /\ Release(p)

\* os.ftruncate: shorter, or longer with zero bytes
Truncated(f, n) == [i \in 1..n |-> IF i <= Len(f) THEN f[i] ELSE NUL]

-----------------------------------------------------------------------------
(* Ledger.append, in the order of its statements.                          *)

\* canonical_bytes(data) and open(path, "ab+")
Call(p, d) ==
  /\ pc[p] = "idle"
  /\ d \notin used
  /\ used' = used \cup {d}
  /\ entry' = [entry EXCEPT ![p] = Unplaced(d)]
  /\ answer' = [answer EXCEPT ![p] = "none"]
  /\ Goto(p, "opened")
  /\ UNCHANGED <<fileVars, first, rest, end, promised>>

\* faulty: goes on although another process holds the lock
LockFileRegardless(p) ==
  /\ pc[p] = "opened"
  /\ flock
  /\ lock' = p
  /\ Goto(p, "locked")
  /\ UNCHANGED <<flock, file, disk, tip, tipDisk, entry, first, rest, end,
                 answer, promised, used>>

\* flock(LOCK_EX) waits until nobody else holds it
LockFile(p) ==
  /\ pc[p] = "opened"
  /\ flock
  /\ lock = NONE
  /\ lock' = p
  /\ Goto(p, "locked")
  /\ UNCHANGED <<flock, file, disk, tip, tipDisk, entry, first, rest, end,
                 answer, promised, used>>

\* no flock here: refused, unless the caller accepted unserialised appends
NoFlock(p) ==
  /\ pc[p] = "opened"
  /\ ~flock
  /\ \/ /\ p \in AllowUnlocked
        /\ Goto(p, "locked")
        /\ UNCHANGED <<lock, answer, rest, end, first>>
     \/ /\ p \notin AllowUnlocked
        /\ Return(p, "no_lock")
  /\ UNCHANGED <<flock, file, disk, tip, tipDisk, entry, promised, used>>

\* the entry that continues the file
Placed(d) == [idx |-> Count(file), prev |-> LastHash(file), data |-> d]

\* the entry e is built and its line made ready; an open line is closed first
Place(p, e) ==
  /\ entry' = [entry EXCEPT ![p] = e]
  /\ first' = [first EXCEPT ![p] = IF e.idx > 0 THEN FirstHash(file)
                                                ELSE SelfHash(e)]
  /\ rest' = [rest EXCEPT ![p] =
                (IF Unterminated(file) THEN <<NL>> ELSE <<>>) \o Line(e)]
  /\ Goto(p, "found")
  /\ UNCHANGED <<lock, answer, end>>

\* faulty: continues a file that ends in part of a line
ReadTailAnyway(p) ==
  /\ pc[p] = "locked"
  /\ Place(p, Placed(entry[p].data))
  /\ UNCHANGED <<flock, file, disk, tip, tipDisk, promised, used>>

\* faulty: a refused call keeps the lock
ReadTailKeepsLock(p) ==
  /\ pc[p] = "locked"
  /\ \/ /\ Unparsable(file)
        /\ Goto(p, "idle")
        /\ answer' = [answer EXCEPT ![p] = "not_continuable"]
        /\ UNCHANGED <<entry, first, rest, end, lock>>
     \/ /\ ~Unparsable(file)
        /\ Place(p, Placed(entry[p].data))
  /\ UNCHANGED <<flock, file, disk, tip, tipDisk, promised, used>>

\* faulty: the index of the last entry instead of the next
ReadTailOffByOne(p) ==
  /\ pc[p] = "locked"
  /\ ~Unparsable(file)
  /\ Place(p, [Placed(entry[p].data) EXCEPT !.idx = @ - 1])
  /\ UNCHANGED <<flock, file, disk, tip, tipDisk, promised, used>>

\* _tail_state, the entry built on it, and its line, which may turn out longer
\* than MAX_LINE_BYTES or deeper than MAX_DEPTH
ReadTail(p) ==
  /\ pc[p] = "locked"
  /\ \/ /\ Unparsable(file)
        /\ Return(p, "not_continuable")
        /\ UNCHANGED entry
     \/ /\ ~Unparsable(file)
        /\ \/ Place(p, Placed(entry[p].data))
           \/ Return(p, "refused") /\ UNCHANGED entry
  /\ UNCHANGED <<flock, file, disk, tip, tipDisk, promised, used>>

\* faulty: the position before anything was read
SeekEndForgotten(p) ==
  /\ pc[p] = "found"
  /\ end' = [end EXCEPT ![p] = 0]
  /\ Goto(p, "write")
  /\ UNCHANGED <<fileVars, entry, first, rest, answer, promised, used>>

\* f.seek(0, SEEK_END); end = f.tell()
SeekEnd(p) ==
  /\ pc[p] = "found"
  /\ end' = [end EXCEPT ![p] = Len(file)]
  /\ Goto(p, "write")
  /\ UNCHANGED <<fileVars, entry, first, rest, answer, promised, used>>

\* one os.write of the loop: some of what is left, at the end of the file
Write(p) ==
  /\ pc[p] = "write"
  /\ \E k \in 1..Len(rest[p]) :
       /\ file' = file \o SubSeq(rest[p], 1, k)
       /\ rest' = [rest EXCEPT ![p] = SubSeq(@, k + 1, Len(@))]
       /\ Goto(p, IF k = Len(rest[p]) THEN "sync" ELSE "write")
  /\ UNCHANGED <<flock, disk, tip, tipDisk, lock, entry, first, end, answer,
                 promised, used>>

\* a write that raises (no space, an I/O error, an interrupt): roll back
WriteFails(p) ==
  /\ pc[p] = "write"
  /\ Goto(p, "undo")
  /\ UNCHANGED <<fileVars, entry, first, rest, end, answer, promised, used>>

\* what a call does once its line is on the medium
AfterSync(p) ==
  \/ /\ p \in Keyed
     /\ Goto(p, "tip")
     /\ UNCHANGED <<lock, answer, first, rest, end>>
  \/ /\ p \notin Keyed
     /\ Return(p, "recorded")

\* faulty: gives the lock back before the tip is written
SyncUnlocks(p) ==
  /\ pc[p] = "sync"
  /\ disk' = file
  /\ promised' = promised \cup {entry[p]}
  /\ \/ /\ p \in Keyed
        /\ Goto(p, "tip")
        /\ Release(p)
        /\ UNCHANGED <<answer, first, rest, end>>
     \/ /\ p \notin Keyed
        /\ Return(p, "recorded")
  /\ UNCHANGED <<flock, file, tip, tipDisk, entry, used>>

\* faulty: no fsync
SyncSkipped(p) ==
  /\ pc[p] = "sync"
  /\ promised' = promised \cup {entry[p]}
  /\ AfterSync(p)
  /\ UNCHANGED <<flock, file, disk, tip, tipDisk, entry, used>>

\* os.fsync returns; without a tip key, append returns too
Sync(p) ==
  /\ pc[p] = "sync"
  /\ disk' = file
  /\ promised' = promised \cup {entry[p]}
  /\ AfterSync(p)
  /\ UNCHANGED <<flock, file, tip, tipDisk, entry, used>>

\* os.fsync raises: what reached the medium is unknown
SyncFails(p) ==
  /\ pc[p] = "sync"
  /\ disk' \in {disk, file}
  /\ Goto(p, "undo")
  /\ UNCHANGED <<flock, file, tip, tipDisk, lock, entry, first, rest, end,
                 answer, promised, used>>

\* faulty: reports a rollback without truncating
UndoNothing(p) ==
  /\ pc[p] = "undo"
  /\ Return(p, "not_recorded")
  /\ UNCHANGED <<flock, file, disk, tip, tipDisk, entry, promised, used>>

\* os.ftruncate(fd, end) and its fsync, either of which may raise
Undo(p) ==
  /\ pc[p] = "undo"
  /\ LET back == Truncated(file, end[p]) IN
       \/ /\ file' = back /\ disk' = back
          /\ Return(p, "not_recorded")
       \/ /\ file' = back
          /\ disk' \in {disk, file, back}
          /\ Return(p, "maybe_part")
       \/ /\ UNCHANGED <<file, disk>>
          /\ Return(p, "maybe_part")
  /\ UNCHANGED <<flock, tip, tipDisk, entry, promised, used>>

\* write_tip: a synced temporary renamed over the tip, still under the lock
WriteTip(p) ==
  /\ pc[p] = "tip"
  /\ tip' = [n |-> entry[p].idx + 1, first |-> first[p],
             last |-> SelfHash(entry[p])]
  /\ tipDisk' \in {tipDisk, tip}
  /\ Return(p, "recorded")
  /\ UNCHANGED <<flock, file, disk, entry, promised, used>>

\* any OSError of write_tip: the record stays, and the caller is told
TipFails(p) ==
  /\ pc[p] = "tip"
  /\ Return(p, "tip_not_written")
  /\ UNCHANGED <<flock, file, disk, tip, tipDisk, entry, promised, used>>

-----------------------------------------------------------------------------
(* The environment.                                                        *)

\* a process is killed inside append: its lock goes, its bytes stay
Crash(p) ==
  /\ pc[p] # "idle"
  /\ Return(p, "none")
  /\ UNCHANGED <<flock, file, disk, tip, tipDisk, entry, promised, used>>

\* the first j cells of two files are the same
Agree(d, f, j) == j <= Len(f) /\ SubSeq(d, 1, j) = SubSeq(f, 1, j)

\* what a power cut may leave of the last synced file and the one since: what
\* both hold, and any part of what follows it in either
Survivors(d, f) ==
  UNION {{SubSeq(g, 1, k) : k \in {k \in 0..Len(g) :
                                     \A j \in 1..Len(d) : Agree(d, f, j) => j <= k}}
           : g \in {d, f}}

PowerLoss ==
  /\ file' \in Survivors(disk, file)
  /\ disk' = file'
  /\ tip' \in {tip, tipDisk}
  /\ tipDisk' = tip'
  /\ lock' = NONE
  /\ pc' = [p \in Writers |-> "idle"]
  /\ rest' = [p \in Writers |-> <<>>]
  /\ end' = [p \in Writers |-> 0]
  /\ first' = [p \in Writers |-> GENESIS]
  /\ UNCHANGED <<flock, entry, answer, promised, used>>

-----------------------------------------------------------------------------

\* a step of a call after its start: what the process itself does next
Advance(p) ==
  \/ LockFile(p) \/ NoFlock(p) \/ ReadTail(p) \/ SeekEnd(p)
  \/ Write(p) \/ WriteFails(p) \/ Sync(p) \/ SyncFails(p) \/ Undo(p)
  \/ WriteTip(p) \/ TipFails(p)

Next ==
  \/ \E p \in Writers : \/ \E d \in Data : Call(p, d)
                        \/ Advance(p)
                        \/ Crash(p)
  \/ PowerLoss

Spec == Init /\ [][Next]_vars

\* a process that can go on does so; flock is given to one that waits for it
FairSpec == Spec /\ \A p \in Writers : WF_vars(Advance(p))

-----------------------------------------------------------------------------
(* Properties.                                                             *)

(* Appends by any number of processes, killed or failing anywhere, and     *)
(* power cuts leave a chain that Ledger.verify accepts line by line: each  *)
(* entry has its place as idx and the hash of the entry before it.  No     *)
(* fork, no gap.                                                           *)
ChainIntact == LinksHold(file)

(* Once fsync has returned for an entry, the entry is in the ledger for    *)
(* ever: no rollback of another call and no power cut removes it.          *)
PromisedKept == \A e \in promised : Holds(file, e)

(* The tip on disk names entries the ledger holds: the hashes are those of *)
(* its first entry and of the last one the tip counts.  No tip vouches for *)
(* a record that a power cut lost.                                         *)
TipNamesPrefix ==
  tip.n > 0 =>
    \E i, j \in Starts(file) :
      /\ Before(file, i) = {} /\ SelfHash(file[i].e) = tip.first
      /\ Cardinality(Before(file, j)) = tip.n - 1
      /\ SelfHash(file[j].e) = tip.last

(* A tip is replaced only by one that counts more entries, except that a   *)
(* power cut may bring an older one back: tips of concurrent appends are   *)
(* never written in the wrong order.                                       *)
TipForward == [][tip' # tip => tip'.n > tip.n \/ PowerLoss]_vars

(* "the ledger is left as it was": a call that says so left no trace of    *)
(* its entry, neither in the file nor, after a power cut, on the medium.   *)
UndoneIsAbsent ==
  \A p \in Writers :
    answer[p] = "not_recorded" => ~Holds(file, entry[p]) /\ ~Holds(disk, entry[p])

(* A torn line is never buried: whatever part of an entry a failed or      *)
(* killed call left is the end of the file, and no later record is put on  *)
(* it or after it.  An operator can repair the file by cutting its end.    *)
TornLast ==
  \A i \in LineStarts(file) \ Starts(file) :
    file[i] # NL => i = Len(file)

(* The ledger implements the abstract log: read line by line, its file is  *)
(* at every moment a chain that extends the promised one.                  *)
Kept == IF promised = {} THEN 0
        ELSE 1 + Greatest({e.idx : e \in promised})

Log == INSTANCE AppendLog WITH log <- LogOf(file), kept <- Kept

ImplementsLog == Log!Spec

(* Every append is answered: a holder that fails, is refused or dies lets  *)
(* the others have the lock.                                               *)
Answered == \A p \in Writers : pc[p] # "idle" ~> pc[p] = "idle"
=============================================================================

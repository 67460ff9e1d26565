# cra-evidence in TLA+

cra-evidence keeps the evidence the Cyber Resilience Act asks a manufacturer
for: SBOMs, vulnerability records and notices in a hash-chained ledger, packs
that declare a state of that ledger, signatures and long-term seals over them,
and a verifier that judges a pack on a machine that has only the files.  These
modules state what it promises, model how the Python code keeps it, and check
and prove that it does.  Paths below are relative to `src/`; every model
definition is tied to its lines in the `map` of `PROJECT.json`.

## 1. The system

| Part | Code | State it keeps | Operations | Modelled |
|---|---|---|---|---|
| Ledger | `cra_evidence/ledger.py` | one JSONL file, its `flock`, `<ledger>.tip.json` | `append`, `entries`, `verify` | `Entries`, `LedgerLines`, `Ledger`, `AppendLog` |
| Signing | `signing.py` | key files, tip, pack sidecars, trust stores | `write_tip`, `verify_tip`, `sign_pack`, `verify_pack_signature` | the tip in `Ledger` and `VerifyLive`, outcomes in `Verdict` |
| Pack writer | `locker.py:245-290` | the pack file and its temporaries | `evidence_pack` | `EvidencePack` |
| Source store | `locker.py:89-165` | `<ledger>.sources/<sha256>.json` | `record_sbom` with a document | `SourceStore` |
| Long-term seals | `longterm.py`, `locker.py:292-317` | chains of seals, recorded in the ledger | `seal`, `verify`, `renewal_due`, `seal_longterm` | `LongTerm` |
| Legal clock | `vuln.py`, `applicability.py` | none: functions of instants | `deadlines`, `overdue`, the two readings of a date, scope and obligations, periods of years | `Calendar`, `LegalClock` |
| Notices | `srp_notice.py`, `locker.py:167-215` | records in the ledger, drop files | `record_vulnerability`, `SRPNotice`, `record_notice` | `Notices` |
| Pack verifier | `verify_pack.py` | none: reads pack, ledger, tip, sources | `verify_pack` and the exit code | `Verdict` (the answer), `VerifyLive` (what it reads) |
| Command line | `cli.py`, `outputs.py` | standard output and error, exit status | one subcommand a process, its receipt | `Receipt`, `CommandLine` |
| Signal feeds | `feeds.py` | the answers gathered in one call | `osv_query_batch`, `cisa_kev_ids`, `euvd_kev_ids`, `exploitation_signal` | `Feeds` |
| SBOM index | `sbom.py` | the queue and edges of a walk, the references of an export | `sbom_from_installed`, `sbom_from_spdx`, `to_cyclonedx_min` | `Sbom` (partly) |
| KMS, canonical JSON | `kms.py`, `canonical.py` | none, or one HTTP exchange | a signature, parsing, serialising | no, see section 8 |
| Verifiers in Go, JavaScript, Rust | `verifiers/` | none | `verify_pack` again | no, planned |

How they meet.  Every `record_*` call, every pack and every seal ends in
`Ledger.append`.  Processes share nothing but files: the ledger under its file
lock, and beside it, under no lock, the tip, the source store and the packs.
The locker has a `threading.Lock` too; it orders the calls of one process and of
no other.  Each call of a locker that reads the ledger before it appends
(`evidence_pack`, `record_notice`, the undo of `record_sbom`, `seal_longterm`)
reads outside the file lock.  A verifier takes no lock at all.

What makes each part correct:

* ledger: one chain whatever processes append to it and whatever fails; an
  entry `append` has answered for is never lost; what a failed call left is at
  the end of the file and nowhere else; the tip names entries that cannot be lost;
* pack: at its path only once its anchor is in the chain, never deleted after
  that, and the state it declares is one the ledger has;
* source store: a record's document is there as long as the record is;
* seals: a chain that verifies was sealed as it is, covered its evidence without
  a gap, and a keeper who renews when told to has one that verifies;
* clock and notices: nothing overdue under either reading of a date is hidden,
  silence fulfils no obligation, a notice agrees with the record it refers to;
* command line: the exit status says whether the outcome arrived, to the last
  byte; what it says was recorded was recorded; no process hangs;
* feeds: an answer without an error is complete and in its place, and nothing is
  believed without its positive control;
* SBOM: a component's dependencies are stated only when all of them are known,
  each reference names one thing, the walk reaches everything and ends;
* verdict: `ok` says what the four states, the fail-closed reasons and the
  caller's policy say, exit 77 swallows no finding, no refused pack is ok.

What is hard here: several processes at every step of an append and between a
read and the append that relies on it; partial writes, a failing fsync, a
failing rollback, a failing tip; kills; power cuts that leave part of what was
not synced; verdicts that early exits fold together; instants of expiry; a standard output
that takes some bytes, none, or refuses them, at any byte; a server that answers
in part; documents in any order and dependency graphs with cycles.
`PROJECT.json` lists each such hazard at its line (`hazards`).

## 2. The modules

| Module | Models | Built on |
|---|---|---|
| `Entries` | entries, hashes, what a chain is | |
| `LedgerLines` | a file as cells, what `_tail_state`, `entries` and `verify` read from it | `Entries` |
| `Ledger` | `Ledger.append` step by step, by several processes, with the environment | `LedgerLines` |
| `AppendLog` | the promise: a chain whose promised part never changes | `Entries` |
| `EvidencePack` | `evidence_pack` around the steps of `Ledger` | `Ledger` |
| `SourceStore` | `record_sbom` with a document around the steps of `Ledger` | `Ledger` |
| `VerifyLive` | a verifier's two reads of a ledger in use, and its tip | `Ledger` |
| `Verdict` | `verify_pack` as the sequence of its checks, and the CLI's exit status | |
| `LongTerm` | chains of seals, a policy of expiries, a keeper | |
| `Calendar` | dates, months and years of the Regulation in two time zones | |
| `LegalClock` | deadlines, overdue, late, the two readings of 11 September 2026 | `Calendar` |
| `Notices` | records and notices of several processes in one ledger, evaluated or read before they are appended | `LegalClock` |
| `Receipt` | `_write_all`: one text on any standard output, and its reader | |
| `Feeds` | `osv_query_batch` by chunks, pages and aliases; the two catalogues | |
| `CommandLine` | one process of `cra`: what it asks, records, prints and returns | `Receipt`, `Feeds` |
| `Sbom` | the walk over installed distributions, SPDX 3 graphs, the export | |
| `MC...` | values of the constants for the model checker | |
| `LedgerProofs` | theorems about `LedgerLines` and `Ledger` | `Ledger` |
| `PackAndAuditProofs`, `SourceStoreProofs` | theorems about what runs around the ledger: `EvidencePack` and `VerifyLive`, `SourceStore` | `LedgerProofs` |
| `VerdictProofs`, `LongTermProofs`, `NoticesProofs`, `CommandLineProofs`, `SbomProofs` | theorems about the module each is named after | |

`...TypeOK` says what the variables of a module hold.  The run `ledger` checks
`TypeOK`; the theorems `TypesKept`, `PackTypesKept`, `SourceTypesKept`,
`AuditTypesKept`, `NoticeTypesKept`, `SbomTyped`, `SealTyped` and `VerdictTyped`
prove it and seven others.

An operator introduced by "faulty:" is a wrong version of the definition that
follows it.  No specification uses it; put in the place of the right one, it
violates a property, which shows that the property is not idle.  `PROJECT.json`
lists one for each property (`mutants`).

### Correspondence

**Ledger.** The text of an entry is two cells, `Open(e)` and `Close(e)`, and a
newline a third: enough to tell a whole line from a torn one and from one
without its newline, at every place a write can stop.  A digest is the sequence
of bodies it commits to, so equal digests mean equal histories (SHA3-256
without collisions).  `pc[p]` follows the statements of `append`
(ledger.py:231-271): `Call` (open), `LockFile`/`NoFlock`, `ReadTail`, `SeekEnd`,
`Write` (one `os.write`, of any length), `Sync`, `Undo` (`ftruncate` and its
fsync, each of which may fail), `WriteTip`.  `WriteFails`, `SyncFails` and
`TipFails` are the exceptions; `Return` leaves the `with` block, so the lock
goes.  `Crash` kills one process; `PowerLoss` keeps what the last fsync made
sure of and any part of what came after, and an older tip, whose rename is
never synced.  `answer` tells apart what the caller is told: recorded, recorded
without a tip, rolled back, perhaps part of it on the disk, refused.  `promised`
is a ghost: the entries whose fsync has returned.

**Pack.** `ReadChain`, `ReadAgain` (twice), `WriteTmp`, `AppendAnchor`,
`Anchored`/`NotAnchored`, `Rename`/`RenameFails`, `Remove` are the statements of
`evidence_pack`; the append between them is that of `Ledger`, with the other
processes at work.  A pack is named by its anchor and holds the number of
entries and the last hash it declares.

**Source store.** `Look`, `Compare`, `Copy`, `AppendRecord`, `Appended`, `Scan`,
`Remove`.  The constant `Overlap` says whether two calls that record the same
document may overlap.

**Verifier.** `VerifyLive` splits a read of the ledger in two parts (`Open1`,
`ReadRest`) and opens the tip later (`ReadTip`); `DropTail` is the loss a tip is
there to show.  `Verdict` has one action per check, in the order of
`verify_pack`, and leaves the outcome of each check open: it is about how
outcomes are folded.  `el` are the elements told of each subject, `layers` what
is told to the layered verdict; the code computes `ok` from one and the states
from the other.

**Seals.** A signature is what it signs (`Msg`), so a changed record or a record
in another place does not verify.  `SealLongterm` is anybody's call, with any
time he states; `KeepFirst` and `KeepRenew` are those of a keeper who asks
`renewal_due` with a margin and does not let more than `Interval` pass.  A
policy says from which instant an algorithm no longer stands.

**Clock and notices.** Instants are hours since the start of 2026.  A record is
evaluated (`Evaluate`: `overdue` reads the clock, locker.py:185) and appended later
(`AppendRecord`), when the locks are free.  A user builds a notice (`Build`: carried
fields, awareness, drop file); the ledger is opened without its lock and read in two
parts (`OpenLedger`, `Scan`), and the notice appended (`AppendNotice`), while others
record.  `log` has every entry ever written, `gone` the places of those that are no
longer there, `kept` how far the ledger has been answered for.  An append shows its
entry to every reader before it is synced: `Promise` is the fsync, `TakeBack` the
rollback of ledger.py:257 or a power cut.  That nothing else can happen to a ledger is
what `Ledger` shows (`ImplementsLog`).  `Rest` is what the second part of a read may
find when part of the first has been taken back: the file from some later entry on.  The
ghosts `begun`, `sure` and `lost` keep what the ledger was when the notice's call opened
it.  One field stands for each row of stage codes of the schema.  What `obligations`
computes from dates alone
(`InForce`, `RequirementsApply`, `SupportStatus`, `Until`, `ObligationsCode`) are
operators of `Calendar`, checked at every instant of the run, and at those of
`PeriodStarts`, before anything is recorded.

**Receipt.** A byte is its position in the text, and three variables divide the
text: `sent` (the kernel has it), `held` (`io.BufferedWriter` has it), `rest` (the
code's `data`, of which a write in progress has taken `took`).  `PendingDone` ends
the flush of what a caller left (cli.py:98-105), `Take` and `Drain` are a buffered
write, `WriteRaw` a raw one, `WouldBlock` is `BlockingIOError` with its
`characters_written` or a `None`, `FlushBlocks` a flush that would block, `Writable`
the return of `select`, `Fails` every other `OSError`.  The reader takes any number
of bytes at any time, or leaves.  `Outputs` are the standard outputs: none, a text
stream alone, raw (`-u`) or buffered, over a blocking, non-blocking or
unwaitable pipe or a file that fills.

**Feeds.** `fstep` follows `osv_query_batch`: `PostBatch` for a chunk, `FirstPage`
and `NextPage` for the ids of one query, `Store` for `res.append`.  `Raise` is its
only handler.  The server is the choice of each answer; ghosts `served` and
`unread` keep what it has shown and what it still has.  `Load` gives any part of a
catalogue.  The cache of aliases is left out, as it changes no answer.

**Command line.** `step` is where the process is: `Start`/`StartVuln`, the queries,
`Confirm` (a catalogue named with `--source`), `Record`, `Outcome`, the receipt
(`ReceiptBegins`, then the steps of `Receipt`, then `ReceiptWhole` or
`ReceiptLost`), `Exit` with the interpreter's own flush.  A line that standard error
refuses is forgotten once its descriptor points at /dev/null; opening or duplicating
that may fail (cli.py:142-147), and then `errLeft` holds, or `silenced` is `failed`, and
the last flush makes the status 120, or delivers what was held (`LastFlush`).  `Refuse` and
`PromiseBroken` are the exits 1, 2 and 74 without an outcome.  What a subcommand
computes is an outcome with one of its codes; what a record holds is in the other
modules.

**SBOM.** `StartWalk`, `LookUp`, `NotInstalled` and `Revisit` are the loop of
`sbom_from_installed`, with what is installed and required revealed by the look-up;
`Ingest` and `Mark`/`Collect` index documents (`Mark` is the first pass over an SPDX
3 `@graph`, `Collect` the second); `AssignRef` and `Export` are `to_cyclonedx_min`.

## 3. What is checked

| Run | Constants | Distinct states | Checked |
|---|---|---|---|
| `ledger` | 2 processes, 3 records, both tip keys, with or without `flock`, one of them `allow_unlocked` | 124,919 | `TypeOK`, `ChainIntact`, `PromisedKept`, `TipNamesPrefix`, `UndoneIsAbsent`, `TornLast`, `TipForward`, `ImplementsLog`, `Answered` |
| `pack` | 2 processes, one packs; 2 records and an anchor | 511,897 | `PackAnchored`, `DeclaredIfPromised`, `AnchoredStays` |
| `sources` | 2 processes, 2 records of one document, calls that do not overlap | 72,874 | `ShownIsStored` |
| `verify_live` | 2 appending processes, 2 records, one verifier | 44,143 | `AcceptedHoldsPromised`, `VerifiedIsComplete` |
| `verdict` | none: every call, host and outcome | 5,421,320 | `OkIsTheStates`, `NotAssessedIsNoFinding`, `OkIsEarned` |
| `longterm` | 2 algorithms, 2 hashes, 4 policies, 2 digests, instants 0 to 3 | 90,967 | `VerifiedIsRecorded`, `CoverUnbroken`, `KeptVerifies`, `NotDueStands` |
| `notices` | 2 users, 2 products, 4 records, 4 payloads, 3 instants, 2 more for the calendar, 3 entries | 552,745 | `NothingHidden`, `SilenceIsNoExit`, `BoundAsOfTheCall`, `SameDeadline`, `CarriedOn`, `PeriodsAreWhole`, `ScopeFollowsDates` |
| `commands` | a receipt of 3 bytes, 1 pending, a buffer and a pipe of 2; 3 components, chunks of 2, 1 page after the first, 2 ids, 2 CVEs | 150,820 | `InOrder`, `SlowIsNotLost`, `CompleteOrError`, `StatusTellsDelivery`, `FeedsBelieved`, `Exits` |
| `sbom` | 3 distributions under 4 names, 8 lists of requirements, 7 components whose references collide, graphs of 4 elements | 51,993 | `ClaimedIsComplete`, `WalkCovers`, `EveryRefOnce`, `IndexedAsDeclared`, `WalkEnds` |

Each property is stated in words above its definition.  The ones that carry
most:

* `ChainIntact`, `PromisedKept`: no fork, no gap, no answered entry lost,
  through any interleaving, failed write, failed rollback, kill or power cut.
* `TornLast`: a torn line is never buried, so cutting the end repairs the file.
* `UndoneIsAbsent`: "left as it was" means absent from the file and from the
  medium.
* `ImplementsLog`: the ledger refines `AppendLog`, under the mapping that reads
  the file line by line (`LogOf`) and takes as promised the entries up to the
  last answered one (`Kept`).
* `Answered`: nobody waits for ever, whoever fails, is refused or dies.
* `DeclaredIfPromised`: a pack made from unlocked reads is refused later only if
  the ledger took back an entry nobody had been told of.
* `VerifiedIsComplete`: "no tail truncation" holds although tip and ledger are
  read at two times.
* `OkIsTheStates`: the equation of `spec/RECEIPT.md` section 4.
* `CoverUnbroken`, `KeptVerifies`: what renewals are for.
* `SilenceIsNoExit`: a stage that was overdue at one evaluation is overdue or late at
  every later one, in whatever order their records reach the ledger, unless a record
  claims it was sent before.
* `BoundAsOfTheCall`: a notice accounts for every record that was answered for when its
  call opened the ledger, through other appends and rollbacks in the middle of its read:
  it is bound to that one or to a later one.  If nothing is taken back meanwhile, the
  records it is bound to were the last ones at one moment of the call.
* `ScopeFollowsDates`: `obligations` makes a finding only where one reading of the
  dates both reaches the product and finds its period short, never about a product
  that is older in both.
* `InOrder`, `StatusTellsDelivery`: no byte of a receipt is missing inside it or
  written twice, and the status tells a receipt that arrived from one that did not, 120
  being left to streams that could not be pointed at /dev/null.
* `CompleteOrError`: through chunks, pages, aliases and failures at any of them, a
  list of ids is whole and beside its own component, or there is none.
* `FeedsBelieved`: composes the two: a recorded source is a catalogue that lists the
  id, and `feeds` exits 0 only when every control has shown itself.
* `Exits`: no reader, disk, server or refusal keeps a process for ever.
* `ClaimedIsComplete`: an empty `dependsOn` is never ignorance.

### What the code does not keep

Each of these runs checks one sentence of the code or its documents and finds a
behaviour that contradicts it (`findings`):

| Run | Sentence | Behaviour |
|---|---|---|
| `pack_withdrawn` | "no record may slip in between" (locker.py:246) | another process's entry is read, declared, and then rolled back by that process |
| `sources_overlap` | the undo spares a copy "a concurrent record already relies on" (locker.py:156) | the other record is appended between the scan and the removal |
| `notices_race` | "the LAST record per vuln_id is the current legal state" (locker.py:195) | a newer record is appended between the read and the notice, which names an older one or none |

They share one cause: something read outside the file lock is used after
another process has appended.  The passing runs show what still holds
(`DeclaredIfPromised`, `ShownIsStored` when calls do not overlap,
`VerifiedIsComplete`, `BoundAsOfTheCall`).

Five more places have no run, and the models say where they are:

* With `allow_unlocked` in two processes at once, the rollback of one truncates to
  the bytes it found before the other appended (ledger.py:257), and so takes a
  synced entry of the other: `Serialised` (section 4) leaves that case out, and the
  run `ledger` has one process without the lock beside one that may hold it.
* A verifier that opens the tip after another append (verify_pack.py:330) finds it
  longer than the ledger it has read and says `tail_mismatch`, "a truncated tail"
  (`spec/RECEIPT.md`:54), of a ledger that has lost nothing: `said` in `VerifyLive`
  is then `tail_truncated`.
* `record_vulnerability` evaluates `overdue()` before its append waits for the locks
  (locker.py:185): a record evaluated before a due instant may stand in the ledger after
  one evaluated past it.  The last record of an event, "the current legal state"
  (locker.py:195), may then carry no flag where an earlier one does, and the ledger does
  not say when either was evaluated (`at` in `Notices` is in no entry).
* `record_notice` may bind a record that is written and not yet synced, which its writer
  then takes back: the notice names a record that is not in the ledger, by the same cause
  as in `pack_withdrawn`.  `BoundAsOfTheCall` says what is left: no record that had been
  answered for is passed over.
* An empty body is read as `{}` (feeds.py:31, :36), which for a page or an alias
  look-up means "nothing more", although every failure is to be declared
  (feeds.py:9, :70).  `CompleteOrError` leaves out the calls with such an answer
  (ghost `emptied`).

`renewal_due` with its default margin of 0 belongs here too, and has no run of
its own: with margin 0 the first instant at which a renewal is due is the one
from which `verify` refuses the chain (longterm.py:208 and :100).  That is why
theorem `Keeper` assumes `Interval <= Margin`.

### Bounds

Two processes are enough for the ledger: inside the lock there is one, and the
hazards are of one process against another.  Three records let one entry be
promised before, another fail in the middle and a third come after both.  The
proofs below hold without these bounds.  A file needs no bound: it grows by the
records.  In `longterm`, `Horizon = 3` with expiries at 2 and 3 puts an expiry
before, at and after a renewal, `MaxSeals` limits the chains other people record
and not those of the keeper.  In `notices` the instants are those around the two readings of
11 September 2026 and an early warning's deadline missed by an hour; `PeriodStarts` adds
29 February 2028 and the hour before it for the calendar alone.  Two users are enough
for one to append, or be taken back, between the steps of the other, and they are
alike, so symmetry is used; three entries make a chain of all three stages, or two
records and a notice between them.  `Room` starts nothing that would not fit in the
ledger.  The calendar's properties look at sixty days after each instant, which hold a
change of the clocks in each direction, and `LastYear` bounds the dates a period can
reach.  `verdict` has no bound.

In `commands` a receipt is longer than the buffer and the buffer no longer than
the pipe, with one byte left from before: each write can be cut in the middle, be
taken in part by the buffer, and meet a full pipe at each of its three waits; the
theorems hold for all sizes.  Three components in chunks of two make a second
chunk and a position that is not asked for, one page after the first puts the
limit at two, and one of the two ids is an alias of a listed CVE.  In `sbom` three
distributions make every shape of cycle, one spelled in two ways; seven components
take the reference of another, a numbered one, and the product's own, once and
twice; four elements of a graph are a package, a root and two licences in any order.

Runs whose configuration says `CHECK_DEADLOCK FALSE` are of programs that end:
a verifier that has answered, a clock at its last instant, a ledger at its bound,
a process that has exited, an export.
In the others a power cut is always possible.

### Fairness

`Answered` needs `WF_vars(Advance(p))` for each process.  A process
inside `append` is scheduled again; a system call comes back, with success or an
error; and `flock(2)` gives the lock to a process that waits.  The last point is
weak fairness of `LockFile`, which is enabled only while nobody holds the lock.
It is enough because the number of calls is finite here, so a lock cannot be
taken away from a waiting process for ever.  `Call`, `Crash` and `PowerLoss` have
no fairness.

`Exits` needs `WF_vars(ProcessStep)`, one process that runs on, whose requests end
with an answer or an error (each has a timeout, feeds.py:30), and `WF_vars(Reads)`:
a reader that neither leaves nor reads would keep a blocking write for ever, as it
does with any program, so the reader that stays is taken to read.  `WalkEnds` needs
only that the program runs on.

## 4. What is proved

TLAPS checks the following for every value of the constants.

The three modules about the ledger share one assumption, `Serialised`: where `flock`
may be missing, at most one process appends without it.  It cannot be dropped:
see the first point after the findings above.

**`LedgerProofs`** (`TypesKept`, `ChainNeverBroken`, `TornLineIsLast`,
`PromisesKept`, `TipsTrue`, `TipsInOrder`, `LedgerIsLog`, `RollbackLeavesNothing`),
for any processes, records and failures.  The invariant is
`IInv == TypeOK /\ LockHeld /\ FileOK /\ PromisedOK /\ TipOK /\ GoingOK`:

* `LockHeld`: a process between lock and release is the one that holds the lock,
  so no other changes the file under it.
* `FileOK`: file and medium are each the start of a chain, cut anywhere: cell
  `3j+1` opens entry `j`, `3j+2` closes it, `3j+3` ends its line.  `ChainIntact`
  and `TornLast` follow from the shape (the lemmas at the start of the module); the
  shape is what survives a cut, which "all links hold" alone does not.
* `PromisedOK`: a promised entry is closed in the file and on the medium, and
  both agree up to its end, so a power cut, which may keep either, keeps it.
* `GoingOK`: what a process has still to write makes, after the file as it is,
  a chain again; and the length it will truncate to is past every promised entry.
  Without it `Undo` could not be shown to take back only its own bytes.
* `TipOK`: both tips name promised entries; with `tip.n <= idx` in `GoingOK`,
  tips come in order.

`LedgerIsLog` maps every step to one of `AppendLog` or to none.  It rests on what
`LogOf` gives for a file of that shape (`ChainedLog`: as many entries as are closed,
each where its cells are) and on `Kept` being the number of the last promised one
(`KeptIs`); `Sync` is the step that promises, all others change what follows `Kept`.

`RollbackLeavesNothing` needs `AInv`, which says for each call where its own record
can show: not before it is written, not before `end` while it is (`Own`), and never
among the promised ones when it has failed.  This is inductive only with `Apart`, no
two calls have one record, and `Known`, nothing shows that was not given to
`append`: another call's write, or a power cut that brings back older bytes, could
otherwise show the record again.

**`PackAndAuditProofs`**, the pack writer (`PacksOnlyAppend`, `PackTypesKept`, `AnchorComesFirst`,
`AnchoredPackStays`, `DeclaredStateHolds`), for any processes and packs, over `IInv`
and `AInv` of the ledger below: `PacksOnlyAppend` shows that a pack writer is one of
its processes, so they hold here too.  `PInv` adds `Standing`, a pack that stands,
on the disk as well, has its anchor promised and declares as many entries as its
last hash commits to, none of them its own anchor; and `OwnDrafts`, no two calls are
at one temporary.  `DeclaredStateHolds` then needs no more about the reads outside
the lock: a promised entry with the declared hash fixes everything before it.
`AnchoredPackStays` uses `Own`: `Remove` follows a failed append, and the record of a
failed append is promised to nobody.

**`SourceStoreProofs`** (`SourceTypesKept`, `RecordsKeepDocuments`,
`PromisesKeepDocuments`), for any documents.  The last two assume
`Overlap = FALSE`, which `sources_overlap` shows to be needed.  `SInv` is about the copy
that the undo removes: from the end of the scan on no record that shows needs it, and
`OneEach` keeps every other call from recording that document meanwhile.
`PromisesKeepDocuments` is the same for promised entries, with no reference to the
cells of the file.

**`PackAndAuditProofs`**, the verifier (`AuditTypesKept`, `AcceptedMissesNothing`,
`VerifiedMissesNothing`).  `ReadOK`: what had been read of an entry promised at the
start is still what the file has, whatever was rolled back and written after it.
`SealedOK`: the tip's hash commits to every entry a tip was ever written for; it says
nothing of the file, and so survives the loss of the tail.  A chain whose last hash is
the tip's has then all of them, because the hash of an entry of a chain starts with
those of the entries before it (`ChainCommits`).

**`NoticesProofs`** (`NoticeTypesKept`, `OverdueShown`, `ObligationStands`,
`BoundAtOneMoment`, `ClockNotMoved`, `NothingDropped`, `PeriodsWhole`, `ScopeByDates`),
for any users, products, records and payloads.  `NoticesAssumption` asks that the
instants, `PeriodStarts` among them, lie between 2 January 2026 and 30 December 2029,
so that the day before and
ten years after each are inside the calendar, which ends with 2040 (`LastYear`);
`PayloadsAssumption`, that a payload has the fields of its stream and at most one
value in a date.  The first half is the calendar, which is
where the arithmetic is: `NewYearIs` counts leap days, `DateIs` and `NumberOfDate` are
inverse, `AnniversaryIs` treats 29 February, `MidnightsAre` the nights the clocks change,
`PeriodEnds` joins them.  `NInv` then says of a draft what will hold of the notice
made from it (`DraftOK`): what is carried agrees with the notice it continues; while the
ledger is being read, what was read holds all that still stands of its first `upto`
entries (`ReadOK`); and once it has
been (`BindsAs`), every record answered for at the open is accounted for, and unless
something was taken back since, what it is bound to were the last records at one length
of the log.  The first holds because what is answered for is never taken back, so a
reader that has passed it has read it.  `StaysOverdue` is `SilenceIsNoExit` for two
records, through every combination of stages sent and not sent; that it is applied to
instants of evaluation needs only that a record carries its own through the wait
(`MadeOK`).

**`VerdictProofs`** (`VerdictTyped`, `Equation`, `Inconclusive`, `Refusals`,
`ExitZeroEarned`): for every outcome of every check.  The invariant `Agreement` ties the
two bookkeepings together while checks run: there is an assessed FAIL among the
layers exactly if there is a refusal, an unmet policy or an adverse element; and
a FAIL that is not assessed exactly if some element is `instrument_failure`.
`ExitZeroEarned` adds `Earned`: as long as nothing has failed, each subject that was
looked at is verified, and none is that was not reached.

**`LongTermProofs`** (`SealTyped`, `NoGap`, `OnlySealed`, `NotDue`, `Keeper`): for any
algorithms, policies, keys and horizons.  `NoGap` rests on lemma `Covered`: take
the last record made by an instant (it exists because the positions are
well-founded downwards from the length); the next record came later and was
judged at its time, so the last one stood until then.  `OnlySealed` rests on
`SealedOnce`, every signature in a recorded chain covers what comes before it and every
start of such a chain is recorded, and on the last signature of a chain that verifies,
whose pieces all come from recorded ones (`LastSignature`).  `Keeper` assumes
`Interval <= Margin`; its invariant `KeptWell` says the outer record stands and
every inner one was renewed in time.

**`CommandLineProofs`** (`ReceiptInOrder`, `SlowReader`, `StatusIsHonest`,
`SourceIsListed`, `NeverPartial`, `BelievedOnEvidence`): for every size of receipt,
buffer and pipe, every standard output and reader, every list of components, chunk
size and page limit, every part of a catalogue.  The receipt's invariant `RInv` (`Flow`,
`Cut(a, b, r)`) names three positions of the text: `sent` ends at `a`, `held` is what
follows up to `b`, and `rest` starts at `r <= b` with `took = b - r`.  The part of
`rest` that the buffer has already copied is what makes `InOrder` not inductive:
`WouldBlock` keeps the order only because it drops exactly `took` bytes.
The lemmas `BytesPart`, `BytesJoin`, `PrefixIs` and
`WithoutIs` say what cutting and joining runs of bytes gives.  `CInv` adds the
process: an exit status of an outcome with a whole receipt, nothing on standard
output before there is an outcome, and where a status of 120 comes from;
`LastFlushKeeps` shows that what the interpreter still gets out is in order too.
`NeverPartial` rests on `OInv`: while the queries
run, result `k` is what the server has shown for query `k`, and nothing has been shown
for those still to come; `PositionsAre` says that the queries are the positions asked
for, each once, so results go back to their own components.  `BelievedOnEvidence` joins
`OInv` to the steps of `feeds` (`BInv`).

**`SbomProofs`** (`SbomTyped`, `RefsNameOneThing`, `RowsAreTheWholeTruth`, `WalkIsExact`,
`IndexFollowsDeclarations`): for any names, requirements, packages and SPDX graphs.
`SbomAssumption` asks that there are finitely many names, that no key is empty (the
empty key is the product), and that different numbers are written differently
(`Decimal`), which is what `#n` needs.  The invariant `BInv` has a part for each
question:

* `Walking`: each thing required by what was looked up is an edge or still in the
  queue, and nothing else is; when the queue is empty the edges are the requirements.
* `Reaching`: whatever set holds the top level and what its members require holds
  everything looked up and everything in the queue.  `seen` is then the least such
  set, which is what `WalkIsExact` says without any word about paths.
* `OneOfEach`, `Apart`: one component a key, no reference twice.  `FreshIs` finds the
  next reference by counting: of more candidates than references in use one is free
  (`OneIsFree`); `PrimaryIs` does the same for the product's.
* `Marked`: roots and licences are what the elements so far say, in whatever order.

**Only model-checked**: `Answered`, `Exits` and `WalkEnds`, which are liveness under
fairness.  Every other property of the passing runs is a theorem.

## 5. Assumptions

SHA3-256 and SHA-256 have no collisions and Ed25519 signatures are what they
sign.  A rename is atomic and replaces the name; an fsync that returns keeps the
file's bytes; nothing but these programs writes the files, except `DropTail` in
`VerifyLive` and the changed chains of `LongTerm`.  A time token attests the
instant at which it was made.  A reader of the ledger who meets part of a line where
another has been truncated fails (`GiveUp` in `Notices`) and does not take it for an
entry.

## 6. Plan

Order of what is left:

1. `PackSidecar`: `sign_pack` and a pack replaced at the same path.
2. `SealedLedger`: `seal_longterm` over the append protocol, its scan for the
   anchor outside the lock.
3. The verdicts of the Go, JavaScript and Rust verifiers beside `Verdict`, and
   that the four agree.
4. SPDX 2 and nested CycloneDX documents in `Sbom`.

Proofs worth having next, with the modules above: that a seal recorded by
`seal_longterm` anchors a digest the ledger holds (`SealedLedger`), and that the four
verifiers refuse the same packs.  Of the liveness that only TLC shows, the safety part:
each step of `WalkStep` looks up a new key or shortens the queue.

## 7. Running

    tlc -workers 2 -config Ledger.cfg MCLedger.tla
    tlapm LedgerProofs.tla

`PROJECT.json` names the module and the configuration of each run.

## 8. Not modelled

* `canonical.py`: strict parsing and serialising.  What the models use is that a
  hash identifies what it was taken of.
* The rest of `sbom.py`: SPDX 2 and nested CycloneDX documents, markers, names,
  licences and hashes as text, the schema of the export; `reingest`, the same
  functions on the same bytes.
* `kms.py`: one HTTP exchange a signature.  Of `feeds.py`, the shapes of JSON.
* Of `cli.py`, argparse and the text of outcomes.
* Ed25519 and the file formats of keys, trust stores and sidecars.
* `user_information`, a report nothing else depends on; five minutes of tolerated
  clock skew, formats and lengths of notice fields.
* `evidence_pack` by two threads of one locker: the threading lock makes one
  wait for the other.
* Differential tests, benches, release scripts, examples: read as evidence of
  what the code is meant to do.

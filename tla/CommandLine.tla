------------------------------ MODULE CommandLine ------------------------------
(***************************************************************************)
(* One process of `cra` (cra_evidence/cli.py), from its arguments to its   *)
(* exit status: what it asks the feeds, what it records, the receipt on    *)
(* standard output, the lines on standard error and the last flush of the  *)
(* interpreter.  What a subcommand computes is in the other modules; here  *)
(* it is an outcome and its code.                                          *)
(***************************************************************************)
EXTENDS Receipt, Feeds

CONSTANT MaxAsked   \* components a program asks osv_query_batch for

ASSUME CommandLineAssumption == Catalogues = {"cisa_kev", "enisa_euvd"} /\ MaxAsked \in Nat

VARIABLES
  cmd,       \* the subcommand
  step,      \* where the process is
  label,     \* the exploitation source of `vuln` (source)
  wanted,    \* its vulnerability id
  exploited, \* the record says actively exploited
  recorded,  \* the ledger has the subcommand's record
  computed,  \* the outcome is there; only its receipt is missing
  code,      \* the exit status of that outcome
  silenced,  \* descriptor 1 points at /dev/null: no, yes, or it could not be pointed there (failed)
  errLeft,   \* standard error refused a line and could not be pointed at /dev/null: it will refuse it again
  status     \* what main returns, and the exit status in the end

cliVars == <<cmd, step, label, wanted, exploited, recorded, computed, code, silenced, errLeft, status>>
vars == <<receiptVars, feedVars, cliVars>>

Recording == {"sbom", "vuln", "notice", "pack", "seal"}
Writing == Recording \cup {"keygen", "sign"}       \* these promise a file or a ledger line
Commands == Writing \cup {"schema", "verify", "feeds", "obligations", "help"}

EX_IOERR == 74
CodesOf(c) == CASE c \in {"keygen", "sign", "schema", "help"} -> {0}
                [] c = "verify" -> {0, 1, 77}
                [] OTHER -> {0, 1}

NoId == "no id"

Init ==
  /\ ReceiptInit /\ FeedsInit
  /\ cmd = "none" /\ step = "idle" /\ label = "none" /\ wanted = NoId /\ exploited = FALSE
  /\ recorded = FALSE /\ computed = FALSE /\ code = 0 /\ silenced = "no" /\ errLeft = FALSE /\ status = 0

\* _say: standard error takes the line, or its descriptor is pointed at /dev/null, or neither
Say == errLeft' \in BOOLEAN

-----------------------------------------------------------------------------
(* The subcommand.                                                         *)

Start(c) ==
  /\ step = "idle" /\ cmd' = c
  /\ IF c = "feeds" THEN step' = "osv" /\ Ask(ControlAsked)
     ELSE step' = "work" /\ UNCHANGED feedVars
  /\ UNCHANGED <<receiptVars, label, wanted, exploited, recorded, computed, code, silenced, errLeft, status>>

\* vuln, with --exploited and --source or without; a catalogue's name is to be confirmed unless --assert-source
StartVuln(l, e, id) ==
  /\ step = "idle" /\ cmd' = "vuln"
  /\ label' = l /\ exploited' = e /\ wanted' = (IF l \in Catalogues THEN id ELSE NoId)
  /\ step' = IF l \in Catalogues THEN "confirm" ELSE "work"
  /\ UNCHANGED <<receiptVars, feedVars, recorded, computed, code, silenced, errLeft, status>>

\* a program that imports the module and asks for a list of components
StartLibrary(components) ==
  /\ step = "idle" /\ cmd' = "library" /\ step' = "library"
  /\ Ask(components)
  /\ UNCHANGED <<receiptVars, label, wanted, exploited, recorded, computed, code, silenced, errLeft, status>>

Query ==
  /\ step \in {"osv", "library"}
  /\ QueryStep
  /\ UNCHANGED <<receiptVars, cliVars>>

Queried ==
  /\ step \in {"osv", "library"} /\ fstep = "answered"
  /\ step' = IF step = "osv" THEN "cisa_kev" ELSE "ended"
  /\ UNCHANGED <<receiptVars, feedVars, cmd, label, wanted, exploited, recorded, computed, code, silenced, errLeft, status>>

\* `feeds` reads one catalogue, then the other
LoadNext(ok, part) ==
  /\ step \in Catalogues
  /\ Load(step, ok, part)
  /\ step' = IF step = "cisa_kev" THEN "enisa_euvd" ELSE "work"
  /\ UNCHANGED <<receiptVars, cmd, label, wanted, exploited, recorded, computed, code, silenced, errLeft, status>>

\* `vuln --source` reads the catalogue it names
LoadNamed(ok, part) ==
  /\ step = "confirm"
  /\ Load(label, ok, part)
  /\ step' = "confirmed"
  /\ UNCHANGED <<receiptVars, cmd, label, wanted, exploited, recorded, computed, code, silenced, errLeft, status>>

Leave(k) == step' = "exit" /\ status' = k

\* a catalogue that is unavailable or does not list the id refuses the record; one that lists it makes it exploited
Confirm ==
  /\ step = "confirmed"
  /\ IF loaded[label].error \/ label \notin Signal(wanted)
     THEN Say /\ Leave(1) /\ UNCHANGED exploited
     ELSE exploited' = TRUE /\ step' = "work" /\ UNCHANGED <<errLeft, status>>
  /\ UNCHANGED <<receiptVars, feedVars, cmd, label, wanted, recorded, computed, code, silenced>>

\* a usage error, an unreadable trust store (2), or a refusal or any exception of the subcommand (1)
Refuse(k) ==
  /\ step = "work" /\ cmd \notin {"help", "feeds"}
  /\ k = 2 => label \notin Catalogues
  /\ Say /\ Leave(k)
  /\ UNCHANGED <<receiptVars, feedVars, cmd, label, wanted, exploited, recorded, computed, code, silenced>>

\* OutputNotWritten: a promised file or line is not there; a tip or a drop file may fail after or before the record
PromiseBroken(r) ==
  /\ step = "work" /\ cmd \in Writing
  /\ r => cmd \in Recording
  /\ recorded' = r
  /\ Say /\ Leave(EX_IOERR)
  /\ UNCHANGED <<receiptVars, feedVars, cmd, label, wanted, exploited, computed, code, silenced>>

Record ==
  /\ step = "work" /\ cmd \in Recording
  /\ recorded' = TRUE /\ step' = "outcome"
  /\ UNCHANGED <<receiptVars, feedVars, cmd, label, wanted, exploited, computed, code, silenced, errLeft, status>>

FeedsCode == IF ControlOk /\ \A f \in Catalogues : ~loaded[f].error THEN 0 ELSE 1

Outcome(k) ==
  /\ step = (IF cmd \in Recording THEN "outcome" ELSE "work")
  /\ k \in CodesOf(cmd) /\ (cmd = "feeds" => k = FeedsCode)
  /\ code' = k /\ computed' = TRUE /\ step' = "receipt"
  /\ UNCHANGED <<receiptVars, feedVars, cmd, label, wanted, exploited, recorded, silenced, errLeft, status>>

-----------------------------------------------------------------------------
(* The receipt and the exit.                                               *)

ReceiptBegins ==
  /\ step = "receipt"
  /\ BeginStep
  /\ Forget
  /\ UNCHANGED cliVars

ReceiptStep ==
  /\ step = "receipt"
  /\ WriterStep
  /\ UNCHANGED <<feedVars, cliVars>>

ReceiptWhole ==
  /\ step = "receipt" /\ at = "whole"
  /\ Leave(code)
  /\ UNCHANGED <<receiptVars, feedVars, cmd, label, wanted, exploited, recorded, computed, code, silenced, errLeft>>

\* faulty: what standard output still holds is left to the interpreter
LostNotSilenced ==
  /\ step = "receipt" /\ at = "lost"
  /\ silenced' = "no" /\ Say
  /\ Leave(EX_IOERR)
  /\ UNCHANGED <<receiptVars, feedVars, cmd, label, wanted, exploited, recorded, computed, code>>

\* _receipt_lost; opening /dev/null, or putting it in the place of the descriptor, may fail
ReceiptLost ==
  /\ step = "receipt" /\ at = "lost"
  /\ silenced' \in {"yes", "failed"} /\ Say
  /\ Leave(EX_IOERR)
  /\ UNCHANGED <<receiptVars, feedVars, cmd, label, wanted, exploited, recorded, computed, code>>

\* the interpreter flushes both streams; one that cannot be flushed makes the status 120
Exit ==
  /\ step = "exit"
  /\ step' = "ended"
  /\ IF at = "lost" /\ silenced # "yes"
     THEN \E k \in 0..Buffer : LastFlush(k)
     ELSE UNCHANGED receiptVars
  /\ status' = IF errLeft \/ (at' = "over" /\ held' # <<>>) THEN 120 ELSE status
  /\ UNCHANGED <<feedVars, cmd, label, wanted, exploited, recorded, computed, code, silenced, errLeft>>

ProcessStep ==
  \/ Query \/ Queried \/ Confirm \/ Record
  \/ \E ok \in BOOLEAN, part \in SUBSET Cves : LoadNext(ok, part) \/ LoadNamed(ok, part)
  \/ \E k \in {1, 2} : Refuse(k)
  \/ \E r \in BOOLEAN : PromiseBroken(r)
  \/ \E k \in {0, 1, 77} : Outcome(k)
  \/ ReceiptBegins \/ ReceiptStep \/ ReceiptWhole \/ ReceiptLost \/ Exit

Reads == ReaderReadsSome /\ UNCHANGED <<feedVars, cliVars>>
Leaves == ReaderLeaves /\ UNCHANGED <<feedVars, cliVars>>

Next ==
  \/ \E c \in Commands \ {"vuln"} : Start(c)
  \/ \E l \in {"none", "asserted"} \cup Catalogues, e \in BOOLEAN, id \in Cves : StartVuln(l, e, id)
  \/ \E n \in 1..MaxAsked : \E components \in [1..n -> BOOLEAN] : StartLibrary(components)
  \/ ProcessStep \/ Reads \/ Leaves

\* the process runs on; a request to a server ends, with an answer or an error; a reader that stays reads
Spec == Init /\ [][Next]_vars /\ WF_vars(ProcessStep) /\ WF_vars(Reads)

-----------------------------------------------------------------------------
(* Properties.                                                             *)

\* the status says whether the outcome arrived (cli.py:2-16): the outcome's own code with every byte of the receipt
\* taken, or 74 and not every byte; without an outcome nothing is on standard output.  The interpreter's own flush makes
\* it 120 only where a stream refused text and could not be pointed at /dev/null; where that was standard output, the
\* flush may still deliver the rest, and the status then tells less than what arrived.  A receipt of which a byte has
\* been written, and a status of 0, tell of a record in the ledger
StatusTellsDelivery ==
  /\ step = "ended" /\ cmd # "library" =>
       /\ status = 120 => errLeft \/ silenced = "failed"
       /\ IF computed
          THEN \/ status = code /\ sent = Stream(out.prior)
               \/ status \in {EX_IOERR, 120} /\ (silenced # "failed" => sent # Stream(out.prior))
          ELSE status \in {1, 2, EX_IOERR, 120} /\ sent = <<>>
  /\ cmd \in Recording /\ Len(sent) > out.prior => recorded
  /\ cmd \in Recording /\ step = "ended" /\ status = 0 => recorded

\* a record that names a catalogue names one that lists the id, and says exploited (cli.py:344-355)
NamedIsListed == recorded /\ label \in Catalogues => wanted \in Listed[label] /\ exploited

\* ... and `feeds` exits 0 only when OSV's control has shown a CVE and both catalogues their control (feeds.py:9-10)
FeedsBelieved ==
  /\ NamedIsListed
  /\ cmd = "feeds" /\ step = "receipt" /\ at = "idle" /\ code = 0 =>
       /\ served[1] \cap Cves # {} /\ (unread = {} \/ emptied)
       /\ \A f \in Catalogues : Control \in loaded[f].ids

\* every process that starts ends: no receipt, no list of pages and no refusal keeps it for ever
Exits == (step \notin {"idle", "ended"}) ~> (step = "ended")
=============================================================================

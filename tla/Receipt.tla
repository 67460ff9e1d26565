-------------------------------- MODULE Receipt --------------------------------
(***************************************************************************)
(* The receipt writer of the command line (_write_all and what it calls,   *)
(* cra_evidence/cli.py): one text, on whatever standard output the process *)
(* was given.  A byte is its position in Stream, the bytes the caller left *)
(* unflushed followed by the receipt.                                      *)
(***************************************************************************)
EXTENDS Naturals, Sequences

CONSTANTS
  Prior,   \* bytes a caller in the same process may have left unflushed
  Size,    \* bytes of the receipt
  Buffer,  \* bytes the buffered writer below the text layer holds
  Room     \* bytes the reader's pipe, or the disk, takes at most before it is full

ASSUME SizesAssumption ==
  /\ Prior \in Nat /\ Size \in Nat \ {0}
  /\ Buffer \in Nat \ {0} /\ Prior <= Buffer /\ Room \in Nat \ {0}

VARIABLES
  out,    \* what standard output is; known once the writer looks at it
  room,   \* bytes its sink takes now
  gone,   \* its reader has left, or the descriptor is closed
  sent,   \* bytes the sink has taken
  held,   \* bytes in the buffered writer
  rest,   \* the receipt from the first byte not known to be taken (data)
  took,   \* how many of rest the write in progress has taken
  at      \* where the writer is

receiptVars == <<out, room, gone, sent, held, rest, took, at>>

Bytes(m, n) == [i \in 1..(n - m) |-> m + i]
Stream(p) == Bytes(0, p + Size)

\* layer: none (descriptor 1 closed at start), text (no bytes below it), raw (-u) or buffered; a pipe may be
\* non-blocking, and then such that select cannot wait for it; encodes: the text has an encoding in it
Pipes == {"pipe", "nonblocking", "unwaitable"}
Outputs ==
  [layer : {"none", "text"}, sink : {"pipe"}, encodes : {TRUE}, prior : {0}]
    \cup [layer : {"raw"}, sink : Pipes \cup {"file"}, encodes : BOOLEAN, prior : {0}]
    \cup [layer : {"buffered"}, sink : Pipes \cup {"file"}, encodes : BOOLEAN, prior : 0..Prior]

Unknown == [layer |-> "unknown", sink |-> "pipe", encodes |-> TRUE, prior |-> 0]

ReceiptInit ==
  /\ out = Unknown /\ room = 0 /\ gone = FALSE
  /\ sent = <<>> /\ held = <<>> /\ rest = <<>> /\ took = 0
  /\ at = "idle"

Prefix(s, n) == SubSeq(s, 1, n)
Without(s, n) == SubSeq(s, n + 1, Len(s))
Left == Len(rest) - took   \* what the write in progress has still to take

-----------------------------------------------------------------------------
(* The writer.  A step that ends it sets at to "whole" or "lost".          *)

Ended == {"whole", "lost"}
Busy == {"pending", "write", "waiting", "flush", "flushwait", "pendwait"}

\* sys.stdout as it is: closed, a text stream alone, or a stream of bytes
Begin(o, r, g) ==
  /\ at = "idle"
  /\ out' = o /\ room' = r /\ gone' = g
  /\ held' = Bytes(0, o.prior) /\ rest' = Bytes(o.prior, o.prior + Size) /\ took' = 0
  /\ at' = CASE o.layer = "none" -> "lost"
             [] o.layer = "text" -> "whole"
             [] OTHER -> "pending"
  /\ sent' = IF o.layer = "text" THEN rest' ELSE <<>>

\* the kernel takes the first k bytes the buffered writer holds
Drain(k) ==
  /\ \/ at \in {"pending", "flush"}
     \/ at = "write" /\ Left > Buffer - Len(held)
  /\ ~gone /\ k \in 1..room /\ k <= Len(held)
  /\ sent' = sent \o Prefix(held, k) /\ held' = Without(held, k) /\ room' = room - k
  /\ UNCHANGED <<out, gone, rest, took, at>>

\* what the caller had left is flushed; the receipt's bytes can be made, or not
PendingDone ==
  /\ at = "pending" /\ held = <<>>
  /\ at' = IF out.encodes THEN "write" ELSE "lost"
  /\ UNCHANGED <<out, room, gone, sent, held, rest, took>>

\* buf.write on the buffered writer copies what fits; when all fits it returns
Take(k) ==
  /\ at = "write" /\ out.layer = "buffered"
  /\ k \in 1..Left /\ k <= Buffer - Len(held)
  /\ held' = held \o SubSeq(rest, took + 1, took + k)
  /\ took' = took + k
  /\ UNCHANGED <<out, room, gone, sent, rest, at>>

Wrote ==
  /\ at = "write" /\ Left = 0
  /\ rest' = <<>> /\ took' = 0 /\ at' = "flush"
  /\ UNCHANGED <<out, room, gone, sent, held>>

\* a raw write takes k bytes and returns the count
WriteRaw(k) ==
  /\ at = "write" /\ out.layer = "raw" /\ ~gone
  /\ k \in 1..room /\ k <= Len(rest)
  /\ sent' = sent \o Prefix(rest, k) /\ rest' = Without(rest, k) /\ room' = room - k
  /\ UNCHANGED <<out, gone, held, took, at>>

Waits == out.sink # "unwaitable"
Full == out.sink \in {"nonblocking", "unwaitable"} /\ ~gone /\ room = 0

\* faulty: a write that would block is taken for one that took nothing
ForgetsTaken ==
  /\ Full /\ at = "write" /\ Left > 0
  /\ out.layer = "buffered" => Len(held) = Buffer
  /\ rest' = rest /\ took' = 0
  /\ at' = IF Waits THEN "waiting" ELSE "lost"
  /\ UNCHANGED <<out, room, gone, sent, held>>

\* the write would block: BlockingIOError says how many bytes were taken, a raw write returns None
WouldBlock ==
  /\ Full /\ at = "write" /\ Left > 0
  /\ out.layer = "buffered" => Len(held) = Buffer
  /\ rest' = Without(rest, took) /\ took' = 0
  /\ at' = IF Waits THEN "waiting" ELSE "lost"
  /\ UNCHANGED <<out, room, gone, sent, held>>

\* faulty: a flush that would block is not waited for
FlushGivesUp ==
  /\ Full /\ at \in {"pending", "flush"} /\ held # <<>>
  /\ at' = "lost"
  /\ UNCHANGED <<out, room, gone, sent, held, rest, took>>

\* a flush would block, before the receipt or after it
FlushBlocks ==
  /\ Full /\ at \in {"pending", "flush"} /\ held # <<>>
  /\ at' = IF ~Waits THEN "lost" ELSE IF at = "pending" THEN "pendwait" ELSE "flushwait"
  /\ UNCHANGED <<out, room, gone, sent, held, rest, took>>

\* select returns: there is room, or the reader has left
Writable ==
  /\ (room > 0 \/ gone)
  /\ \/ at = "waiting" /\ at' = "write"
     \/ at = "pendwait" /\ at' = "pending"
     \/ at = "flushwait" /\ at' = "flush"
  /\ UNCHANGED <<out, room, gone, sent, held, rest, took>>

FlushDone ==
  /\ at = "flush" /\ held = <<>>
  /\ at' = "whole"
  /\ UNCHANGED <<out, room, gone, sent, held, rest, took>>

\* the system refuses the bytes: EPIPE, EBADF, a full disk
Fails ==
  /\ \/ at \in {"pending", "flush"} /\ held # <<>>
     \/ at = "write" /\ (IF out.layer = "raw" THEN Left > 0 ELSE Left > Buffer - Len(held))
  /\ \/ gone
     \/ out.sink = "file" /\ room = 0
  /\ at' = "lost"
  /\ UNCHANGED <<out, room, gone, sent, held, rest, took>>

\* after the writer has given up, the interpreter flushes what is held: a pipe that could not be waited for may have
\* been read since, any other sink refuses it
LastFlush(k) ==
  /\ at = "lost"
  /\ k \in 0..Len(held) /\ (k > 0 => out.sink = "unwaitable" /\ ~gone)
  /\ sent' = sent \o Prefix(held, k) /\ held' = Without(held, k)
  /\ at' = "over"
  /\ UNCHANGED <<out, room, gone, rest, took>>

WriterStep ==
  \/ \E k \in 1..(Buffer + Size + Room) : Drain(k) \/ Take(k) \/ WriteRaw(k)
  \/ PendingDone \/ Wrote \/ WouldBlock \/ FlushBlocks \/ Writable \/ FlushDone \/ Fails

-----------------------------------------------------------------------------
(* The reader of a pipe.                                                   *)

ReaderReads(k) ==
  /\ at \in Busy /\ out.sink # "file" /\ ~gone
  /\ k \in 1..(Room - room)
  /\ room' = room + k
  /\ UNCHANGED <<out, gone, sent, held, rest, took, at>>

ReaderLeaves ==
  /\ at \in Busy /\ out.sink # "file" /\ ~gone
  /\ gone' = TRUE
  /\ UNCHANGED <<out, room, sent, held, rest, took, at>>

ReaderReadsSome == \E k \in 1..Room : ReaderReads(k)

BeginStep ==
  \E o \in Outputs, r \in 0..(Room + Prior + Size), g \in BOOLEAN :
    /\ o.sink # "file" => r <= Room
    /\ Begin(o, r, g)

-----------------------------------------------------------------------------
(* Properties.                                                             *)

ReceiptTypeOK ==
  /\ out \in Outputs \cup {Unknown} /\ room \in Nat /\ gone \in BOOLEAN
  /\ sent \in Seq(Nat) /\ held \in Seq(Nat) /\ rest \in Seq(Nat)
  /\ Len(held) <= Buffer /\ took \in 0..Len(rest)
  /\ at \in {"idle", "over"} \cup Busy \cup Ended

\* what standard output has taken is a part of the text from its first byte on: nothing is missing inside it,
\* nothing is written twice (cli.py:111-121); and a receipt that is whole is there to the last byte
InOrder ==
  /\ Len(sent) <= out.prior + Size
  /\ sent = Prefix(Stream(out.prior), Len(sent))
  /\ at = "whole" => sent = Stream(out.prior)

\* a slow reader is waited for (README.md:137, cli.py:92): a receipt is lost only to a stream that is closed, full
\* for good, cannot be waited for or cannot say the text
SlowIsNotLost ==
  at = "lost" =>
    \/ out.layer = "none" \/ ~out.encodes \/ gone
    \/ out.sink = "file" /\ room = 0
    \/ ~Waits
=============================================================================

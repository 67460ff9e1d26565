------------------------------ MODULE AppendLog ------------------------------
(***************************************************************************)
(* What the ledger promises its users, whatever processes append to it and *)
(* whatever fails: a hash chain whose first `kept` entries, the ones some  *)
(* append has answered for, never change.  What follows them is not yet    *)
(* promised: it may be withdrawn, or differ after a power cut.             *)
(***************************************************************************)
EXTENDS Entries

VARIABLES
  log,    \* the entries the ledger shows, in order
  kept    \* how many of them are promised

Init == log = <<>> /\ kept = 0

\* what is not promised yet comes, goes or is replaced; it is always a chain
Revise ==
  /\ log' \in Seq(Entry)
  /\ Len(log') >= kept
  /\ SubSeq(log', 1, kept) = SubSeq(log, 1, kept)
  /\ IsChain(log')
  /\ UNCHANGED kept

\* the entries up to one that shows are promised
Keep ==
  /\ kept' \in (kept + 1)..Len(log)
  /\ UNCHANGED log

Next == Revise \/ Keep

Spec == Init /\ [][Next]_<<log, kept>>
=============================================================================

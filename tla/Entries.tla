------------------------------- MODULE Entries -------------------------------
(***************************************************************************)
(* The entries of a ledger and their hashes (cra_evidence/ledger.py).      *)
(***************************************************************************)
EXTENDS Integers, Sequences

CONSTANT Data       \* what a record says, its time stamp included

(* A digest is the sequence of the bodies it commits to, oldest first, so  *)
(* two entries have one self_hash only if they and all their predecessors  *)
(* are equal: SHA3-256 without collisions.                                 *)
Digest == Seq(Nat \X Data)
GENESIS == <<>>

Entry == [idx : Nat, prev : Digest, data : Data]

\* entry_hash: an entry's self_hash; the program writes no other
SelfHash(e) == Append(e.prev, <<e.idx, e.data>>)

\* every entry of s has its place as idx and the hash of the one before it
IsChain(s) ==
  \A k \in 1..Len(s) :
    /\ s[k].idx = k - 1
    /\ s[k].prev = IF k = 1 THEN GENESIS ELSE SelfHash(s[k-1])
=============================================================================

------------------------------ MODULE LongTerm -------------------------------
(***************************************************************************)
(* The long-term seal (cra_evidence/longterm.py) and what the locker adds  *)
(* to it (locker.py, seal_longterm): a chain of archive time stamps over   *)
(* the digest of a pack, renewed while its algorithms still stand.  A      *)
(* keeper maintains one chain by asking renewal_due; anybody may seal or   *)
(* renew with other arguments; verify is asked of any chain at any time.   *)
(* Instants are numbers; a signature is the key and what it signs; the     *)
(* third party's token is the instant it states.                           *)
(***************************************************************************)
EXTENDS Naturals, Sequences, FiniteSets

CONSTANTS
  Algs,        \* the signature algorithms of REGISTRY
  Hashes,      \* the hashes of HASHES
  DefaultHash, \* DEFAULT_HASH: the locker seals with no other
  Policies,    \* AlgorithmPolicy.broken_after: partial functions to instants
  Digests,     \* digests of packs
  Keys,        \* the keys that stay with their owner
  Ephemerals,  \* the keys a Signer without a key makes for itself
  Trusted,     \* trusted_pubs
  Margin,      \* the `margin` renewal_due is asked with
  Interval,    \* the longest time between two questions of the keeper
  Horizon,     \* bound: the last instant
  MaxSeals     \* bound: chains recorded before the others stop sealing

Instants == 0..Horizon
Pubs == Keys \cup Ephemerals
NoToken == {}
Token(t) == {t}

ASSUME LongTermAssumption ==
  /\ DefaultHash \in Hashes
  /\ Trusted \subseteq Keys
  /\ Margin \in Nat /\ Interval \in Nat /\ Horizon \in Nat /\ MaxSeals \in Nat
  /\ \A p \in Policies : DOMAIN p \subseteq Algs \cup Hashes
                         /\ \A a \in DOMAIN p : p[a] \in Nat

VARIABLES
  now,       \* the clock
  policy,    \* the policy of this deployment
  recorded,  \* the chains of the cra_longterm_seal records of the ledger
  kept       \* the chain the keeper maintains (LongTermEvidence)

vars == <<now, policy, recorded, kept>>

-----------------------------------------------------------------------------
(* One chain.                                                              *)

\* A record without its signature; asserted times have no token
Fields == [alg : Algs, hash : Hashes, t : Nat, pub : Pubs,
           token : SUBSET Nat, ephemeral_key : BOOLEAN]
Own(r) == [alg |-> r.alg, hash |-> r.hash, t |-> r.t, pub |-> r.pub,
           token |-> r.token, ephemeral_key |-> r.ephemeral_key]

\* faulty: the record's own fields are not signed
MsgWithoutOwn(digest, before, own) == <<own.hash, digest, before>>

\* What record i signs: the digest, every record before it, its own fields
Msg(digest, before, own) == <<own.hash, digest, before, own>>

With(own, sig) ==
  [alg |-> own.alg, hash |-> own.hash, t |-> own.t, pub |-> own.pub,
   token |-> own.token, ephemeral_key |-> own.ephemeral_key, sig |-> sig]

Signed(lte, own) ==
  With(own, <<own.pub, Msg(lte.evidence_digest, lte.records, own)>>)

Unsealed(d) == [evidence_digest |-> d, records |-> <<>>]

\* LongTermEvidence.seal
Seal(lte, own) == [lte EXCEPT !.records = Append(@, Signed(lte, own))]

Outer(lte) == lte.records[Len(lte.records)]
Uses(r) == {r.alg, r.hash}

TrustedAt(a, t) == a \in DOMAIN policy => t < policy[a]
StandsAt(r, t) == \A a \in Uses(r) : TrustedAt(a, t)

\* faulty: due only after the expiry is reached
RenewalDueLate(lte) ==
  /\ lte.records # <<>>
  /\ \E a \in Uses(Outer(lte)) \cap DOMAIN policy : now + Margin > policy[a]

\* faulty: the hash of the outer record is not looked at
RenewalDueByAlg(lte) ==
  /\ lte.records # <<>>
  /\ \E a \in {Outer(lte).alg} \cap DOMAIN policy : now + Margin >= policy[a]

(* renewal_due: the earliest expiry of the outer record's two algorithms   *)
RenewalDue(lte) ==
  /\ lte.records # <<>>
  /\ \E a \in Uses(Outer(lte)) \cap DOMAIN policy : now + Margin >= policy[a]

(* verify, asked at an instant with an oracle for the times or without,    *)
(* with trusted_pubs or without: one conjunct for each group of reasons.   *)
Pinned(lte) ==
  /\ lte.records[1].pub \in Trusted
  /\ \A i \in DOMAIN lte.records : ~ lte.records[i].ephemeral_key

SignatureHolds(lte, i) ==
  LET r == lte.records[i]
  IN  r.sig = <<r.pub, Msg(lte.evidence_digest, SubSeq(lte.records, 1, i - 1), Own(r))>>

\* timestamp_trust_fn: the token states the time of the record
Attested(r) == r.token = Token(r.t)

TimesHold(lte, oracle) ==
  IF oracle THEN \A i \in DOMAIN lte.records : Attested(lte.records[i])
            ELSE Len(lte.records) = 1

Monotonic(lte) ==
  \A i \in 2..Len(lte.records) : lte.records[i].t >= lte.records[i - 1].t

\* faulty: each record is judged at its own time
StoodWhenMade(lte) ==
  \A i \in 1..Len(lte.records) - 1 : StandsAt(lte.records[i], lte.records[i].t)

RenewedInTime(lte) ==
  \A i \in 1..Len(lte.records) - 1 : StandsAt(lte.records[i], lte.records[i + 1].t)

Verified(lte, at, oracle, pinned) ==
  /\ lte.records # <<>>
  /\ pinned => Pinned(lte)
  /\ \A i \in DOMAIN lte.records : SignatureHolds(lte, i)
  /\ TimesHold(lte, oracle)
  /\ Monotonic(lte)
  /\ StandsAt(Outer(lte), at)
  /\ RenewedInTime(lte)

-----------------------------------------------------------------------------
(* The locker and its users.                                               *)

Init ==
  /\ now = 0
  /\ policy \in Policies
  /\ recorded = {}
  /\ \E d \in Digests : kept = Unsealed(d)

\* seal_longterm(previous = lte): any algorithm and key, a time the caller
\* states or the one of a token obtained before.  The digest is anchored or
\* external_digest is given; previous is over the same digest.
SealLongterm(lte, alg, pub, t, token) ==
  /\ Cardinality(recorded) < MaxSeals
  /\ token = NoToken \/ t <= now
  /\ recorded' = recorded \cup
       {Seal(lte, [alg |-> alg, hash |-> DefaultHash, t |-> t, pub |-> pub,
                   token |-> token, ephemeral_key |-> pub \in Ephemerals])}
  /\ UNCHANGED <<now, policy, kept>>

\* The keeper seals now, with a token, with algorithms that are not due
KeepWith(alg, hash, pub) ==
  LET sealed == Seal(kept, [alg |-> alg, hash |-> hash, t |-> now, pub |-> pub,
                            token |-> Token(now), ephemeral_key |-> FALSE])
  IN  /\ \A a \in {alg, hash} \cap DOMAIN policy : now + Margin < policy[a]
      /\ kept' = sealed
      /\ recorded' = recorded \cup {sealed}
      /\ UNCHANGED <<now, policy>>

KeepFirst(alg, hash, pub) ==
  /\ kept.records = <<>>
  /\ pub \in Trusted
  /\ KeepWith(alg, hash, pub)

KeepRenew(alg, hash, pub) ==
  /\ RenewalDue(kept)
  /\ KeepWith(alg, hash, pub)

\* The keeper answers a due renewal before it lets time go on
Tick(later) ==
  /\ later > now
  /\ later - now <= Interval
  /\ ~ RenewalDue(kept)
  /\ now' = later
  /\ UNCHANGED <<policy, recorded, kept>>

Next ==
  \/ \E alg \in Algs, pub \in Pubs, t \in Instants,
        lte \in recorded \cup {Unsealed(d) : d \in Digests} :
          \E token \in {NoToken, Token(t)} : SealLongterm(lte, alg, pub, t, token)
  \/ \E alg \in Algs, hash \in Hashes, pub \in Keys :
       KeepFirst(alg, hash, pub) \/ KeepRenew(alg, hash, pub)
  \/ \E later \in Instants : Tick(later)

Spec == Init /\ [][Next]_vars

-----------------------------------------------------------------------------
(* What a verifier may be shown: a recorded chain, or one that was changed *)
(* in one place on its way: over another digest, a field rewritten, a      *)
(* record dropped, two of them swapped, one of another chain put at its    *)
(* end.                                                                    *)
Rewritten(r) ==
  {[r EXCEPT !.t = u] : u \in Instants} \cup {[r EXCEPT !.token = Token(u)] : u \in Instants}
  \cup {[r EXCEPT !.t = u, !.token = Token(u)] : u \in Instants}
  \cup {[r EXCEPT !.alg = a] : a \in Algs} \cup {[r EXCEPT !.hash = h] : h \in Hashes}

ChangedRecords(s) ==
  (UNION {{[s EXCEPT ![i] = r] : r \in Rewritten(s[i])} : i \in DOMAIN s})
  \cup {SubSeq(s, 1, i - 1) \o SubSeq(s, i + 1, Len(s)) : i \in DOMAIN s}
  \cup {[s EXCEPT ![i] = s[i + 1], ![i + 1] = s[i]] : i \in 1..Len(s) - 1}
  \cup {Append(s, Outer(other)) : other \in recorded}

Changed(lte) ==
  {[evidence_digest |-> d, records |-> lte.records] : d \in Digests}
  \cup {[evidence_digest |-> lte.evidence_digest, records |-> s] :
           s \in ChangedRecords(lte.records)}

Shown == recorded \cup (UNION {Changed(lte) : lte \in recorded})

-----------------------------------------------------------------------------
IsSequence(s) == s \in Seq({s[i] : i \in DOMAIN s})
IsLTE(lte) ==
  /\ lte = [evidence_digest |-> lte.evidence_digest, records |-> lte.records]
  /\ lte.evidence_digest \in Digests
  /\ IsSequence(lte.records)
  /\ \A i \in DOMAIN lte.records :
       Own(lte.records[i]) \in Fields
       /\ lte.records[i] = With(Own(lte.records[i]), lte.records[i].sig)

\* Type invariant of the seal chains.
SealTypeOK ==
  /\ now \in Nat
  /\ policy \in Policies
  /\ \A lte \in recorded \cup {kept} : IsLTE(lte)
  /\ \A lte \in recorded : lte.records # <<>>

\* A chain that verifies, with an oracle or without, is one that somebody
\* sealed: no time, token or algorithm of it is rewritten, no record of it
\* dropped, moved or grafted from elsewhere (longterm.py, _msg).
VerifiedIsRecorded ==
  \A lte \in Shown, oracle \in BOOLEAN :
    Verified(lte, now, oracle, FALSE) => lte \in recorded

\* When a chain verifies with an oracle, the evidence was covered without a
\* gap: at each instant since the first seal, a record was there already
\* whose signature algorithm and hash both stood (longterm.py, verify).
CoverUnbroken ==
  \A lte \in Shown :
    Verified(lte, now, TRUE, FALSE) =>
      \A u \in lte.records[1].t..now :
        \E i \in DOMAIN lte.records :
          lte.records[i].t <= u /\ StandsAt(lte.records[i], u)

\* The keeper who renews when renewal_due says so has a chain that verifies
\* at every instant, by an oracle and with its key pinned.
KeptVerifies ==
  kept.records # <<>> => Verified(kept, now, TRUE, TRUE)

\* A chain that verifies and is not due verifies until the margin is over:
\* renewal_due looks at all that verify will (longterm.py, renewal_due).
NotDueStands ==
  \A lte \in recorded, oracle \in BOOLEAN :
    Verified(lte, now, oracle, FALSE) /\ ~ RenewalDue(lte) =>
      \A u \in now..now + Margin : Verified(lte, u, oracle, FALSE)
=============================================================================

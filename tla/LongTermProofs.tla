--------------------------- MODULE LongTermProofs ----------------------------
(***************************************************************************)
(* The seal chains for every set of algorithms, policy, margin and length: *)
(* what verify accepts with an oracle covered the evidence without a gap,  *)
(* and a keeper who asks renewal_due at least once every margin holds a    *)
(* chain that verifies for ever.                                           *)
(***************************************************************************)
EXTENDS LongTerm, FiniteSetTheorems, SequenceTheorems,
        WellFoundedInduction, TLAPS

USE LongTermAssumption

-----------------------------------------------------------------------------
(* A finite set of positions has a last one.                               *)
LEMMA LastPosition ==
  ASSUME NEW n \in Nat, NEW T \in SUBSET (1..n), T # {}
  PROVE  \E x \in T : \A y \in T : y <= x
<1> DEFINE R == StrictSubsetOrdering(1..n)
           F == {Y \in SUBSET (1..n) : \E x \in T : Y = x..n}
<1>1. IsWellFoundedOn(R, SUBSET (1..n))
  <2>1. IsFiniteSet(1..n)
    BY FS_Interval
  <2> QED BY <2>1, FS_FiniteSubsetsOfFinite, FS_StrictSubsetOrderingWellFounded
<1>2. F \subseteq SUBSET (1..n) /\ \A x \in T : x..n \in F
  OBVIOUS
<1>3. PICK Y \in F : \A Z \in F : ~ (<<Z, Y>> \in R)
  <2>1. F # {}
    BY <1>2
  <2> HIDE DEF R, F
  <2> QED BY <1>1, <1>2, <2>1, WFMin
<1>4. PICK x \in T : Y = x..n
  OBVIOUS
<1>5. \A y \in T : y <= x
  <2> SUFFICES ASSUME NEW y \in T, y > x
               PROVE  FALSE
    OBVIOUS
  <2>1. y..n \in F /\ x..n \in F
    BY <1>2
  <2>2. y..n \subseteq x..n /\ x \in x..n /\ ~ (x \in y..n)
    OBVIOUS
  <2>3. <<y..n, x..n>> \in R
    BY <2>1, <2>2, <1>2 DEF StrictSubsetOrdering
  <2> QED BY <2>1, <2>3, <1>3, <1>4
<1> QED BY <1>5

-----------------------------------------------------------------------------
(* What verify accepts, of any chain whose times are instants.             *)
Timed(lte) ==
  /\ Len(lte.records) \in Nat
  /\ DOMAIN lte.records = 1..Len(lte.records)
  /\ lte.records # <<>> => Len(lte.records) # 0
  /\ \A i \in DOMAIN lte.records : lte.records[i].t \in Nat

Environment == now \in Nat /\ policy \in Policies

\* an algorithm that is trusted at an instant was trusted before
LEMMA TrustOnlyEnds ==
  ASSUME Environment, NEW r, NEW u \in Nat, NEW v \in Nat, u <= v, StandsAt(r, v)
  PROVE  StandsAt(r, u)
<1> SUFFICES ASSUME NEW a \in Uses(r), a \in DOMAIN policy
             PROVE  u < policy[a]
  BY DEF StandsAt, TrustedAt
<1>1. v < policy[a]
  BY DEF StandsAt, TrustedAt
<1>2. policy[a] \in Nat
  BY DEF Environment
<1> QED BY <1>1, <1>2

(* At an instant between the first seal and now, the last record made by   *)
(* then stands: the renewal after it came later and in time, or it is the  *)
(* outer one and stands now.                                               *)
LEMMA Covered ==
  ASSUME Environment, NEW lte, Timed(lte), Verified(lte, now, TRUE, FALSE),
         NEW u \in lte.records[1].t..now
  PROVE  \E i \in DOMAIN lte.records :
           lte.records[i].t <= u /\ StandsAt(lte.records[i], u)
<1> DEFINE n == Len(lte.records)
           T == {i \in 1..n : lte.records[i].t <= u}
<1>1. n \in Nat /\ n # 0 /\ DOMAIN lte.records = 1..n
  BY DEF Timed, Verified
<1>2. u \in Nat /\ now \in Nat /\ lte.records[1].t <= u /\ u <= now
  BY <1>1 DEF Timed, Environment
<1>3. PICK x \in T : \A y \in T : y <= x
  <2>1. 1 \in T
    BY <1>1, <1>2
  <2> QED BY <1>1, <2>1, LastPosition
<1>4. x \in 1..n /\ lte.records[x].t <= u
  OBVIOUS
<1>5. CASE x = n
  <2>1. StandsAt(lte.records[n], now)
    BY DEF Verified, Outer
  <2> QED BY <1>1, <1>2, <1>4, <1>5, <2>1, TrustOnlyEnds
<1>6. CASE x # n
  <2>1. x \in 1..n - 1 /\ x + 1 \in 1..n
    BY <1>1, <1>4, <1>6
  <2>2. lte.records[x + 1].t \in Nat
    BY <1>1, <2>1 DEF Timed
  <2>3. ~ (lte.records[x + 1].t <= u)
    <3>1. x + 1 \in T => x + 1 <= x
      BY <1>3
    <3> QED BY <2>1, <3>1
  <2>4. StandsAt(lte.records[x], lte.records[x + 1].t)
    BY <2>1 DEF Verified, RenewedInTime
  <2>5. StandsAt(lte.records[x], u)
    BY <1>2, <2>2, <2>3, <2>4, TrustOnlyEnds
  <2> QED BY <1>1, <1>4, <2>5
<1> QED BY <1>5, <1>6

-----------------------------------------------------------------------------
(* Sealing adds one record to a chain and leaves the others.               *)
LEMMA Sequences ==
  ASSUME NEW s, IsSequence(s)
  PROVE  /\ Len(s) \in Nat
         /\ DOMAIN s = 1..Len(s)
         /\ s # <<>> => Len(s) # 0
  BY DEF IsSequence

LEMMA SequenceOfAny ==
  ASSUME NEW S, NEW s \in Seq(S)
  PROVE  IsSequence(s)
<1>1. s \in Seq(Range(s))
  BY SeqOfRange
<1>2. Range(s) = {s[i] : i \in DOMAIN s}
  BY DEF Range
<1> QED BY <1>1, <1>2 DEF IsSequence

LEMMA Sealed ==
  ASSUME NEW lte, IsLTE(lte), NEW own
  PROVE  LET new == Seal(lte, own)
             n == Len(lte.records)
         IN  /\ new = [evidence_digest |-> lte.evidence_digest, records |-> new.records]
             /\ new.evidence_digest = lte.evidence_digest
             /\ new.records = Append(lte.records, Signed(lte, own))
             /\ IsSequence(new.records)
             /\ Len(new.records) = n + 1
             /\ new.records # <<>>
             /\ \A i \in 1..n : new.records[i] = lte.records[i]
             /\ new.records[n + 1] = Signed(lte, own)
             /\ \A k \in 0..n : SubSeq(new.records, 1, k) = SubSeq(lte.records, 1, k)
             /\ SubSeq(new.records, 1, n) = lte.records
<1> DEFINE new == Seal(lte, own)
           n == Len(lte.records)
           e == Signed(lte, own)
           S == {lte.records[i] : i \in DOMAIN lte.records} \cup {e}
<1>1. lte = [evidence_digest |-> lte.evidence_digest, records |-> lte.records]
  BY DEF IsLTE
<1>2. /\ new = [evidence_digest |-> lte.evidence_digest, records |-> new.records]
      /\ new.evidence_digest = lte.evidence_digest
      /\ new.records = Append(lte.records, e)
  <2> HIDE DEF e
  <2>1. Seal(lte, own) = [lte EXCEPT !.records = Append(lte.records, e)]
    BY DEF Seal, e
  <2>2. Seal(lte, own) = [evidence_digest |-> lte.evidence_digest,
                          records |-> Append(lte.records, e)]
    BY <1>1, <2>1
  <2> QED BY <2>2
<1>3. lte.records \in Seq(S) /\ e \in S
  <2>1. lte.records \in Seq({lte.records[i] : i \in DOMAIN lte.records})
    BY DEF IsLTE, IsSequence
  <2> QED BY <2>1, SeqMonotonic
<1>4. n \in Nat
  BY <1>3
<1> HIDE DEF new, n, S, e
<1>5. /\ new.records \in Seq(S)
      /\ Len(new.records) = n + 1
      /\ new.records # <<>>
      /\ \A i \in 1..n : new.records[i] = lte.records[i]
      /\ new.records[n + 1] = e
  BY <1>2, <1>3, AppendProperties DEF n
<1>6. IsSequence(new.records)
  BY <1>5, SequenceOfAny
<1>7. \A k \in 0..n : SubSeq(new.records, 1, k) = SubSeq(lte.records, 1, k)
  <2> TAKE k \in 0..n
  <2>1. \A i \in 1..k : new.records[i] \in S /\ lte.records[i] \in S
                      /\ new.records[i] = lte.records[i]
    BY <1>3, <1>4, <1>5 DEF n
  <2>2. /\ SubSeq(new.records, 1, k) \in Seq(S) /\ SubSeq(lte.records, 1, k) \in Seq(S)
        /\ Len(SubSeq(new.records, 1, k)) = Len(SubSeq(lte.records, 1, k))
        /\ \A i \in 1..Len(SubSeq(new.records, 1, k)) :
             SubSeq(new.records, 1, k)[i] = SubSeq(lte.records, 1, k)[i]
    BY <1>3, <1>4, <1>5, <2>1 DEF n
  <2> QED BY <2>2, SeqEqual
<1>8. SubSeq(lte.records, 1, n) = lte.records
  BY <1>3, SubSeqFull DEF n
<1>9. SubSeq(new.records, 1, n) = lte.records
  BY <1>4, <1>7, <1>8
<1> QED BY <1>2, <1>4, <1>5, <1>6, <1>7, <1>9 DEF new, n, e

-----------------------------------------------------------------------------
(* Types.                                                                  *)
LEMMA SealedTyped ==
  ASSUME NEW lte, IsLTE(lte), NEW own \in Fields
  PROVE  IsLTE(Seal(lte, own))
<1> DEFINE new == Seal(lte, own)
           n == Len(lte.records)
<1>1. n \in Nat /\ DOMAIN lte.records = 1..n
  BY Sequences DEF IsLTE
<1>2. DOMAIN new.records = 1..n + 1
  BY Sealed, Sequences
<1>3. ASSUME NEW i \in 1..n + 1
      PROVE  Own(new.records[i]) \in Fields
             /\ new.records[i] = With(Own(new.records[i]), new.records[i].sig)
  <2>1. CASE i \in 1..n
    <3>1. new.records[i] = lte.records[i]
      BY <2>1, Sealed
    <3> QED BY <1>1, <2>1, <3>1 DEF IsLTE
  <2>2. CASE i = n + 1
    <3>1. new.records[i] = Signed(lte, own)
      BY <2>2, Sealed
    <3>2. Own(Signed(lte, own)) = own
      BY DEF Own, Signed, With, Fields
    <3>3. Signed(lte, own) = With(own, Signed(lte, own).sig)
      BY DEF Signed, With
    <3> QED BY <3>1, <3>2, <3>3
  <2>3. i \in 1..n \/ i = n + 1
    <3> HIDE DEF n
    <3> QED BY <1>1
  <2> QED BY <2>1, <2>2, <2>3, Zenon
<1>4. lte.evidence_digest \in Digests
  BY DEF IsLTE
<1>5. /\ new = [evidence_digest |-> new.evidence_digest, records |-> new.records]
      /\ new.evidence_digest \in Digests
      /\ IsSequence(new.records)
  BY <1>4, Sealed
<1> HIDE DEF new
<1> QED BY <1>2, <1>3, <1>5 DEF IsLTE, new

LEMMA UnsealedTyped ==
  ASSUME NEW d \in Digests
  PROVE  IsLTE(Unsealed(d))
<1>1. IsSequence(<<>>)
  BY EmptySeq, SequenceOfAny
<1> QED BY <1>1 DEF IsLTE, Unsealed

(* Every variable of the seal chains stays in its set.                     *)
LEMMA TypeStep ==
  ASSUME SealTypeOK, [Next]_vars
  PROVE  SealTypeOK'
<1> USE DEF SealTypeOK
<1>1. ASSUME NEW alg \in Algs, NEW pub \in Pubs, NEW t \in Instants,
             NEW lte \in recorded \cup {Unsealed(d) : d \in Digests},
             NEW token \in {NoToken, Token(t)}, SealLongterm(lte, alg, pub, t, token)
      PROVE  SealTypeOK'
  <2> DEFINE own == [alg |-> alg, hash |-> DefaultHash, t |-> t, pub |-> pub,
                     token |-> token, ephemeral_key |-> pub \in Ephemerals]
  <2>1. own \in Fields
    BY DEF Fields, Instants, NoToken, Token
  <2>2. IsLTE(lte)
    BY UnsealedTyped
  <2>3. IsLTE(Seal(lte, own))
    BY <2>1, <2>2, SealedTyped
  <2>4. recorded' = recorded \cup {Seal(lte, own)} /\ UNCHANGED <<now, policy, kept>>
    BY <1>1 DEF SealLongterm
  <2> HIDE DEF own
  <2>5. \A c \in recorded' \cup {kept'} : IsLTE(c)
    BY <2>3, <2>4
  <2>6. \A c \in recorded' : c.records # <<>>
    BY <2>2, <2>4, Sealed
  <2> QED BY <2>4, <2>5, <2>6
<1>2. ASSUME NEW alg \in Algs, NEW hash \in Hashes, NEW pub \in Keys,
             KeepWith(alg, hash, pub)
      PROVE  SealTypeOK'
  <2> DEFINE own == [alg |-> alg, hash |-> hash, t |-> now, pub |-> pub,
                     token |-> Token(now), ephemeral_key |-> FALSE]
  <2>1. own \in Fields
    BY DEF Fields, Token, Pubs
  <2>2. IsLTE(Seal(kept, own))
    BY <2>1, SealedTyped
  <2>3. /\ kept' = Seal(kept, own)
        /\ recorded' = recorded \cup {Seal(kept, own)}
        /\ UNCHANGED <<now, policy>>
    BY <1>2 DEF KeepWith
  <2> HIDE DEF own
  <2>4. \A c \in recorded' \cup {kept'} : IsLTE(c)
    BY <2>2, <2>3
  <2>5. \A c \in recorded' : c.records # <<>>
    BY <2>3, Sealed
  <2> QED BY <2>3, <2>4, <2>5
<1>3. ASSUME NEW later \in Instants, Tick(later)
      PROVE  SealTypeOK'
  BY <1>3 DEF Tick, Instants
<1>4. CASE UNCHANGED vars
  BY <1>4 DEF vars
<1> QED BY <1>1, <1>2, <1>3, <1>4 DEF Next, KeepFirst, KeepRenew

(* Every clock, policy and chain stays in its set, whatever is sealed.     *)
THEOREM SealTyped == Spec => []SealTypeOK
<1>1. Init => SealTypeOK
  <2> SUFFICES ASSUME Init PROVE SealTypeOK
    OBVIOUS
  <2>1. IsLTE(kept)
    BY UnsealedTyped DEF Init
  <2> QED BY <2>1 DEF Init, SealTypeOK
<1>2. SealTypeOK /\ [Next]_vars => SealTypeOK'
  BY TypeStep
<1> QED BY <1>1, <1>2, PTL DEF Spec

-----------------------------------------------------------------------------
(* Every chain a verifier may be shown has instants for times.             *)
LEMMA TimedRecords ==
  ASSUME NEW lte, NEW S, lte.records \in Seq(S), \A r \in S : r.t \in Nat
  PROVE  Timed(lte)
  BY DEF Timed

LEMMA RecordedTimed ==
  ASSUME NEW lte, IsLTE(lte)
  PROVE  /\ lte.records \in Seq({lte.records[i] : i \in DOMAIN lte.records})
         /\ \A i \in DOMAIN lte.records : lte.records[i].t \in Nat
         /\ Timed(lte)
<1>1. lte.records \in Seq({lte.records[i] : i \in DOMAIN lte.records})
  BY DEF IsLTE, IsSequence
<1>2. \A i \in DOMAIN lte.records : lte.records[i].t \in Nat
  BY DEF IsLTE, Own, Fields
<1>3. \A r \in {lte.records[i] : i \in DOMAIN lte.records} : r.t \in Nat
  BY <1>2
<1> QED BY <1>1, <1>2, <1>3, TimedRecords

LEMMA RewrittenTimed ==
  ASSUME NEW lte, IsLTE(lte), NEW i \in DOMAIN lte.records,
         NEW r \in Rewritten(lte.records[i])
  PROVE  r.t \in Nat
<1>1. lte.records[i] = With(Own(lte.records[i]), lte.records[i].sig)
  BY DEF IsLTE
<1>2. lte.records[i].t \in Nat /\ Instants \subseteq Nat
  <2>1. lte.records[i].t \in Nat
    BY RecordedTimed
  <2>2. Instants \subseteq Nat
    BY DEF Instants
  <2> QED BY <2>1, <2>2
<1> DEFINE q == lte.records[i]
<1>3. q.t \in Nat /\ q = With(Own(q), q.sig)
  BY <1>1, <1>2
<1> HIDE DEF q
<1>4. \A u : [q EXCEPT !.t = u].t = u
  BY <1>3 DEF With
<1>5. \A u : [q EXCEPT !.token = u].t = q.t
  BY <1>3 DEF With
<1>6. \A u, v : [q EXCEPT !.t = u, !.token = v].t = u
  BY <1>3 DEF With
<1>7. \A u : [q EXCEPT !.alg = u].t = q.t /\ [q EXCEPT !.hash = u].t = q.t
  BY <1>3 DEF With
<1>8. r \in Rewritten(q)
  BY DEF q
<1>9. CASE \E u \in Instants : r = [q EXCEPT !.t = u]
  BY <1>2, <1>4, <1>9
<1>10. CASE \E u \in Instants : r = [q EXCEPT !.token = Token(u)]
  BY <1>3, <1>5, <1>10
<1>11. CASE \E u \in Instants : r = [q EXCEPT !.t = u, !.token = Token(u)]
  BY <1>2, <1>6, <1>11
<1>12. CASE \E a \in Algs : r = [q EXCEPT !.alg = a]
  BY <1>3, <1>7, <1>12
<1>13. CASE \E h \in Hashes : r = [q EXCEPT !.hash = h]
  BY <1>3, <1>7, <1>13
<1> QED BY <1>8, <1>9, <1>10, <1>11, <1>12, <1>13 DEF Rewritten

(* What a shown chain is made of: the records of the recorded chains and   *)
(* those with one field rewritten, each with the signature it was made     *)
(* with.                                                                   *)
Made == UNION {{lte.records[i] : i \in DOMAIN lte.records} : lte \in recorded}
Pieces == Made \cup UNION {Rewritten(r) : r \in Made}

LEMMA FieldRewritten ==
  ASSUME NEW w, w = With(Own(w), w.sig), NEW u, NEW r,
         \/ r = [w EXCEPT !.t = u]
         \/ r = [w EXCEPT !.token = u]
         \/ r = [w EXCEPT !.alg = u]
         \/ r = [w EXCEPT !.hash = u]
  PROVE  r = With(Own(r), r.sig) /\ r.sig = w.sig
<1> DEFINE Kept(v) == v = With(Own(v), v.sig) /\ v.sig = w.sig
<1>1. Kept([w EXCEPT !.t = u])
  BY DEF With, Own
<1>2. Kept([w EXCEPT !.token = u])
  BY DEF With, Own
<1>3. Kept([w EXCEPT !.alg = u])
  BY DEF With, Own
<1>4. Kept([w EXCEPT !.hash = u])
  BY DEF With, Own
<1> HIDE DEF Kept
<1>5. Kept(r)
  BY <1>1, <1>2, <1>3, <1>4
<1> QED BY <1>5 DEF Kept

LEMMA PieceOfRecord ==
  ASSUME SealTypeOK, NEW r \in Pieces
  PROVE  /\ r.t \in Nat
         /\ r = With(Own(r), r.sig)
         /\ \E lte \in recorded : \E i \in DOMAIN lte.records : r.sig = lte.records[i].sig
<1>1. PICK q \in Made : r = q \/ r \in Rewritten(q)
  BY DEF Pieces
<1>2. PICK lte \in recorded : \E i \in DOMAIN lte.records : q = lte.records[i]
  BY DEF Made
<1>3. PICK i \in DOMAIN lte.records : q = lte.records[i]
  BY <1>2
<1>4. IsLTE(lte)
  BY DEF SealTypeOK
<1>5. q.t \in Nat /\ q = With(Own(q), q.sig)
  BY <1>3, <1>4, RecordedTimed DEF IsLTE
<1>6. r.t \in Nat
  BY <1>1, <1>3, <1>4, <1>5, RewrittenTimed
<1>7. r = With(Own(r), r.sig) /\ r.sig = q.sig
  <2>1. CASE r = q
    BY <1>5, <2>1
  <2>2. CASE r \in Rewritten(q)
    <3>1. CASE \E u \in Instants : r = [q EXCEPT !.t = u]
      BY <1>5, <3>1, FieldRewritten
    <3>2. CASE \E u \in Instants : r = [q EXCEPT !.token = Token(u)]
      BY <1>5, <3>2, FieldRewritten
    <3>3. CASE \E u \in Instants : r = [q EXCEPT !.t = u, !.token = Token(u)]
      <4>1. PICK u \in Instants : r = [q EXCEPT !.t = u, !.token = Token(u)]
        BY <3>3
      <4> DEFINE w == [q EXCEPT !.t = u]
                 k == Token(u)
      <4>3. r = [w EXCEPT !.token = k]
        BY <4>1
      <4>4. w = [q EXCEPT !.t = u]
        OBVIOUS
      <4> HIDE DEF w, k
      <4>2. w = With(Own(w), w.sig) /\ w.sig = q.sig
        BY <1>5, <4>4, FieldRewritten
      <4> QED BY <4>2, <4>3, FieldRewritten
    <3>4. CASE \E a \in Algs : r = [q EXCEPT !.alg = a]
      BY <1>5, <3>4, FieldRewritten
    <3>5. CASE \E h \in Hashes : r = [q EXCEPT !.hash = h]
      BY <1>5, <3>5, FieldRewritten
    <3> QED BY <2>2, <3>1, <3>2, <3>3, <3>4, <3>5 DEF Rewritten
  <2> QED BY <1>1, <2>1, <2>2
<1> QED BY <1>3, <1>6, <1>7

LEMMA ChangedPieces ==
  ASSUME SealTypeOK, NEW lte \in recorded, NEW c \in Changed(lte)
  PROVE  c.records \in Seq(Pieces)
<1> DEFINE s == lte.records
           n == Len(s)
<1>1. IsLTE(lte)
  BY DEF SealTypeOK
<1>2. DOMAIN s = 1..n /\ n \in Nat /\ \A i \in 1..n : s[i] \in Pieces
  BY <1>1, Sequences DEF IsLTE, Pieces, Made
<1>3. s \in Seq(Pieces)
  <2>1. s \in Seq({s[i] : i \in DOMAIN s})
    BY <1>1 DEF IsLTE, IsSequence
  <2>2. {s[i] : i \in DOMAIN s} \subseteq Pieces
    BY <1>2
  <2> HIDE DEF s, n
  <2> QED BY <2>1, <2>2, SeqMonotonic
<1>4. \A i \in 1..n : Rewritten(s[i]) \subseteq Pieces
  BY <1>2 DEF Pieces, Made
<1>5. ASSUME NEW i \in 1..n, NEW r \in Rewritten(s[i]), c.records = [s EXCEPT ![i] = r]
      PROVE  c.records \in Seq(Pieces)
  <2>1. r \in Pieces
    BY <1>4
  <2> HIDE DEF s, n
  <2> QED BY <1>3, <1>5, <2>1, ExceptSeq DEF n
<1>6. ASSUME NEW i \in 1..n, c.records = SubSeq(s, 1, i - 1) \o SubSeq(s, i + 1, n)
      PROVE  c.records \in Seq(Pieces)
  <2> HIDE DEF s, n
  <2>1. SubSeq(s, 1, i - 1) \in Seq(Pieces) /\ SubSeq(s, i + 1, n) \in Seq(Pieces)
    BY <1>2, <1>3, SubSeqProperties
  <2> QED BY <1>6, <2>1, ConcatProperties
<1>7. ASSUME NEW i \in 1..n - 1, c.records = [s EXCEPT ![i] = s[i + 1], ![i + 1] = s[i]]
      PROVE  c.records \in Seq(Pieces)
  <2> HIDE DEF s, n
  <2> DEFINE w == [s EXCEPT ![i] = s[i + 1]]
  <2>1. i \in 1..n /\ i + 1 \in 1..n
    BY <1>2
  <2>2. w \in Seq(Pieces) /\ Len(w) = n
    BY <1>2, <1>3, <2>1, ExceptSeq DEF n
  <2>3. c.records = [w EXCEPT ![i + 1] = s[i]]
    BY <1>7
  <2> HIDE DEF w
  <2> QED BY <1>2, <2>1, <2>2, <2>3, ExceptSeq
<1>8. ASSUME NEW other \in recorded, c.records = Append(s, Outer(other))
      PROVE  c.records \in Seq(Pieces)
  <2>1. IsLTE(other) /\ other.records # <<>>
    BY DEF SealTypeOK
  <2>2. Len(other.records) \in DOMAIN other.records
    BY <2>1, Sequences DEF IsLTE
  <2>3. Outer(other) \in Pieces
    BY <2>2 DEF Outer, Pieces, Made
  <2> HIDE DEF s
  <2> QED BY <1>3, <1>8, <2>3, AppendProperties
<1>9. c.records = s \/ c.records \in ChangedRecords(s)
  BY DEF Changed
<1>10. CASE c.records \in ChangedRecords(s)
  <2> HIDE DEF s
  <2>1. CASE \E i \in DOMAIN s : \E r \in Rewritten(s[i]) : c.records = [s EXCEPT ![i] = r]
    BY <1>2, <1>5, <2>1
  <2>2. CASE \E i \in DOMAIN s : c.records = SubSeq(s, 1, i - 1) \o SubSeq(s, i + 1, n)
    BY <1>2, <1>6, <2>2
  <2>3. CASE \E i \in 1..n - 1 : c.records = [s EXCEPT ![i] = s[i + 1], ![i + 1] = s[i]]
    BY <1>7, <2>3
  <2>4. CASE \E other \in recorded : c.records = Append(s, Outer(other))
    BY <1>8, <2>4
  <2>5. \/ \E i \in DOMAIN s : c.records \in {[s EXCEPT ![i] = r] : r \in Rewritten(s[i])}
        \/ c.records \in {SubSeq(s, 1, i - 1) \o SubSeq(s, i + 1, n) : i \in DOMAIN s}
        \/ c.records \in {[s EXCEPT ![i] = s[i + 1], ![i + 1] = s[i]] : i \in 1..n - 1}
        \/ c.records \in {Append(s, Outer(other)) : other \in recorded}
    BY <1>10 DEF ChangedRecords
  <2> QED BY <2>1, <2>2, <2>3, <2>4, <2>5
<1> QED BY <1>3, <1>9, <1>10

LEMMA ShownPieces ==
  ASSUME SealTypeOK, NEW c \in Shown
  PROVE  /\ c = [evidence_digest |-> c.evidence_digest, records |-> c.records]
         /\ c.records \in Seq(Pieces)
         /\ Timed(c)
<1>1. c.records \in Seq(Pieces)
  <2>1. CASE c \in recorded
    <3>1. c.evidence_digest \in Digests /\ c = [evidence_digest |-> c.evidence_digest,
                                                records |-> c.records]
      BY <2>1 DEF SealTypeOK, IsLTE
    <3>2. c \in Changed(c)
      BY <3>1 DEF Changed
    <3> QED BY <2>1, <3>2, ChangedPieces
  <2> QED BY <2>1, ChangedPieces DEF Shown
<1>2. c = [evidence_digest |-> c.evidence_digest, records |-> c.records]
  BY DEF Shown, SealTypeOK, IsLTE, Changed
<1>3. \A r \in Pieces : r.t \in Nat
  BY PieceOfRecord
<1> QED BY <1>1, <1>2, <1>3, TimedRecords

(* CoverUnbroken: whatever verify accepts with an oracle covered its       *)
(* evidence without a gap, for every policy and every length of a chain.   *)
THEOREM NoGap == Spec => []CoverUnbroken
<1>1. SealTypeOK => CoverUnbroken
  <2> SUFFICES ASSUME SealTypeOK, NEW lte \in Shown, Verified(lte, now, TRUE, FALSE),
                      NEW u \in lte.records[1].t..now
               PROVE  \E i \in DOMAIN lte.records :
                        lte.records[i].t <= u /\ StandsAt(lte.records[i], u)
    BY DEF CoverUnbroken
  <2>1. Timed(lte)
    BY ShownPieces
  <2>2. Environment
    BY DEF Environment, SealTypeOK
  <2> QED BY <2>1, <2>2, Covered
<1> QED BY <1>1, SealTyped, PTL

-----------------------------------------------------------------------------
(* The chains that were sealed: every signature of theirs holds, and what  *)
(* they were before their last seals is recorded too.                      *)
Prefix(lte, i) ==
  [evidence_digest |-> lte.evidence_digest, records |-> SubSeq(lte.records, 1, i)]

Sound(lte) ==
  \A i \in DOMAIN lte.records : SignatureHolds(lte, i) /\ Prefix(lte, i) \in recorded

SealedOnce ==
  /\ kept.records # <<>> => kept \in recorded
  /\ \A lte \in recorded : Sound(lte)

\* a seal on a chain that is recorded, or on none
LEMMA SealSound ==
  ASSUME NEW lte, IsLTE(lte), NEW own \in Fields, lte.records # <<>> => Sound(lte),
         recorded \subseteq recorded', Seal(lte, own) \in recorded'
  PROVE  Sound(Seal(lte, own))'
<1> DEFINE new == Seal(lte, own)
           n == Len(lte.records)
           s == lte.records
           z == new.records
           e == Signed(lte, own)
<1>1. n \in Nat /\ DOMAIN s = 1..n
  BY Sequences DEF IsLTE
<1>2. /\ new = [evidence_digest |-> lte.evidence_digest, records |-> z]
      /\ new.evidence_digest = lte.evidence_digest
      /\ IsSequence(z) /\ Len(z) = n + 1
      /\ \A i \in 1..n : z[i] = s[i]
      /\ z[n + 1] = e
      /\ \A k \in 0..n : SubSeq(z, 1, k) = SubSeq(s, 1, k)
      /\ SubSeq(z, 1, n) = s
  BY Sealed
<1>3. DOMAIN z = 1..n + 1
  BY <1>2, Sequences
<1>4. Own(e) = own /\ e.sig = <<own.pub, Msg(lte.evidence_digest, s, own)>> /\ e.pub = own.pub
  BY DEF Signed, With, Own, Fields
<1>5. new \in recorded'
  OBVIOUS
<1> HIDE DEF new, n, s, z, e
<1>6. ASSUME NEW i \in 1..n + 1
      PROVE  /\ z[i].sig = <<z[i].pub, Msg(lte.evidence_digest, SubSeq(z, 1, i - 1), Own(z[i]))>>
             /\ [evidence_digest |-> lte.evidence_digest, records |-> SubSeq(z, 1, i)]
                  \in recorded'
  <2>1. CASE i = n + 1
    <3>1. SubSeq(z, 1, i - 1) = s /\ z[i] = e
      BY <1>1, <1>2, <2>1
    <3>2. SubSeq(z, 1, i) = z
      <4>1. z \in Seq({z[j] : j \in DOMAIN z})
        BY <1>2 DEF IsSequence
      <4> QED BY <1>2, <2>1, <4>1, SubSeqFull
    <3> QED BY <1>2, <1>4, <1>5, <3>1, <3>2
  <2>2. CASE i \in 1..n
    <3>1. SubSeq(z, 1, i - 1) = SubSeq(s, 1, i - 1) /\ SubSeq(z, 1, i) = SubSeq(s, 1, i)
          /\ z[i] = s[i]
      BY <1>1, <1>2, <2>2
    <3>2. s # <<>>
      BY <1>1, <2>2, EmptySeq
    <3>3. SignatureHolds(lte, i) /\ Prefix(lte, i) \in recorded
      BY <1>1, <2>2, <3>2 DEF Sound, s
    <3> QED BY <3>1, <3>3 DEF SignatureHolds, Prefix, s
  <2> QED BY <1>1, <2>1, <2>2
<1>7. \A i \in DOMAIN z : SignatureHolds(new, i) /\ Prefix(new, i) \in recorded'
  BY <1>2, <1>3, <1>6 DEF SignatureHolds, Prefix, z
<1> QED BY <1>7 DEF Sound, SignatureHolds, Prefix, z, new

LEMMA SealedOnceStep ==
  ASSUME SealTypeOK, SealedOnce, [Next]_vars
  PROVE  SealedOnce'
<1>1. ASSUME NEW lte \in recorded, recorded \subseteq recorded' PROVE Sound(lte)'
  BY <1>1 DEF SealedOnce, Sound, SignatureHolds, Prefix
<1>2. ASSUME NEW alg \in Algs, NEW pub \in Pubs, NEW t \in Instants,
             NEW lte \in recorded \cup {Unsealed(d) : d \in Digests},
             NEW token \in {NoToken, Token(t)}, SealLongterm(lte, alg, pub, t, token)
      PROVE  SealedOnce'
  <2> DEFINE own == [alg |-> alg, hash |-> DefaultHash, t |-> t, pub |-> pub,
                     token |-> token, ephemeral_key |-> pub \in Ephemerals]
  <2>1. own \in Fields
    BY DEF Fields, Instants, NoToken, Token
  <2>2. recorded' = recorded \cup {Seal(lte, own)} /\ kept' = kept
    BY <1>2 DEF SealLongterm
  <2>3. IsLTE(lte) /\ (lte.records # <<>> => Sound(lte))
    BY UnsealedTyped DEF SealTypeOK, SealedOnce, Unsealed
  <2> HIDE DEF own
  <2>4. Sound(Seal(lte, own))'
    BY <2>1, <2>2, <2>3, SealSound
  <2> QED BY <1>1, <2>2, <2>4 DEF SealedOnce
<1>3. ASSUME NEW alg \in Algs, NEW hash \in Hashes, NEW pub \in Keys,
             KeepWith(alg, hash, pub)
      PROVE  SealedOnce'
  <2> DEFINE own == [alg |-> alg, hash |-> hash, t |-> now, pub |-> pub,
                     token |-> Token(now), ephemeral_key |-> FALSE]
  <2>1. own \in Fields
    BY DEF Fields, Token, Pubs, SealTypeOK
  <2>0. PICK old, o : old = kept /\ o = own
    OBVIOUS
  <2>2. recorded' = recorded \cup {Seal(old, o)} /\ kept' = Seal(old, o)
    BY <1>3, <2>0 DEF KeepWith
  <2>3. IsLTE(old) /\ (old.records # <<>> => Sound(old))
    BY <2>0 DEF SealTypeOK, SealedOnce
  <2> HIDE DEF own
  <2>4. Sound(Seal(old, o))'
    BY <2>0, <2>1, <2>2, <2>3, SealSound
  <2> QED BY <1>1, <2>2, <2>4 DEF SealedOnce
<1>4. ASSUME UNCHANGED <<recorded, kept>> PROVE SealedOnce'
  BY <1>1, <1>4 DEF SealedOnce
<1> QED BY <1>2, <1>3, <1>4 DEF Next, KeepFirst, KeepRenew, Tick, vars

\* the last signature of a chain that verifies was made over all of it
LEMMA LastSignature ==
  ASSUME SealTypeOK, SealedOnce, NEW c \in Shown, c.records # <<>>,
         SignatureHolds(c, Len(c.records))
  PROVE  c \in recorded
<1> DEFINE s == c.records
           n == Len(s)
           r == s[n]
<1>1. /\ s \in Seq(Pieces) /\ n \in Nat /\ n # 0 /\ n \in 1..n /\ r \in Pieces
      /\ c = [evidence_digest |-> c.evidence_digest, records |-> s]
  <2>1. s \in Seq(Pieces) /\ s # <<>>
    BY ShownPieces
  <2>2. c = [evidence_digest |-> c.evidence_digest, records |-> s]
    BY ShownPieces
  <2>3. n \in Nat /\ n # 0 /\ n \in 1..n /\ r \in Pieces
    <3> HIDE DEF s
    <3> QED BY <2>1
  <2> QED BY <2>1, <2>2, <2>3
<1>2. r.sig = <<r.pub, Msg(c.evidence_digest, SubSeq(s, 1, n - 1), Own(r))>>
  BY DEF SignatureHolds
<1>3. PICK lte \in recorded : \E i \in DOMAIN lte.records : r.sig = lte.records[i].sig
  BY <1>1, PieceOfRecord
<1>4. PICK i \in DOMAIN lte.records : r.sig = lte.records[i].sig
  BY <1>3
<1> DEFINE z == lte.records
           q == z[i]
<1>5. /\ q.sig = <<q.pub, Msg(lte.evidence_digest, SubSeq(z, 1, i - 1), Own(q))>>
      /\ Prefix(lte, i) \in recorded
  BY DEF SealedOnce, Sound, SignatureHolds
<1>6. /\ c.evidence_digest = lte.evidence_digest
      /\ SubSeq(s, 1, n - 1) = SubSeq(z, 1, i - 1) /\ Own(r) = Own(q)
  <2> DEFINE a == Own(r)
             b == Own(q)
             u == SubSeq(s, 1, n - 1)
             v == SubSeq(z, 1, i - 1)
  <2>1. /\ r.sig = <<r.pub, <<a.hash, c.evidence_digest, u, a>>>>
        /\ q.sig = <<q.pub, <<b.hash, lte.evidence_digest, v, b>>>>
        /\ r.sig = q.sig
    BY <1>2, <1>4, <1>5 DEF Msg
  <2> HIDE DEF a, b, u, v, s, r, z, q, n
  <2>2. c.evidence_digest = lte.evidence_digest /\ u = v /\ a = b
    BY <2>1
  <2> QED BY <2>2 DEF a, b, u, v
<1>7. r = q
  <2>1. r = With(Own(r), r.sig)
    BY <1>1, PieceOfRecord
  <2>2. q = With(Own(q), q.sig)
    BY DEF SealTypeOK, IsLTE
  <2> HIDE DEF r, q
  <2> QED BY <1>4, <1>6, <2>1, <2>2 DEF q
<1>8. s = SubSeq(z, 1, i)
  <2>1. z \in Seq({z[j] : j \in DOMAIN z}) /\ i \in 1..Len(z)
    BY Sequences DEF SealTypeOK, IsLTE, IsSequence
  <2> HIDE DEF s, z, r, q
  <2>2. s = Append(SubSeq(s, 1, n - 1), r)
    <3> HIDE DEF n
    <3>1. n = Len(s) /\ r = s[n]
      BY DEF n, r
    <3> QED BY <1>1, <3>1
  <2>3. SubSeq(z, 1, i) = Append(SubSeq(z, 1, i - 1), q)
    <3>1. q = z[i]
      BY DEF q
    <3> QED BY <2>1, <3>1, SMTT(40)
  <2> QED BY <1>6, <1>7, <2>2, <2>3
<1>9. c = Prefix(lte, i)
  BY <1>1, <1>6, <1>8 DEF Prefix
<1> QED BY <1>5, <1>9

(* VerifiedIsRecorded: a chain that verify accepts, with an oracle or      *)
(* without, is one that was sealed, whatever was changed on its way: for   *)
(* every length of a chain and every number of seals.                      *)
THEOREM OnlySealed == Spec => []VerifiedIsRecorded
<1>1. Init => SealedOnce
  BY DEF Init, SealedOnce, Unsealed
<1>2. SealTypeOK /\ SealedOnce /\ [Next]_vars => SealedOnce'
  BY SealedOnceStep
<1>3. SealTypeOK /\ SealedOnce => VerifiedIsRecorded
  <2> SUFFICES ASSUME SealTypeOK, SealedOnce, NEW c \in Shown, NEW oracle \in BOOLEAN,
                      Verified(c, now, oracle, FALSE)
               PROVE  c \in recorded
    BY DEF VerifiedIsRecorded
  <2>1. c.records # <<>> /\ \A i \in DOMAIN c.records : SignatureHolds(c, i)
    BY DEF Verified
  <2>2. Len(c.records) \in DOMAIN c.records
    BY <2>1, ShownPieces DEF Timed
  <2> QED BY <2>1, <2>2, LastSignature
<1> QED BY <1>1, <1>2, <1>3, SealTyped, PTL DEF Spec

(* NotDueStands: the two clocks of renewal_due and verify agree, for every *)
(* policy and margin.                                                      *)
THEOREM NotDue == Spec => []NotDueStands
<1>1. SealTypeOK => NotDueStands
  <2> SUFFICES ASSUME SealTypeOK, NEW lte \in recorded, NEW oracle \in BOOLEAN,
                      Verified(lte, now, oracle, FALSE), ~ RenewalDue(lte),
                      NEW u \in now..now + Margin
               PROVE  Verified(lte, u, oracle, FALSE)
    BY DEF NotDueStands
  <2>1. StandsAt(Outer(lte), u)
    <3> SUFFICES ASSUME NEW a \in Uses(Outer(lte)), a \in DOMAIN policy
                 PROVE  u < policy[a]
      BY DEF StandsAt, TrustedAt
    <3>1. ~ (now + Margin >= policy[a])
      BY DEF RenewalDue, Verified
    <3>2. policy[a] \in Nat /\ now \in Nat
      BY DEF SealTypeOK
    <3> QED BY <3>1, <3>2
  <2> QED BY <2>1 DEF Verified
<1> QED BY <1>1, SealTyped, PTL

-----------------------------------------------------------------------------
(* The keeper's chain.  Each conjunct is one that verify asks for, at the  *)
(* present instant; what carries them through a renewal is that the outer  *)
(* record still stands when the renewal comes to be due.                   *)
KeptWell ==
  LET s == kept.records
  IN  /\ s # <<>> => s[1].pub \in Trusted /\ StandsAt(Outer(kept), now)
      /\ \A i \in DOMAIN s : /\ ~ s[i].ephemeral_key
                            /\ SignatureHolds(kept, i)
                            /\ Attested(s[i])
                            /\ s[i].t <= now
      /\ Monotonic(kept)
      /\ RenewedInTime(kept)

LEMMA WellIsVerified ==
  ASSUME KeptWell
  PROVE  KeptVerifies
  BY DEF KeptWell, KeptVerifies, Verified, Pinned, TimesHold

LEMMA KeepStep ==
  ASSUME SealTypeOK, KeptWell, NEW alg \in Algs, NEW hash \in Hashes, NEW pub \in Keys,
         kept.records = <<>> => pub \in Trusted,
         KeepWith(alg, hash, pub)
  PROVE  KeptWell'
<1> DEFINE own == [alg |-> alg, hash |-> hash, t |-> now, pub |-> pub,
                   token |-> Token(now), ephemeral_key |-> FALSE]
           s == kept.records
           n == Len(s)
           e == Signed(kept, own)
           z == kept'.records
<1>1. IsLTE(kept) /\ n \in Nat /\ DOMAIN s = 1..n /\ (s # <<>> => n # 0)
  BY Sequences DEF SealTypeOK, IsLTE
<1>2. kept' = Seal(kept, own) /\ UNCHANGED <<now, policy>>
  BY DEF KeepWith
<1>3. /\ IsSequence(z) /\ Len(z) = n + 1 /\ z # <<>>
      /\ kept'.evidence_digest = kept.evidence_digest
      /\ \A i \in 1..n : z[i] = s[i]
      /\ z[n + 1] = e
      /\ \A k \in 0..n : SubSeq(z, 1, k) = SubSeq(s, 1, k)
      /\ SubSeq(z, 1, n) = s
  <2>1. IsLTE(kept)
    BY <1>1
  <2> HIDE DEF own
  <2> QED BY <1>2, <2>1, Sealed
<1>4. DOMAIN z = 1..n + 1
  BY <1>3, Sequences
<1>5. /\ e.pub = pub /\ ~ e.ephemeral_key /\ e.t = now /\ e.token = Token(now)
      /\ e.alg = alg /\ e.hash = hash
      /\ e.sig = <<pub, Msg(kept.evidence_digest, s, own)>>
      /\ Own(e) = own
  <2>1. e = With(own, <<own.pub, Msg(kept.evidence_digest, s, own)>>)
    BY DEF Signed
  <2>2. /\ e.pub = own.pub /\ e.ephemeral_key = own.ephemeral_key /\ e.t = own.t
        /\ e.token = own.token /\ e.alg = own.alg /\ e.hash = own.hash
        /\ e.sig = <<own.pub, Msg(kept.evidence_digest, s, own)>>
    <3> HIDE DEF e, own
    <3> QED BY <2>1 DEF With
  <2>3. /\ own.pub = pub /\ ~ own.ephemeral_key /\ own.t = now /\ own.token = Token(now)
        /\ own.alg = alg /\ own.hash = hash
    OBVIOUS
  <2>4. Own(e) = own
    <3> HIDE DEF e
    <3> QED BY <2>2 DEF Own
  <2> HIDE DEF e, own
  <2> QED BY <2>2, <2>3, <2>4
<1> HIDE DEF own, s, n, e, z
<1>6. now \in Nat
  BY DEF SealTypeOK
<1>7. \A i \in 1..n : s[i].t \in Nat /\ s[i].t <= now
  BY <1>1, RecordedTimed DEF KeptWell, s
<1>8. z[1].pub \in Trusted
  <2>1. CASE s = <<>>
    <3>1. n = 0
      BY <2>1 DEF n
    <3> QED BY <1>3, <1>5, <2>1, <3>1 DEF s
  <2>2. CASE s # <<>>
    <3>1. 1 \in 1..n
      BY <1>1, <2>2
    <3> QED BY <1>3, <2>2, <3>1 DEF KeptWell, s
  <2> QED BY <2>1, <2>2
<1>9. StandsAt(z[Len(z)], now)
  <2>1. \A a \in {alg, hash} \cap DOMAIN policy : now < policy[a]
    <3> SUFFICES ASSUME NEW a \in {alg, hash} \cap DOMAIN policy PROVE now < policy[a]
      OBVIOUS
    <3>1. now + Margin < policy[a]
      BY DEF KeepWith
    <3>2. policy[a] \in Nat
      BY DEF SealTypeOK
    <3> QED BY <1>6, <3>1, <3>2
  <2>2. Uses(e) = {alg, hash}
    BY <1>5 DEF Uses
  <2> QED BY <1>3, <2>1, <2>2 DEF StandsAt, TrustedAt
<1>10. ASSUME NEW i \in 1..n + 1
       PROVE  /\ ~ z[i].ephemeral_key /\ Attested(z[i]) /\ z[i].t <= now
              /\ z[i].sig = <<z[i].pub, Msg(kept.evidence_digest, SubSeq(z, 1, i - 1), Own(z[i]))>>
  <2>1. CASE i = n + 1
    <3>1. SubSeq(z, 1, i - 1) = s
      BY <1>1, <1>3, <2>1
    <3>2. z[i] = e
      BY <1>3, <2>1
    <3>3. ~ e.ephemeral_key /\ e.token = Token(e.t) /\ e.t <= now
      BY <1>5, <1>6
    <3>4. e.sig = <<e.pub, Msg(kept.evidence_digest, s, Own(e))>>
      BY <1>5
    <3> QED BY <3>1, <3>2, <3>3, <3>4 DEF Attested
  <2>2. CASE i \in 1..n
    <3>1. SubSeq(z, 1, i - 1) = SubSeq(s, 1, i - 1)
      BY <1>1, <1>3, <2>2
    <3>2. SignatureHolds(kept, i) /\ Attested(s[i]) /\ ~ s[i].ephemeral_key
      BY <1>1, <2>2 DEF KeptWell, s
    <3> QED BY <1>3, <1>7, <2>2, <3>1, <3>2 DEF SignatureHolds, s
  <2> QED BY <1>1, <2>1, <2>2
<1>11. \A i \in 2..n + 1 : z[i].t >= z[i - 1].t
  <2> TAKE i \in 2..n + 1
  <2>1. CASE i = n + 1
    BY <1>1, <1>3, <1>5, <1>7, <2>1
  <2>2. CASE i \in 2..n
    <3>1. s[i].t >= s[i - 1].t
      BY <2>2 DEF KeptWell, Monotonic, s, n
    <3> QED BY <1>1, <1>3, <2>2, <3>1
  <2> QED BY <1>1, <2>1, <2>2
<1>12. \A i \in 1..n : StandsAt(z[i], z[i + 1].t)
  <2> TAKE i \in 1..n
  <2>1. CASE i = n
    <3>1. s # <<>> /\ StandsAt(s[n], now)
      <4>1. s # <<>>
        BY <1>1, <2>1 DEF n
      <4> QED BY <4>1 DEF KeptWell, Outer, s, n
    <3> QED BY <1>1, <1>3, <1>5, <2>1, <3>1
  <2>2. CASE i \in 1..n - 1
    <3>1. StandsAt(s[i], s[i + 1].t)
      BY <2>2 DEF KeptWell, RenewedInTime, s, n
    <3> QED BY <1>1, <1>3, <2>2, <3>1
  <2> QED BY <1>1, <2>1, <2>2
<1>13. now' = now /\ policy' = policy
  BY <1>2
<1>14. /\ z # <<>> => z[1].pub \in Trusted /\ StandsAt(Outer(kept), now)'
       /\ RenewedInTime(kept)'
  <2>1. StandsAt(Outer(kept), now)'
    BY <1>9, <1>13 DEF StandsAt, TrustedAt, Outer, z
  <2>2. RenewedInTime(kept)'
    BY <1>1, <1>3, <1>12, <1>13 DEF StandsAt, TrustedAt, RenewedInTime, z
  <2> QED BY <1>8, <2>1, <2>2
<1>15. \A i \in DOMAIN z : /\ ~ z[i].ephemeral_key
                         /\ SignatureHolds(kept, i)'
                         /\ Attested(z[i])
                         /\ z[i].t <= now
  BY <1>3, <1>4, <1>10 DEF SignatureHolds, z
<1>16. Monotonic(kept)'
  BY <1>1, <1>3, <1>11 DEF Monotonic, z
<1> QED BY <1>13, <1>14, <1>15, <1>16 DEF KeptWell, Attested, z

(* The keeper asks at least once every margin and renews when told: a day  *)
(* on which its chain is due is a day before the expiry.                   *)
LEMMA KeptStep ==
  ASSUME Interval <= Margin, SealTypeOK, KeptWell, [Next]_vars
  PROVE  KeptWell'
<1>1. ASSUME NEW alg \in Algs, NEW pub \in Pubs, NEW t \in Instants, NEW lte,
             NEW token, SealLongterm(lte, alg, pub, t, token)
      PROVE  KeptWell'
  <2>1. UNCHANGED <<now, policy, kept>>
    BY <1>1 DEF SealLongterm
  <2> QED BY <2>1 DEF KeptWell, Outer, StandsAt, TrustedAt, SignatureHolds, Monotonic, RenewedInTime
<1>2. ASSUME NEW alg \in Algs, NEW hash \in Hashes, NEW pub \in Keys,
             KeepFirst(alg, hash, pub) \/ KeepRenew(alg, hash, pub)
      PROVE  KeptWell'
  <2>1. KeepWith(alg, hash, pub) /\ (kept.records = <<>> => pub \in Trusted)
    BY <1>2 DEF KeepFirst, KeepRenew, RenewalDue
  <2> QED BY <2>1, KeepStep
<1>3. ASSUME NEW later \in Instants, Tick(later)
      PROVE  KeptWell'
  <2>1. /\ now \in Nat /\ later \in Nat /\ later > now /\ later <= now + Margin
        /\ now' = later /\ policy' = policy /\ kept' = kept
    BY <1>3 DEF Tick, SealTypeOK, Instants
  <2>2. kept.records # <<>> => StandsAt(Outer(kept), now)'
    <3> SUFFICES ASSUME kept.records # <<>>, NEW a \in Uses(Outer(kept)), a \in DOMAIN policy
                 PROVE  later < policy[a]
      BY <2>1 DEF StandsAt, TrustedAt, Outer
    <3>1. ~ (now + Margin >= policy[a])
      BY <1>3 DEF Tick, RenewalDue
    <3>2. policy[a] \in Nat
      BY DEF SealTypeOK
    <3> QED BY <2>1, <3>1, <3>2
  <2>3. \A i \in DOMAIN kept.records : kept.records[i].t <= later
    <3> SUFFICES ASSUME NEW i \in DOMAIN kept.records PROVE kept.records[i].t <= later
      OBVIOUS
    <3>1. kept.records[i].t \in Nat
      BY RecordedTimed DEF SealTypeOK
    <3> QED BY <2>1, <3>1 DEF KeptWell
  <2> QED BY <2>1, <2>2, <2>3
      DEF KeptWell, StandsAt, TrustedAt, SignatureHolds, Monotonic, RenewedInTime
<1>4. CASE UNCHANGED vars
  BY <1>4 DEF vars, KeptWell, Outer, StandsAt, TrustedAt, SignatureHolds, Monotonic, RenewedInTime
<1> QED BY <1>1, <1>2, <1>3, <1>4 DEF Next

(* KeptVerifies: a keeper who asks renewal_due at least once every margin, *)
(* and renews when it says so, holds a chain that verifies at every        *)
(* instant, by an oracle and with its key pinned, for every policy.        *)
THEOREM Keeper ==
  ASSUME Interval <= Margin
  PROVE  Spec => []KeptVerifies
<1>1. Init => KeptWell
  <2> SUFFICES ASSUME Init PROVE KeptWell
    OBVIOUS
  <2>1. kept.records = <<>> /\ Len(kept.records) = 0 /\ DOMAIN kept.records = {}
    BY EmptySeq DEF Init, Unsealed
  <2> QED BY <2>1 DEF KeptWell, Monotonic, RenewedInTime
<1>2. SealTypeOK /\ KeptWell /\ [Next]_vars => KeptWell'
  BY KeptStep
<1>3. KeptWell => KeptVerifies
  BY WellIsVerified
<1> QED BY <1>1, <1>2, <1>3, SealTyped, PTL DEF Spec
=============================================================================
